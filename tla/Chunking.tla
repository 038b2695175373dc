------------------------------ MODULE Chunking ------------------------------
(***************************************************************************)
(* How a document's elements become stored chunks: the two strategies of   *)
(* vektra_ingest/chunking.py, loop iteration by loop iteration, and the    *)
(* step of pipeline.py that turns chunker-local hierarchy ids into stored  *)
(* ids.                                                                    *)
(*                                                                         *)
(* Tokens have no content: the text tokens of a document are numbered from *)
(* 0 in reading order and a chunk is a half-open interval of them.  Every  *)
(* decode may fail, as the code allows for.                                *)
(***************************************************************************)
EXTENDS Integers, Sequences, FiniteSets

CONSTANTS
  MaxElements,   \* bound: elements of a document
  MaxTokens,     \* bound: tokens of one element
  Sizes,         \* values of VEKTRA_CHUNK_SIZE
  Overlaps       \* values of VEKTRA_CHUNK_OVERLAP

ASSUME ChunkingAssumption ==
  /\ MaxElements \in Nat /\ MaxTokens \in Nat
  /\ Sizes \subseteq Nat \ {0}
  /\ Overlaps \subseteq Nat

VARIABLES
  conf,      \* the strategy, chunk_size and chunk_overlap
  phase,     \* where the generator is
  total,     \* text tokens read so far
  left,      \* elements the extractor may still yield
  from,      \* start of the text run that is being accumulated
  segments,  \* the text runs and tables still to be split, in order
  parent,    \* the section of a run that is being split
  child,     \* child_start, counted from the beginning of the document
  chunks,    \* what was yielded
  failed,    \* the intervals that could not be decoded
  rows       \* what is handed to the vector store

chunkVars == <<conf, phase, total, left, from, segments, parent, child, chunks, failed, rows>>

NoId == 0
NoSection == [start |-> 0, end |-> 0, id |-> NoId]
Phases == {"reading", "segment", "windows", "done", "stored", "no_text", "refused"}

StepOneMore == conf.size - conf.overlap + 1
Step == conf.size - conf.overlap
ParentSize == 3 * conf.size
MinOf(a, b) == IF a <= b THEN a ELSE b
Interval(a, b) == [start |-> a, end |-> b]

-----------------------------------------------------------------------------
AcceptsEqual(size, overlap) == overlap <= size
(* The constructors refuse an overlap that is not smaller than the size.    *)
Accepts(size, overlap) == overlap < size

ChunkInit ==
  /\ conf \in [strategy : {"fixed", "dual"}, size : Sizes, overlap : Overlaps]
  /\ phase = IF Accepts(conf.size, conf.overlap) THEN "reading" ELSE "refused"
  /\ left \in 0..MaxElements
  /\ total = 0 /\ from = 0 /\ child = 0
  /\ segments = <<>> /\ parent = NoSection
  /\ chunks = <<>> /\ failed = {} /\ rows = <<>>

(* The text run accumulated so far, if there is one. *)
Run == IF from < total THEN << [kind |-> "text", start |-> from, end |-> total] >> ELSE <<>>

(* A text element, or under the fixed strategy any element, adds its tokens. *)
ReadText(n) ==
  /\ phase = "reading" /\ left > 0
  /\ left' = left - 1
  /\ total' = total + n
  /\ UNCHANGED <<conf, phase, from, segments, parent, child, chunks, failed, rows>>

FlushAfter == << [kind |-> "table", start |-> total, end |-> total] >> \o Run

(* A table ends the run before it. *)
Flush == Run \o << [kind |-> "table", start |-> total, end |-> total] >>

ReadTable ==
  /\ phase = "reading" /\ left > 0 /\ conf.strategy = "dual"
  /\ left' = left - 1
  /\ segments' = segments \o Flush
  /\ from' = total
  /\ UNCHANGED <<conf, phase, total, parent, child, chunks, failed, rows>>

(* Page breaks and images are skipped. *)
ReadMarker ==
  /\ phase = "reading" /\ left > 0 /\ conf.strategy = "dual"
  /\ left' = left - 1
  /\ UNCHANGED <<conf, phase, total, from, segments, parent, child, chunks, failed, rows>>

(* The last run is flushed.  The fixed strategy has one run, split without  *)
(* parents: its section is the whole text.                                  *)
EndOfElements ==
  /\ phase = "reading" /\ left = 0
  /\ IF conf.strategy = "fixed"
       THEN /\ phase' = IF total > 0 THEN "windows" ELSE "done"
            /\ parent' = [start |-> 0, end |-> total, id |-> NoId]
            /\ UNCHANGED segments
       ELSE /\ phase' = "segment"
            /\ segments' = segments \o Run
            /\ UNCHANGED parent
  /\ UNCHANGED <<conf, total, left, from, child, chunks, failed, rows>>

-----------------------------------------------------------------------------
(* Decoding is a function of the tokens: what failed once fails again.      *)
Decodes(a, b) == Interval(a, b) \notin failed

(* Every yielded chunk, with its interval and its local hierarchy id. *)
Chunk(level, a, b, id) == [level |-> level, start |-> a, end |-> b, id |-> id]

EmitTable ==
  /\ phase = "segment" /\ segments # <<>> /\ Head(segments).kind = "table"
  /\ chunks' = Append(chunks, Chunk("table", Head(segments).start, Head(segments).end, NoId))
  /\ segments' = Tail(segments)
  /\ UNCHANGED <<conf, phase, total, left, from, parent, child, failed, rows>>

(* parent_start .. parent_end of the run at the head of segments; what is   *)
(* left of the run stays there.                                             *)
ParentEnd == MinOf(Head(segments).start + ParentSize, Head(segments).end)
AfterSection ==
  IF ParentEnd < Head(segments).end
    THEN << [Head(segments) EXCEPT !.start = ParentEnd] >> \o Tail(segments)
    ELSE Tail(segments)

(* A hierarchy id is new for every section: its position stands for it.     *)
EmitParent ==
  /\ phase = "segment" /\ segments # <<>> /\ Head(segments).kind = "text"
  /\ Decodes(Head(segments).start, ParentEnd)
  /\ LET id == Head(segments).start + 1 IN
       /\ chunks' = Append(chunks, Chunk("parent", Head(segments).start, ParentEnd, id))
       /\ parent' = [start |-> Head(segments).start, end |-> ParentEnd, id |-> id]
  /\ child' = Head(segments).start
  /\ phase' = "windows"
  /\ segments' = AfterSection
  /\ UNCHANGED <<conf, total, left, from, failed, rows>>

ParentRetried ==
  /\ phase = "segment" /\ segments # <<>> /\ Head(segments).kind = "text"
  /\ failed' = failed \cup {Interval(Head(segments).start, ParentEnd)}
  /\ UNCHANGED <<conf, phase, total, left, from, segments, parent, child, chunks, rows>>

(* A parent that cannot be decoded is left out, with its children. *)
ParentFails ==
  /\ phase = "segment" /\ segments # <<>> /\ Head(segments).kind = "text"
  /\ failed' = failed \cup {Interval(Head(segments).start, ParentEnd)}
  /\ segments' = AfterSection
  /\ UNCHANGED <<conf, phase, total, left, from, parent, child, chunks, rows>>

EndOfSegments ==
  /\ phase = "segment" /\ segments = <<>>
  /\ phase' = "done"
  /\ UNCHANGED <<conf, total, left, from, segments, parent, child, chunks, failed, rows>>

-----------------------------------------------------------------------------
(* The window loop, the same in both strategies: it stops after the window  *)
(* that reaches the end, and also when no window is left to try.            *)
ChildEnd == MinOf(child + conf.size, parent.end)
Level == IF conf.strategy = "fixed" THEN "flat" ELSE "child"
AfterWindows == IF conf.strategy = "fixed" THEN "done" ELSE "segment"

LastWindow == ChildEnd >= parent.end

EmitWindow ==
  /\ phase = "windows" /\ child < parent.end
  /\ Decodes(child, ChildEnd)
  /\ chunks' = Append(chunks, Chunk(Level, child, ChildEnd, parent.id))
  /\ IF LastWindow
       THEN phase' = AfterWindows /\ UNCHANGED child
       ELSE child' = child + Step /\ UNCHANGED phase
  /\ UNCHANGED <<conf, total, left, from, segments, parent, failed, rows>>

WindowFails ==
  /\ phase = "windows" /\ child < parent.end
  /\ failed' = failed \cup {Interval(child, ChildEnd)}
  /\ child' = child + Step
  /\ UNCHANGED <<conf, phase, total, left, from, segments, parent, chunks, rows>>

EndOfWindows ==
  /\ phase = "windows" /\ child >= parent.end
  /\ phase' = AfterWindows
  /\ UNCHANGED <<conf, total, left, from, segments, parent, child, chunks, failed, rows>>

-----------------------------------------------------------------------------
(* parent_stored_ids: the position at which the parent of an id is stored;  *)
(* an id that no parent carries maps to NoId.                               *)
StoredParent(id) ==
  LET at == {i \in DOMAIN chunks : chunks[i].level = "parent" /\ chunks[i].id = id} IN
  IF at = {} THEN NoId ELSE CHOOSE i \in at : TRUE

StoredRow(c) == [level |-> c.level, start |-> c.start, end |-> c.end,
           parent |-> IF c.level = "child" THEN StoredParent(c.id) ELSE NoId]

Store ==
  /\ phase = "done" /\ chunks # <<>>
  /\ rows' = [i \in DOMAIN chunks |-> StoredRow(chunks[i])]
  /\ phase' = "stored"
  /\ UNCHANGED <<conf, total, left, from, segments, parent, child, chunks, failed>>

(* No chunk at all is ERR_INGEST_001. *)
NoText ==
  /\ phase = "done" /\ chunks = <<>>
  /\ phase' = "no_text"
  /\ UNCHANGED <<conf, total, left, from, segments, parent, child, chunks, failed, rows>>

ChunkNext ==
  \/ \E n \in 0..MaxTokens : ReadText(n)
  \/ ReadTable \/ ReadMarker \/ EndOfElements
  \/ EmitTable \/ EmitParent \/ ParentFails \/ EndOfSegments
  \/ EmitWindow \/ WindowFails \/ EndOfWindows
  \/ Store \/ NoText

ChunkSpec == ChunkInit /\ [][ChunkNext]_chunkVars

-----------------------------------------------------------------------------
Levels == {"flat", "parent", "child", "table"}
Section == [start : Nat, end : Nat, id : Nat]

ChunkTypeOK ==
  /\ conf \in [strategy : {"fixed", "dual"}, size : Sizes, overlap : Overlaps]
  /\ phase \in Phases
  /\ total \in Nat /\ left \in Nat /\ from \in Nat /\ child \in Nat
  /\ segments \in Seq([kind : {"text", "table"}, start : Nat, end : Nat])
  /\ parent \in Section
  /\ chunks \in Seq([level : Levels, start : Nat, end : Nat, id : Nat])
  /\ failed \subseteq [start : Nat, end : Nat]
  /\ rows \in Seq([level : Levels, start : Nat, end : Nat, parent : Nat])

Searchable(r) == r.level # "parent"
Holds(c, a, b) == c.start <= a /\ b <= c.end

SectionsOf ==
  IF conf.strategy = "fixed" THEN {Interval(0, total)}
  ELSE {Interval(rows[i].start, rows[i].end) : i \in {j \in DOMAIN rows : rows[j].level = "parent"}}

NothingCutInTwo ==
  phase = "stored" =>
    \A s \in SectionsOf : \A t \in s.start..(s.end - 1) :
      LET stop == MinOf(t + conf.overlap + 1, s.end) IN
      \/ \E i \in DOMAIN rows : Searchable(rows[i]) /\ Holds(rows[i], t, stop)
      \/ \E x \in failed : ~(x.end <= t \/ stop <= x.start)

EveryTokenIsFound ==
  phase \in {"stored", "no_text"} =>
    \A t \in 0..(total - 1) :
      \/ \E i \in DOMAIN rows : Searchable(rows[i]) /\ Holds(rows[i], t, t + 1)
      \/ \E x \in failed : Holds(x, t, t + 1)

(* No text is lost and no passage is cut: each token is in a searchable     *)
(* chunk, and each stretch of at most overlap + 1 tokens of one section is  *)
(* whole in one (what the overlap is for), unless a part was reported as    *)
(* not decodable, and whatever runs, tables and markers came before.        *)
(* (chunking.py:90, :216, :285)                                             *)
TextIsWhole == NothingCutInTwo /\ EveryTokenIsFound

ParentEncloses ==
  \A i \in DOMAIN rows :
    IF rows[i].level = "child"
      THEN LET p == rows[i].parent IN
             /\ p \in 1..(i - 1) /\ rows[p].level = "parent"
             /\ Holds(rows[p], rows[i].start, rows[i].end)
      ELSE rows[i].parent = NoId

TablesSeparate ==
  \A i, j \in DOMAIN chunks :
    chunks[i].level = "table" =>
      IF j <= i THEN chunks[j].end <= chunks[i].start
      ELSE chunks[i].end <= chunks[j].start

(* What a query adds around a found chunk is right: the stored parent of a  *)
(* child is a parent chunk stored before it that contains its text, nothing *)
(* else has a parent, and neither reaches across a table, which is stored   *)
(* between the texts around it.  (pipeline.py:402, chunking.py:197)         *)
ChunksInPlace == ParentEncloses /\ TablesSeparate

(* A searchable chunk never repeats another: none lies inside another, so   *)
(* the loop leaves out the window that would only hold the overlap, and it  *)
(* advances for every size and overlap that is accepted.                    *)
(* (chunking.py:55, :121, :314)                                             *)
NoChunkInAnother ==
  \A i, j \in DOMAIN chunks :
    (i # j /\ chunks[i].level \in {"flat", "child"} /\ chunks[j].level \in {"flat", "child"}) =>
      ~Holds(chunks[i], chunks[j].start, chunks[j].end)

(* For every size and overlap that the constructors accept, and whatever    *)
(* fails to decode, chunking ends.  (chunking.py:94, :265, :288)            *)
ChunkingEnds == <>(phase \in {"stored", "no_text", "refused"})

-----------------------------------------------------------------------------
(* The inductive invariant behind the three invariants above.               *)

(* Consecutive runs and tables from position a to position b.               *)
Line(s, a, b) ==
  IF s = <<>> THEN a = b
  ELSE /\ s[1].start = a /\ s[Len(s)].end = b
       /\ \A i \in 1..(Len(s) - 1) : s[i].end = s[i + 1].start
       /\ \A i \in DOMAIN s :
            IF s[i].kind = "text" THEN s[i].start < s[i].end ELSE s[i].start = s[i].end

(* Up to where the text has been split, the section at work included.       *)
Reached ==
  IF phase = "windows" THEN parent.end
  ELSE IF segments = <<>> THEN total ELSE Head(segments).start

Split == phase \in {"segment", "windows", "done", "stored", "no_text"}

(* What is left to split are the runs and tables after that place.          *)
InOrder ==
  /\ phase # "refused" => conf.overlap < conf.size
  /\ phase \in {"reading", "refused"} => chunks = <<>>
  /\ phase = "reading" => Line(segments, 0, from) /\ from <= total /\ child = 0
  /\ Split => Line(segments, Reached, total)
  /\ phase \in {"done", "stored", "no_text"} => segments = <<>>
  /\ conf.strategy = "fixed" => segments = <<>> /\ from = 0 /\ phase # "segment"
  /\ phase = "no_text" => chunks = <<>>
  /\ IF phase = "stored" THEN rows = [i \in DOMAIN chunks |-> StoredRow(chunks[i])]
     ELSE rows = <<>>

Leaf(c) == c.level \in {"flat", "child"}

(* Chunks end where splitting is, leaf chunks rise, a parent is known by its *)
(* start and its children stand after it and inside it.                      *)
ChunksRise ==
  /\ \A i \in DOMAIN chunks :
        LET c == chunks[i] IN
        /\ IF c.level = "table" THEN c.start = c.end ELSE c.start < c.end
        /\ Split => c.end <= Reached
        /\ c.level = "flat" <=> conf.strategy = "fixed"
        /\ c.level = "parent" => c.id = c.start + 1
        /\ c.level = "child" =>
              \E p \in 1..(i - 1) : /\ chunks[p].level = "parent" /\ chunks[p].id = c.id
                                    /\ Holds(chunks[p], c.start, c.end)
  /\ \A i, j \in DOMAIN chunks : i < j =>
        /\ Leaf(chunks[i]) /\ Leaf(chunks[j]) =>
              chunks[i].start < chunks[j].start /\ chunks[i].end < chunks[j].end
        /\ chunks[i].level = "parent" /\ chunks[j].level = "parent" =>
              chunks[i].start < chunks[j].start

(* The next window lies behind every window before it, tables and sections  *)
(* before this one end where it starts.                                     *)
WindowNext ==
  phase = "windows" =>
    /\ parent.start < parent.end /\ parent.start <= child
    /\ \A i \in DOMAIN chunks :
          /\ Leaf(chunks[i]) => /\ chunks[i].start < child /\ chunks[i].end < parent.end
                                /\ chunks[i].end < child + conf.size
          /\ chunks[i].level = "table" => chunks[i].end <= parent.start
    /\ IF conf.strategy = "fixed" THEN parent.start = 0 /\ parent.end = total
       ELSE \E i \in DOMAIN chunks :
               chunks[i] = Chunk("parent", parent.start, parent.end, parent.id)

(* The stretch of overlap + 1 tokens at t, in a section that ends at e, is   *)
(* in one chunk or meets a failure; the token at t is in one or in a failure.*)
Whole(t, e) ==
  LET stop == MinOf(t + conf.overlap + 1, e) IN
  \/ \E i \in DOMAIN chunks : Searchable(chunks[i]) /\ Holds(chunks[i], t, stop)
  \/ \E x \in failed : ~(x.end <= t \/ stop <= x.start)

Found(t) ==
  \/ \E i \in DOMAIN chunks : Searchable(chunks[i]) /\ Holds(chunks[i], t, t + 1)
  \/ \E x \in failed : Holds(x, t, t + 1)

(* That holds of what the windows have passed and of every section before.  *)
NothingLost ==
  /\ phase = "windows" =>
        \A t \in Nat : t < parent.end /\ t < child =>
            Found(t) /\ (parent.start <= t => Whole(t, parent.end))
  /\ Split /\ phase # "windows" =>
        \A t \in Nat : t < Reached =>
            Found(t) /\ (conf.strategy = "fixed" => Whole(t, total))
  /\ \A i \in DOMAIN chunks :
        chunks[i].level = "parent" /\ ~(phase = "windows" /\ chunks[i].start = parent.start) =>
            \A t \in Nat : chunks[i].start <= t /\ t < chunks[i].end => Whole(t, chunks[i].end)

ChunkInv ==
  /\ ChunkTypeOK /\ InOrder /\ ChunksRise /\ WindowNext /\ NothingLost /\ TablesSeparate
=============================================================================
