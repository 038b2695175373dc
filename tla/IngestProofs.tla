----------------------------- MODULE IngestProofs -----------------------------
(***************************************************************************)
(* Theorems about vektra_ingest: what chunking keeps of a document of any  *)
(* length, and what a job's row tells a polling client for any number of   *)
(* requests, jobs and documents, with every fault.                         *)
(***************************************************************************)
EXTENDS HybridSearch, IngestJobs, FiniteSetTheorems, TLAPS

(***************************************************************************)
(* Chunking.  ChunkInv says where the text has been split so far, that the *)
(* chunks rise towards that place, and that nothing before it is lost.     *)
(***************************************************************************)

\* What is to be split and what is yielded: the sets of the type invariant.
Segments == [kind : {"text", "table"}, start : Nat, end : Nat]
Yielded == [level : Levels, start : Nat, end : Nat, id : Nat]

\* Runs and tables put one after the other are a line again.
LEMMA LineConcat ==
  ASSUME NEW s \in Seq(Segments), NEW r \in Seq(Segments),
         NEW a \in Nat, NEW b \in Nat, NEW c \in Nat, Line(s, a, b), Line(r, b, c)
  PROVE  s \o r \in Seq(Segments) /\ Line(s \o r, a, c)
<1>1. CASE s = <<>>
  BY <1>1 DEF Line
<1>2. CASE r = <<>>
  <2>1. s \o r = s /\ b = c
    BY <1>2 DEF Line
  <2> QED BY <2>1 DEF Line
<1>3. CASE s # <<>> /\ r # <<>>
  <2> DEFINE q == s \o r
  <2>1. /\ q \in Seq(Segments) /\ Len(q) = Len(s) + Len(r) /\ q # <<>>
        /\ Len(s) \in Nat /\ Len(r) \in Nat /\ Len(s) > 0 /\ Len(r) > 0
    BY <1>3
  <2>2. \A i \in 1..Len(q) : q[i] = IF i <= Len(s) THEN s[i] ELSE r[i - Len(s)]
    BY <2>1
  <2>3. /\ s[1].start = a /\ s[Len(s)].end = b
        /\ \A i \in 1..(Len(s) - 1) : s[i].end = s[i + 1].start
        /\ \A i \in 1..Len(s) :
             IF s[i].kind = "text" THEN s[i].start < s[i].end ELSE s[i].start = s[i].end
    BY <1>3 DEF Line
  <2>4. /\ r[1].start = b /\ r[Len(r)].end = c
        /\ \A i \in 1..(Len(r) - 1) : r[i].end = r[i + 1].start
        /\ \A i \in 1..Len(r) :
             IF r[i].kind = "text" THEN r[i].start < r[i].end ELSE r[i].start = r[i].end
    BY <1>3 DEF Line
  <2> HIDE DEF q
  <2>5. q[1].start = a /\ q[Len(q)].end = c
    <3>1. 1 \in 1..Len(q) /\ Len(q) \in 1..Len(q) /\ 1 <= Len(s) /\ ~(Len(q) <= Len(s))
      BY <2>1
    <3>2. q[1] = s[1] /\ q[Len(q)] = r[Len(q) - Len(s)]
      BY <3>1, <2>2
    <3>3. Len(q) - Len(s) = Len(r)
      BY <2>1
    <3> QED BY <3>2, <3>3, <2>3, <2>4
  <2>6. ASSUME NEW i \in 1..(Len(q) - 1) PROVE q[i].end = q[i + 1].start
    <3>1. CASE i < Len(s)
      <4>1. q[i] = s[i] /\ q[i + 1] = s[i + 1] /\ i \in 1..(Len(s) - 1)
        BY <3>1, <2>1, <2>2
      <4> QED BY <4>1, <2>3
    <3>2. CASE i = Len(s)
      <4>1. /\ i \in 1..Len(q) /\ (i + 1) \in 1..Len(q)
            /\ ~(i + 1 <= Len(s)) /\ (i + 1) - Len(s) = 1
        BY <3>2, <2>1
      <4>2. q[i] = s[i] /\ q[i + 1] = r[(i + 1) - Len(s)]
        BY <4>1, <3>2, <2>1, <2>2
      <4>3. q[i] = s[Len(s)] /\ q[i + 1] = r[1]
        BY <4>1, <4>2, <3>2
      <4> QED BY <4>3, <2>3, <2>4
    <3>3. CASE i > Len(s)
      <4>1. /\ q[i] = r[i - Len(s)] /\ q[i + 1] = r[(i - Len(s)) + 1]
            /\ (i - Len(s)) \in 1..(Len(r) - 1)
        BY <3>3, <2>1, <2>2
      <4> QED BY <4>1, <2>4
    <3> QED BY <3>1, <3>2, <3>3, <2>1
  <2>7. ASSUME NEW i \in 1..Len(q)
        PROVE IF q[i].kind = "text" THEN q[i].start < q[i].end ELSE q[i].start = q[i].end
    <3>1. CASE i <= Len(s)
      BY <3>1, <2>1, <2>2, <2>3
    <3>2. CASE i > Len(s)
      <4>1. q[i] = r[i - Len(s)] /\ (i - Len(s)) \in 1..Len(r)
        BY <3>2, <2>1, <2>2
      <4> QED BY <4>1, <2>4
    <3> QED BY <3>1, <3>2, <2>1
  <2>8. DOMAIN q = 1..Len(q)
    BY <2>1
  <2>9. Line(q, a, c)
    BY <2>1, <2>5, <2>6, <2>7, <2>8 DEF Line
  <2> QED BY <2>1, <2>9 DEF q
<1> QED BY <1>1, <1>2, <1>3

\* What a line begins with, and what is left when that is taken off.
LEMMA LineTail ==
  ASSUME NEW s \in Seq(Segments), NEW a \in Nat, NEW b \in Nat,
         Line(s, a, b), s # <<>>
  PROVE  /\ Head(s) \in Segments /\ Head(s).start = a
         /\ Tail(s) \in Seq(Segments) /\ Line(Tail(s), Head(s).end, b)
         /\ IF Head(s).kind = "text" THEN a < Head(s).end ELSE a = Head(s).end
<1> DEFINE r == Tail(s)
<1>1. /\ Len(s) \in Nat /\ Len(s) > 0 /\ DOMAIN s = 1..Len(s)
      /\ Head(s) = s[1] /\ s[1] \in Segments
      /\ r \in Seq(Segments) /\ Len(r) = Len(s) - 1
      /\ \A i \in 1..Len(r) : r[i] = s[i + 1]
  OBVIOUS
<1>2. /\ s[1].start = a /\ s[Len(s)].end = b
      /\ \A i \in 1..(Len(s) - 1) : s[i].end = s[i + 1].start
      /\ \A i \in 1..Len(s) :
           IF s[i].kind = "text" THEN s[i].start < s[i].end ELSE s[i].start = s[i].end
  BY <1>1 DEF Line
<1> HIDE DEF r
<1>3. CASE Len(s) = 1
  <2>1. r = <<>> /\ s[1].end = b
    BY <1>1, <1>2, <1>3
  <2> QED BY <2>1, <1>1, <1>2 DEF Line, r
<1>4. CASE Len(s) # 1
  <2>1. r # <<>> /\ Len(r) > 0 /\ DOMAIN r = 1..Len(r)
    BY <1>1, <1>4
  <2>2. r[1].start = s[1].end /\ r[Len(r)].end = b
    BY <1>1, <1>2, <2>1
  <2>3. ASSUME NEW i \in 1..(Len(r) - 1) PROVE r[i].end = r[i + 1].start
    <3>1. r[i] = s[i + 1] /\ r[i + 1] = s[(i + 1) + 1] /\ (i + 1) \in 1..(Len(s) - 1)
      BY <1>1
    <3> QED BY <3>1, <1>2
  <2>4. ASSUME NEW i \in 1..Len(r)
        PROVE IF r[i].kind = "text" THEN r[i].start < r[i].end ELSE r[i].start = r[i].end
    <3>1. r[i] = s[i + 1] /\ (i + 1) \in 1..Len(s)
      BY <1>1
    <3> QED BY <3>1, <1>2
  <2>5. Line(r, s[1].end, b)
    BY <2>1, <2>2, <2>3, <2>4 DEF Line
  <2> QED BY <2>5, <1>1, <1>2 DEF r
<1> QED BY <1>3, <1>4, <1>1

\* One run or table is a line.
LEMMA LineOne ==
  ASSUME NEW x \in Segments,
         IF x.kind = "text" THEN x.start < x.end ELSE x.start = x.end
  PROVE  <<x>> \in Seq(Segments) /\ Line(<<x>>, x.start, x.end)
BY DEF Line
\* The types, spelled out once.
LEMMA Types ==
  ASSUME ChunkTypeOK
  PROVE  /\ conf.size \in Nat /\ conf.size > 0 /\ conf.overlap \in Nat
         /\ conf.strategy \in {"fixed", "dual"}
         /\ segments \in Seq(Segments) /\ chunks \in Seq(Yielded)
         /\ parent.start \in Nat /\ parent.end \in Nat /\ parent.id \in Nat
         /\ Reached \in Nat
<1>1. conf.size \in Sizes /\ conf.overlap \in Overlaps /\ conf.strategy \in {"fixed", "dual"}
  BY DEF ChunkTypeOK
<1>2. segments \in Seq(Segments) /\ chunks \in Seq(Yielded)
  BY DEF ChunkTypeOK, Segments, Yielded
<1>3. parent.start \in Nat /\ parent.end \in Nat /\ parent.id \in Nat
  BY DEF ChunkTypeOK, Section
<1>4. segments # <<>> => Head(segments).start \in Nat
  <2>1. segments # <<>> => Head(segments) \in Segments
    BY <1>2
  <2> QED BY <2>1 DEF Segments
<1>5. Reached \in Nat
  BY <1>3, <1>4 DEF Reached, ChunkTypeOK
<1>6. conf.size \in Nat /\ conf.size # 0 /\ conf.overlap \in Nat
  BY <1>1, ChunkingAssumption
<1> QED BY <1>1, <1>2, <1>3, <1>5, <1>6

\* What has been found or is whole stays so when chunks and failures are added.
LEMMA FoundStays ==
  ASSUME ChunkTypeOK, conf' = conf, failed \subseteq failed',
         chunks' = chunks \/ \E c \in Yielded : chunks' = Append(chunks, c),
         NEW t \in Nat, NEW e \in Nat
  PROVE  (Found(t) => Found(t)') /\ (Whole(t, e) => Whole(t, e)')
<1>1. \A i \in DOMAIN chunks : i \in DOMAIN chunks' /\ chunks'[i] = chunks[i]
  <2>1. chunks \in Seq(Yielded)
    BY Types
  <2>2. ASSUME NEW c \in Yielded, chunks' = Append(chunks, c), NEW i \in DOMAIN chunks
        PROVE  i \in DOMAIN chunks' /\ chunks'[i] = chunks[i]
    BY <2>1, <2>2
  <2> QED BY <2>2
<1>2. Found(t) => Found(t)'
  BY <1>1 DEF Found
<1>3. Whole(t, e) => Whole(t, e)'
  BY <1>1 DEF Whole
<1> QED BY <1>2, <1>3

\* A chunk that is added behind the others keeps the order of them all.
LEMMA AddChunk ==
  ASSUME ChunkTypeOK, ChunksRise, TablesSeparate, conf' = conf,
         NEW c \in Yielded, chunks' = Append(chunks, c),
         Split, Split', Reached' \in Nat, Reached <= Reached', c.end <= Reached',
         IF c.level = "table" THEN c.start = c.end ELSE c.start < c.end,
         c.level = "flat" <=> conf.strategy = "fixed",
         c.level = "parent" => c.id = c.start + 1,
         c.level = "child" =>
           \E p \in DOMAIN chunks : /\ chunks[p].level = "parent" /\ chunks[p].id = c.id
                                    /\ Holds(chunks[p], c.start, c.end),
         \A i \in DOMAIN chunks :
           /\ Leaf(chunks[i]) /\ Leaf(c) =>
                 chunks[i].start < c.start /\ chunks[i].end < c.end
           /\ chunks[i].level = "parent" /\ c.level = "parent" => chunks[i].start < c.start
           /\ chunks[i].level = "table" => chunks[i].end <= c.start
           /\ c.level = "table" => chunks[i].end <= c.start
  PROVE  ChunksRise' /\ TablesSeparate'
<1> DEFINE n == Len(chunks)
<1>1. /\ n \in Nat /\ DOMAIN chunks = 1..n /\ DOMAIN chunks' = 1..(n + 1)
      /\ chunks'[n + 1] = c
      /\ \A i \in 1..n : chunks'[i] = chunks[i] /\ chunks[i] \in Yielded
  BY Types
<1> HIDE DEF n
<1>2. /\ c.start \in Nat /\ c.end \in Nat
      /\ \A i \in 1..n : chunks[i].start \in Nat /\ chunks[i].end \in Nat
  BY <1>1 DEF Yielded
<1>3. Reached \in Nat
  BY Types
<1>4. ASSUME NEW i \in 1..(n + 1)
      PROVE  LET x == chunks'[i] IN
        /\ IF x.level = "table" THEN x.start = x.end ELSE x.start < x.end
        /\ x.end <= Reached'
        /\ x.level = "flat" <=> conf.strategy = "fixed"
        /\ x.level = "parent" => x.id = x.start + 1
        /\ x.level = "child" =>
              \E p \in 1..(i - 1) : /\ chunks'[p].level = "parent" /\ chunks'[p].id = x.id
                                    /\ Holds(chunks'[p], x.start, x.end)
  <2>1. CASE i = n + 1
    <3>1. chunks'[i] = c /\ 1..(i - 1) = DOMAIN chunks
      BY <2>1, <1>1
    <3> QED BY <3>1, <1>1
  <2>2. CASE i # n + 1
    <3>1. i \in 1..n /\ chunks'[i] = chunks[i] /\ \A p \in 1..(i - 1) : p \in 1..n
      BY <2>2, <1>1
    <3>2. /\ IF chunks[i].level = "table" THEN chunks[i].start = chunks[i].end
             ELSE chunks[i].start < chunks[i].end
          /\ chunks[i].end <= Reached
          /\ chunks[i].level = "flat" <=> conf.strategy = "fixed"
          /\ chunks[i].level = "parent" => chunks[i].id = chunks[i].start + 1
          /\ chunks[i].level = "child" =>
                \E p \in 1..(i - 1) : /\ chunks[p].level = "parent" /\ chunks[p].id = chunks[i].id
                                      /\ Holds(chunks[p], chunks[i].start, chunks[i].end)
      BY <3>1, <1>1 DEF ChunksRise
    <3>3. chunks[i].end <= Reached'
      BY <3>1, <3>2, <1>2, <1>3
    <3> QED BY <3>1, <3>2, <3>3, <1>1
  <2> QED BY <2>1, <2>2
<1>5. ASSUME NEW i \in 1..(n + 1), NEW j \in 1..(n + 1), i < j
      PROVE
        /\ Leaf(chunks'[i]) /\ Leaf(chunks'[j]) =>
              chunks'[i].start < chunks'[j].start /\ chunks'[i].end < chunks'[j].end
        /\ chunks'[i].level = "parent" /\ chunks'[j].level = "parent" =>
              chunks'[i].start < chunks'[j].start
  <2>1. i \in 1..n /\ chunks'[i] = chunks[i]
    BY <1>1, <1>5
  <2>2. CASE j = n + 1
    BY <2>1, <2>2, <1>1
  <2>3. CASE j # n + 1
    <3>1. j \in 1..n /\ chunks'[j] = chunks[j]
      BY <2>3, <1>1
    <3> QED BY <2>1, <3>1, <1>1, <1>5 DEF ChunksRise
  <2> QED BY <2>2, <2>3
<1>6. ChunksRise'
  BY <1>1, <1>4, <1>5 DEF ChunksRise, Leaf
<1>7. ASSUME NEW i \in 1..(n + 1), NEW j \in 1..(n + 1), chunks'[i].level = "table"
      PROVE  IF j <= i THEN chunks'[j].end <= chunks'[i].start
             ELSE chunks'[i].end <= chunks'[j].start
  <2>1. CASE i = n + 1 /\ j = n + 1
    BY <2>1, <1>1, <1>2, <1>7
  <2>2. CASE i = n + 1 /\ j # n + 1
    <3>1. j \in 1..n /\ j <= i /\ chunks'[j] = chunks[j] /\ chunks'[i] = c
      BY <2>2, <1>1
    <3> QED BY <3>1, <1>1, <1>7
  <2>3. CASE i # n + 1 /\ j = n + 1
    <3>1. i \in 1..n /\ ~(j <= i) /\ chunks'[i] = chunks[i] /\ chunks'[j] = c
      BY <2>3, <1>1
    <3> QED BY <3>1, <1>1, <1>7
  <2>4. CASE i # n + 1 /\ j # n + 1
    <3>1. i \in 1..n /\ j \in 1..n /\ chunks'[i] = chunks[i] /\ chunks'[j] = chunks[j]
      BY <2>4, <1>1
    <3> QED BY <3>1, <1>1, <1>7 DEF TablesSeparate
  <2> QED BY <2>1, <2>2, <2>3, <2>4
<1>8. TablesSeparate'
  BY <1>1, <1>7 DEF TablesSeparate
<1> QED BY <1>6, <1>8

\* Where splitting is, in its steps.
LEMMA AtSegment ==
  ASSUME ChunkTypeOK, InOrder, phase = "segment", segments # <<>>
  PROVE  /\ Split /\ conf.strategy = "dual"
         /\ Head(segments) \in Segments /\ Head(segments).start = Reached
         /\ Tail(segments) \in Seq(Segments) /\ Line(Tail(segments), Head(segments).end, total)
         /\ IF Head(segments).kind = "text" THEN Reached < Head(segments).end
            ELSE Reached = Head(segments).end
<1>1. Split /\ conf.strategy = "dual" /\ Line(segments, Reached, total)
  BY Types DEF InOrder, Split
<1> QED BY <1>1, LineTail, Types DEF ChunkTypeOK

\* A section is cut off the run at the head, the rest of the run stays.
LEMMA CutSection ==
  ASSUME ChunkTypeOK, InOrder, phase = "segment", segments # <<>>,
         Head(segments).kind = "text"
  PROVE  /\ ParentEnd \in Nat /\ Reached < ParentEnd
         /\ AfterSection \in Seq(Segments) /\ Line(AfterSection, ParentEnd, total)
<1> DEFINE h == Head(segments)
           r == [h EXCEPT !.start = ParentEnd]
<1>1. /\ h \in Segments /\ h.start = Reached /\ Reached < h.end
      /\ Tail(segments) \in Seq(Segments) /\ Line(Tail(segments), h.end, total)
      /\ total \in Nat
  BY AtSegment DEF ChunkTypeOK
<1>2. h.start \in Nat /\ h.end \in Nat
  BY <1>1 DEF Segments
<1>3. /\ ParentEnd \in Nat /\ Reached < ParentEnd /\ ParentEnd <= h.end
  BY <1>1, <1>2, Types DEF ParentEnd, ParentSize, MinOf
<1>4. CASE ParentEnd < h.end
  <2>1. r \in Segments /\ r.kind = "text" /\ r.start = ParentEnd /\ r.end = h.end
    BY <1>1, <1>3 DEF Segments
  <2>2. <<r>> \in Seq(Segments) /\ Line(<<r>>, ParentEnd, h.end)
    <3> HIDE DEF r, h
    <3> QED BY <2>1, <1>4, LineOne
  <2>3. /\ <<r>> \o Tail(segments) \in Seq(Segments)
        /\ Line(<<r>> \o Tail(segments), ParentEnd, total)
    <3> HIDE DEF r, h
    <3> QED BY <2>2, <1>1, <1>2, <1>3, LineConcat
  <2> QED BY <2>3, <1>3, <1>4 DEF AfterSection
<1>5. CASE ~(ParentEnd < h.end)
  <2>1. ParentEnd = h.end
    BY <1>2, <1>3, <1>5
  <2> QED BY <2>1, <1>1, <1>3, <1>5 DEF AfterSection
<1> QED BY <1>4, <1>5

\* Where the first segment of a line starts.
LEMMA LineStart ==
  ASSUME NEW s \in Seq(Segments), NEW a, NEW b, Line(s, a, b)
  PROVE  (IF s = <<>> THEN b ELSE Head(s).start) = a
<1>1. s # <<>> => Head(s) = s[1]
  OBVIOUS
<1> QED BY <1>1 DEF Line

\* The accumulated run is a line from where it started to what was read.
LEMMA RunLine ==
  ASSUME ChunkTypeOK, from <= total
  PROVE  Run \in Seq(Segments) /\ Line(Run, from, total)
<1> DEFINE x == [kind |-> "text", start |-> from, end |-> total]
<1>1. from \in Nat /\ total \in Nat
  BY DEF ChunkTypeOK
<1>2. CASE from < total
  <2>1. x \in Segments /\ x.kind = "text" /\ x.start = from /\ x.end = total
    BY <1>1 DEF Segments
  <2>2. <<x>> \in Seq(Segments) /\ Line(<<x>>, from, total)
    <3> HIDE DEF x
    <3> QED BY <2>1, <1>2, LineOne
  <2> QED BY <2>2, <1>2 DEF Run
<1>3. CASE ~(from < total)
  BY <1>1, <1>3 DEF Run, Line
<1> QED BY <1>2, <1>3

\* When nothing is yielded the chunks stay in order.
LEMMA SameChunks ==
  ASSUME ChunkTypeOK, ChunksRise, TablesSeparate, conf' = conf, chunks' = chunks,
         chunks = <<>> \/ (Split /\ Reached' \in Nat /\ Reached <= Reached')
  PROVE  ChunksRise' /\ TablesSeparate'
<1>1. CASE chunks = <<>>
  BY <1>1 DEF ChunksRise, TablesSeparate
<1>2. CASE Split /\ Reached' \in Nat /\ Reached <= Reached'
  <2>1. Reached \in Nat /\ \A i \in DOMAIN chunks : chunks[i].end \in Nat
    <3>1. chunks \in Seq(Yielded)
      BY Types
    <3>2. \A i \in DOMAIN chunks : chunks[i] \in Yielded
      BY <3>1
    <3> QED BY <3>2, Types DEF Yielded
  <2>2. \A i \in DOMAIN chunks : chunks[i].end <= Reached'
    BY <1>2, <2>1 DEF ChunksRise
  <2>3. ChunksRise'
    BY <2>2 DEF ChunksRise
  <2> QED BY <2>3 DEF TablesSeparate
<1> QED BY <1>1, <1>2

\* While elements are read nothing is yielded.
LEMMA ReadingKeeps ==
  ASSUME ChunkInv, phase = "reading", phase' = "reading", conf' = conf,
         chunks' = chunks, rows' = rows, child' = child, ChunkTypeOK',
         Line(segments', 0, from'), from' <= total',
         conf.strategy = "fixed" => segments' = <<>> /\ from' = 0
  PROVE  ChunkInv'
<1>1. chunks = <<>> /\ child = 0 /\ rows = <<>> /\ conf.overlap < conf.size
  BY DEF ChunkInv, InOrder
<1>2. InOrder'
  BY <1>1 DEF InOrder, Split
<1>3. ChunksRise' /\ TablesSeparate'
  BY <1>1, SameChunks DEF ChunkInv
<1>4. WindowNext'
  BY DEF WindowNext
<1>5. NothingLost'
  BY <1>1 DEF NothingLost, Split
<1> QED BY <1>2, <1>3, <1>4, <1>5 DEF ChunkInv

LEMMA ReadTextKeeps ==
  ASSUME ChunkInv, NEW n \in 0..MaxTokens, ReadText(n) PROVE ChunkInv'
<1>1. total + n \in Nat /\ left - 1 \in Nat /\ total <= total + n
  BY ChunkingAssumption DEF ChunkInv, ChunkTypeOK, ReadText
<1>2. ChunkTypeOK'
  BY <1>1 DEF ReadText, ChunkInv, ChunkTypeOK
<1>3. Line(segments, 0, from) /\ from <= total
  BY DEF ReadText, ChunkInv, InOrder
<1>4. from <= total + n
  BY <1>1, <1>3 DEF ChunkInv, ChunkTypeOK
<1>5. conf.strategy = "fixed" => segments = <<>> /\ from = 0
  BY DEF ChunkInv, InOrder
<1> QED BY <1>2, <1>3, <1>4, <1>5, ReadingKeeps DEF ReadText

LEMMA ReadTableKeeps == ASSUME ChunkInv, ReadTable PROVE ChunkInv'
<1> DEFINE x == [kind |-> "table", start |-> total, end |-> total]
<1>1. ChunkTypeOK /\ total \in Nat /\ from \in Nat /\ left - 1 \in Nat /\ segments \in Seq(Segments)
  BY Types DEF ChunkInv, ChunkTypeOK, ReadTable
<1>2. Line(segments, 0, from) /\ from <= total
  BY DEF ReadTable, ChunkInv, InOrder
<1>3. Run \in Seq(Segments) /\ Line(Run, from, total)
  BY <1>1, <1>2, RunLine
<1>4. x \in Segments /\ x.kind = "table" /\ x.start = total /\ x.end = total
  BY <1>1 DEF Segments
<1>5. <<x>> \in Seq(Segments) /\ Line(<<x>>, total, total)
  <2> HIDE DEF x
  <2> QED BY <1>4, LineOne
<1>6. Run \o <<x>> \in Seq(Segments) /\ Line(Run \o <<x>>, from, total)
  <2> HIDE DEF x
  <2> QED BY <1>1, <1>3, <1>5, LineConcat
<1>7. segments \o (Run \o <<x>>) \in Seq(Segments) /\ Line(segments \o (Run \o <<x>>), 0, total)
  <2> HIDE DEF x
  <2> QED BY <1>1, <1>2, <1>6, LineConcat
<1>8. segments' = segments \o (Run \o <<x>>)
  BY DEF ReadTable, Flush
<1> HIDE DEF x
<1>9. segments' \in Seq(Segments) /\ Line(segments', 0, total)
  BY <1>7, <1>8
<1>10. ChunkTypeOK'
  BY <1>1, <1>9 DEF ReadTable, ChunkInv, ChunkTypeOK, Segments
<1>11. conf.strategy # "fixed"
  BY DEF ReadTable
<1> QED BY <1>1, <1>9, <1>10, <1>11, ReadingKeeps DEF ReadTable

LEMMA ReadMarkerKeeps == ASSUME ChunkInv, ReadMarker PROVE ChunkInv'
<1>1. left - 1 \in Nat
  BY DEF ChunkInv, ChunkTypeOK, ReadMarker
<1>2. ChunkTypeOK'
  BY <1>1 DEF ReadMarker, ChunkInv, ChunkTypeOK
<1>3. Line(segments, 0, from) /\ from <= total
  BY DEF ReadMarker, ChunkInv, InOrder
<1>5. conf.strategy = "fixed" => segments = <<>> /\ from = 0
  BY DEF ChunkInv, InOrder
<1> QED BY <1>2, <1>3, <1>5, ReadingKeeps DEF ReadMarker

LEMMA EndOfElementsKeeps == ASSUME ChunkInv, EndOfElements PROVE ChunkInv'
<1>1. /\ ChunkTypeOK /\ total \in Nat /\ from \in Nat /\ segments \in Seq(Segments)
      /\ conf.strategy \in {"fixed", "dual"}
  BY Types DEF ChunkInv, ChunkTypeOK
<1>2. /\ Line(segments, 0, from) /\ from <= total /\ child = 0 /\ chunks = <<>>
      /\ rows = <<>> /\ conf.overlap < conf.size /\ phase = "reading"
      /\ conf' = conf /\ chunks' = chunks /\ rows' = rows /\ child' = child
      /\ total' = total /\ from' = from /\ left' = left /\ failed' = failed
  BY DEF EndOfElements, ChunkInv, InOrder
<1>3. ChunksRise' /\ TablesSeparate'
  BY <1>1, <1>2, SameChunks DEF ChunkInv
<1>4. CASE conf.strategy = "fixed"
  <2>1. /\ segments = <<>> /\ from = 0 /\ segments' = <<>>
        /\ parent' = [start |-> 0, end |-> total, id |-> NoId]
        /\ phase' = IF total > 0 THEN "windows" ELSE "done"
    BY <1>4 DEF EndOfElements, ChunkInv, InOrder
  <2>2. ChunkTypeOK'
    BY <1>1, <1>2, <2>1 DEF ChunkTypeOK, Section, Phases, NoId
  <2>3. Reached' = total
    BY <1>2, <2>1 DEF Reached
  <2>4. InOrder'
    BY <1>1, <1>2, <2>1, <2>3, <1>4 DEF InOrder, Line
  <2>5. WindowNext'
    BY <1>1, <1>2, <2>1, <1>4 DEF WindowNext
  <2>6. NothingLost'
    BY <1>1, <1>2, <2>1, <2>3 DEF NothingLost
  <2> QED BY <1>3, <2>2, <2>4, <2>5, <2>6 DEF ChunkInv
<1>5. CASE conf.strategy = "dual"
  <2>1. segments' = segments \o Run /\ parent' = parent /\ phase' = "segment"
    BY <1>5 DEF EndOfElements
  <2>2. Run \in Seq(Segments) /\ Line(Run, from, total)
    BY <1>1, <1>2, RunLine
  <2>3. segments' \in Seq(Segments) /\ Line(segments', 0, total)
    BY <1>1, <1>2, <2>1, <2>2, LineConcat
  <2>4. ChunkTypeOK'
    BY <1>1, <1>2, <2>1, <2>3 DEF ChunkTypeOK, Phases, Segments
  <2>5. Reached' = 0
    BY <1>2, <2>1, <2>3, LineStart DEF Reached
  <2>6. InOrder'
    BY <1>1, <1>2, <2>1, <2>3, <2>5, <1>5 DEF InOrder
  <2>7. WindowNext'
    BY <2>1 DEF WindowNext
  <2>8. NothingLost'
    BY <1>1, <1>2, <2>1, <2>5 DEF NothingLost
  <2> QED BY <1>3, <2>4, <2>6, <2>7, <2>8 DEF ChunkInv
<1> QED BY <1>1, <1>4, <1>5
\* What every step after the reading starts from.
LEMMA Splitting ==
  ASSUME ChunkInv, phase \in {"segment", "windows"}
  PROVE  /\ ChunkTypeOK /\ Split /\ Line(segments, Reached, total)
         /\ total \in Nat /\ conf.overlap < conf.size /\ rows = <<>>
         /\ phase = "segment" => conf.strategy = "dual"
BY Types DEF ChunkInv, InOrder, Split, ChunkTypeOK

\* Of the text passed so far everything is found, also when chunks and
\* failures are added.
LEMMA PassedStays ==
  ASSUME ChunkInv, phase = "segment", conf' = conf, failed \subseteq failed',
         chunks' = chunks \/ \E c \in Yielded : chunks' = Append(chunks, c)
  PROVE  /\ \A t \in Nat : t < Reached => Found(t)'
         /\ \A i \in DOMAIN chunks : chunks[i].level = "parent" =>
              \A t \in Nat : chunks[i].start <= t /\ t < chunks[i].end =>
                Whole(t, chunks[i].end)'
<1>1. ChunkTypeOK /\ Split
  BY Splitting
<1>2. ASSUME NEW t \in Nat, t < Reached PROVE Found(t)'
  <2>1. Found(t)
    BY <1>1, <1>2 DEF ChunkInv, NothingLost
  <2> QED BY <2>1, <1>1, FoundStays
<1>3. ASSUME NEW i \in DOMAIN chunks, chunks[i].level = "parent",
             NEW t \in Nat, chunks[i].start <= t, t < chunks[i].end
      PROVE  Whole(t, chunks[i].end)'
  <2>1. Whole(t, chunks[i].end)
    BY <1>3 DEF ChunkInv, NothingLost
  <2>2. chunks[i].end \in Nat
    <3>1. chunks \in Seq(Yielded)
      BY <1>1, Types
    <3>2. chunks[i] \in Yielded
      BY <3>1
    <3> QED BY <3>2 DEF Yielded
  <2>3. PICK e \in Nat : e = chunks[i].end
    BY <2>2
  <2>4. Whole(t, e)'
    BY <2>1, <2>3, <1>1, FoundStays
  <2> QED BY <2>3, <2>4
<1> QED BY <1>2, <1>3

LEMMA EmitTableKeeps == ASSUME ChunkInv, EmitTable PROVE ChunkInv'
<1> DEFINE h == Head(segments)
           c == Chunk("table", h.start, h.end, NoId)
<1>1. /\ ChunkTypeOK /\ Split /\ total \in Nat /\ conf.overlap < conf.size
      /\ rows = <<>> /\ conf.strategy = "dual" /\ Reached \in Nat
      /\ chunks \in Seq(Yielded) /\ ChunksRise /\ TablesSeparate
  BY Splitting, Types DEF EmitTable, ChunkInv
<1>2. /\ h \in Segments /\ h.start = Reached /\ Reached = h.end
      /\ Tail(segments) \in Seq(Segments) /\ Line(Tail(segments), h.end, total)
  BY AtSegment DEF EmitTable, ChunkInv
<1>3. /\ segments' = Tail(segments) /\ chunks' = Append(chunks, c)
      /\ conf' = conf /\ phase' = "segment" /\ total' = total /\ left' = left
      /\ from' = from /\ parent' = parent /\ child' = child /\ failed' = failed
      /\ rows' = rows
  BY DEF EmitTable
<1>4. /\ c \in Yielded /\ c.level = "table" /\ c.start = Reached /\ c.end = Reached
  BY <1>1, <1>2 DEF Chunk, Yielded, Levels, NoId
<1> HIDE DEF h, c
<1>5. ChunkTypeOK'
  <2>1. chunks' \in Seq(Yielded)
    BY <1>1, <1>3, <1>4
  <2> QED BY <1>1, <1>2, <1>3, <2>1 DEF ChunkTypeOK, Segments, Yielded, Phases
<1>6. Line(segments', Reached, total) /\ segments' \in Seq(Segments)
  BY <1>2, <1>3
<1>7. Reached' = Reached
  BY <1>3, <1>6, LineStart DEF Reached
<1>8. InOrder'
  BY <1>1, <1>3, <1>6, <1>7 DEF InOrder
<1>9. ChunksRise' /\ TablesSeparate'
  <2>1. Split' /\ Reached' \in Nat /\ Reached <= Reached' /\ c.end <= Reached'
    BY <1>1, <1>3, <1>4, <1>7 DEF Split
  <2>2. \A i \in DOMAIN chunks : chunks[i].end <= c.start
    BY <1>1, <1>4 DEF ChunksRise
  <2>3. ~Leaf(c)
    BY <1>4 DEF Leaf
  <2> QED BY <1>1, <1>3, <1>4, <2>1, <2>2, <2>3, AddChunk
<1>10. WindowNext'
  BY <1>3 DEF WindowNext
<1>11. NothingLost'
  <2>1. /\ \A t \in Nat : t < Reached => Found(t)'
        /\ \A i \in DOMAIN chunks : chunks[i].level = "parent" =>
             \A t \in Nat : chunks[i].start <= t /\ t < chunks[i].end =>
               Whole(t, chunks[i].end)'
    BY <1>3, <1>4, PassedStays DEF EmitTable
  <2>2. \A i \in DOMAIN chunks' : chunks'[i].level = "parent" =>
          i \in DOMAIN chunks /\ chunks'[i] = chunks[i]
    BY <1>1, <1>3, <1>4
  <2> QED BY <1>1, <1>3, <1>7, <2>1, <2>2 DEF NothingLost
<1> QED BY <1>5, <1>8, <1>9, <1>10, <1>11 DEF ChunkInv

LEMMA ParentFailsKeeps == ASSUME ChunkInv, ParentFails PROVE ChunkInv'
<1> DEFINE x == Interval(Head(segments).start, ParentEnd)
<1>1. /\ ChunkTypeOK /\ Split /\ total \in Nat /\ conf.overlap < conf.size
      /\ rows = <<>> /\ conf.strategy = "dual" /\ Reached \in Nat
      /\ chunks \in Seq(Yielded) /\ ChunksRise /\ TablesSeparate
  BY Splitting, Types DEF ParentFails, ChunkInv
<1>2. /\ Head(segments).start = Reached
      /\ ParentEnd \in Nat /\ Reached < ParentEnd
      /\ AfterSection \in Seq(Segments) /\ Line(AfterSection, ParentEnd, total)
  BY AtSegment, CutSection DEF ParentFails, ChunkInv
<1>3. /\ segments' = AfterSection /\ chunks' = chunks
      /\ conf' = conf /\ phase' = "segment" /\ total' = total /\ left' = left
      /\ from' = from /\ parent' = parent /\ child' = child
      /\ failed' = failed \cup {x} /\ rows' = rows
  BY DEF ParentFails
<1>4. x \in [start : Nat, end : Nat] /\ x.start = Reached /\ x.end = ParentEnd
  BY <1>1, <1>2 DEF Interval
<1> HIDE DEF x
<1>5. ChunkTypeOK'
  BY <1>1, <1>2, <1>3, <1>4 DEF ChunkTypeOK, Segments, Phases
<1>6. Reached' = ParentEnd
  BY <1>2, <1>3, LineStart DEF Reached
<1>7. InOrder'
  BY <1>1, <1>2, <1>3, <1>6 DEF InOrder
<1>8. ChunksRise' /\ TablesSeparate'
  <2>1. Reached' \in Nat /\ Reached <= Reached'
    BY <1>1, <1>2, <1>6
  <2> QED BY <1>1, <1>3, <2>1, SameChunks
<1>9. WindowNext'
  BY <1>3 DEF WindowNext
<1>10. NothingLost'
  <2>1. failed \subseteq failed' /\ phase = "segment"
    BY <1>3 DEF ParentFails
  <2>2. /\ \A t \in Nat : t < Reached => Found(t)'
        /\ \A i \in DOMAIN chunks : chunks[i].level = "parent" =>
             \A t \in Nat : chunks[i].start <= t /\ t < chunks[i].end =>
               Whole(t, chunks[i].end)'
    BY <1>3, <2>1, PassedStays
  <2>3. ASSUME NEW t \in Nat, t < ParentEnd PROVE Found(t)'
    <3>1. CASE t < Reached
      BY <3>1, <2>2
    <3>2. CASE ~(t < Reached)
      <4>1. Holds(x, t, t + 1) /\ x \in failed'
        BY <3>2, <2>3, <1>1, <1>2, <1>3, <1>4 DEF Holds
      <4> QED BY <4>1 DEF Found
    <3> QED BY <3>1, <3>2
  <2> QED BY <1>1, <1>3, <1>6, <2>2, <2>3 DEF NothingLost
<1> QED BY <1>5, <1>7, <1>8, <1>9, <1>10 DEF ChunkInv
LEMMA EndOfSegmentsKeeps == ASSUME ChunkInv, EndOfSegments PROVE ChunkInv'
<1>1. /\ ChunkTypeOK /\ Split /\ total \in Nat /\ conf.overlap < conf.size
      /\ rows = <<>> /\ conf.strategy = "dual" /\ Reached \in Nat
      /\ Line(segments, Reached, total) /\ ChunksRise /\ TablesSeparate
  BY Splitting, Types DEF EndOfSegments, ChunkInv
<1>2. /\ segments = <<>> /\ phase = "segment" /\ phase' = "done"
      /\ UNCHANGED <<conf, total, left, from, segments, parent, child, chunks, failed, rows>>
  BY DEF EndOfSegments
<1>3. ChunkTypeOK'
  BY <1>1, <1>2 DEF ChunkTypeOK, Phases
<1>4. Reached' = Reached
  BY <1>2 DEF Reached
<1>5. InOrder'
  BY <1>1, <1>2, <1>4 DEF InOrder
<1>6. ChunksRise' /\ TablesSeparate'
  BY <1>1, <1>2, <1>4, SameChunks
<1>7. WindowNext'
  BY <1>2 DEF WindowNext
<1>8. NothingLost'
  <2>1. /\ \A t \in Nat : t < Reached => Found(t)'
        /\ \A i \in DOMAIN chunks : chunks[i].level = "parent" =>
             \A t \in Nat : chunks[i].start <= t /\ t < chunks[i].end =>
               Whole(t, chunks[i].end)'
    BY <1>2, PassedStays
  <2> QED BY <1>1, <1>2, <1>4, <2>1 DEF NothingLost
<1> QED BY <1>3, <1>5, <1>6, <1>7, <1>8 DEF ChunkInv

LEMMA EmitParentKeeps == ASSUME ChunkInv, EmitParent PROVE ChunkInv'
<1> DEFINE a == Head(segments).start
           e == ParentEnd
           c == Chunk("parent", a, e, a + 1)
<1>1. /\ ChunkTypeOK /\ Split /\ total \in Nat /\ conf.overlap < conf.size
      /\ rows = <<>> /\ conf.strategy = "dual" /\ Reached \in Nat
      /\ chunks \in Seq(Yielded) /\ ChunksRise /\ TablesSeparate
      /\ conf.size \in Nat /\ conf.size > 0 /\ phase = "segment"
  BY Splitting, Types DEF EmitParent, ChunkInv
<1>2. /\ a = Reached /\ e \in Nat /\ Reached < e
      /\ AfterSection \in Seq(Segments) /\ Line(AfterSection, e, total)
  BY AtSegment, CutSection DEF EmitParent, ChunkInv
<1>3. /\ segments' = AfterSection /\ chunks' = Append(chunks, c)
      /\ conf' = conf /\ phase' = "windows" /\ total' = total /\ left' = left
      /\ from' = from /\ child' = a /\ failed' = failed /\ rows' = rows
      /\ parent' = [start |-> a, end |-> e, id |-> a + 1]
  BY DEF EmitParent
<1>4. /\ c \in Yielded /\ c.level = "parent" /\ c.start = a /\ c.end = e /\ c.id = a + 1
  BY <1>1, <1>2 DEF Chunk, Yielded, Levels
<1>5. \A i \in DOMAIN chunks : chunks[i] \in Yielded /\ chunks[i].start \in Nat
                               /\ chunks[i].end \in Nat
  <2>1. \A i \in DOMAIN chunks : chunks[i] \in Yielded
    BY <1>1
  <2> QED BY <2>1 DEF Yielded
<1>6. parent' \in Section /\ parent'.start = a /\ parent'.end = e /\ parent'.id = a + 1
  BY <1>1, <1>2, <1>3 DEF Section
<1>7. c = Chunk("parent", parent'.start, parent'.end, parent'.id)
  BY <1>6
<1> HIDE DEF a, e, c
<1>8. ChunkTypeOK'
  <2>1. chunks' \in Seq(Yielded)
    BY <1>1, <1>3, <1>4
  <2> QED BY <1>1, <1>2, <1>3, <1>6, <2>1 DEF ChunkTypeOK, Segments, Yielded, Phases
<1>9. Reached' = e
  BY <1>3, <1>6 DEF Reached
<1>10. InOrder'
  BY <1>1, <1>2, <1>3, <1>9 DEF InOrder
<1>11. \A i \in DOMAIN chunks :
         /\ chunks[i].end <= a
         /\ chunks[i].level # "table" => chunks[i].start < a
  BY <1>1, <1>2, <1>5 DEF ChunksRise
<1>12. ChunksRise' /\ TablesSeparate'
  <2>1. Split' /\ Reached' \in Nat /\ Reached <= Reached' /\ c.end <= Reached'
    BY <1>1, <1>2, <1>3, <1>4, <1>9 DEF Split
  <2>2. ~Leaf(c) /\ c.start < c.end
    BY <1>1, <1>2, <1>4 DEF Leaf
  <2>3. \A i \in DOMAIN chunks :
           /\ chunks[i].level = "parent" => chunks[i].start < c.start
           /\ chunks[i].level = "table" => chunks[i].end <= c.start
    BY <1>4, <1>11
  <2> QED BY <1>1, <1>3, <1>4, <2>1, <2>2, <2>3, AddChunk
<1>13. \A i \in DOMAIN chunks' :
          \/ i \in DOMAIN chunks /\ chunks'[i] = chunks[i]
          \/ i = Len(chunks) + 1 /\ chunks'[i] = c
  BY <1>1, <1>3, <1>4
<1>14. WindowNext'
  <2>1. ASSUME NEW i \in DOMAIN chunks'
        PROVE  /\ Leaf(chunks'[i]) => /\ chunks'[i].start < a /\ chunks'[i].end < e
                                      /\ chunks'[i].end < a + conf.size
               /\ chunks'[i].level = "table" => chunks'[i].end <= a
    <3>1. CASE i \in DOMAIN chunks /\ chunks'[i] = chunks[i]
      BY <3>1, <1>1, <1>2, <1>5, <1>11 DEF Leaf
    <3>2. CASE chunks'[i] = c
      BY <3>2, <1>4 DEF Leaf
    <3> QED BY <3>1, <3>2, <1>13
  <2>2. Len(chunks) + 1 \in DOMAIN chunks' /\ chunks'[Len(chunks) + 1] = c
    BY <1>1, <1>3, <1>4
  <2>3. \E i \in DOMAIN chunks' :
           chunks'[i] = Chunk("parent", parent'.start, parent'.end, parent'.id)
    BY <2>2, <1>7
  <2>4. a < e /\ a <= a
    BY <1>1, <1>2
  <2> QED BY <1>1, <1>3, <1>6, <2>1, <2>3, <2>4 DEF WindowNext
<1>15. NothingLost'
  <2>1. /\ \A t \in Nat : t < Reached => Found(t)'
        /\ \A i \in DOMAIN chunks : chunks[i].level = "parent" =>
             \A t \in Nat : chunks[i].start <= t /\ t < chunks[i].end =>
               Whole(t, chunks[i].end)'
    BY <1>1, <1>3, <1>4, PassedStays
  <2>2. \A t \in Nat : t < parent'.end /\ t < child' =>
          Found(t)' /\ (parent'.start <= t => Whole(t, parent.end)')
    BY <1>1, <1>2, <1>3, <1>6, <2>1
  <2>3. \A i \in DOMAIN chunks' : chunks'[i].level = "parent" /\ chunks'[i].start # a =>
          i \in DOMAIN chunks /\ chunks'[i] = chunks[i]
    BY <1>4, <1>13
  <2> QED BY <1>3, <1>6, <2>1, <2>2, <2>3 DEF NothingLost
<1> QED BY <1>8, <1>10, <1>12, <1>14, <1>15 DEF ChunkInv
\* When the windows of a section are through, nothing of the section is lost.
LEMMA LeaveWindows ==
  ASSUME ChunkInv, phase = "windows", phase' = AfterWindows,
         conf' = conf, total' = total, segments' = segments, parent' = parent,
         failed \subseteq failed',
         chunks' = chunks \/ \E c \in Yielded : c.level # "parent" /\ chunks' = Append(chunks, c),
         NEW e \in Nat, e = parent.end,
         \A t \in Nat : t < e => Found(t)' /\ (parent.start <= t => Whole(t, e)')
  PROVE  Reached' = e /\ Split' /\ NothingLost'
<1>1. /\ ChunkTypeOK /\ Split /\ Line(segments, e, total) /\ segments \in Seq(Segments)
      /\ conf.strategy \in {"fixed", "dual"} /\ chunks \in Seq(Yielded)
  BY Splitting, Types DEF Reached
<1>2. phase' \in {"segment", "done"} /\ phase' # "windows"
  BY DEF AfterWindows
<1>3. Reached' = e /\ Split'
  BY <1>1, <1>2, LineStart DEF Reached, Split
<1>4. conf.strategy = "fixed" => parent.start = 0 /\ total = e
  BY DEF ChunkInv, WindowNext
<1>5. \A i \in DOMAIN chunks' : chunks'[i].level = "parent" =>
        i \in DOMAIN chunks /\ chunks'[i] = chunks[i]
  BY <1>1
<1>6. ASSUME NEW i \in DOMAIN chunks, chunks[i].level = "parent",
             NEW t \in Nat, chunks[i].start <= t, t < chunks[i].end
      PROVE  Whole(t, chunks[i].end)'
  <2>1. chunks[i] \in Yielded
    BY <1>1
  <2>2. chunks[i].end \in Nat /\ chunks[i].start \in Nat
    BY <2>1 DEF Yielded
  <2>3. PICK f \in Nat : f = chunks[i].end
    BY <2>2
  <2>4. CASE chunks[i].start = parent.start
    <3>1. conf.strategy # "fixed"
      BY <1>1, <1>6 DEF ChunkInv, ChunksRise
    <3>2. PICK j \in DOMAIN chunks :
             chunks[j] = Chunk("parent", parent.start, parent.end, parent.id)
      BY <3>1 DEF ChunkInv, WindowNext
    <3>3. /\ chunks[j].level = "parent" /\ chunks[j].start = parent.start
          /\ chunks[j].end = parent.end
      BY <3>2 DEF Chunk
    <3>4. i \in Nat /\ j \in Nat
      BY <1>1
    <3>5. ~(i < j) /\ ~(j < i)
      BY <1>6, <2>2, <2>4, <3>3 DEF ChunkInv, ChunksRise
    <3>6. chunks[i].end = e
      BY <3>3, <3>4, <3>5
    <3> QED BY <3>6, <1>6, <2>4
  <2>5. CASE chunks[i].start # parent.start
    <3>1. Whole(t, chunks[i].end)
      BY <1>6, <2>5 DEF ChunkInv, NothingLost
    <3>2. Whole(t, f)'
      BY <3>1, <2>3, <1>1, FoundStays
    <3> QED BY <3>2, <2>3
  <2> QED BY <2>4, <2>5
<1>7. \A t \in Nat : t < Reached' =>
        Found(t)' /\ (conf'.strategy = "fixed" => Whole(t, total)')
  <2>1. ASSUME NEW t \in Nat, t < Reached', conf.strategy = "fixed" PROVE Whole(t, total)'
    <3>1. total' = e /\ Whole(t, e)'
      BY <2>1, <1>3, <1>4
    <3> QED BY <3>1
  <2> QED BY <2>1, <1>3
<1>8. NothingLost'
  BY <1>2, <1>5, <1>6, <1>7 DEF NothingLost
<1> QED BY <1>3, <1>8

\* What a step of the window loop starts from.
LEMMA AtWindow ==
  ASSUME ChunkInv, phase = "windows"
  PROVE  /\ ChunkTypeOK /\ Split /\ total \in Nat /\ conf.overlap < conf.size
         /\ rows = <<>> /\ Reached = parent.end /\ segments \in Seq(Segments)
         /\ Line(segments, parent.end, total)
         /\ chunks \in Seq(Yielded) /\ ChunksRise /\ TablesSeparate
         /\ conf.size \in Nat /\ conf.size > 0 /\ conf.overlap \in Nat
         /\ conf.strategy \in {"fixed", "dual"}
         /\ parent.start \in Nat /\ parent.end \in Nat /\ child \in Nat
         /\ parent.start < parent.end /\ parent.start <= child
         /\ Step \in Nat /\ Step > 0 /\ child + Step \in Nat
         /\ conf.strategy = "fixed" => segments = <<>> /\ from = 0
<1>1. conf.size \in Nat /\ conf.size > 0 /\ conf.overlap \in Nat /\ conf.overlap < conf.size
      /\ child \in Nat
  BY Splitting, Types DEF ChunkTypeOK
<1>2. Step \in Nat /\ Step > 0 /\ child + Step \in Nat
  BY <1>1 DEF Step
<1>3. /\ Reached = parent.end /\ parent.start < parent.end /\ parent.start <= child
      /\ ChunksRise /\ TablesSeparate
      /\ conf.strategy = "fixed" => segments = <<>> /\ from = 0
  BY DEF Reached, ChunkInv, WindowNext, InOrder
<1> QED BY <1>1, <1>2, <1>3, Splitting, Types

LEMMA EndOfWindowsKeeps == ASSUME ChunkInv, EndOfWindows PROVE ChunkInv'
<1>1. /\ phase = "windows" /\ child >= parent.end /\ phase' = AfterWindows
      /\ UNCHANGED <<conf, total, left, from, segments, parent, child, chunks, failed, rows>>
  BY DEF EndOfWindows
<1>2. ChunkTypeOK'
  BY <1>1, AtWindow DEF ChunkTypeOK, Phases, AfterWindows
<1>3. PICK e \in Nat : e = parent.end
  BY <1>1, AtWindow
<1>4. ASSUME NEW t \in Nat, t < e PROVE Found(t)' /\ (parent.start <= t => Whole(t, e)')
  <2>1. t < child
    BY <1>1, <1>3, <1>4, AtWindow
  <2>2. Found(t) /\ (parent.start <= t => Whole(t, e))
    BY <1>1, <1>3, <1>4, <2>1 DEF ChunkInv, NothingLost
  <2> QED BY <2>2, <1>1, AtWindow, FoundStays
<1>5. Reached' = e /\ Split' /\ NothingLost'
  BY <1>1, <1>3, <1>4, LeaveWindows
<1>6. InOrder'
  <2>1. phase' = IF conf.strategy = "fixed" THEN "done" ELSE "segment"
    BY <1>1 DEF AfterWindows
  <2>2. conf.strategy = "fixed" => segments = <<>> /\ from = 0
    BY <1>1, AtWindow
  <2>3. segments = <<>> \/ conf.strategy = "dual"
    BY <1>1, <2>2, AtWindow
  <2> QED BY <1>1, <1>3, <1>5, <2>1, <2>2, <2>3, AtWindow DEF InOrder
<1>7. ChunksRise' /\ TablesSeparate'
  <2>1. Reached' = Reached /\ Reached \in Nat
    BY <1>1, <1>3, <1>5, AtWindow
  <2> QED BY <1>1, <2>1, AtWindow, SameChunks
<1>8. WindowNext'
  BY <1>1 DEF WindowNext, AfterWindows
<1> QED BY <1>2, <1>5, <1>6, <1>7, <1>8 DEF ChunkInv

LEMMA WindowFailsKeeps == ASSUME ChunkInv, WindowFails PROVE ChunkInv'
<1> DEFINE x == Interval(child, ChildEnd)
<1>1. /\ phase = "windows" /\ child < parent.end /\ failed' = failed \cup {x}
      /\ child' = child + Step
      /\ UNCHANGED <<conf, phase, total, left, from, segments, parent, chunks, rows>>
  BY DEF WindowFails
<1>2. ChildEnd \in Nat /\ ChildEnd = MinOf(child + conf.size, parent.end) /\ child < ChildEnd
  BY <1>1, AtWindow DEF ChildEnd, MinOf
<1>3. x \in [start : Nat, end : Nat] /\ x.start = child /\ x.end = ChildEnd
  BY <1>1, <1>2, AtWindow DEF Interval
<1> HIDE DEF x
<1>4. ChunkTypeOK'
  BY <1>1, <1>3, AtWindow DEF ChunkTypeOK, Phases
<1>5. Reached' = Reached /\ Reached \in Nat /\ Split'
  BY <1>1, AtWindow DEF Reached, Split
<1>6. InOrder'
  BY <1>1, <1>5, AtWindow DEF InOrder
<1>7. ChunksRise' /\ TablesSeparate'
  BY <1>1, <1>5, AtWindow, SameChunks
<1>8. WindowNext'
  <2>1. ASSUME NEW i \in DOMAIN chunks
        PROVE  /\ Leaf(chunks[i]) => /\ chunks[i].start < child + Step
                                     /\ chunks[i].end < parent.end
                                     /\ chunks[i].end < child + Step + conf.size
               /\ chunks[i].level = "table" => chunks[i].end <= parent.start
    <3>1. chunks \in Seq(Yielded)
      BY <1>1, AtWindow
    <3>2. chunks[i] \in Yielded
      BY <3>1
    <3>3. chunks[i].start \in Nat /\ chunks[i].end \in Nat
      BY <3>2 DEF Yielded
    <3>4. /\ Leaf(chunks[i]) => /\ chunks[i].start < child
                                /\ chunks[i].end < parent.end
                                /\ chunks[i].end < child + conf.size
          /\ chunks[i].level = "table" => chunks[i].end <= parent.start
      BY <1>1 DEF ChunkInv, WindowNext
    <3> QED BY <1>1, <3>3, <3>4, AtWindow
  <2>2. parent.start < parent.end /\ parent.start <= child + Step
    BY <1>1, AtWindow
  <2>3. IF conf.strategy = "fixed" THEN parent.start = 0 /\ parent.end = total
        ELSE \E i \in DOMAIN chunks :
                chunks[i] = Chunk("parent", parent.start, parent.end, parent.id)
    BY <1>1 DEF ChunkInv, WindowNext
  <2> QED BY <1>1, <2>1, <2>2, <2>3 DEF WindowNext
<1>9. NothingLost'
  <2>1. PICK e \in Nat : e = parent.end
    BY <1>1, AtWindow
  <2>2. ASSUME NEW t \in Nat, t < e, t < child + Step
        PROVE  Found(t)' /\ (parent.start <= t => Whole(t, e)')
    <3>1. CASE t < child
      <4>1. Found(t) /\ (parent.start <= t => Whole(t, e))
        BY <1>1, <2>1, <2>2, <3>1 DEF ChunkInv, NothingLost
      <4> QED BY <4>1, <1>1, AtWindow, FoundStays
    <3>2. CASE ~(t < child)
      <4>1. t < ChildEnd /\ child <= t
        BY <1>1, <1>2, <2>1, <2>2, <3>2, AtWindow DEF Step, MinOf
      <4>2. Holds(x, t, t + 1) /\ x \in failed'
        BY <4>1, <1>1, <1>2, <1>3, AtWindow DEF Holds
      <4>3. Found(t)'
        BY <4>2 DEF Found
      <4>4. ~(x.end <= t \/ MinOf(t + conf.overlap + 1, e) <= x.start)
        <5>1. child \in Nat /\ conf.overlap \in Nat
          BY <1>1, AtWindow
        <5>2. t < MinOf(t + conf.overlap + 1, e) /\ MinOf(t + conf.overlap + 1, e) \in Nat
          BY <5>1, <2>2 DEF MinOf
        <5> QED BY <4>1, <5>1, <5>2, <1>2, <1>3
      <4>5. Whole(t, e)'
        BY <4>2, <4>4, <1>1 DEF Whole
      <4> QED BY <4>3, <4>5
    <3> QED BY <3>1, <3>2
  <2>3. ASSUME NEW i \in DOMAIN chunks, chunks[i].level = "parent",
               chunks[i].start # parent.start,
               NEW t \in Nat, chunks[i].start <= t, t < chunks[i].end
        PROVE  Whole(t, chunks[i].end)'
    <3>1. chunks \in Seq(Yielded)
      BY <1>1, AtWindow
    <3>2. chunks[i] \in Yielded
      BY <3>1
    <3>3. PICK f \in Nat : f = chunks[i].end
      BY <3>2 DEF Yielded
    <3>4. Whole(t, f)
      BY <2>3, <3>3 DEF ChunkInv, NothingLost
    <3>5. Whole(t, f)'
      BY <3>4, <1>1, AtWindow, FoundStays
    <3>6. chunks'[i].end = f
      BY <1>1, <3>3
    <3> QED BY <3>5, <3>6
  <2>4. \A t \in Nat : t < parent'.end /\ t < child' =>
          Found(t)' /\ (parent'.start <= t => Whole(t, parent.end)')
    BY <1>1, <2>1, <2>2
  <2> QED BY <1>1, <2>3, <2>4 DEF NothingLost
<1> QED BY <1>4, <1>6, <1>7, <1>8, <1>9 DEF ChunkInv
\* The window that is emitted: its place among the chunks.
LEMMA WindowChunk ==
  ASSUME ChunkInv, EmitWindow, NEW c, c = Chunk(Level, child, ChildEnd, parent.id)
  PROVE  /\ c \in Yielded /\ c.level = Level /\ c.level \in {"flat", "child"}
         /\ c.level = "flat" <=> conf.strategy = "fixed"
         /\ c.start = child /\ c.end = ChildEnd /\ c.id = parent.id
         /\ ChildEnd \in Nat /\ child < ChildEnd /\ ChildEnd <= parent.end
         /\ ChildEnd <= child + conf.size
         /\ phase = "windows" /\ chunks' = Append(chunks, c) /\ chunks' \in Seq(Yielded)
         /\ (Reached' \in Nat /\ Split' /\ parent.end <= Reached') => (ChunksRise' /\ TablesSeparate')
<1>1. phase = "windows" /\ child < parent.end /\ chunks' = Append(chunks, c) /\ conf' = conf
  BY DEF EmitWindow
<1>2. /\ ChildEnd \in Nat /\ child < ChildEnd /\ ChildEnd <= parent.end
      /\ ChildEnd <= child + conf.size
  BY <1>1, AtWindow DEF ChildEnd, MinOf
<1>3. parent.id \in Nat /\ child \in Nat
  BY <1>1, AtWindow, Types
<1>4. /\ c \in Yielded /\ c.level = Level /\ c.level \in {"flat", "child"}
      /\ c.level = "flat" <=> conf.strategy = "fixed"
      /\ c.start = child /\ c.end = ChildEnd /\ c.id = parent.id
  BY <1>2, <1>3 DEF Chunk, Yielded, Levels, Level
<1>5. chunks' \in Seq(Yielded)
  BY <1>1, <1>4, AtWindow
<1>6. ASSUME Reached' \in Nat, Split', parent.end <= Reached'
      PROVE  ChunksRise' /\ TablesSeparate'
  <2>1. Reached <= Reached' /\ c.end <= Reached'
    BY <1>1, <1>2, <1>4, <1>6, AtWindow
  <2>2. c.start < c.end /\ c.level # "table" /\ c.level # "parent"
    BY <1>2, <1>4
  <2>3. c.level = "child" =>
          \E p \in DOMAIN chunks : /\ chunks[p].level = "parent" /\ chunks[p].id = c.id
                                   /\ Holds(chunks[p], c.start, c.end)
    <3> SUFFICES ASSUME c.level = "child"
                 PROVE  \E p \in DOMAIN chunks :
                          /\ chunks[p].level = "parent" /\ chunks[p].id = c.id
                          /\ Holds(chunks[p], c.start, c.end)
      OBVIOUS
    <3>1. PICK p \in DOMAIN chunks :
             chunks[p] = Chunk("parent", parent.start, parent.end, parent.id)
      BY <1>1, <1>4 DEF ChunkInv, WindowNext
    <3>2. /\ chunks[p].level = "parent" /\ chunks[p].start = parent.start
          /\ chunks[p].end = parent.end /\ chunks[p].id = parent.id
      BY <3>1 DEF Chunk
    <3>3. parent.start <= child
      BY <1>1, AtWindow
    <3> QED BY <3>2, <3>3, <1>2, <1>4 DEF Holds
  <2>4. ASSUME NEW i \in DOMAIN chunks
        PROVE  /\ Leaf(chunks[i]) /\ Leaf(c) =>
                     chunks[i].start < c.start /\ chunks[i].end < c.end
               /\ chunks[i].level = "table" => chunks[i].end <= c.start
    <3>1. chunks[i] \in Yielded
      BY <1>1, AtWindow
    <3>2. chunks[i].start \in Nat /\ chunks[i].end \in Nat
      BY <3>1 DEF Yielded
    <3>3. /\ Leaf(chunks[i]) => /\ chunks[i].start < child
                                /\ chunks[i].end < parent.end
                                /\ chunks[i].end < child + conf.size
          /\ chunks[i].level = "table" => chunks[i].end <= parent.start
      BY <1>1 DEF ChunkInv, WindowNext
    <3>4. Leaf(chunks[i]) => chunks[i].end < ChildEnd
      BY <3>2, <3>3, <1>1, AtWindow DEF ChildEnd, MinOf
    <3>5. parent.start <= child /\ parent.start \in Nat /\ child \in Nat
      BY <1>1, AtWindow
    <3> QED BY <3>2, <3>3, <3>4, <3>5, <1>4
  <2> QED BY <1>1, <1>4, <1>6, <2>1, <2>2, <2>3, <2>4, AtWindow, AddChunk
<1> QED BY <1>1, <1>2, <1>4, <1>5, <1>6

\* Up to the next start the stretches lie in the window that is emitted.
LEMMA WindowCovers ==
  ASSUME ChunkInv, EmitWindow, NEW e \in Nat, e = parent.end, NEW t \in Nat, t < e,
         LastWindow \/ t < child + Step
  PROVE  Found(t)' /\ (parent.start <= t => Whole(t, e)')
<1>1. /\ phase = "windows" /\ conf' = conf /\ failed' = failed
  BY DEF EmitWindow
<1>2. PICK c : c = Chunk(Level, child, ChildEnd, parent.id)
  OBVIOUS
<1>3. /\ c \in Yielded /\ c.level \in {"flat", "child"} /\ c.start = child /\ c.end = ChildEnd
      /\ chunks' = Append(chunks, c)
      /\ ChildEnd \in Nat /\ child < ChildEnd /\ ChildEnd <= parent.end
  BY <1>2, WindowChunk
<1>4. CASE t < child
  <2>1. Found(t) /\ (parent.start <= t => Whole(t, e))
    BY <1>1, <1>4 DEF ChunkInv, NothingLost
  <2> QED BY <2>1, <1>1, <1>3, AtWindow, FoundStays
<1>5. CASE ~(t < child)
  <2>1. child \in Nat /\ conf.overlap \in Nat /\ conf.size \in Nat
    BY <1>1, AtWindow
  <2>2. PICK n \in DOMAIN chunks' : chunks'[n] = c
    <3>1. Len(chunks) + 1 \in DOMAIN chunks' /\ chunks'[Len(chunks) + 1] = c
      BY <1>1, <1>3, AtWindow
    <3> QED BY <3>1
  <2>3. /\ child <= t /\ t + 1 <= ChildEnd
        /\ MinOf(t + conf.overlap + 1, e) <= ChildEnd
    <3>1. CASE LastWindow
      BY <3>1, <1>3, <1>5, <2>1 DEF LastWindow, MinOf
    <3>2. CASE ~LastWindow
      <4>1. ChildEnd = child + conf.size /\ t < child + Step
        BY <3>2, <1>3, <2>1, AtWindow, <1>1 DEF LastWindow, ChildEnd, MinOf
      <4>2. t + conf.overlap + 1 <= ChildEnd
        BY <4>1, <2>1 DEF Step
      <4>3. MinOf(t + conf.overlap + 1, e) <= t + conf.overlap + 1
        BY <2>1 DEF MinOf
      <4>4. MinOf(t + conf.overlap + 1, e) \in Nat
        BY <2>1 DEF MinOf
      <4> QED BY <4>2, <4>3, <4>4, <1>3, <1>5, <2>1
    <3> QED BY <3>1, <3>2
  <2>4. Searchable(c) /\ Holds(c, t, t + 1) /\ Holds(c, t, MinOf(t + conf.overlap + 1, e))
    BY <1>3, <2>3 DEF Searchable, Holds
  <2>5. Found(t)'
    BY <2>2, <2>4 DEF Found
  <2>6. Whole(t, e)'
    BY <2>2, <2>4, <1>1 DEF Whole
  <2> QED BY <2>5, <2>6
<1> QED BY <1>4, <1>5

LEMMA EmitWindowKeeps == ASSUME ChunkInv, EmitWindow PROVE ChunkInv'
<1>1. /\ phase = "windows" /\ child < parent.end
      /\ IF LastWindow THEN phase' = AfterWindows /\ child' = child
         ELSE child' = child + Step /\ phase' = phase
      /\ UNCHANGED <<conf, total, left, from, segments, parent, failed, rows>>
  BY DEF EmitWindow
<1>2. PICK c : c = Chunk(Level, child, ChildEnd, parent.id)
  OBVIOUS
<1>3. /\ c \in Yielded /\ c.level \in {"flat", "child"} /\ c.start = child /\ c.end = ChildEnd
      /\ chunks' = Append(chunks, c) /\ chunks' \in Seq(Yielded)
      /\ ChildEnd \in Nat /\ child < ChildEnd /\ ChildEnd <= parent.end
      /\ ChildEnd <= child + conf.size
      /\ (Reached' \in Nat /\ Split' /\ parent.end <= Reached') => (ChunksRise' /\ TablesSeparate')
  BY <1>2, WindowChunk
<1>4. PICK e \in Nat : e = parent.end
  BY <1>1, AtWindow
<1>5. ChunkTypeOK'
  BY <1>1, <1>3, AtWindow DEF ChunkTypeOK, Phases, AfterWindows, Yielded
<1>6. CASE LastWindow
  <2>1. \A t \in Nat : t < e => Found(t)' /\ (parent.start <= t => Whole(t, e)')
    BY <1>4, <1>6, WindowCovers
  <2>2. Reached' = e /\ Split' /\ NothingLost'
    <3>1. c.level # "parent"
      BY <1>3
    <3> QED BY <1>1, <1>3, <1>4, <1>6, <2>1, <3>1, LeaveWindows
  <2>3. InOrder'
    <3>1. phase' = IF conf.strategy = "fixed" THEN "done" ELSE "segment"
      BY <1>1, <1>6 DEF AfterWindows
    <3>2. conf.strategy = "fixed" => segments = <<>> /\ from = 0
      BY <1>1, AtWindow
    <3>3. segments = <<>> \/ conf.strategy = "dual"
      BY <1>1, <3>2, AtWindow
    <3> QED BY <1>1, <1>4, <2>2, <3>1, <3>2, <3>3, AtWindow DEF InOrder
  <2>4. ChunksRise' /\ TablesSeparate'
    BY <1>3, <1>4, <2>2
  <2>5. WindowNext'
    BY <1>1, <1>6 DEF WindowNext, AfterWindows
  <2> QED BY <1>5, <2>2, <2>3, <2>4, <2>5 DEF ChunkInv
<1>7. CASE ~LastWindow
  <2>1. Reached' = Reached /\ Reached \in Nat /\ Reached = parent.end /\ Split'
    BY <1>1, <1>7, AtWindow DEF Reached, Split
  <2>2. InOrder'
    BY <1>1, <1>7, <2>1, AtWindow DEF InOrder
  <2>3. ChunksRise' /\ TablesSeparate'
    BY <1>3, <2>1
  <2>4. \A i \in DOMAIN chunks' :
          \/ i \in DOMAIN chunks /\ chunks'[i] = chunks[i]
          \/ i = Len(chunks) + 1 /\ chunks'[i] = c
    BY <1>1, <1>3, AtWindow
  <2>5. WindowNext'
    <3>1. ASSUME NEW i \in DOMAIN chunks'
          PROVE  /\ Leaf(chunks'[i]) => /\ chunks'[i].start < child + Step
                                        /\ chunks'[i].end < parent.end
                                        /\ chunks'[i].end < child + Step + conf.size
                 /\ chunks'[i].level = "table" => chunks'[i].end <= parent.start
      <4>1. CASE i \in DOMAIN chunks /\ chunks'[i] = chunks[i]
        <5>1. chunks[i] \in Yielded
          BY <4>1, <1>1, AtWindow
        <5>2. chunks[i].start \in Nat /\ chunks[i].end \in Nat
          BY <5>1 DEF Yielded
        <5>3. /\ Leaf(chunks[i]) => /\ chunks[i].start < child
                                    /\ chunks[i].end < parent.end
                                    /\ chunks[i].end < child + conf.size
              /\ chunks[i].level = "table" => chunks[i].end <= parent.start
          BY <1>1, <4>1 DEF ChunkInv, WindowNext
        <5> QED BY <4>1, <5>2, <5>3, <1>1, AtWindow
      <4>2. CASE chunks'[i] = c
        <5>1. c.start < child + Step /\ c.end < parent.end /\ c.end < child + Step + conf.size
          BY <1>1, <1>3, <1>7, AtWindow DEF LastWindow
        <5>2. c.level # "table"
          BY <1>3
        <5> QED BY <4>2, <5>1, <5>2
      <4> QED BY <4>1, <4>2, <2>4
    <3>2. parent.start < parent.end /\ parent.start <= child + Step
      BY <1>1, AtWindow
    <3>3. IF conf.strategy = "fixed" THEN parent.start = 0 /\ parent.end = total
          ELSE \E i \in DOMAIN chunks' :
                  chunks'[i] = Chunk("parent", parent.start, parent.end, parent.id)
      <4>1. \A i \in DOMAIN chunks : i \in DOMAIN chunks' /\ chunks'[i] = chunks[i]
        BY <1>1, <1>3, AtWindow
      <4> QED BY <4>1, <1>1 DEF ChunkInv, WindowNext
    <3> QED BY <1>1, <1>7, <3>1, <3>2, <3>3 DEF WindowNext
  <2>6. NothingLost'
    <3>1. \A t \in Nat : t < parent'.end /\ t < child' =>
            Found(t)' /\ (parent'.start <= t => Whole(t, parent.end)')
      BY <1>1, <1>4, <1>7, WindowCovers
    <3>2. ASSUME NEW i \in DOMAIN chunks', chunks'[i].level = "parent",
                 chunks'[i].start # parent.start,
                 NEW t \in Nat, chunks'[i].start <= t, t < chunks'[i].end
          PROVE  Whole(t, chunks[i].end)'
      <4>1. i \in DOMAIN chunks /\ chunks'[i] = chunks[i]
        BY <2>4, <3>2, <1>3
      <4>2. chunks[i] \in Yielded
        BY <4>1, <1>1, AtWindow
      <4>3. PICK f \in Nat : f = chunks[i].end
        BY <4>2 DEF Yielded
      <4>4. Whole(t, f)
        BY <3>2, <4>1, <4>3 DEF ChunkInv, NothingLost
      <4>5. Whole(t, f)'
        BY <4>4, <1>1, <1>3, AtWindow, FoundStays
      <4>6. chunks'[i].end = f
        BY <4>1, <4>3
      <4> QED BY <4>5, <4>6
    <3> QED BY <1>1, <1>7, <3>1, <3>2 DEF NothingLost
  <2> QED BY <1>5, <2>2, <2>3, <2>5, <2>6 DEF ChunkInv
<1> QED BY <1>6, <1>7
LEMMA StoreKeeps == ASSUME ChunkInv, Store PROVE ChunkInv'
<1>1. /\ phase = "done" /\ phase' = "stored"
      /\ rows' = [i \in DOMAIN chunks |-> StoredRow(chunks[i])]
      /\ UNCHANGED <<conf, total, left, from, segments, parent, child, chunks, failed>>
  BY DEF Store
<1>2. ChunkTypeOK /\ chunks \in Seq(Yielded) /\ Reached \in Nat
  BY Types DEF ChunkInv
<1>3. ASSUME NEW id PROVE StoredParent(id) \in Nat
  <2> DEFINE at == {i \in DOMAIN chunks : chunks[i].level = "parent" /\ chunks[i].id = id}
  <2>1. \A i \in at : i \in Nat
    BY <1>2
  <2>2. at # {} => (CHOOSE i \in at : TRUE) \in at
    OBVIOUS
  <2>3. StoredParent(id) = IF at = {} THEN NoId ELSE CHOOSE i \in at : TRUE
    BY DEF StoredParent
  <2> HIDE DEF at
  <2> QED BY <2>1, <2>2, <2>3 DEF NoId
<1>4. rows' \in Seq([level : Levels, start : Nat, end : Nat, parent : Nat])
  <2>1. ASSUME NEW i \in DOMAIN chunks
        PROVE  StoredRow(chunks[i]) \in [level : Levels, start : Nat, end : Nat, parent : Nat]
    <3>1. chunks[i] \in Yielded
      BY <1>2
    <3> QED BY <3>1, <1>3 DEF StoredRow, Yielded, NoId
  <2>2. DOMAIN chunks = 1..Len(chunks) /\ Len(chunks) \in Nat
    BY <1>2
  <2> QED BY <1>1, <2>1, <2>2
<1>5. ChunkTypeOK'
  BY <1>1, <1>2, <1>4 DEF ChunkTypeOK, Phases
<1>6. Reached' = Reached /\ Split /\ Split'
  BY <1>1 DEF Reached, Split
<1>7. InOrder'
  <2>1. rows' = [i \in DOMAIN chunks' |-> StoredRow(chunks[i])']
    BY <1>1 DEF StoredRow, StoredParent
  <2> QED BY <1>1, <1>6, <2>1 DEF ChunkInv, InOrder, Split
<1>8. ChunksRise' /\ TablesSeparate'
  BY <1>1, <1>2, <1>6, SameChunks DEF ChunkInv
<1>9. WindowNext'
  BY <1>1 DEF WindowNext
<1>10. NothingLost'
  BY <1>1, <1>6 DEF ChunkInv, NothingLost, Found, Whole
<1> QED BY <1>5, <1>7, <1>8, <1>9, <1>10 DEF ChunkInv

LEMMA NoTextKeeps == ASSUME ChunkInv, NoText PROVE ChunkInv'
<1>1. /\ phase = "done" /\ phase' = "no_text" /\ chunks = <<>>
      /\ UNCHANGED <<conf, total, left, from, segments, parent, child, chunks, failed, rows>>
  BY DEF NoText
<1>2. ChunkTypeOK' /\ ChunkTypeOK
  BY <1>1 DEF ChunkInv, ChunkTypeOK, Phases
<1>3. Reached' = Reached /\ Split /\ Split'
  BY <1>1 DEF Reached, Split
<1>4. InOrder'
  BY <1>1, <1>3 DEF ChunkInv, InOrder, Split
<1>5. ChunksRise' /\ TablesSeparate'
  BY <1>1, <1>2, SameChunks DEF ChunkInv
<1>6. WindowNext'
  BY <1>1 DEF WindowNext
<1>7. NothingLost'
  BY <1>1, <1>3 DEF ChunkInv, NothingLost, Found, Whole
<1> QED BY <1>2, <1>4, <1>5, <1>6, <1>7 DEF ChunkInv

\* Before anything is read nothing is there.
LEMMA InitChunkInv == ChunkInit => ChunkInv
<1> SUFFICES ASSUME ChunkInit PROVE ChunkInv
  OBVIOUS
<1>1. /\ conf \in [strategy : {"fixed", "dual"}, size : Sizes, overlap : Overlaps]
      /\ phase = (IF conf.overlap < conf.size THEN "reading" ELSE "refused")
      /\ left \in Nat /\ total = 0 /\ from = 0 /\ child = 0
      /\ segments = <<>> /\ parent = NoSection
      /\ chunks = <<>> /\ failed = {} /\ rows = <<>>
  BY ChunkingAssumption DEF ChunkInit, Accepts
<1>2. ChunkTypeOK
  BY <1>1 DEF ChunkTypeOK, NoSection, NoId, Section, Phases
<1>3. phase \in {"reading", "refused"} /\ ~Split
  BY <1>1 DEF Split
<1>4. InOrder
  BY <1>1, <1>3 DEF InOrder, Line
<1>5. ChunksRise /\ TablesSeparate
  BY <1>1 DEF ChunksRise, TablesSeparate
<1>6. WindowNext
  BY <1>3 DEF WindowNext
<1>7. NothingLost
  BY <1>1, <1>3 DEF NothingLost, Split
<1> QED BY <1>2, <1>4, <1>5, <1>6, <1>7 DEF ChunkInv

LEMMA NextChunkInv == ChunkInv /\ [ChunkNext]_chunkVars => ChunkInv'
<1> SUFFICES ASSUME ChunkInv, [ChunkNext]_chunkVars PROVE ChunkInv'
  OBVIOUS
<1>1. CASE UNCHANGED chunkVars
  <2>1. /\ UNCHANGED <<conf, phase, total, left, from, segments, parent, child>>
        /\ UNCHANGED <<chunks, failed, rows>>
    BY <1>1 DEF chunkVars
  <2>2. ChunkTypeOK'
    BY <2>1 DEF ChunkInv, ChunkTypeOK
  <2>3. Reached' = Reached /\ Split' = Split
    BY <2>1 DEF Reached, Split
  <2>4. InOrder'
    <3>1. \A c : StoredRow(c)' = StoredRow(c)
      BY <2>1 DEF StoredRow, StoredParent
    <3> QED BY <2>1, <2>3, <3>1 DEF ChunkInv, InOrder, StoredRow, StoredParent
  <2>5. ChunksRise'
    BY <2>1, <2>3 DEF ChunkInv, ChunksRise
  <2>6. WindowNext'
    BY <2>1 DEF ChunkInv, WindowNext
  <2>7. NothingLost'
    BY <2>1, <2>3 DEF ChunkInv, NothingLost, Found, Whole
  <2>8. TablesSeparate'
    BY <2>1 DEF ChunkInv, TablesSeparate
  <2> QED BY <2>2, <2>4, <2>5, <2>6, <2>7, <2>8 DEF ChunkInv
<1>2. CASE ChunkNext
  BY <1>2, ReadTextKeeps, ReadTableKeeps, ReadMarkerKeeps, EndOfElementsKeeps,
     EmitTableKeeps, EmitParentKeeps, ParentFailsKeeps, EndOfSegmentsKeeps,
     EmitWindowKeeps, WindowFailsKeeps, EndOfWindowsKeeps, StoreKeeps, NoTextKeeps
     DEF ChunkNext
<1> QED BY <1>1, <1>2

LEMMA ChunkInvHolds == ChunkSpec => []ChunkInv
BY InitChunkInv, NextChunkInv, PTL DEF ChunkSpec

\* A search leaves the chunks alone, so what holds of chunking holds beside it.
LEMMA SearchLeavesChunks == SearchSpec => ChunkSpec
<1>1. SearchInit => ChunkInit
  BY DEF SearchInit
<1>2. [SearchNext]_allVars => [ChunkNext]_chunkVars
  BY DEF SearchNext, allVars, DenseOnly, SearchDense, SearchSparse
<1> QED BY <1>1, <1>2, PTL DEF SearchSpec, ChunkSpec

\* What is stored has the levels and places of what was yielded.
LEMMA StoredRows ==
  ASSUME ChunkInv, phase = "stored"
  PROVE  /\ DOMAIN rows = DOMAIN chunks
         /\ \A i \in DOMAIN rows : /\ rows[i].level = chunks[i].level
                                   /\ rows[i].start = chunks[i].start
                                   /\ rows[i].end = chunks[i].end
BY DEF ChunkInv, InOrder, StoredRow

(* For any document and any size and overlap: each token is in a searchable *)
(* chunk and each stretch of at most overlap + 1 tokens of a section is     *)
(* whole in one, unless a part of it was reported as not decodable.         *)
THEOREM TextIsKept == SearchSpec => []TextIsWhole
<1>1. ChunkInv => TextIsWhole
  <2> SUFFICES ASSUME ChunkInv PROVE TextIsWhole
    OBVIOUS
  <2>1. ASSUME phase \in {"stored", "no_text"} PROVE Reached = total /\ Split
    BY <2>1 DEF ChunkInv, InOrder, Reached, Split
  <2>2. ASSUME NEW t \in Nat, NEW e \in Nat, phase = "stored", Whole(t, e)
        PROVE  LET stop == MinOf(t + conf.overlap + 1, e) IN
               \/ \E i \in DOMAIN rows : Searchable(rows[i]) /\ Holds(rows[i], t, stop)
               \/ \E x \in failed : ~(x.end <= t \/ stop <= x.start)
    BY <2>2, StoredRows DEF Whole, Searchable, Holds
  <2>3. ASSUME phase = "stored", NEW s \in SectionsOf, NEW t \in s.start..(s.end - 1)
        PROVE  s.end \in Nat /\ t \in Nat /\ Whole(t, s.end)
    <3>1. CASE conf.strategy = "fixed"
      <4>1. s.start = 0 /\ s.end = total /\ total \in Nat
        BY <2>3, <3>1 DEF SectionsOf, Interval, ChunkInv, ChunkTypeOK
      <4>2. t \in Nat /\ t < total
        BY <4>1, <2>3
      <4> QED BY <2>1, <2>3, <3>1, <4>1, <4>2 DEF ChunkInv, NothingLost
    <3>2. CASE conf.strategy # "fixed"
      <4>1. PICK i \in DOMAIN rows : rows[i].level = "parent"
                                     /\ s = Interval(rows[i].start, rows[i].end)
        BY <2>3, <3>2 DEF SectionsOf
      <4>2. /\ i \in DOMAIN chunks /\ chunks[i].level = "parent"
            /\ s.start = chunks[i].start /\ s.end = chunks[i].end
        BY <2>3, <4>1, StoredRows DEF Interval
      <4>3. chunks \in Seq(Yielded)
        BY Types DEF ChunkInv
      <4>4. chunks[i] \in Yielded
        BY <4>2, <4>3
      <4>5. s.start \in Nat /\ s.end \in Nat
        BY <4>2, <4>4 DEF Yielded
      <4>6. t \in Nat /\ s.start <= t /\ t < s.end
        BY <4>5, <2>3
      <4> QED BY <2>3, <4>2, <4>5, <4>6 DEF ChunkInv, NothingLost
    <3> QED BY <3>1, <3>2
  <2>4. NothingCutInTwo
    BY <2>2, <2>3 DEF NothingCutInTwo
  <2>5. ASSUME phase \in {"stored", "no_text"}, NEW t \in 0..(total - 1)
        PROVE  \/ \E i \in DOMAIN rows : Searchable(rows[i]) /\ Holds(rows[i], t, t + 1)
               \/ \E x \in failed : Holds(x, t, t + 1)
    <3>1. total \in Nat
      BY DEF ChunkInv, ChunkTypeOK
    <3>2. t \in Nat /\ t < total
      BY <3>1, <2>5
    <3>3. Found(t)
      BY <2>1, <2>5, <3>2 DEF ChunkInv, NothingLost
    <3>4. CASE phase = "stored"
      BY <3>3, <3>4, StoredRows DEF Found, Searchable, Holds
    <3>5. CASE phase = "no_text"
      BY <3>3, <3>5 DEF Found, ChunkInv, InOrder
    <3> QED BY <2>5, <3>4, <3>5
  <2>6. EveryTokenIsFound
    BY <2>5 DEF EveryTokenIsFound
  <2> QED BY <2>4, <2>6 DEF TextIsWhole
<1> QED BY <1>1, ChunkInvHolds, SearchLeavesChunks, PTL

(* The parent stored with a child is a parent chunk before it that contains *)
(* its text, nothing else has a parent, and a table stands between the      *)
(* texts around it.                                                         *)
THEOREM ParentsEnclose == SearchSpec => []ChunksInPlace
<1>1. ChunkInv => ChunksInPlace
  <2> SUFFICES ASSUME ChunkInv, NEW i \in DOMAIN rows
               PROVE  IF rows[i].level = "child"
                        THEN LET p == rows[i].parent IN
                               /\ p \in 1..(i - 1) /\ rows[p].level = "parent"
                               /\ Holds(rows[p], rows[i].start, rows[i].end)
                        ELSE rows[i].parent = NoId
    BY DEF ChunksInPlace, ParentEncloses, ChunkInv
  <2>1. phase = "stored" /\ rows = [k \in DOMAIN chunks |-> StoredRow(chunks[k])]
    BY DEF ChunkInv, InOrder
  <2>2. chunks \in Seq(Yielded) /\ i \in DOMAIN chunks
    BY <2>1, Types DEF ChunkInv
  <2>3. CASE chunks[i].level # "child"
    BY <2>1, <2>2, <2>3 DEF StoredRow
  <2>4. CASE chunks[i].level = "child"
    <3> DEFINE at == {k \in DOMAIN chunks : chunks[k].level = "parent"
                                            /\ chunks[k].id = chunks[i].id}
    <3>1. PICK p \in 1..(i - 1) : /\ chunks[p].level = "parent"
                                  /\ chunks[p].id = chunks[i].id
                                  /\ Holds(chunks[p], chunks[i].start, chunks[i].end)
      BY <2>2, <2>4 DEF ChunkInv, ChunksRise
    <3>2. p \in DOMAIN chunks /\ p \in Nat /\ p \in at
      BY <2>2, <3>1
    <3>3. ASSUME NEW q \in at PROVE q = p
      <4>1. q \in DOMAIN chunks /\ chunks[q].level = "parent" /\ chunks[q].id = chunks[p].id
        BY <3>1
      <4>2. chunks[p] \in Yielded /\ chunks[q] \in Yielded /\ q \in Nat
        BY <2>2, <3>2, <4>1
      <4>3. chunks[p].id = chunks[p].start + 1 /\ chunks[q].id = chunks[q].start + 1
        BY <3>1, <3>2, <4>1 DEF ChunkInv, ChunksRise
      <4>4. chunks[p].start = chunks[q].start /\ chunks[p].start \in Nat
        BY <4>1, <4>2, <4>3 DEF Yielded
      <4>5. ~(p < q) /\ ~(q < p)
        BY <3>1, <3>2, <4>1, <4>4 DEF ChunkInv, ChunksRise
      <4> QED BY <3>2, <4>2, <4>5
    <3>4. StoredParent(chunks[i].id) = IF at = {} THEN NoId ELSE CHOOSE k \in at : TRUE
      BY DEF StoredParent
    <3> HIDE DEF at
    <3>5. StoredParent(chunks[i].id) = p
      <4>1. (CHOOSE k \in at : TRUE) \in at
        BY <3>2
      <4> QED BY <3>2, <3>3, <3>4, <4>1
    <3>6. /\ rows[i].parent = p /\ rows[i].level = "child" /\ rows[p].level = "parent"
          /\ rows[i].start = chunks[i].start /\ rows[i].end = chunks[i].end
          /\ rows[p].start = chunks[p].start /\ rows[p].end = chunks[p].end
      BY <2>1, <2>2, <2>4, <3>1, <3>2, <3>5 DEF StoredRow
    <3> QED BY <3>1, <3>6 DEF Holds
  <2> QED BY <2>3, <2>4
<1> QED BY <1>1, ChunkInvHolds, SearchLeavesChunks, PTL

(* No searchable text chunk lies inside another.                            *)
THEOREM ChunksDoNotNest == SearchSpec => []NoChunkInAnother
<1>1. ChunkInv => NoChunkInAnother
  <2> SUFFICES ASSUME ChunkInv, NEW i \in DOMAIN chunks, NEW j \in DOMAIN chunks, i # j,
                      chunks[i].level \in {"flat", "child"},
                      chunks[j].level \in {"flat", "child"}
               PROVE  ~Holds(chunks[i], chunks[j].start, chunks[j].end)
    BY DEF NoChunkInAnother
  <2>1. chunks \in Seq(Yielded)
    BY Types DEF ChunkInv
  <2>2. chunks[i] \in Yielded /\ chunks[j] \in Yielded /\ i \in Nat /\ j \in Nat
    BY <2>1
  <2>3. /\ chunks[i].start \in Nat /\ chunks[i].end \in Nat
        /\ chunks[j].start \in Nat /\ chunks[j].end \in Nat
    BY <2>2 DEF Yielded
  <2>4. CASE i < j
    BY <2>3, <2>4 DEF ChunkInv, ChunksRise, Leaf, Holds
  <2>5. CASE j < i
    BY <2>3, <2>5 DEF ChunkInv, ChunksRise, Leaf, Holds
  <2> QED BY <2>2, <2>4, <2>5
<1> QED BY <1>1, ChunkInvHolds, SearchLeavesChunks, PTL

(***************************************************************************)
(* A finite set in a strict total order: how many come before an element   *)
(* numbers it.                                                             *)
(***************************************************************************)
StrictOrder(A, R) ==
  /\ R \subseteq A \X A
  /\ \A i \in A : <<i, i>> \notin R
  /\ \A i, j \in A : i # j => <<i, j>> \in R \/ <<j, i>> \in R
  /\ \A i, j, l \in A : <<i, j>> \in R /\ <<j, l>> \in R => <<i, l>> \in R

Number(A, R, i) == Cardinality({j \in A : <<j, i>> \in R})

\* The numbers are 0 to one less than how many there are, each given once, in order.
LEMMA Numbering ==
  ASSUME NEW A, IsFiniteSet(A), NEW R, StrictOrder(A, R)
  PROVE  /\ Cardinality(A) \in Nat
         /\ \A i \in A : Number(A, R, i) \in 0..(Cardinality(A) - 1)
         /\ \A i, j \in A : <<i, j>> \in R => Number(A, R, i) < Number(A, R, j)
         /\ \A i, j \in A : Number(A, R, i) = Number(A, R, j) => i = j
         /\ \A n \in 0..(Cardinality(A) - 1) : \E i \in A : Number(A, R, i) = n
<1> DEFINE n == Cardinality(A)
           Before(i) == {j \in A : <<j, i>> \in R}
<1>1. n \in Nat
  BY FS_CardinalityType
<1>2. ASSUME NEW i \in A
      PROVE  /\ IsFiniteSet(Before(i)) /\ Cardinality(Before(i)) \in Nat
             /\ Cardinality(Before(i)) < n
  <2>1. Before(i) \in SUBSET A /\ i \notin Before(i)
    BY DEF StrictOrder
  <2> HIDE DEF Before
  <2>2. /\ IsFiniteSet(Before(i)) /\ Cardinality(Before(i)) <= n
        /\ n = Cardinality(Before(i)) => A = Before(i)
    BY <2>1, FS_Subset
  <2>3. Cardinality(Before(i)) \in Nat
    BY <2>2, FS_CardinalityType
  <2>4. Cardinality(Before(i)) # n
    BY <2>1, <2>2
  <2> QED BY <1>1, <2>2, <2>3, <2>4
<1>3. ASSUME NEW i \in A, NEW j \in A, <<i, j>> \in R
      PROVE  Cardinality(Before(i)) < Cardinality(Before(j))
  <2>1. Before(i) \in SUBSET Before(j) /\ i \in Before(j) /\ i \notin Before(i)
    BY <1>3 DEF StrictOrder
  <2>2. IsFiniteSet(Before(j)) /\ Cardinality(Before(j)) \in Nat
        /\ Cardinality(Before(i)) \in Nat
    BY <1>2
  <2> HIDE DEF Before
  <2>3. /\ Cardinality(Before(i)) <= Cardinality(Before(j))
        /\ Cardinality(Before(j)) = Cardinality(Before(i)) => Before(j) = Before(i)
    BY <2>1, <2>2, FS_Subset
  <2> QED BY <2>1, <2>2, <2>3
<1> HIDE DEF Before
<1>4. ASSUME NEW i \in A, NEW j \in A, Cardinality(Before(i)) = Cardinality(Before(j))
      PROVE  i = j
  <2>1. <<i, j>> \notin R /\ <<j, i>> \notin R
    BY <1>2, <1>3, <1>4
  <2> QED BY <2>1 DEF StrictOrder
<1>5. ASSUME NEW m \in 0..(n - 1) PROVE \E i \in A : Cardinality(Before(i)) = m
  <2> SUFFICES ASSUME \A i \in A : Cardinality(Before(i)) # m PROVE FALSE
    OBVIOUS
  <2> DEFINE T == (0..(n - 1)) \ {m}
             f == [i \in A |-> Cardinality(Before(i))]
  <2>1. IsFiniteSet(0..(n - 1)) /\ Cardinality(0..(n - 1)) = n
    BY <1>1, FS_Interval
  <2>2. IsFiniteSet(T) /\ Cardinality(T) = n - 1
    <3>1. m \in 0..(n - 1) /\ n \in Nat
      BY <1>1
    <3> HIDE DEF n
    <3>2. IsFiniteSet((0..(n - 1)) \ {m}) /\ Cardinality((0..(n - 1)) \ {m}) = n - 1
      BY <2>1, <3>1, FS_RemoveElement
    <3> QED BY <3>2
  <2>3. f \in [A -> T]
    <3>1. ASSUME NEW i \in A PROVE Cardinality(Before(i)) \in T
      BY <1>1, <1>2
    <3> QED BY <3>1
  <2>4. \A i \in A : f[i] = Cardinality(Before(i))
    OBVIOUS
  <2> HIDE DEF T, f
  <2>5. Cardinality(T) < Cardinality(A)
    BY <1>1, <2>2
  <2>6. \E i, j \in A : i # j /\ f[i] = f[j]
    BY <2>2, <2>3, <2>5, FS_PigeonHole
  <2> QED BY <1>4, <2>4, <2>6
<1>6. \A i : Number(A, R, i) = Cardinality(Before(i))
  BY DEF Number, Before
<1> HIDE DEF n
<1>7. \A i \in A : Number(A, R, i) \in 0..(n - 1)
  BY <1>1, <1>2, <1>6
<1>8. \A i, j \in A : <<i, j>> \in R => Number(A, R, i) < Number(A, R, j)
  BY <1>3, <1>6
<1>9. \A i, j \in A : Number(A, R, i) = Number(A, R, j) => i = j
  BY <1>4, <1>6
<1>10. \A m \in 0..(n - 1) : \E i \in A : Number(A, R, i) = m
  BY <1>5, <1>6
<1> QED BY <1>1, <1>7, <1>8, <1>9, <1>10 DEF n

(***************************************************************************)
(* The comparison of scores, cleared of fractions: a pair of ranks x, y    *)
(* scores 1/x + 1/y, so (x + y) / (x * y).                                 *)
(***************************************************************************)
Positive == Nat \ {0}

\* Positive numbers multiply to positive ones, and multiplying keeps an order.
LEMMA TimesPositive ==
  ASSUME NEW a \in Positive, NEW b \in Positive PROVE a * b \in Positive
<1>1. a * b # 0
  BY DEF Positive
<1> QED BY <1>1 DEF Positive

LEMMA TimesKeeps ==
  ASSUME NEW a \in Nat, NEW b \in Nat, NEW c \in Positive
  PROVE  (a * c > b * c <=> a > b) /\ (a * c >= b * c <=> a >= b)
BY DEF Positive

\* Comparing s1/p1 to s2/p2 and s2/p2 to s3/p3 compares s1/p1 to s3/p3.
LEMMA CrossTransitive ==
  ASSUME NEW s1 \in Nat, NEW s2 \in Nat, NEW s3 \in Nat,
         NEW p1 \in Positive, NEW p2 \in Positive, NEW p3 \in Positive,
         s1 * p2 >= s2 * p1, s2 * p3 >= s3 * p2
  PROVE  /\ s1 * p3 >= s3 * p1
         /\ s1 * p2 > s2 * p1 \/ s2 * p3 > s3 * p2 => s1 * p3 > s3 * p1
<1>1. /\ s1 * p2 \in Nat /\ s2 * p1 \in Nat /\ s2 * p3 \in Nat /\ s3 * p2 \in Nat
      /\ s1 * p3 \in Nat /\ s3 * p1 \in Nat
  BY DEF Positive
<1>2. /\ (s1 * p2) * p3 >= (s2 * p1) * p3
      /\ s1 * p2 > s2 * p1 => (s1 * p2) * p3 > (s2 * p1) * p3
  BY <1>1, TimesKeeps
<1>3. /\ (s2 * p3) * p1 >= (s3 * p2) * p1
      /\ s2 * p3 > s3 * p2 => (s2 * p3) * p1 > (s3 * p2) * p1
  BY <1>1, TimesKeeps
<1>4. /\ (s1 * p2) * p3 = (s1 * p3) * p2 /\ (s2 * p1) * p3 = (s2 * p3) * p1
      /\ (s3 * p2) * p1 = (s3 * p1) * p2
  BY DEF Positive
<1>5. /\ (s1 * p3) * p2 \in Nat /\ (s3 * p1) * p2 \in Nat /\ (s2 * p3) * p1 \in Nat
  BY <1>1 DEF Positive
<1>6. /\ (s1 * p3) * p2 >= (s3 * p1) * p2
      /\ s1 * p2 > s2 * p1 \/ s2 * p3 > s3 * p2 => (s1 * p3) * p2 > (s3 * p1) * p2
  BY <1>2, <1>3, <1>4, <1>5
<1> QED BY <1>1, <1>6, TimesKeeps

Sum(a, b) == 2 * RrfK + a + b
Product(a, b) == (RrfK + a) * (RrfK + b)

\* Better compares the fractions, each numerator times the other denominator.
LEMMA BetterIsCross ==
  ASSUME NEW a \in Positive, NEW b \in Positive, NEW c \in Positive, NEW d \in Positive
  PROVE  /\ Sum(a, b) \in Nat /\ Product(a, b) \in Positive
         /\ Better(a, b, c, d) <=> Sum(a, b) * Product(c, d) > Sum(c, d) * Product(a, b)
<1>1. RrfK \in Nat
  BY SearchAssumption
<1>2. /\ RrfK + a \in Positive /\ RrfK + b \in Positive
      /\ RrfK + c \in Positive /\ RrfK + d \in Positive
  BY <1>1 DEF Positive
<1>3. Sum(a, b) \in Nat /\ Sum(c, d) \in Nat
  BY <1>1 DEF Sum, Positive
<1>4. Product(a, b) \in Positive
  BY <1>2, TimesPositive DEF Product
<1>5. /\ Sum(a, b) * ((RrfK + c) * (RrfK + d)) = Sum(a, b) * (RrfK + c) * (RrfK + d)
      /\ Sum(c, d) * ((RrfK + a) * (RrfK + b)) = Sum(c, d) * (RrfK + a) * (RrfK + b)
  BY <1>2, <1>3 DEF Positive
<1> QED BY <1>3, <1>4, <1>5 DEF Better, Sum, Product

\* A rank that is lower in one list and no higher in the other is better.
LEMMA LowerIsBetter ==
  ASSUME NEW a \in Positive, NEW b \in Positive, NEW c \in Positive, NEW d \in Positive,
         a <= c, b <= d, a < c \/ b < d
  PROVE  Better(a, b, c, d)
<1> DEFINE x == RrfK + a
           y == RrfK + b
           z == RrfK + c
           w == RrfK + d
<1>1. /\ x \in Positive /\ y \in Positive /\ z \in Positive /\ w \in Positive
      /\ x <= z /\ y <= w /\ (x < z \/ y < w) /\ RrfK \in Nat
  BY SearchAssumption DEF Positive
<1>2. /\ 2 * RrfK + a + b = x + y /\ 2 * RrfK + c + d = z + w
  BY <1>1 DEF Positive
<1> HIDE DEF x, y, z, w
<1>3. x * z \in Positive /\ y * w \in Positive
  BY <1>1, TimesPositive
<1>4. /\ w * (x * z) >= y * (x * z) /\ z * (y * w) >= x * (y * w)
      /\ w * (x * z) > y * (x * z) \/ z * (y * w) > x * (y * w)
  BY <1>1, <1>3, TimesKeeps DEF Positive
<1>5. /\ (x + y) * z * w = w * (x * z) + z * (y * w)
      /\ (z + w) * x * y = x * (y * w) + y * (x * z)
  BY <1>1 DEF Positive
<1>6. /\ w * (x * z) \in Nat /\ y * (x * z) \in Nat /\ z * (y * w) \in Nat /\ x * (y * w) \in Nat
  BY <1>1, <1>3 DEF Positive
<1>7. (x + y) * z * w > (z + w) * x * y
  BY <1>4, <1>5, <1>6
<1> QED BY <1>2, <1>7 DEF Better, x, y, z, w

(***************************************************************************)
(* The lists.                                                              *)
(***************************************************************************)
\* A list of rows without repetition.
ListOf(Q, list) == list \in Seq(Q) /\ IsInjective(list)

\* What a read may return is a list of the rows that qualify, as long as LIMIT allows.
LEMMA ListsAre ==
  ASSUME NEW Q, IsFiniteSet(Q), NEW n \in Nat, NEW list \in Lists(Q, n)
  PROVE  ListOf(Q, list) /\ Len(list) = MinOf(n, Cardinality(Q)) /\ Cardinality(Q) \in Nat
<1> DEFINE c == Cardinality(Q)
<1>1. c \in Nat
  BY FS_CardinalityType
<1>2. PICK s \in SetToSeqs(Q) : list = SubSeq(s, 1, MinOf(n, Len(s)))
  BY DEF Lists
<1>3. s \in [1..c -> Q] /\ \A i, j \in 1..c : i # j => s[i] # s[j]
  BY <1>2 DEF SetToSeqs
<1> HIDE DEF c
<1>4. s \in Seq(Q) /\ Len(s) = c
  BY <1>1, <1>3
<1>5. MinOf(n, c) \in Nat /\ MinOf(n, c) <= c
  BY <1>1 DEF MinOf
<1>6. /\ list \in Seq(Q) /\ Len(list) = MinOf(n, c)
      /\ \A i \in 1..MinOf(n, c) : list[i] = s[i]
  BY <1>2, <1>4, <1>5
<1>7. IsInjective(list)
  <2>1. DOMAIN list = 1..MinOf(n, c)
    BY <1>6
  <2>2. \A i \in DOMAIN list : list[i] = s[i] /\ i \in 1..c
    BY <1>1, <1>5, <1>6, <2>1
  <2> QED BY <1>3, <2>2 DEF IsInjective
<1> QED BY <1>1, <1>6, <1>7 DEF ListOf, c

\* The place of a row in a list of rows.
LEMMA PlaceIn ==
  ASSUME NEW Q, NEW list, ListOf(Q, list)
  PROVE  /\ Len(list) \in Nat
         /\ \A r \in 1..Len(list) : Place(list, list[r]) = r
         /\ \A i : IF i \in Range(list) THEN Place(list, i) \in 1..Len(list)
                                             /\ list[Place(list, i)] = i
                   ELSE Place(list, i) = Len(list) + 1
         /\ \A i \in Range(list) : \A k : RankIn(list, i, k) = Place(list, i)
         /\ \A i, k : i \notin Range(list) => RankIn(list, i, k) = DefaultRank(k)
<1>1. Len(list) \in Nat /\ DOMAIN list = 1..Len(list)
  BY DEF ListOf
<1>2. \A i : i \in Range(list) <=> \E r \in DOMAIN list : list[r] = i
  BY DEF Range
<1>3. ASSUME NEW i, i \in Range(list)
      PROVE  /\ Place(list, i) \in 1..Len(list) /\ list[Place(list, i)] = i
             /\ \A k : RankIn(list, i, k) = Place(list, i)
  <2>1. \E r \in DOMAIN list : list[r] = i
    BY <1>2, <1>3
  <2>2. Place(list, i) = CHOOSE r \in DOMAIN list : list[r] = i
    BY <2>1 DEF Place
  <2>3. \A k : RankIn(list, i, k) = CHOOSE r \in DOMAIN list : list[r] = i
    BY <2>1 DEF RankIn
  <2>4. Place(list, i) \in DOMAIN list /\ list[Place(list, i)] = i
    BY <2>1, <2>2
  <2> QED BY <1>1, <2>2, <2>3, <2>4
<1>4. ASSUME NEW i, i \notin Range(list)
      PROVE  Place(list, i) = Len(list) + 1 /\ \A k : RankIn(list, i, k) = DefaultRank(k)
  BY <1>2, <1>4 DEF Place, RankIn
<1>5. ASSUME NEW r \in 1..Len(list) PROVE Place(list, list[r]) = r
  <2>1. list[r] \in Range(list)
    BY <1>1 DEF Range
  <2>2. Place(list, list[r]) \in DOMAIN list /\ list[Place(list, list[r])] = list[r]
    BY <1>1, <1>3, <2>1
  <2> QED BY <1>1, <2>2 DEF ListOf, IsInjective
<1> QED BY <1>1, <1>3, <1>4, <1>5

\* Two rows that stand at one place are both not in the list.
LEMMA PlaceTells ==
  ASSUME NEW Q, NEW list, ListOf(Q, list), NEW i, NEW j, i # j
  PROVE  /\ Place(list, i) \in Positive /\ Place(list, j) \in Positive
         /\ Place(list, i) = Place(list, j) => i \notin Range(list) /\ j \notin Range(list)
<1>1. /\ Len(list) \in Nat
      /\ IF i \in Range(list) THEN Place(list, i) \in 1..Len(list) /\ list[Place(list, i)] = i
         ELSE Place(list, i) = Len(list) + 1
      /\ IF j \in Range(list) THEN Place(list, j) \in 1..Len(list) /\ list[Place(list, j)] = j
         ELSE Place(list, j) = Len(list) + 1
  BY PlaceIn
<1> QED BY <1>1 DEF Positive

\* Ranks agree with places as long as the default rank is behind the list.
LEMMA RankTells ==
  ASSUME NEW Q, NEW list, ListOf(Q, list), NEW k, FetchK(k) \in Nat, Len(list) <= FetchK(k),
         NEW i, NEW j, Place(list, i) <= Place(list, j)
  PROVE  /\ RankIn(list, i, k) \in Positive /\ RankIn(list, j, k) \in Positive
         /\ RankIn(list, i, k) <= RankIn(list, j, k)
         /\ Place(list, i) < Place(list, j) => RankIn(list, i, k) < RankIn(list, j, k)
<1>1. /\ Len(list) \in Nat
      /\ IF i \in Range(list) THEN Place(list, i) \in 1..Len(list) /\ RankIn(list, i, k) = Place(list, i)
         ELSE Place(list, i) = Len(list) + 1 /\ RankIn(list, i, k) = FetchK(k) + 1
      /\ IF j \in Range(list) THEN Place(list, j) \in 1..Len(list) /\ RankIn(list, j, k) = Place(list, j)
         ELSE Place(list, j) = Len(list) + 1 /\ RankIn(list, j, k) = FetchK(k) + 1
  BY PlaceIn DEF DefaultRank
<1> QED BY <1>1 DEF Positive

(***************************************************************************)
(* The order of the answer is a strict total order, so the answer is sorted *)
(* by it.                                                                  *)
(***************************************************************************)
Order(dense, sparse, k) ==
  {p \in AllChunks(dense, sparse) \X AllChunks(dense, sparse) :
     Ahead(dense, sparse, k, p[1], p[2])}

\* The two lists of a request.
TwoLists(Q, dense, sparse, k) ==
  /\ ListOf(Q, dense) /\ ListOf(Q, sparse) /\ FetchK(k) \in Nat
  /\ Len(dense) <= FetchK(k) /\ Len(sparse) <= FetchK(k)

\* The score of a row as a fraction.
Above(dense, sparse, k, i) == Sum(RankIn(dense, i, k), RankIn(sparse, i, k))
Below(dense, sparse, k, i) == Product(RankIn(dense, i, k), RankIn(sparse, i, k))

\* Scores are fractions with positive denominators, and Beats compares them.
LEMMA BeatsIsCross ==
  ASSUME NEW Q, NEW dense, NEW sparse, NEW k, TwoLists(Q, dense, sparse, k), NEW i, NEW j
  PROVE  /\ Above(dense, sparse, k, i) \in Nat /\ Below(dense, sparse, k, i) \in Positive
         /\ Beats(dense, sparse, k, i, j) <=>
              Above(dense, sparse, k, i) * Below(dense, sparse, k, j)
                > Above(dense, sparse, k, j) * Below(dense, sparse, k, i)
<1>1. ListOf(Q, dense) /\ ListOf(Q, sparse) /\ FetchK(k) \in Nat
      /\ Len(dense) <= FetchK(k) /\ Len(sparse) <= FetchK(k)
  BY DEF TwoLists
<1>2. ASSUME NEW x PROVE RankIn(dense, x, k) \in Positive /\ RankIn(sparse, x, k) \in Positive
  <2>1. /\ Len(dense) \in Nat /\ Len(sparse) \in Nat
        /\ Place(dense, x) <= Place(dense, x) /\ Place(sparse, x) <= Place(sparse, x)
    <3>1. /\ Len(dense) \in Nat
          /\ Place(dense, x) \in 1..Len(dense) \/ Place(dense, x) = Len(dense) + 1
      BY <1>1, PlaceIn
    <3>2. /\ Len(sparse) \in Nat
          /\ Place(sparse, x) \in 1..Len(sparse) \/ Place(sparse, x) = Len(sparse) + 1
      BY <1>1, PlaceIn
    <3> QED BY <3>1, <3>2
  <2> QED BY <1>1, <2>1, RankTells
<1>3. /\ RankIn(dense, i, k) \in Positive /\ RankIn(sparse, i, k) \in Positive
      /\ RankIn(dense, j, k) \in Positive /\ RankIn(sparse, j, k) \in Positive
  BY <1>2
<1> QED BY <1>3, BetterIsCross DEF Beats, Above, Below

\* Ahead is a strict total order of what either list holds.
LEMMA AheadOrders ==
  ASSUME NEW Q, NEW dense, NEW sparse, NEW k, TwoLists(Q, dense, sparse, k)
  PROVE  StrictOrder(AllChunks(dense, sparse), Order(dense, sparse, k))
<1> DEFINE A == AllChunks(dense, sparse)
           R == Order(dense, sparse, k)
           s(i) == Above(dense, sparse, k, i)
           p(i) == Below(dense, sparse, k, i)
           D(i) == Place(dense, i)
           S(i) == Place(sparse, i)
<1>1. ListOf(Q, dense) /\ ListOf(Q, sparse)
  BY DEF TwoLists
<1>2. ASSUME NEW i PROVE s(i) \in Nat /\ p(i) \in Positive /\ D(i) \in Nat /\ S(i) \in Nat
  <2>1. s(i) \in Nat /\ p(i) \in Positive
    BY BeatsIsCross
  <2>2. D(i) \in Nat
    <3>1. /\ Len(dense) \in Nat
          /\ Place(dense, i) \in 1..Len(dense) \/ Place(dense, i) = Len(dense) + 1
      BY <1>1, PlaceIn
    <3> QED BY <3>1
  <2>3. S(i) \in Nat
    <3>1. /\ Len(sparse) \in Nat
          /\ Place(sparse, i) \in 1..Len(sparse) \/ Place(sparse, i) = Len(sparse) + 1
      BY <1>1, PlaceIn
    <3> QED BY <3>1
  <2> QED BY <2>1, <2>2, <2>3
<1>3. ASSUME NEW i, NEW j
      PROVE  Beats(dense, sparse, k, i, j) <=> s(i) * p(j) > s(j) * p(i)
  BY BeatsIsCross
<1>4. ASSUME NEW i, NEW j
      PROVE  FilledBefore(dense, sparse, i, j) <=> D(i) < D(j) \/ (D(i) = D(j) /\ S(i) < S(j))
  BY DEF FilledBefore
<1>5. ASSUME NEW i, NEW j
      PROVE  <<i, j>> \in R <=>
               /\ i \in A /\ j \in A
               /\ \/ s(i) * p(j) > s(j) * p(i)
                  \/ ~(s(j) * p(i) > s(i) * p(j)) /\ FilledBefore(dense, sparse, i, j)
  BY <1>3 DEF Order, Ahead
<1>6. R \subseteq A \X A
  BY DEF Order
<1>7. ASSUME NEW i \in A, NEW j \in A, i # j
      PROVE  FilledBefore(dense, sparse, i, j) \/ FilledBefore(dense, sparse, j, i)
  <2>1. D(i) = D(j) => i \notin Range(dense) /\ j \notin Range(dense)
    BY <1>1, <1>7, PlaceTells
  <2>2. S(i) = S(j) => i \notin Range(sparse) /\ j \notin Range(sparse)
    BY <1>1, <1>7, PlaceTells
  <2>3. D(i) # D(j) \/ S(i) # S(j)
    BY <2>1, <2>2 DEF AllChunks
  <2>4. D(i) \in Nat /\ D(j) \in Nat /\ S(i) \in Nat /\ S(j) \in Nat
    BY <1>2
  <2> HIDE DEF D, S
  <2>5. (D(i) < D(j) \/ (D(i) = D(j) /\ S(i) < S(j))) \/ (D(j) < D(i) \/ (D(j) = D(i) /\ S(j) < S(i)))
    BY <2>3, <2>4
  <2> QED BY <1>4, <2>5
<1>8. ASSUME NEW i, NEW j, NEW l,
             FilledBefore(dense, sparse, i, j), FilledBefore(dense, sparse, j, l)
      PROVE  FilledBefore(dense, sparse, i, l)
  <2>1. /\ D(i) \in Nat /\ D(j) \in Nat /\ D(l) \in Nat
        /\ S(i) \in Nat /\ S(j) \in Nat /\ S(l) \in Nat
    BY <1>2
  <2>2. /\ D(i) < D(j) \/ (D(i) = D(j) /\ S(i) < S(j))
        /\ D(j) < D(l) \/ (D(j) = D(l) /\ S(j) < S(l))
    BY <1>4, <1>8
  <2> HIDE DEF D, S
  <2>3. D(i) < D(l) \/ (D(i) = D(l) /\ S(i) < S(l))
    BY <2>1, <2>2
  <2> QED BY <1>4, <2>3
<1>9. ASSUME NEW i PROVE ~FilledBefore(dense, sparse, i, i)
  BY <1>2, <1>4
<1> HIDE DEF s, p, D, S, R, A
<1>10. ASSUME NEW i, NEW j PROVE s(i) * p(j) \in Nat /\ s(j) * p(i) \in Nat
  BY <1>2 DEF Positive
<1>11. ASSUME NEW i \in A PROVE <<i, i>> \notin R
  BY <1>5, <1>9, <1>10
<1>12. ASSUME NEW i \in A, NEW j \in A, i # j PROVE <<i, j>> \in R \/ <<j, i>> \in R
  BY <1>5, <1>7, <1>10, <1>12
<1>13. ASSUME NEW i \in A, NEW j \in A, NEW l \in A, <<i, j>> \in R, <<j, l>> \in R
       PROVE  <<i, l>> \in R
  <2>1. /\ s(i) * p(j) >= s(j) * p(i)
        /\ s(i) * p(j) > s(j) * p(i) \/ FilledBefore(dense, sparse, i, j)
    BY <1>5, <1>10, <1>13
  <2>2. /\ s(j) * p(l) >= s(l) * p(j)
        /\ s(j) * p(l) > s(l) * p(j) \/ FilledBefore(dense, sparse, j, l)
    BY <1>5, <1>10, <1>13
  <2>3. /\ s(i) \in Nat /\ s(j) \in Nat /\ s(l) \in Nat
        /\ p(i) \in Positive /\ p(j) \in Positive /\ p(l) \in Positive
    BY <1>2
  <2>4. /\ s(i) * p(l) >= s(l) * p(i)
        /\ s(i) * p(j) > s(j) * p(i) \/ s(j) * p(l) > s(l) * p(j) => s(i) * p(l) > s(l) * p(i)
    BY <2>1, <2>2, <2>3, CrossTransitive
  <2>5. s(i) * p(l) \in Nat /\ s(l) * p(i) \in Nat
    BY <1>10
  <2>6. ~(s(l) * p(i) > s(i) * p(l))
    BY <2>4, <2>5
  <2>7. s(i) * p(l) > s(l) * p(i) \/ FilledBefore(dense, sparse, i, l)
    BY <2>1, <2>2, <2>4, <1>8
  <2> QED BY <1>5, <2>6, <2>7
<1> QED BY <1>6, <1>11, <1>12, <1>13 DEF StrictOrder, R, A

\* A list over a set that has fewer members repeats one.
LEMMA ListFits ==
  ASSUME NEW Q, IsFiniteSet(Q), NEW list, ListOf(Q, list)
  PROVE  Len(list) <= Cardinality(Q) /\ Len(list) \in Nat /\ Cardinality(Q) \in Nat
<1>1. Len(list) \in Nat /\ DOMAIN list = 1..Len(list) /\ list \in [1..Len(list) -> Q]
  BY DEF ListOf
<1>2. Cardinality(Q) \in Nat
  BY FS_CardinalityType
<1>3. IsFiniteSet(1..Len(list)) /\ Cardinality(1..Len(list)) = Len(list)
  BY <1>1, FS_Interval
<1>4. ASSUME Cardinality(Q) < Len(list) PROVE FALSE
  <2>1. \E a, b \in 1..Len(list) : a # b /\ list[a] = list[b]
    BY <1>1, <1>3, <1>4, FS_PigeonHole
  <2> QED BY <1>1, <2>1 DEF ListOf, IsInjective
<1> QED BY <1>1, <1>2, <1>4

\* The answer is the first top_k of all, numbered by their order.
LEMMA FusedSorts ==
  ASSUME NEW Q, IsFiniteSet(Q), NEW dense, NEW sparse, NEW k \in Nat,
         TwoLists(Q, dense, sparse, k)
  PROVE  LET A == AllChunks(dense, sparse)
             N(i) == Number(A, Order(dense, sparse, k), i)
             ans == Fused(dense, sparse, k)
         IN /\ A \in SUBSET Q /\ IsFiniteSet(A) /\ Cardinality(A) \in Nat
            /\ ListOf(Q, ans) /\ Len(ans) = MinOf(k, Cardinality(A))
            /\ \A i \in A : N(i) \in Nat
            /\ \A i \in A : N(i) < Len(ans) => Place(ans, i) = N(i) + 1
            /\ \A i : i \notin A \/ ~(N(i) < Len(ans)) => Place(ans, i) = Len(ans) + 1
<1> DEFINE A == AllChunks(dense, sparse)
           R == Order(dense, sparse, k)
           N(i) == Number(A, R, i)
           ans == Fused(dense, sparse, k)
           m == MinOf(k, Cardinality(A))
<1>1. A \in SUBSET Q
  <2>1. Range(dense) \subseteq Q
    BY DEF TwoLists, ListOf, Range
  <2>2. Range(sparse) \subseteq Q
    BY DEF TwoLists, ListOf, Range
  <2> QED BY <2>1, <2>2 DEF AllChunks
<1>2. IsFiniteSet(A)
  <2> HIDE DEF A
  <2> QED BY <1>1, FS_Subset
<1>3. StrictOrder(A, R)
  BY AheadOrders
<1>4. ASSUME NEW i \in A
      PROVE  Cardinality({j \in A : Ahead(dense, sparse, k, j, i)}) = N(i)
  <2>1. {j \in A : <<j, i>> \in R} = {j \in A : Ahead(dense, sparse, k, j, i)}
    BY DEF Order
  <2> QED BY <2>1 DEF Number
<1>5. ans = [n \in 1..m |->
              CHOOSE i \in A : Cardinality({j \in A : Ahead(dense, sparse, k, j, i)}) = n - 1]
  BY DEF Fused
<1> HIDE DEF A, R, ans
<1>6. /\ Cardinality(A) \in Nat
      /\ \A i \in A : N(i) \in 0..(Cardinality(A) - 1)
      /\ \A i, j \in A : N(i) = N(j) => i = j
      /\ \A n \in 0..(Cardinality(A) - 1) : \E i \in A : N(i) = n
  BY <1>2, <1>3, Numbering
<1> HIDE DEF N
<1>7. m \in Nat /\ m <= Cardinality(A) /\ m <= k
  BY <1>6 DEF MinOf
<1>8. ASSUME NEW n \in 1..m PROVE ans[n] \in A /\ N(ans[n]) = n - 1
  <2>1. (n - 1) \in 0..(Cardinality(A) - 1)
    BY <1>6, <1>7
  <2>2. \E i \in A : Cardinality({j \in A : Ahead(dense, sparse, k, j, i)}) = n - 1
    BY <1>4, <1>6, <2>1
  <2>3. ans[n] = CHOOSE i \in A : Cardinality({j \in A : Ahead(dense, sparse, k, j, i)}) = n - 1
    BY <1>5
  <2>4. ans[n] \in A /\ Cardinality({j \in A : Ahead(dense, sparse, k, j, ans[n])}) = n - 1
    BY <2>2, <2>3
  <2> QED BY <1>4, <2>4
<1> HIDE DEF m
<1>9. ans \in Seq(Q) /\ Len(ans) = m /\ DOMAIN ans = 1..m
  <2>1. \A n \in 1..m : ans[n] \in Q
    BY <1>1, <1>8
  <2>2. ans \in [1..m -> Q]
    BY <1>5, <2>1
  <2> QED BY <1>7, <2>2
<1>10. IsInjective(ans)
  <2>1. ASSUME NEW a \in 1..m, NEW b \in 1..m, ans[a] = ans[b] PROVE a = b
    BY <1>7, <1>8, <2>1
  <2> QED BY <1>9, <2>1 DEF IsInjective
<1>11. ListOf(Q, ans)
  BY <1>9, <1>10 DEF ListOf
<1>12. ASSUME NEW i \in A, N(i) < m PROVE Place(ans, i) = N(i) + 1
  <2>1. N(i) \in Nat
    BY <1>6
  <2>2. \A x, y \in Nat : x < y => (x + 1) \in 1..y /\ (x + 1) - 1 = x
    OBVIOUS
  <2>3. N(i) + 1 \in 1..m /\ (N(i) + 1) - 1 = N(i)
    BY <1>7, <1>12, <2>1, <2>2
  <2>4. ans[N(i) + 1] \in A /\ N(ans[N(i) + 1]) = N(i)
    BY <1>8, <2>3
  <2>5. ans[N(i) + 1] = i
    BY <1>6, <2>4
  <2>6. Place(ans, ans[N(i) + 1]) = N(i) + 1
    BY <1>9, <1>11, <2>3, PlaceIn
  <2> QED BY <2>5, <2>6
<1>13. ASSUME NEW i, i \notin A \/ ~(N(i) < m) PROVE Place(ans, i) = m + 1
  <2>1. ASSUME i \in Range(ans) PROVE FALSE
    <3>1. PICK n \in 1..m : ans[n] = i
      BY <1>9, <2>1 DEF Range
    <3>2. i \in A /\ N(i) = n - 1
      BY <1>8, <3>1
    <3> QED BY <1>7, <1>13, <3>2
  <2> QED BY <1>9, <1>11, <2>1, PlaceIn
<1>14. \A i \in A : N(i) \in Nat
  BY <1>6
<1> QED BY <1>1, <1>2, <1>6, <1>9, <1>11, <1>12, <1>13, <1>14 DEF A, R, N, ans, m

Agreed(dense, sparse, i, j) ==
  /\ Place(dense, i) <= Place(dense, j)
  /\ Place(sparse, i) <= Place(sparse, j)
  /\ Place(dense, i) < Place(dense, j) \/ Place(sparse, i) < Place(sparse, j)

\* The fused answer is as full as it can be and inverts no agreement.
LEMMA FusedIsFair ==
  ASSUME NEW Q, IsFiniteSet(Q), NEW k \in Nat, FetchK(k) \in Nat, k <= FetchK(k),
         NEW dense, NEW sparse, ListOf(Q, dense), ListOf(Q, sparse),
         Len(dense) = MinOf(FetchK(k), Cardinality(Q)), Len(sparse) <= FetchK(k)
  PROVE  /\ ListOf(Q, Fused(dense, sparse, k))
         /\ Len(Fused(dense, sparse, k)) = MinOf(k, Cardinality(Q))
         /\ \A i, j : Agreed(dense, sparse, i, j) =>
              Place(Fused(dense, sparse, k), i) <= Place(Fused(dense, sparse, k), j)
<1> DEFINE A == AllChunks(dense, sparse)
           R == Order(dense, sparse, k)
           N(i) == Number(A, R, i)
           ans == Fused(dense, sparse, k)
<1>1. Cardinality(Q) \in Nat /\ Len(dense) \in Nat /\ Len(sparse) \in Nat /\ Len(dense) <= FetchK(k)
  BY ListFits DEF MinOf
<1>2. TwoLists(Q, dense, sparse, k)
  BY <1>1 DEF TwoLists
<1>3. /\ A \in SUBSET Q /\ IsFiniteSet(A) /\ Cardinality(A) \in Nat
      /\ ListOf(Q, ans) /\ Len(ans) = MinOf(k, Cardinality(A))
      /\ \A i \in A : N(i) \in Nat
      /\ \A i \in A : N(i) < Len(ans) => Place(ans, i) = N(i) + 1
      /\ \A i : i \notin A \/ ~(N(i) < Len(ans)) => Place(ans, i) = Len(ans) + 1
  BY <1>2, FusedSorts
<1>4. StrictOrder(A, R)
  BY <1>2, AheadOrders
<1>5. \A i : i \in Range(dense) \/ i \in Range(sparse) <=> i \in A
  BY DEF AllChunks
<1>6. \A i, j : i \in A /\ j \in A /\ Ahead(dense, sparse, k, i, j) => <<i, j>> \in R
  BY DEF Order
<1> HIDE DEF A, R, ans
<1>7. \A i, j \in A : <<i, j>> \in R => N(i) < N(j)
  BY <1>3, <1>4, Numbering
<1> HIDE DEF N
<1>8. Len(ans) = MinOf(k, Cardinality(Q))
  <2>1. Cardinality(A) <= Cardinality(Q)
    BY <1>3, FS_Subset
  <2>2. Len(dense) <= Cardinality(A)
    <3>1. Range(dense) \subseteq A
      BY <1>5
    <3>2. ListOf(A, dense)
      BY <3>1 DEF ListOf, Range
    <3> QED BY <1>3, <3>2, ListFits
  <2> QED BY <1>1, <1>3, <2>1, <2>2 DEF MinOf
<1>9. ASSUME NEW i, NEW j, Agreed(dense, sparse, i, j) PROVE Place(ans, i) <= Place(ans, j)
  <2>0. Len(ans) \in Nat
    BY <1>1, <1>8 DEF MinOf
  <2>1. CASE j \notin A
    <3>1. Place(ans, j) = Len(ans) + 1
      BY <1>3, <2>1
    <3>2. Place(ans, i) <= Len(ans) + 1
      BY <1>3, <2>0
    <3> QED BY <3>1, <3>2
  <2>2. CASE i \notin A
    <3>1. Place(dense, i) = Len(dense) + 1 /\ Place(sparse, i) = Len(sparse) + 1
      BY <1>5, <2>2, PlaceIn
    <3>2. Place(dense, j) \in 1..Len(dense) \/ Place(dense, j) = Len(dense) + 1
      BY PlaceIn
    <3>3. Place(sparse, j) \in 1..Len(sparse) \/ Place(sparse, j) = Len(sparse) + 1
      BY PlaceIn
    <3> QED BY <1>1, <1>9, <3>1, <3>2, <3>3 DEF Agreed
  <2>3. CASE i \in A /\ j \in A
    <3>1. /\ RankIn(dense, i, k) \in Positive /\ RankIn(dense, j, k) \in Positive
          /\ RankIn(dense, i, k) <= RankIn(dense, j, k)
          /\ Place(dense, i) < Place(dense, j) => RankIn(dense, i, k) < RankIn(dense, j, k)
      BY <1>1, <1>9, RankTells DEF Agreed
    <3>2. /\ RankIn(sparse, i, k) \in Positive /\ RankIn(sparse, j, k) \in Positive
          /\ RankIn(sparse, i, k) <= RankIn(sparse, j, k)
          /\ Place(sparse, i) < Place(sparse, j) => RankIn(sparse, i, k) < RankIn(sparse, j, k)
      BY <1>1, <1>9, RankTells DEF Agreed
    <3>3. Beats(dense, sparse, k, i, j)
      BY <1>9, <3>1, <3>2, LowerIsBetter DEF Beats, Agreed
    <3>4. <<i, j>> \in R
      BY <1>6, <2>3, <3>3 DEF Ahead
    <3>5. N(i) < N(j) /\ N(i) \in Nat /\ N(j) \in Nat
      BY <1>3, <1>7, <2>3, <3>4
    <3>6. CASE N(j) < Len(ans)
      <4>1. N(i) < Len(ans)
        BY <2>0, <3>5, <3>6
      <4> QED BY <1>3, <2>3, <3>5, <3>6, <4>1
    <3>7. CASE ~(N(j) < Len(ans))
      <4>1. Place(ans, j) = Len(ans) + 1
        BY <1>3, <3>7
      <4>2. Place(ans, i) <= Len(ans) + 1
        BY <1>3, <2>0, <2>3, <3>5
      <4> QED BY <4>1, <4>2
    <3> QED BY <3>6, <3>7
  <2> QED BY <2>1, <2>2, <2>3
<1> QED BY <1>3, <1>8, <1>9 DEF ans

(***************************************************************************)
(* A search: the invariant, beside that of chunking.                       *)
(***************************************************************************)

\* Either list is fetched at least as deep as the answer is long.
LEMMA DeepEnough ==
  ASSUME NEW k \in TopKs
  PROVE  k \in Nat /\ FetchK(k) \in Nat /\ k <= FetchK(k)
BY SearchAssumption DEF FetchK, MinOf

\* What an answer to a request for k of the rows Q must be.
FairAnswer(Q, k, dense, sparse, ans) ==
  /\ \A i, j \in Q : Agreed(dense, sparse, i, j) => Place(ans, i) <= Place(ans, j)
  /\ Len(ans) = MinOf(k, Cardinality(Q))
  /\ IsInjective(ans) /\ Range(ans) \subseteq Q

\* Rows are numbers, so a list of rows is a list of numbers.
LEMMA ListOfMore ==
  ASSUME NEW Q, Q \subseteq Nat, NEW s \in Seq(Q)
  PROVE  s \in Seq(Nat)
<1>1. Len(s) \in Nat /\ s \in [1..Len(s) -> Q]
  OBVIOUS
<1>2. s \in [1..Len(s) -> Nat]
  BY <1>1
<1> QED BY <1>1, <1>2

\* The dense list alone is fair.
LEMMA DenseIsFair ==
  ASSUME NEW Q, IsFiniteSet(Q), NEW k \in Nat, NEW d \in Lists(Q, k)
  PROVE  FairAnswer(Q, k, d, <<>>, d)
<1>1. ListOf(Q, d) /\ Len(d) = MinOf(k, Cardinality(Q))
  BY ListsAre
<1>2. Range(d) \subseteq Q
  BY <1>1 DEF ListOf, Range
<1> QED BY <1>1, <1>2 DEF FairAnswer, Agreed, ListOf

\* So is the fusion of it with any sparse list, or with none.
LEMMA FusionIsFair ==
  ASSUME NEW Q, IsFiniteSet(Q), NEW k \in TopKs, NEW d \in Lists(Q, FetchK(k)),
         NEW s \in Lists(Q, FetchK(k)) \cup {<<>>}
  PROVE  /\ FairAnswer(Q, k, d, s, Fused(d, s, k))
         /\ s \in Seq(Q) /\ Fused(d, s, k) \in Seq(Q)
<1>1. k \in Nat /\ FetchK(k) \in Nat /\ k <= FetchK(k)
  BY DeepEnough
<1>2. ListOf(Q, d) /\ Len(d) = MinOf(FetchK(k), Cardinality(Q))
  BY <1>1, ListsAre
<1>3. ListOf(Q, s) /\ Len(s) <= FetchK(k)
  <2>1. CASE s = <<>>
    BY <1>1, <2>1 DEF ListOf, IsInjective
  <2>2. CASE s \in Lists(Q, FetchK(k))
    <3>1. ListOf(Q, s) /\ Len(s) = MinOf(FetchK(k), Cardinality(Q)) /\ Cardinality(Q) \in Nat
      BY <1>1, <2>2, ListsAre
    <3> QED BY <1>1, <3>1 DEF MinOf
  <2> QED BY <2>1, <2>2
<1> DEFINE ans == Fused(d, s, k)
<1>4. /\ ListOf(Q, ans) /\ Len(ans) = MinOf(k, Cardinality(Q))
      /\ \A i, j : Agreed(d, s, i, j) => Place(ans, i) <= Place(ans, j)
  BY <1>1, <1>2, <1>3, FusedIsFair
<1> HIDE DEF ans
<1>5. Range(ans) \subseteq Q
  BY <1>4 DEF ListOf, Range
<1> QED BY <1>3, <1>4, <1>5 DEF FairAnswer, ListOf, ans

\* The searchable rows are some of finitely many.
LEMMA FiniteRows ==
  ASSUME ChunkInv
  PROVE  IsFiniteSet(SearchableRows) /\ SearchableRows \subseteq Nat
<1>1. Len(rows) \in Nat /\ DOMAIN rows = 1..Len(rows)
  BY DEF ChunkInv, ChunkTypeOK
<1>2. SearchableRows \in SUBSET (1..Len(rows))
  BY <1>1 DEF SearchableRows
<1>3. IsFiniteSet(1..Len(rows))
  BY <1>1, FS_Interval
<1>4. IsFiniteSet(SearchableRows)
  BY <1>2, <1>3, FS_Subset
<1> QED BY <1>2, <1>4

\* Before a request there is nothing to say.
LEMMA InitSearchInv == SearchInit => SearchInv
BY DEF SearchInit, Idle, SearchInv, AnswerIsFair

\* The three steps of a request keep the invariant.
LEMMA DenseOnlyKeeps ==
  ASSUME ChunkInv, SearchInv, NEW k \in TopKs, DenseOnly(k)
  PROVE  SearchInv'
<1> DEFINE Q == SearchableRows
<1>1. IsFiniteSet(Q) /\ Q \subseteq Nat /\ k \in Nat
  BY FiniteRows, DeepEnough
<1>2. phase' = "stored" /\ SearchableRows' = Q
  BY DEF DenseOnly, chunkVars, SearchableRows
<1>3. PICK d \in Lists(Q, k) :
        search' = [step |-> "answered", k |-> k, dense |-> d, sparse |-> <<>>, answer |-> d]
  BY DEF DenseOnly
<1> HIDE DEF Q
<1>4. FairAnswer(Q, k, d, <<>>, d) /\ d \in Seq(Nat)
  <2>1. d \in Seq(Q)
    BY <1>1, <1>3, ListsAre DEF ListOf
  <2>2. d \in Seq(Nat)
    BY <1>1, <2>1, ListOfMore
  <2> QED BY <1>1, <1>3, <2>2, DenseIsFair
<1>5. AnswerIsFair'
  BY <1>2, <1>3, <1>4 DEF AnswerIsFair, FairAnswer, Agreed
<1> QED BY <1>1, <1>2, <1>3, <1>4, <1>5 DEF SearchInv

LEMMA SearchDenseKeeps ==
  ASSUME ChunkInv, SearchInv, NEW k \in TopKs, SearchDense(k)
  PROVE  SearchInv'
<1> DEFINE Q == SearchableRows
<1>1. IsFiniteSet(Q) /\ Q \subseteq Nat /\ k \in Nat /\ FetchK(k) \in Nat
  BY FiniteRows, DeepEnough
<1>2. phase' = "stored" /\ SearchableRows' = Q
  BY DEF SearchDense, chunkVars, SearchableRows
<1>3. PICK d \in Lists(Q, FetchK(k)) :
        search' = [step |-> "dense", k |-> k, dense |-> d, sparse |-> <<>>, answer |-> <<>>]
  BY DEF SearchDense
<1> HIDE DEF Q
<1>4. d \in Seq(Nat)
  <2>1. d \in Seq(Q)
    BY <1>1, <1>3, ListsAre DEF ListOf
  <2> QED BY <1>1, <2>1, ListOfMore
<1> QED BY <1>1, <1>2, <1>3, <1>4 DEF SearchInv, AnswerIsFair

LEMMA SearchSparseKeeps ==
  ASSUME ChunkInv, SearchInv, SearchSparse
  PROVE  SearchInv'
<1> DEFINE Q == SearchableRows
<1>1. IsFiniteSet(Q) /\ Q \subseteq Nat
  BY FiniteRows
<1>2. /\ search.step = "dense" /\ phase = "stored" /\ search.k \in TopKs
      /\ search.dense \in Lists(Q, FetchK(search.k))
  BY DEF SearchSparse, SearchInv
<1>3. phase' = "stored" /\ SearchableRows' = Q
  BY <1>2 DEF SearchSparse, chunkVars, SearchableRows
<1>4. PICK s \in Lists(Q, FetchK(search.k)) \cup {<<>>} :
        search' = [search EXCEPT !.step = "answered", !.sparse = s,
                                 !.answer = Fused(search.dense, s, search.k)]
  BY DEF SearchSparse
<1> HIDE DEF Q
<1>5. /\ FairAnswer(Q, search.k, search.dense, s, Fused(search.dense, s, search.k))
      /\ s \in Seq(Nat) /\ Fused(search.dense, s, search.k) \in Seq(Nat)
  BY <1>1, <1>2, <1>4, FusionIsFair, ListOfMore
<1>6. /\ search' \in [step : {"idle", "dense", "answered"}, k : Nat,
                      dense : Seq(Nat), sparse : Seq(Nat), answer : Seq(Nat)]
      /\ search'.step = "answered" /\ search'.k = search.k
      /\ search'.dense = search.dense /\ search'.sparse = s
      /\ search'.answer = Fused(search.dense, s, search.k)
  BY <1>4, <1>5 DEF SearchInv
<1>7. AnswerIsFair'
  BY <1>3, <1>5, <1>6 DEF AnswerIsFair, FairAnswer, Agreed
<1> QED BY <1>3, <1>6, <1>7 DEF SearchInv

\* No step of chunking follows a search: the document is stored by then.
LEMMA StoredIsLast == phase = "stored" => ~ChunkNext
BY DEF ChunkNext, ReadText, ReadTable, ReadMarker, EndOfElements, EmitTable, ParentFails,
       EndOfSegments, EmitParent, EndOfWindows, WindowFails, EmitWindow, Store, NoText

\* Every step keeps it: a chunking step finds no request.
LEMMA NextSearchInv == ChunkInv /\ SearchInv /\ [SearchNext]_allVars => SearchInv'
<1> SUFFICES ASSUME ChunkInv, SearchInv, [SearchNext]_allVars PROVE SearchInv'
  OBVIOUS
<1>1. CASE ChunkNext /\ UNCHANGED search
  <2>1. search.step = "idle"
    BY <1>1, StoredIsLast DEF SearchInv
  <2> QED BY <1>1, <2>1 DEF SearchInv, AnswerIsFair
<1>2. CASE \E k \in TopKs : DenseOnly(k) \/ SearchDense(k)
  BY <1>2, DenseOnlyKeeps, SearchDenseKeeps
<1>3. CASE SearchSparse
  BY <1>3, SearchSparseKeeps
<1>4. CASE UNCHANGED allVars
  BY <1>4 DEF allVars, chunkVars, SearchInv, AnswerIsFair, SearchableRows
<1> QED BY <1>1, <1>2, <1>3, <1>4 DEF SearchNext

(* For any document, any top_k and any constant of the fusion: an answer is *)
(* as full as it can be, repeats nothing, holds no parent chunk and never   *)
(* inverts what both lists agree on.                                        *)
THEOREM AnswersAreFair == SearchSpec => []AnswerIsFair
<1>1. SearchSpec => []ChunkInv
  BY ChunkInvHolds, SearchLeavesChunks, PTL
<1>2. SearchInv => AnswerIsFair
  BY DEF SearchInv
<1> QED BY <1>1, <1>2, InitSearchInv, NextSearchInv, PTL DEF SearchSpec

(***************************************************************************)
(* Jobs.  The invariant is inductive: the row and the task of one job are  *)
(* related, no other job matters.                                          *)
(***************************************************************************)

USE NoneAssumption DEF Terminal, Working, Reporting

\* The initial state satisfies the invariant: no row, no task.
LEMMA InitIInv == Init => IInv
  BY DEF Init, IInv, TypeOK, Row, NeverAhead, OutcomeKnown,
         PhaseOnlyWhileProcessing, RowIsHonest

\* The requests touch only rows that are absent and queues.
LEMMA RequestIInv == ASSUME NEW r \in Requests, IInv, Request(r) PROVE IInv'
<1>1. ASSUME NEW j \in Jobs, Accept(r, j) PROVE IInv'
  <2> DEFINE V == [job[j] EXCEPT !.status = "pending"]
  <2>1. job[j] \in Row
    BY DEF IInv, TypeOK
  <2>2. /\ V \in Row /\ V.status = "pending"
        /\ V.phase = job[j].phase /\ V.doc = job[j].doc
    BY <2>1 DEF Row
  <2>3. job' = [job EXCEPT ![j] = V]
    BY <1>1 DEF Accept
  <2> HIDE DEF V
  <2>4. /\ job' \in [Jobs -> Row]
        /\ job'[j] = V
        /\ \A k \in Jobs : k # j => job'[k] = job[k]
    BY <2>2, <2>3 DEF IInv, TypeOK
  <2>5. Append(queue[r], j) \in Seq(Jobs)
    BY DEF IInv, TypeOK
  <2>6. queue' \in [Requests -> Seq(Jobs)]
    BY <1>1, <2>5 DEF Accept, IInv, TypeOK
  <2>7. TypeOK'
    BY <1>1, <2>4, <2>6 DEF Accept, IInv, TypeOK
  <2>8. job[j].phase = None \/ job[j].status = "processing"
    BY DEF IInv, PhaseOnlyWhileProcessing
  <2> QED
    BY <1>1, <2>2, <2>4, <2>7, <2>8
       DEF Accept, IInv, NeverAhead, OutcomeKnown, PhaseOnlyWhileProcessing, RowIsHonest
<1>2. CASE Open(r)
  BY <1>2 DEF Open, IInv, TypeOK, NeverAhead, OutcomeKnown,
             PhaseOnlyWhileProcessing, RowIsHonest
<1>3. CASE Abort(r)
  BY <1>3 DEF Abort, IInv, TypeOK, NeverAhead, OutcomeKnown,
             PhaseOnlyWhileProcessing, RowIsHonest
<1>4. CASE Answer(r)
  BY <1>4 DEF Answer, IInv, TypeOK, NeverAhead, OutcomeKnown,
             PhaseOnlyWhileProcessing, RowIsHonest
<1> QED
  BY <1>1, <1>2, <1>3, <1>4 DEF Request

\* Documents come and go without touching any job.
LEMMA OthersIInv ==
  ASSUME IInv, \/ \E d \in Docs : Delete(d)
               \/ \E S \in SUBSET Docs : Purge(S)
               \/ Crash
  PROVE  IInv'
<1> USE DEF IInv, TypeOK, NeverAhead, OutcomeKnown,
            PhaseOnlyWhileProcessing, RowIsHonest
<1>1. ASSUME NEW d \in Docs, Delete(d) PROVE IInv'
  BY <1>1 DEF Delete
<1>2. ASSUME NEW S \in SUBSET Docs, Purge(S) PROVE IInv'
  BY <1>2 DEF Purge
<1>3. CASE Crash
  BY <1>3 DEF Crash
<1> QED
  BY <1>1, <1>2, <1>3

\* What an update of j's row can have done: written the values, or nothing.
LEMMA Updated ==
  ASSUME TypeOK, NEW j \in Jobs, NEW values \in Row, Update(j, values)
  PROVE  /\ job' \in [Jobs -> Row]
         /\ job'[j] \in {values, job[j]}
         /\ \A k \in Jobs : k # j => job'[k] = job[k]
  BY DEF Update, TypeOK

\* A progress call, with the step of the task it announces.
LEMMA Announced ==
  ASSUME TypeOK, NEW j \in Jobs, NEW ph \in {"extracting", "chunking", "embedding"},
         Processing(j, ph)
  PROVE  /\ job' \in [Jobs -> Row]
         /\ \/ job'[j] = job[j]
            \/ /\ job'[j].status = "processing"
               /\ job'[j].phase = ph
               /\ job'[j].doc = job[j].doc
         /\ \A k \in Jobs : k # j => job'[k] = job[k]
<1> DEFINE V == [job[j] EXCEPT !.status = "processing", !.phase = ph]
<1>0. job[j] \in Row
  BY DEF TypeOK
<1>1. V \in Row /\ V.status = "processing" /\ V.phase = ph /\ V.doc = job[j].doc
  BY <1>0 DEF Row
<1>2. Update(j, V)
  BY DEF Processing
<1> HIDE DEF V
<1> QED
  BY <1>1, <1>2, Updated

\* What the invariant says of job k, given its row, its label and its document.
Own(k, row, label, d) ==
    /\ row.status \in Terminal => label = "ended" /\ row.doc = d
    /\ row.status \in Terminal => (row.status = "indexed" <=> d # None)
    /\ label = "waiting" => row.phase = None
    /\ label \in {"lookups", "extracting"} => row.phase \in {None, "extracting"}
    /\ label = "chunking" => row.phase # "embedding"
    /\ label \in {"extracting", "chunking", "embedding", "indexed"} => d # None
    /\ label = "failed" => d = None
    /\ row.phase # None => row.status = "processing"

\* The invariant is the types and, of each job, Own.
LEMMA Parts == IInv <=> TypeOK /\ \A k \in Jobs : Own(k, job[k], pc[k], got[k])
  BY DEF IInv, Own, NeverAhead, OutcomeKnown, PhaseOnlyWhileProcessing, RowIsHonest

\* A step of j's task that leaves the other jobs alone has only j to answer for.
LEMMA Framed ==
  ASSUME IInv, NEW j \in Jobs, TypeOK', Own(j, job'[j], pc'[j], got'[j]),
         \A k \in Jobs : k # j => job'[k] = job[k] /\ pc'[k] = pc[k] /\ got'[k] = got[k]
  PROVE  IInv'
<1>1. ASSUME NEW k \in Jobs PROVE Own(k, job'[k], pc'[k], got'[k])
  <2>1. CASE k = j
    BY <2>1
  <2>2. CASE k # j
    BY <2>2, Parts
  <2> QED
    BY <2>1, <2>2
<1>2. IInv' <=> TypeOK' /\ \A k \in Jobs : Own(k, job'[k], pc'[k], got'[k])
  BY DEF IInv, Own, NeverAhead, OutcomeKnown, PhaseOnlyWhileProcessing, RowIsHonest
<1> QED
  BY <1>1, <1>2

\* A task keeps the invariant of its own job and leaves the others alone.
LEMMA TaskIInv == ASSUME NEW j \in Jobs, IInv, Task(j) PROVE IInv'
<1>0. TypeOK /\ Own(j, job[j], pc[j], got[j])
  BY Parts
<1>p. ASSUME NEW here \in Working \cup {"waiting"}, NEW to \in Working,
             NEW ph \in {"extracting", "chunking", "embedding"},
             pc[j] = here, Processing(j, ph), Goto(j, to)
      PROVE  /\ job' \in [Jobs -> Row]
             /\ pc' \in [Jobs -> {"waiting", "ended"} \cup Working \cup Reporting]
             /\ pc'[j] = to
             /\ \A k \in Jobs : k # j => job'[k] = job[k] /\ pc'[k] = pc[k]
             /\ \/ job'[j] = job[j]
                \/ job'[j].status = "processing" /\ job'[j].phase = ph
  BY <1>0, <1>p, Announced DEF Goto, TypeOK
<1>1. CASE Begin(j)
  <2>1. TypeOK'
    BY <1>0, <1>1, <1>p DEF Begin, TypeOK
  <2>2. Own(j, job'[j], pc'[j], got'[j])
    BY <1>0, <1>1, <1>p DEF Begin, Own
  <2> QED
    BY <1>1, <1>p, <2>1, <2>2, Framed DEF Begin
<1>2. ASSUME NEW d \in Docs, Known(j, d) PROVE IInv'
  <2>1. TypeOK'
    BY <1>0, <1>2 DEF Known, Goto, TypeOK
  <2>2. Own(j, job'[j], pc'[j], got'[j])
    BY <1>0, <1>2 DEF Known, Goto, Own, TypeOK
  <2> QED
    BY <1>0, <1>2, <2>1, <2>2, Framed DEF Known, Goto, TypeOK
<1>3. ASSUME NEW d \in Docs, Insert(j, d) PROVE IInv'
  <2>1. TypeOK'
    BY <1>0, <1>3, <1>p DEF Insert, TypeOK
  <2>2. Own(j, job'[j], pc'[j], got'[j])
    BY <1>0, <1>3, <1>p DEF Insert, Own, TypeOK
  <2> QED
    BY <1>0, <1>3, <1>p, <2>1, <2>2, Framed DEF Insert, TypeOK
<1>4. CASE OnPhase(j)
  <2>1. ASSUME NEW here \in {"extracting", "chunking"}, NEW to \in {"chunking", "embedding"},
               pc[j] = here, Processing(j, to), Goto(j, to),
               UNCHANGED <<docs, req, queue, got>>,
               here = "extracting" => to = "chunking"
        PROVE  IInv'
    <3>1. /\ job' \in [Jobs -> Row]
          /\ pc' \in [Jobs -> {"waiting", "ended"} \cup Working \cup Reporting]
          /\ pc'[j] = to
          /\ \A k \in Jobs : k # j => job'[k] = job[k] /\ pc'[k] = pc[k]
          /\ \/ job'[j] = job[j]
             \/ job'[j].status = "processing" /\ job'[j].phase = to
      BY <2>1, <1>p
    <3>2. TypeOK'
      BY <1>0, <2>1, <3>1 DEF TypeOK
    <3>3. Own(j, job'[j], pc'[j], got'[j])
      BY <1>0, <2>1, <3>1 DEF Own
    <3> QED
      BY <2>1, <3>1, <3>2, <3>3, Framed
  <2> QED
    BY <1>4, <2>1 DEF OnPhase
<1>5. CASE Stored(j)
  <2>1. TypeOK'
    BY <1>0, <1>5 DEF Stored, Goto, TypeOK
  <2>2. Own(j, job'[j], pc'[j], got'[j])
    BY <1>0, <1>5 DEF Stored, Goto, Own, TypeOK
  <2> QED
    BY <1>0, <1>5, <2>1, <2>2, Framed DEF Stored, Goto, TypeOK
<1>6. CASE Raise(j)
  <2>1. TypeOK'
    BY <1>0, <1>6 DEF Raise, Goto, TypeOK
  <2>2. Own(j, job'[j], pc'[j], got'[j])
    BY <1>0, <1>6 DEF Raise, Goto, Own, TypeOK
  <2> QED
    BY <1>0, <1>6, <2>1, <2>2, Framed DEF Raise, Goto, TypeOK
<1>7. CASE Report(j)
  <2> DEFINE V == [status |-> pc[j], phase |-> None, doc |-> got[j]]
  <2>1. V \in Row /\ V.status = pc[j] /\ V.phase = None /\ V.doc = got[j]
    BY <1>0, <1>7 DEF Report, Row, TypeOK
  <2>2. Update(j, V)
    BY <1>7 DEF Report, Terminate
  <2> HIDE DEF V
  <2>3. /\ job' \in [Jobs -> Row]
        /\ job'[j] \in {V, job[j]}
        /\ \A k \in Jobs : k # j => job'[k] = job[k]
    BY <1>0, <2>1, <2>2, Updated
  <2>4. queue' \in [Requests -> Seq(Jobs)]
    BY <1>0, <1>7 DEF Report, Dequeue, TypeOK
  <2>5. TypeOK'
    BY <1>0, <1>7, <2>3, <2>4 DEF Report, Goto, TypeOK
  <2>6. pc'[j] = "ended" /\ got' = got /\ pc[j] \in Reporting
        /\ \A k \in Jobs : k # j => pc'[k] = pc[k]
    BY <1>0, <1>7 DEF Report, Goto, TypeOK
  <2>7. Own(j, job'[j], pc'[j], got'[j])
    BY <1>0, <2>1, <2>3, <2>6 DEF Own
  <2> QED
    BY <2>3, <2>5, <2>6, <2>7, Framed
<1> QED
  BY <1>1, <1>2, <1>3, <1>4, <1>5, <1>6, <1>7 DEF Task

\* Every step keeps the invariant.
LEMMA NextIInv == IInv /\ [Next]_vars => IInv'
<1> SUFFICES ASSUME IInv, [Next]_vars PROVE IInv'
  OBVIOUS
<1>1. CASE UNCHANGED vars
  BY <1>1 DEF vars, IInv, TypeOK, NeverAhead, OutcomeKnown,
              PhaseOnlyWhileProcessing, RowIsHonest
<1>2. CASE Next
  BY <1>2, RequestIInv, TaskIInv, OthersIInv DEF Next
<1> QED
  BY <1>1, <1>2

\* The invariant holds in every reachable state.
THEOREM Invariant == Spec => []IInv
  BY InitIInv, NextIInv, PTL DEF Spec

\* NFR-010: a phase is shown only while the job is being processed, whichever
\* updates were lost.
THEOREM PhaseShown == Spec => []PhaseOnlyWhileProcessing
<1>1. IInv => PhaseOnlyWhileProcessing
  BY DEF IInv
<1> QED
  BY <1>1, Invariant, PTL

\* A finished row tells the outcome of run_ingest and the document it returned.
THEOREM HonestRows == Spec => []RowIsHonest
<1>1. IInv => RowIsHonest
  BY DEF IInv
<1> QED
  BY <1>1, Invariant, PTL

\* No step changes a finished row.
LEMMA StepFinal ==
  IInv /\ [Next]_vars
    => [\A j \in Jobs : job[j].status \in Terminal => job'[j] = job[j]]_vars
<1> SUFFICES ASSUME IInv, Next, NEW j \in Jobs, job[j].status \in Terminal
             PROVE  job'[j] = job[j]
  BY DEF vars
<1>1. pc[j] = "ended"
  BY DEF IInv, NeverAhead
<1>2. job \in [Jobs -> Row] /\ TypeOK
  BY DEF IInv, TypeOK
<1>3. ASSUME NEW r \in Requests, Request(r) PROVE job'[j] = job[j]
  BY <1>2, <1>3 DEF Request, Open, Accept, Abort, Answer
<1>4. ASSUME NEW k \in Jobs, Task(k) PROVE job'[j] = job[j]
  <2>1. k # j
    BY <1>1, <1>4 DEF Task, Begin, Known, Insert, OnPhase, Stored, Raise, Report
  <2>2. job' = job \/ \E values : job' = [job EXCEPT ![k] = values]
    BY <1>4 DEF Task, Begin, Known, Insert, OnPhase, Stored, Raise, Report,
                Processing, Terminate, Update
  <2> QED
    BY <1>2, <2>1, <2>2
<1>5. CASE \/ \E d \in Docs : Delete(d)
           \/ \E S \in SUBSET Docs : Purge(S)
           \/ Crash
  BY <1>5 DEF Delete, Purge, Crash
<1> QED
  BY <1>3, <1>4, <1>5 DEF Next

\* A finished job stays as it is, for every client that polls it later.
THEOREM FinalStatus == Spec => TerminalFinal
  BY Invariant, StepFinal, PTL DEF Spec, TerminalFinal
=============================================================================
