-------------------------- MODULE CourseAccessProofs --------------------------
(***************************************************************************)
(* Courses on top of namespaces, for any number of handlers, students,     *)
(* namespaces, tokens and conversations, with any defaults and claims.     *)
(***************************************************************************)
EXTENDS CourseAccess, TLAPS

USE DEF Ended, Labels

-----------------------------------------------------------------------------
(* Types.                                                                  *)

LEMMA EmptyTyped == Empty \in Handler
<1>1. (CHOOSE a \in Seats : TRUE) \in Seats /\ (CHOOSE c \in Convs : TRUE) \in Convs
  BY PeopleAssumption
<1>2. NoConfig \in Config
  BY DEF NoConfig, Config
<1> QED
  BY <1>1, <1>2 DEF Empty, Handler, Config, Settings, Values

LEMMA HandlerTyped ==
    ASSUME TypeOK, NEW s \in Slots
    PROVE  slot[s] \in Handler
BY DEF TypeOK

\* A handler that has read setting k.
LEMMA ReadTyped ==
    ASSUME NEW l \in Handler, NEW p \in Labels, NEW k \in Settings, NEW v \in Values
    PROVE  /\ [l EXCEPT !.pc = p, !.got[k] = v] \in Handler
           /\ [l EXCEPT !.pc = p, !.got[k] = v, !.shaky = TRUE] \in Handler
<1>1. [l.got EXCEPT ![k] = v] \in [Settings -> Values \cup {"unset"}]
  BY DEF Handler
<1>2. \A g \in [Settings -> Values \cup {"unset"}] :
        /\ [l EXCEPT !.pc = p, !.got = g] \in Handler
        /\ [l EXCEPT !.pc = p, !.got = g, !.shaky = TRUE] \in Handler
  BY DEF Handler
<1> QED
  BY <1>1, <1>2

LEMMA AnswerTyped ==
    ASSUME TypeOK, NEW s \in Slots, Answer(s)
    PROVE  slot' \in [Slots -> Handler]
BY EmptyTyped DEF TypeOK, Answer

LEMMA OutdateTyped ==
    ASSUME TypeOK, NEW s \in Slots, NEW n, Outdate(s, n)
    PROVE  slot' \in [Slots -> Handler]
<1>1. ASSUME NEW r \in Slots PROVE [slot[r] EXCEPT !.raced = TRUE] \in Handler
  BY HandlerTyped DEF Handler
<1> QED
  BY <1>1, EmptyTyped DEF TypeOK, Outdate

LEMMA TokenNsTyped ==
    ASSUME TypeOK, NEW t \in Tokens
    PROVE  TokenNs(t) \in Namespaces /\ token[t].seat \in Seats
BY CourseAssumption DEF TypeOK, TokenNs

LEMMA EffectiveTyped ==
    ASSUME TypeOK, NEW n, NEW k \in Settings
    PROVE  Effective(n, k) \in Values
BY DefaultsAssumption DEF Effective

LEMMA TypeInvariant == TypeOK /\ [Next]_vars => TypeOK'
<1> SUFFICES ASSUME TypeOK, [Next]_vars PROVE TypeOK'
  OBVIOUS
<1> USE DEF Exists
<1>n. NoConfig \in Config
  BY DEF NoConfig, Config
<1>1. ASSUME NEW n \in Namespaces, CreateNamespace(n) PROVE TypeOK'
  BY <1>1, <1>n DEF CreateNamespace, TypeOK
<1>2. ASSUME NEW n \in Uploads, Ingest(n) PROVE TypeOK'
  BY <1>2, <1>n, RequestsAssumption DEF Ingest, TypeOK
<1>3. ASSUME NEW a \in Seats, Unenroll(a) PROVE TypeOK'
  BY <1>3 DEF Unenroll, TypeOK
<1>4. ASSUME NEW t \in Tokens, Expire(t) PROVE TypeOK'
  BY <1>4 DEF Expire, TypeOK
<1>5. ASSUME NEW t \in Tokens, NEW a \in Seats, NEW n \in Claims, IssueToken(t, a, n) PROVE TypeOK'
  BY <1>5, ClaimsAssumption DEF IssueToken, TypeOK
<1>6. ASSUME NEW c \in Convs, DeleteConversation(c) PROVE TypeOK'
  BY <1>6 DEF DeleteConversation, TypeOK
<1>7. ASSUME NEW s \in Slots, NEW n \in Namespaces, BeginDelete(s, n) PROVE TypeOK'
  <2>1. [Empty EXCEPT !.pc = "drop", !.ns = n] \in Handler
    BY EmptyTyped DEF Handler
  <2> QED
    BY <1>7, <2>1 DEF BeginDelete, TypeOK
<1>8. ASSUME NEW s \in Slots, NEW p \in Patches, BeginPatch(s, p) PROVE TypeOK'
  <2>1. p[1] \in Namespaces /\ <<p[2], p[3]>> \in Settings \X (Values \cup {"unset"})
    BY RequestsAssumption
  <2>2. config[p[1]] \in Config
    BY <1>8, <2>1 DEF BeginPatch, TypeOK
  <2>3. [Empty EXCEPT !.pc = "write", !.ns = p[1], !.body = <<p[2], p[3]>>,
                      !.copy = config[p[1]]] \in Handler
    BY <2>1, <2>2, EmptyTyped DEF Handler
  <2> QED
    BY <1>8, <2>3 DEF BeginPatch, TypeOK
<1>9. ASSUME NEW s \in Slots, NEW a \in Seats, NEW n \in Namespaces, BeginEnroll(s, a, n) PROVE TypeOK'
  <2>1. [Empty EXCEPT !.pc = "insert", !.seat = a, !.ns = n] \in Handler
    BY EmptyTyped DEF Handler
  <2> QED
    BY <1>9, <2>1 DEF BeginEnroll, TypeOK
<1>10. ASSUME NEW s \in Slots, NEW t \in Tokens, NEW c \in Convs, BeginQuery(s, t, c) PROVE TypeOK'
  <2>1. [Empty EXCEPT !.seat = token[t].seat, !.conv = c,
            !.pc = IF RequireEnrollment THEN "lookup" ELSE "ensure",
            !.ns = IF RequireEnrollment THEN None ELSE TokenNs(t)] \in Handler
    BY EmptyTyped, TokenNsTyped DEF Handler
  <2> QED
    BY <1>10, <2>1 DEF BeginQuery, TypeOK
<1>11. ASSUME NEW s \in Slots, NEW t \in Tokens, NEW c \in Convs, BeginTurns(s, t, c) PROVE TypeOK'
  <2>1. [Empty EXCEPT !.seat = token[t].seat, !.conv = c, !.ns = TokenNs(t),
                      !.pc = "metadata"] \in Handler
    BY EmptyTyped, TokenNsTyped DEF Handler
  <2> QED
    BY <1>11, <2>1 DEF BeginTurns, TypeOK
<1>12. ASSUME NEW s \in Slots, Drop(s) PROVE TypeOK'
  <2>1. slot' \in [Slots -> Handler]
    BY <1>12, AnswerTyped, OutdateTyped DEF Drop
  <2> QED
    BY <1>12, <2>1 DEF Drop, TypeOK
<1>13. ASSUME NEW s \in Slots, Patch(s) PROVE TypeOK'
  <2>1. slot' \in [Slots -> Handler]
    BY <1>13, OutdateTyped DEF Patch
  <2>2. config' \in [Namespaces -> Config \cup {None}]
    <3>1. slot[s].copy \in Config /\ slot[s].body[1] \in Settings
          /\ slot[s].body[2] \in Values \cup {"unset"}
      BY HandlerTyped DEF Handler
    <3>2. Merged(slot[s].copy, slot[s].body) \in Config
      BY <3>1 DEF Merged, Config
    <3> QED
      BY <1>13, <3>2 DEF Patch, TypeOK
  <2> QED
    BY <1>13, <2>1, <2>2 DEF Patch, TypeOK
<1>14. ASSUME NEW s \in Slots, Enroll(s) PROVE TypeOK'
  <2>1. slot' \in [Slots -> Handler]
    BY <1>14, AnswerTyped DEF Enroll
  <2>2. slot[s].seat \in Seats /\ slot[s].ns \in Namespaces \cup {None}
    BY DEF TypeOK, Handler
  <2> QED
    BY <1>14, <1>n, <2>1, <2>2 DEF Enroll, EndTransaction, TypeOK
<1>15. ASSUME NEW s \in Slots, RefuseEnroll(s) PROVE TypeOK'
  <2>1. slot' \in [Slots -> Handler]
    BY <1>15, AnswerTyped DEF RefuseEnroll
  <2> QED
    BY <1>15, <2>1 DEF RefuseEnroll, EndTransaction, TypeOK
<1>16. ASSUME NEW s \in Slots, Lookup(s) PROVE TypeOK'
  <2>1. slot[s].seat \in Seats /\ enrolled[slot[s].seat] \in Namespaces \cup {None}
    BY DEF TypeOK, Handler
  <2>2. [slot[s] EXCEPT !.pc = "ensure", !.ns = enrolled[slot[s].seat]] \in Handler
    BY <2>1, HandlerTyped DEF Handler
  <2>3. slot' \in [Slots -> Handler]
    BY <1>16, <2>2, AnswerTyped DEF Lookup, TypeOK
  <2> QED
    BY <1>16, <2>3 DEF Lookup, TypeOK
<1>17. ASSUME NEW s \in Slots, Ensure(s) PROVE TypeOK'
  <2>1. slot[s].seat \in Seats /\ slot[s].ns \in Namespaces \cup {None} /\ slot[s].conv \in Convs
    BY DEF TypeOK, Handler
  <2>r. Reads[1] = "grounding_mode"
    BY DEF Reads
  <2>2. \A b \in BOOLEAN : [slot[s] EXCEPT !.pc = Reads[1], !.shaky = b] \in Handler
    BY <2>r, HandlerTyped DEF Handler, Settings
  <2>3. slot' \in [Slots -> Handler]
    BY <1>17, <2>2 DEF Ensure, TypeOK
  <2>4. conv' \in [Convs -> [state : {"absent", "live", "deleted"}, ns : Namespaces \cup {None},
                             seat : Seats]]
    BY <1>17, <2>1 DEF Ensure, TypeOK
  <2> QED
    BY <1>17, <2>3, <2>4 DEF Ensure, TypeOK
<1>18. ASSUME NEW s \in Slots, NEW i \in 1..3, Resolve(s, i) PROVE TypeOK'
  <2> DEFINE to == IF i = 3 THEN "run" ELSE Reads[i + 1]
  <2>1. Reads[i] \in Settings /\ to \in Labels
    BY DEF Reads, Settings
  <2>2. Effective(slot[s].ns, Reads[i]) \in Values /\ Defaults[Reads[i]] \in Values
    BY <2>1, EffectiveTyped, DefaultsAssumption
  <2> DEFINE h(v) == [slot[s] EXCEPT !.pc = to, !.got[Reads[i]] = v]
             g(v) == [slot[s] EXCEPT !.pc = to, !.got[Reads[i]] = v, !.shaky = TRUE]
  <2>3. PICK v \in Values : \/ slot' = [slot EXCEPT ![s] = h(v)]
                            \/ slot' = [slot EXCEPT ![s] = g(v)]
    BY <1>18, <2>2 DEF Resolve, TypeOK
  <2>4. h(v) \in Handler /\ g(v) \in Handler
    <3> HIDE DEF to
    <3> QED
      BY <2>1, ReadTyped, HandlerTyped
  <2>5. slot' \in [Slots -> Handler]
    <3> HIDE DEF h, g
    <3> QED
      BY <2>3, <2>4 DEF TypeOK
  <2> QED
    BY <1>18, <2>5 DEF Resolve, TypeOK
<1>19. ASSUME NEW s \in Slots, Run(s) PROVE TypeOK'
  <2>1. \A b \in BOOLEAN : [Empty EXCEPT !.pc = "answered", !.conv = slot[s].conv,
            !.shaky = slot[s].shaky, !.kept = b] \in Handler
    BY EmptyTyped DEF TypeOK, Handler
  <2> QED
    BY <1>19, <2>1 DEF Run, TypeOK
<1>20. ASSUME NEW s \in Slots, Metadata(s) PROVE TypeOK'
  <2>1. \A p \in Labels : [slot[s] EXCEPT !.pc = p] \in Handler
    BY HandlerTyped DEF Handler
  <2>2. Answer(s) \/ \E p \in Labels : slot' = [slot EXCEPT ![s] = [slot[s] EXCEPT !.pc = p]]
    BY <1>20, HandlerTyped DEF Metadata, TypeOK, Handler
  <2>3. slot' \in [Slots -> Handler]
    BY <2>1, <2>2, AnswerTyped DEF TypeOK
  <2> QED
    BY <1>20, <2>3 DEF Metadata, TypeOK
<1>21. ASSUME NEW s \in Slots, Turns(s) \/ Fail(s) PROVE TypeOK'
  BY <1>21, AnswerTyped DEF Turns, Fail, TypeOK
<1>22. CASE UNCHANGED vars
  BY <1>22 DEF vars, TypeOK
<1> QED
  BY <1>1, <1>2, <1>3, <1>4, <1>5, <1>6, <1>7, <1>8, <1>9, <1>10, <1>11, <1>12, <1>13, <1>14,
     <1>15, <1>16, <1>17, <1>18, <1>19, <1>20, <1>21, <1>22 DEF Next, Step

-----------------------------------------------------------------------------
(* What a handler knows, from its label.                                   *)

\* The settings read by now.
Done(p) ==
    CASE p = "show_sources" -> {"grounding_mode"}
      [] p = "citations_enabled" -> {"grounding_mode", "show_sources"}
      [] p = "run" -> Settings
      [] OTHER -> {}

Asking == Settings \cup {"run"}

\* A PATCH holds the row as it is, and a query what the row says of the settings
\* it has read, unless they know better; the conversation of a query exists.
Knows(s) ==
    LET h == slot[s] IN
    /\ h.pc \in Asking \cup {"ensure", "write", "insert", "drop"} => h.ns \in Namespaces
    /\ h.pc = "write" /\ ~h.raced => Exists(h.ns) /\ h.copy = config[h.ns]
    /\ ~h.raced /\ ~h.shaky => \A k \in Done(h.pc) : h.got[k] = Effective(h.ns, k)
    /\ h.pc \in Asking /\ ~h.shaky => conv[h.conv].state # "absent"
    /\ h.pc = "answered" => h.kept \/ h.shaky \/ conv[h.conv].state = "deleted"

\* What a step does to a handler it is not a step of: at most it leaves it
\* with something out of date.
Spared(s) ==
    LET h == slot[s] IN
    /\ slot'[s] = h \/ slot'[s] = [h EXCEPT !.raced = TRUE]
    /\ h.pc \in Asking \cup {"write"} =>
         \/ config'[h.ns] = config[h.ns]
         \/ ~Exists(h.ns) /\ config'[h.ns] = NoConfig
         \/ slot'[s].raced

\* A conversation that is there stays, and a deleted one stays deleted.
ConvsGrow ==
    \A c \in Convs : /\ conv[c].state # "absent" => conv'[c].state # "absent"
                     /\ conv[c].state = "deleted" => conv'[c].state = "deleted"

LEMMA EffectiveOfNew ==
    ASSUME NEW n, NEW k \in Settings, ~Exists(n), config'[n] = NoConfig
    PROVE  Effective(n, k)' = Effective(n, k)
BY DEF Effective, Exists

LEMMA EffectiveOfSame ==
    ASSUME NEW n, NEW k, config'[n] = config[n]
    PROVE  Effective(n, k)' = Effective(n, k)
BY DEF Effective, Exists

LEMMA SparedKnows ==
    ASSUME TypeOK, NEW s \in Slots, Knows(s), Spared(s), ConvsGrow
    PROVE  Knows(s)'
<1>h. slot[s] \in Handler
  BY HandlerTyped
<1>1. /\ slot'[s].pc = slot[s].pc /\ slot'[s].ns = slot[s].ns /\ slot'[s].conv = slot[s].conv
      /\ slot'[s].copy = slot[s].copy /\ slot'[s].got = slot[s].got
      /\ slot'[s].kept = slot[s].kept /\ slot'[s].shaky = slot[s].shaky
      /\ slot[s].raced => slot'[s].raced
  BY <1>h DEF Spared, Handler
<1>2. slot[s].conv \in Convs
  BY <1>h DEF Handler
<1>3. ASSUME slot[s].pc = "write", ~slot'[s].raced
      PROVE  Exists(slot[s].ns)' /\ slot[s].copy = config'[slot[s].ns]
  BY <1>1, <1>3 DEF Knows, Spared, Exists
<1>4. ASSUME ~slot'[s].raced, ~slot[s].shaky, NEW k \in Done(slot[s].pc), NEW n, n = slot[s].ns
      PROVE  slot[s].got[k] = Effective(n, k)'
  <2>1. slot[s].pc \in Asking /\ k \in Settings
    BY DEF Done, Asking, Settings
  <2>2. slot[s].got[k] = Effective(slot[s].ns, k)
    BY <1>1, <1>4 DEF Knows
  <2> QED
    BY <1>4, <2>1, <2>2, EffectiveOfNew, EffectiveOfSame DEF Spared
<1>5. \A k \in Done(slot[s].pc) :
         ~slot'[s].raced /\ ~slot[s].shaky => slot[s].got[k] = Effective(slot[s].ns, k)'
  BY <1>1, <1>4 DEF Effective, Exists
<1> QED
  BY <1>1, <1>2, <1>3, <1>5 DEF Knows, ConvsGrow

\* Most steps write one slot and no row.
LEMMA OthersSpared ==
    ASSUME TypeOK, NEW s \in Slots, NEW h, slot' = [slot EXCEPT ![s] = h],
           NEW r \in Slots \ {s},
           \/ UNCHANGED config
           \/ \E n \in Namespaces : ~Exists(n) /\ config' = [config EXCEPT ![n] = NoConfig]
    PROVE  Spared(r)
<1>1. slot'[r] = slot[r]
  BY DEF TypeOK
<1>2. CASE UNCHANGED config
  BY <1>1, <1>2 DEF Spared
<1>3. ASSUME NEW n \in Namespaces, ~Exists(n), config' = [config EXCEPT ![n] = NoConfig]
      PROVE  Spared(r)
  <2>1. slot[r].ns # n => config'[slot[r].ns] = config[slot[r].ns]
    BY <1>3 DEF TypeOK
  <2>2. config'[n] = NoConfig
    BY <1>3 DEF TypeOK
  <2> QED
    BY <1>1, <1>3, <2>1, <2>2 DEF Spared
<1> QED
  BY <1>2, <1>3

LEMMA OutdateSpares ==
    ASSUME TypeOK, NEW s \in Slots, NEW n, Outdate(s, n), NEW r \in Slots \ {s},
           \E v : config' = [config EXCEPT ![n] = v]
    PROVE  Spared(r)
<1>h. slot[r] \in Handler
  BY HandlerTyped
<1>1. PICK v : config' = [config EXCEPT ![n] = v]
  OBVIOUS
<1>2. CASE slot[r].ns = n /\ slot[r].pc \in Asking \cup {"write"}
  <2>1. slot'[r] = [slot[r] EXCEPT !.raced = TRUE]
    BY <1>2 DEF Outdate, Asking
  <2>2. slot'[r].raced
    BY <2>1, <1>h DEF Handler
  <2> QED
    BY <2>1, <2>2 DEF Spared
<1>3. CASE ~(slot[r].ns = n /\ slot[r].pc \in Asking \cup {"write"})
  <2>1. slot'[r] = slot[r]
    BY <1>3 DEF Outdate, Asking
  <2>2. slot[r].ns # n => config'[slot[r].ns] = config[slot[r].ns]
    BY <1>1 DEF TypeOK
  <2> QED
    BY <1>3, <2>1, <2>2 DEF Spared
<1> QED
  BY <1>2, <1>3

LEMMA EmptyKnows ==
    ASSUME NEW s \in Slots, slot'[s] = Empty
    PROVE  Knows(s)'
BY DEF Empty, Knows, Asking, Settings, Done

-----------------------------------------------------------------------------
(* Every step keeps what every handler knows.                              *)

AllKnow == \A s \in Slots : Knows(s)

\* A handler's step that writes no row of namespaces and sets none to new.
LEMMA OwnStep ==
    ASSUME TypeOK, AllKnow, ConvsGrow, NEW s \in Slots, NEW h, slot' = [slot EXCEPT ![s] = h],
           \/ UNCHANGED config
           \/ \E n \in Namespaces : ~Exists(n) /\ config' = [config EXCEPT ![n] = NoConfig],
           Knows(s)'
    PROVE  AllKnow'
<1>1. ASSUME NEW r \in Slots \ {s} PROVE Knows(r)'
  BY OthersSpared, SparedKnows DEF AllKnow
<1> QED
  BY <1>1 DEF AllKnow

LEMMA AnswerStep ==
    ASSUME TypeOK, AllKnow, ConvsGrow, NEW s \in Slots, Answer(s),
           \/ UNCHANGED config
           \/ \E n \in Namespaces : ~Exists(n) /\ config' = [config EXCEPT ![n] = NoConfig]
    PROVE  AllKnow'
<1>1. slot' = [slot EXCEPT ![s] = Empty] /\ slot'[s] = Empty
  BY DEF Answer, TypeOK
<1> QED
  BY <1>1, EmptyKnows, OwnStep

LEMMA OutdateStep ==
    ASSUME TypeOK, AllKnow, ConvsGrow, NEW s \in Slots, NEW n, Outdate(s, n),
           \E v : config' = [config EXCEPT ![n] = v]
    PROVE  AllKnow'
<1>1. ASSUME NEW r \in Slots \ {s} PROVE Knows(r)'
  BY OutdateSpares, SparedKnows DEF AllKnow
<1>2. slot'[s] = Empty
  BY DEF Outdate
<1> QED
  BY <1>1, <1>2, EmptyKnows DEF AllKnow

\* A step of no handler.
LEMMA NoStep ==
    ASSUME TypeOK, AllKnow, ConvsGrow, UNCHANGED slot,
           \/ UNCHANGED config
           \/ \E n \in Namespaces : ~Exists(n) /\ config' = [config EXCEPT ![n] = NoConfig]
    PROVE  AllKnow'
<1>1. ASSUME NEW s \in Slots PROVE slot' = [slot EXCEPT ![s] = slot[s]]
  BY DEF TypeOK
<1>2. ASSUME NEW s \in Slots PROVE Spared(s)
  <2>1. CASE UNCHANGED config
    BY <2>1 DEF Spared
  <2>2. ASSUME NEW n \in Namespaces, ~Exists(n), config' = [config EXCEPT ![n] = NoConfig]
        PROVE  Spared(s)
    BY <2>2 DEF Spared, TypeOK
  <2> QED
    BY <2>1, <2>2
<1> QED
  BY <1>2, SparedKnows DEF AllKnow

LEMMA ResolveStep ==
    ASSUME TypeOK, AllKnow, NEW s \in Slots, NEW i \in 1..3, Resolve(s, i)
    PROVE  AllKnow'
<1> DEFINE k == Reads[i]
           to == IF i = 3 THEN "run" ELSE Reads[i + 1]
           h(v) == [slot[s] EXCEPT !.pc = to, !.got[k] = v]
           g(v) == [slot[s] EXCEPT !.pc = to, !.got[k] = v, !.shaky = TRUE]
           n == slot[s].ns
<1>1. /\ k \in Settings /\ slot[s].pc = k /\ to \in Asking
      /\ Done(to) \subseteq Done(k) \cup {k}
  BY DEF Resolve, Reads, Asking, Done, Settings
<1>2. /\ n \in Namespaces
      /\ ~slot[s].raced /\ ~slot[s].shaky => \A j \in Done(k) : slot[s].got[j] = Effective(n, j)
      /\ ~slot[s].shaky => conv[slot[s].conv].state # "absent"
  BY <1>1 DEF AllKnow, Knows, Asking
<1>3. UNCHANGED <<config, conv>>
  BY DEF Resolve
<1>4. CASE slot' = [slot EXCEPT ![s] = h(Effective(n, k))]
  <2> DEFINE m == h(Effective(n, k))
  <2>1. /\ m.pc = to /\ m.ns = n /\ m.conv = slot[s].conv /\ m.shaky = slot[s].shaky
        /\ m.raced = slot[s].raced /\ m.got = [slot[s].got EXCEPT ![k] = Effective(n, k)]
    <3> HIDE DEF to, k, n
    <3> QED
      BY HandlerTyped DEF Handler, n
  <2>2. slot[s].got \in [Settings -> Values \cup {"unset"}]
    BY HandlerTyped DEF Handler
  <2>3. slot'[s] = m
    BY <1>4 DEF TypeOK
  <2> HIDE DEF m, to, k, n
  <2>4. ASSUME ~m.raced, ~m.shaky, NEW j \in Done(to)
        PROVE  m.got[j] = Effective(n, j)
    BY <1>1, <1>2, <2>1, <2>2, <2>4 DEF Done
  <2>5. Knows(s)'
    BY <1>1, <1>2, <1>3, <2>1, <2>3, <2>4 DEF Knows, Effective, Exists, Asking, Settings
  <2> QED
    BY <1>3, <1>4, <2>5, OwnStep DEF ConvsGrow, m
<1>5. CASE slot' = [slot EXCEPT ![s] = g(Defaults[k])]
  <2> DEFINE m == g(Defaults[k])
  <2>1. m.pc = to /\ m.ns = n /\ m.conv = slot[s].conv /\ m.shaky
    <3> HIDE DEF to, k
    <3> QED
      BY HandlerTyped DEF Handler
  <2>2. slot'[s] = m
    BY <1>5 DEF TypeOK
  <2> HIDE DEF m, to, k, n
  <2>3. Knows(s)'
    BY <1>1, <1>2, <2>1, <2>2 DEF Knows, Asking, Settings
  <2> QED
    BY <1>3, <1>5, <2>3, OwnStep DEF ConvsGrow, m
<1>6. \/ slot' = [slot EXCEPT ![s] = h(Effective(n, k))]
      \/ slot' = [slot EXCEPT ![s] = g(Defaults[k])]
  BY DEF Resolve
<1> QED
  BY <1>4, <1>5, <1>6

LEMMA QueryKnows ==
    ASSUME TypeOK, AllKnow, [Next]_vars
    PROVE  AllKnow'
<1>g. UNCHANGED conv => ConvsGrow
  BY DEF ConvsGrow
<1>1. ASSUME NEW n \in Namespaces, CreateNamespace(n) PROVE AllKnow'
  BY <1>1, <1>g, NoStep DEF CreateNamespace
<1>2. ASSUME NEW n \in Uploads, Ingest(n) PROVE AllKnow'
  <2>1. n \in Namespaces
    BY RequestsAssumption
  <2>2. UNCHANGED config \/ (~Exists(n) /\ config' = [config EXCEPT ![n] = NoConfig])
    BY <1>2, <2>1 DEF Ingest, TypeOK
  <2> QED
    BY <1>2, <2>1, <2>2, <1>g, NoStep DEF Ingest
<1>3. ASSUME NEW a \in Seats, Unenroll(a) PROVE AllKnow'
  BY <1>3, <1>g, NoStep DEF Unenroll
<1>4. ASSUME NEW t \in Tokens, Expire(t) PROVE AllKnow'
  BY <1>4, <1>g, NoStep DEF Expire
<1>5. ASSUME NEW t \in Tokens, NEW a \in Seats, NEW n \in Claims, IssueToken(t, a, n) PROVE AllKnow'
  BY <1>5, <1>g, NoStep DEF IssueToken
<1>6. ASSUME NEW c \in Convs, DeleteConversation(c) PROVE AllKnow'
  <2>1. ConvsGrow
    BY <1>6 DEF DeleteConversation, ConvsGrow, TypeOK
  <2> QED
    BY <1>6, <2>1, NoStep DEF DeleteConversation
<1>7. ASSUME NEW s \in Slots, NEW n \in Namespaces, BeginDelete(s, n) PROVE AllKnow'
  <2> DEFINE h == [Empty EXCEPT !.pc = "drop", !.ns = n]
  <2>1. h.pc = "drop" /\ h.ns = n
    BY DEF Empty
  <2>2. slot' = [slot EXCEPT ![s] = h] /\ slot'[s] = h
    BY <1>7 DEF BeginDelete, TypeOK
  <2> HIDE DEF h
  <2>3. Knows(s)'
    BY <2>1, <2>2 DEF Knows, Done, Asking, Settings
  <2> QED
    BY <1>7, <1>g, <2>2, <2>3, OwnStep DEF BeginDelete
<1>8. ASSUME NEW s \in Slots, NEW p \in Patches, BeginPatch(s, p) PROVE AllKnow'
  <2> DEFINE h == [Empty EXCEPT !.pc = "write", !.ns = p[1], !.body = <<p[2], p[3]>>,
                                !.copy = config[p[1]]]
  <2>1. h.pc = "write" /\ h.ns = p[1] /\ h.copy = config[p[1]] /\ p[1] \in Namespaces
    BY RequestsAssumption DEF Empty
  <2>2. slot' = [slot EXCEPT ![s] = h] /\ slot'[s] = h
    BY <1>8 DEF BeginPatch, TypeOK
  <2> HIDE DEF h
  <2>3. Knows(s)'
    BY <1>8, <2>1, <2>2 DEF BeginPatch, Exists, Knows, Done, Asking, Settings
  <2> QED
    BY <1>8, <1>g, <2>2, <2>3, OwnStep DEF BeginPatch
<1>9. ASSUME NEW s \in Slots, NEW a \in Seats, NEW n \in Namespaces, BeginEnroll(s, a, n) PROVE AllKnow'
  <2> DEFINE h == [Empty EXCEPT !.pc = "insert", !.seat = a, !.ns = n]
  <2>1. h.pc = "insert" /\ h.ns = n
    BY DEF Empty
  <2>2. slot' = [slot EXCEPT ![s] = h] /\ slot'[s] = h
    BY <1>9 DEF BeginEnroll, TypeOK
  <2> HIDE DEF h
  <2>3. Knows(s)'
    BY <2>1, <2>2 DEF Knows, Done, Asking, Settings
  <2> QED
    BY <1>9, <1>g, <2>2, <2>3, OwnStep DEF BeginEnroll
<1>10. ASSUME NEW s \in Slots, NEW t \in Tokens, NEW c \in Convs, BeginQuery(s, t, c) PROVE AllKnow'
  <2> DEFINE h == [Empty EXCEPT !.seat = token[t].seat, !.conv = c,
                      !.pc = IF RequireEnrollment THEN "lookup" ELSE "ensure",
                      !.ns = IF RequireEnrollment THEN None ELSE TokenNs(t)]
  <2>1. \/ h.pc = "lookup"
        \/ h.pc = "ensure" /\ h.ns \in Namespaces
    BY TokenNsTyped DEF Empty
  <2>2. slot' = [slot EXCEPT ![s] = h] /\ slot'[s] = h
    BY <1>10 DEF BeginQuery, TypeOK
  <2> HIDE DEF h
  <2>3. Knows(s)'
    BY <2>1, <2>2 DEF Knows, Done, Asking, Settings
  <2> QED
    BY <1>10, <1>g, <2>2, <2>3, OwnStep DEF BeginQuery
<1>11. ASSUME NEW s \in Slots, NEW t \in Tokens, NEW c \in Convs, BeginTurns(s, t, c) PROVE AllKnow'
  <2> DEFINE h == [Empty EXCEPT !.seat = token[t].seat, !.conv = c, !.ns = TokenNs(t),
                                !.pc = "metadata"]
  <2>1. h.pc = "metadata"
    BY DEF Empty
  <2>2. slot' = [slot EXCEPT ![s] = h] /\ slot'[s] = h
    BY <1>11 DEF BeginTurns, TypeOK
  <2> HIDE DEF h
  <2>3. Knows(s)'
    BY <2>1, <2>2 DEF Knows, Done, Asking, Settings
  <2> QED
    BY <1>11, <1>g, <2>2, <2>3, OwnStep DEF BeginTurns
<1>12. ASSUME NEW s \in Slots, Drop(s) PROVE AllKnow'
  <2>1. CASE Referenced(slot[s].ns)
    BY <1>12, <2>1, <1>g, AnswerStep DEF Drop
  <2>2. CASE ~Referenced(slot[s].ns)
    BY <1>12, <2>2, <1>g, OutdateStep DEF Drop
  <2> QED
    BY <2>1, <2>2
<1>13. ASSUME NEW s \in Slots, Patch(s) PROVE AllKnow'
  <2>1. \E v : config' = [config EXCEPT ![slot[s].ns] = v]
    <3>1. config = [config EXCEPT ![slot[s].ns] = config[slot[s].ns]]
      BY DEF TypeOK
    <3> QED
      BY <1>13, <3>1 DEF Patch
  <2>2. Outdate(s, slot[s].ns) /\ UNCHANGED conv
    BY <1>13 DEF Patch
  <2> QED
    BY <1>g, <2>1, <2>2, OutdateStep
<1>14. ASSUME NEW s \in Slots, Enroll(s) PROVE AllKnow'
  <2> DEFINE n == slot[s].ns
  <2>1. n \in Namespaces
    BY <1>14 DEF AllKnow, Knows, Enroll
  <2>2. UNCHANGED config \/ (~Exists(n) /\ config' = [config EXCEPT ![n] = NoConfig])
    BY <1>14 DEF Enroll, TypeOK
  <2>3. Answer(s) /\ UNCHANGED conv
    BY <1>14 DEF Enroll
  <2> HIDE DEF n
  <2> QED
    BY <1>g, <2>1, <2>2, <2>3, AnswerStep
<1>15. ASSUME NEW s \in Slots, RefuseEnroll(s) PROVE AllKnow'
  BY <1>15, <1>g, AnswerStep DEF RefuseEnroll
<1>16. ASSUME NEW s \in Slots, Lookup(s) PROVE AllKnow'
  <2> DEFINE h == [slot[s] EXCEPT !.pc = "ensure", !.ns = enrolled[slot[s].seat]]
  <2>1. CASE enrolled[slot[s].seat] = None
    BY <1>16, <2>1, <1>g, AnswerStep DEF Lookup
  <2>2. CASE enrolled[slot[s].seat] # None
    <3>1. h.pc = "ensure" /\ h.ns \in Namespaces
      BY <2>2, HandlerTyped DEF Handler, TypeOK
    <3>2. slot' = [slot EXCEPT ![s] = h] /\ slot'[s] = h
      BY <1>16, <2>2, HandlerTyped DEF Lookup, TypeOK, Handler
    <3> HIDE DEF h
    <3>3. Knows(s)'
      BY <3>1, <3>2 DEF Knows, Done, Asking, Settings
    <3> QED
      BY <1>16, <1>g, <3>2, <3>3, OwnStep DEF Lookup
  <2> QED
    BY <2>1, <2>2
<1>17. ASSUME NEW s \in Slots, Ensure(s) PROVE AllKnow'
  <2> DEFINE h(b) == [slot[s] EXCEPT !.pc = "grounding_mode", !.shaky = b]
  <2>1. slot[s].conv \in Convs /\ slot[s].ns \in Namespaces
    BY <1>17, HandlerTyped DEF Ensure, AllKnow, Knows, Handler
  <2>r. Reads[1] = "grounding_mode"
    BY DEF Reads
  <2> DEFINE new == conv[slot[s].conv].state = "absent"
             lost == new /\ ~Exists(slot[s].ns)
  <2>2. PICK b \in BOOLEAN : /\ slot' = [slot EXCEPT ![s] = h(b)]
                             /\ ~b => conv'[slot[s].conv].state # "absent"
    <3>1. CASE slot' = [slot EXCEPT ![s] = h(TRUE)]
      BY <3>1
    <3>2. CASE /\ slot' = [slot EXCEPT ![s] = h(lost)]
               /\ conv' = IF new /\ Exists(slot[s].ns)
                          THEN [conv EXCEPT ![slot[s].conv] =
                                  [state |-> "live", ns |-> slot[s].ns, seat |-> slot[s].seat]]
                          ELSE conv
      <4>1. ~lost => conv'[slot[s].conv].state # "absent"
        BY <2>1, <3>2 DEF TypeOK
      <4>2. lost \in BOOLEAN
        OBVIOUS
      <4> HIDE DEF lost, h
      <4> QED
        BY <3>2, <4>1, <4>2
    <3> QED
      BY <1>17, <2>r, <3>1, <3>2 DEF Ensure
  <2>s. slot'[s] = h(b)
    BY <2>2 DEF TypeOK
  <2>3. h(b).pc = "grounding_mode" /\ h(b).ns = slot[s].ns /\ h(b).conv = slot[s].conv
        /\ h(b).shaky = b
    BY HandlerTyped DEF Handler
  <2>4. ConvsGrow
    BY <1>17, <2>1 DEF Ensure, ConvsGrow, TypeOK
  <2>5. UNCHANGED config
    BY <1>17 DEF Ensure
  <2> HIDE DEF h
  <2>6. Knows(s)'
    BY <2>1, <2>2, <2>s, <2>3 DEF Knows, Done, Asking, Settings
  <2> QED
    BY <2>2, <2>4, <2>5, <2>6, OwnStep
<1>18. ASSUME NEW s \in Slots, NEW i \in 1..3, Resolve(s, i) PROVE AllKnow'
  BY <1>18, ResolveStep
<1>19. ASSUME NEW s \in Slots, Run(s) PROVE AllKnow'
  <2> DEFINE h == [Empty EXCEPT !.pc = "answered", !.conv = slot[s].conv,
            !.shaky = slot[s].shaky, !.kept = conv[slot[s].conv].state = "live"]
  <2>1. /\ h.pc = "answered" /\ h.conv = slot[s].conv /\ h.shaky = slot[s].shaky
        /\ h.kept = (conv[slot[s].conv].state = "live") /\ slot[s].conv \in Convs
    BY HandlerTyped DEF Empty, Handler
  <2>2. slot' = [slot EXCEPT ![s] = h] /\ slot'[s] = h
    BY <1>19 DEF Run, TypeOK
  <2>3. ~slot[s].shaky => conv[slot[s].conv].state # "absent"
    BY <1>19 DEF Run, AllKnow, Knows, Asking
  <2>4. conv[slot[s].conv].state \in {"absent", "live", "deleted"}
    BY <2>1 DEF TypeOK
  <2>5. UNCHANGED <<config, conv>>
    BY <1>19 DEF Run
  <2> HIDE DEF h
  <2>6. Knows(s)'
    BY <2>1, <2>2, <2>3, <2>4, <2>5 DEF Knows, Done, Asking, Settings
  <2> QED
    BY <1>g, <2>2, <2>5, <2>6, OwnStep
<1>20. ASSUME NEW s \in Slots, Metadata(s) PROVE AllKnow'
  <2>1. CASE Answer(s)
    BY <1>20, <2>1, <1>g, AnswerStep DEF Metadata
  <2>2. ASSUME NEW p \in {"turns", "mismatch"}, slot' = [slot EXCEPT ![s].pc = p]
        PROVE  AllKnow'
    <3> DEFINE h == [slot[s] EXCEPT !.pc = p]
    <3>1. h.pc = p
      BY HandlerTyped DEF Handler
    <3>2. slot' = [slot EXCEPT ![s] = h] /\ slot'[s] = h
      BY <2>2, HandlerTyped DEF TypeOK, Handler
    <3> HIDE DEF h
    <3>3. Knows(s)'
      BY <3>1, <3>2 DEF Knows, Done, Asking, Settings
    <3> QED
      BY <1>20, <1>g, <3>2, <3>3, OwnStep DEF Metadata
  <2> QED
    BY <1>20, <2>1, <2>2 DEF Metadata
<1>21. ASSUME NEW s \in Slots, Turns(s) \/ Fail(s) PROVE AllKnow'
  BY <1>21, <1>g, AnswerStep DEF Turns, Fail
<1>22. CASE UNCHANGED vars
  BY <1>22, <1>g, NoStep DEF vars
<1> QED
  BY <1>1, <1>2, <1>3, <1>4, <1>5, <1>6, <1>7, <1>8, <1>9, <1>10, <1>11, <1>12, <1>13, <1>14,
     <1>15, <1>16, <1>17, <1>18, <1>19, <1>20, <1>21, <1>22 DEF Next, Step

-----------------------------------------------------------------------------
(* Theorems.                                                               *)

LEMMA InitHolds == Init => TypeOK /\ AllKnow
<1> SUFFICES ASSUME Init PROVE TypeOK /\ AllKnow
  OBVIOUS
<1>1. TypeOK
  BY EmptyTyped DEF Init, TypeOK, Config
<1>2. ASSUME NEW s \in Slots PROVE Knows(s)
  <2>1. slot[s] = Empty
    BY DEF Init
  <2> QED
    BY <2>1 DEF Empty, Knows, Asking, Settings, Done
<1> QED
  BY <1>1, <1>2 DEF AllKnow

LEMMA Invariant == Spec => [](TypeOK /\ AllKnow)
<1>1. Init => TypeOK /\ AllKnow
  BY InitHolds
<1>2. TypeOK /\ AllKnow /\ [Next]_vars => (TypeOK /\ AllKnow)'
  BY TypeInvariant, QueryKnows
<1> QED
  BY <1>1, <1>2, PTL DEF Spec

\* Every row, token and handler keeps its type: a config column holds settings,
\* an enrolment names a namespace.
THEOREM TypeCorrect == Spec => []TypeOK
BY Invariant, PTL

\* get_namespace_config's resolved view is what a query runs with, whoever
\* creates, configures and deletes namespaces meanwhile: a query that runs with
\* other settings has had its row written under it, or a failed read.
THEOREM ResolvedIsSeen == Spec => []QueriesSeeResolved
<1>1. TypeOK /\ AllKnow => QueriesSeeResolved
  <2> SUFFICES ASSUME TypeOK, AllKnow, NEW s \in Slots,
                      slot[s].pc = "run", ~slot[s].raced, ~slot[s].shaky, Exists(slot[s].ns)
               PROVE  slot[s].got = Resolved(config[slot[s].ns])
    BY DEF QueriesSeeResolved
  <2> DEFINE n == slot[s].ns
  <2>1. n \in Namespaces /\ \A k \in Settings : slot[s].got[k] = Effective(n, k)
    BY DEF AllKnow, Knows, Asking, Done
  <2>2. config[n] \in Config
    BY <2>1 DEF TypeOK, Exists
  <2>3. ASSUME NEW k \in Settings PROVE Effective(n, k) = Resolved(config[n])[k]
    <3>1. config[n][k] \in Values \cup {"unset"}
      BY <2>2 DEF Config
    <3> QED
      BY <3>1 DEF Effective, Resolved, NoConfig, Values
  <2>4. slot[s].got \in [Settings -> Values \cup {"unset"}]
    BY HandlerTyped DEF Handler
  <2> HIDE DEF n
  <2> QED
    BY <2>1, <2>3, <2>4 DEF Resolved, n
<1> QED
  BY <1>1, Invariant, PTL

\* BUG-010, BUG-014: whatever conversations are deleted and namespaces are
\* dropped while a query runs, its answer's conversation id leads to the turn.
THEOREM TurnsAreKept == Spec => []TurnIsKept
<1>1. AllKnow => TurnIsKept
  BY DEF AllKnow, Knows, TurnIsKept
<1> QED
  BY <1>1, Invariant, PTL

\* Each step, by what it does to the rows of namespaces and to the others'
\* slots: an action property holds when it holds of these.
Creates(n) ==
    /\ UNCHANGED slot
    /\ CreateNamespace(n) \/ (Ingest(n) /\ n \in Namespaces)

Writes(s) ==
    /\ Patch(s) \/ Drop(s) \/ Enroll(s)

LEMMA StepKinds ==
    ASSUME Next
    PROVE  \/ \E n \in Namespaces : Creates(n)
           \/ \E s \in Slots : Writes(s)
           \/ UNCHANGED config
<1>1. ASSUME NEW n \in Uploads, Ingest(n) PROVE \E m \in Namespaces : Creates(m)
  BY <1>1, RequestsAssumption DEF Creates, Ingest
<1>2. ASSUME NEW n \in Namespaces, CreateNamespace(n) PROVE \E m \in Namespaces : Creates(m)
  BY <1>2 DEF Creates, CreateNamespace
<1>3. ASSUME NEW s \in Slots, Step(s) PROVE Writes(s) \/ UNCHANGED config
  BY <1>3 DEF Step, Writes, RefuseEnroll, Lookup, Ensure, Resolve, Run, Metadata, Turns, Fail
<1>4. ASSUME NEW s \in Slots,
             \/ \E n \in Namespaces : BeginDelete(s, n)
             \/ \E p \in Patches : BeginPatch(s, p)
             \/ \E a \in Seats, n \in Namespaces : BeginEnroll(s, a, n)
             \/ \E t \in Tokens, c \in Convs : BeginQuery(s, t, c) \/ BeginTurns(s, t, c)
      PROVE  UNCHANGED config
  BY <1>4 DEF BeginDelete, BeginPatch, BeginEnroll, BeginQuery, BeginTurns
<1>5. ASSUME \/ \E a \in Seats : Unenroll(a)
             \/ \E t \in Tokens : Expire(t)
             \/ \E t \in Tokens, a \in Seats, n \in Claims : IssueToken(t, a, n)
             \/ \E c \in Convs : DeleteConversation(c)
      PROVE  UNCHANGED config
  BY <1>5 DEF Unenroll, Expire, IssueToken, DeleteConversation
<1> QED
  BY <1>1, <1>2, <1>3, <1>4, <1>5 DEF Next

LEMMA ReasonStep ==
    ASSUME TypeOK, AllKnow, Next, NEW n \in Namespaces, ~Exists(n), config'[n] # None
    PROVE  \/ CreateNamespace(n)
           \/ n \in used'
           \/ \E a \in Seats : enrolled[a] = None /\ enrolled'[a] = n
<1>1. ASSUME NEW m \in Namespaces, Creates(m) PROVE CreateNamespace(n) \/ n \in used'
  <2>1. config'[n] # config[n]
    BY DEF Exists
  <2>2. m = n
    BY <1>1, <2>1 DEF Creates, CreateNamespace, Ingest, TypeOK
  <2> QED
    BY <1>1, <2>2 DEF Creates, Ingest
<1>2. ASSUME NEW s \in Slots, Patch(s) \/ Drop(s) PROVE FALSE
  BY <1>2 DEF Patch, Drop, Exists, TypeOK
<1>3. ASSUME NEW s \in Slots, Enroll(s)
      PROVE  \E a \in Seats : enrolled[a] = None /\ enrolled'[a] = n
  <2>1. slot[s].seat \in Seats
    BY HandlerTyped DEF Handler
  <2>2. slot[s].ns = n
    BY <1>3 DEF Enroll, Exists, TypeOK
  <2> QED
    BY <1>3, <2>1, <2>2 DEF Enroll, TypeOK
<1> QED
  BY <1>1, <1>2, <1>3, StepKinds DEF Writes, Exists

\* A namespace comes from an administrator, or together with the document or
\* the enrolment that needs it: whatever other requests do to it meanwhile, a
\* refused enrolment leaves none behind.
THEOREM NamespacesHaveReasons == Spec => NamespaceHasReason
<1>1. TypeOK /\ AllKnow /\ [Next]_vars =>
        [\A n \in Namespaces : ~Exists(n) /\ config'[n] # None =>
           \/ CreateNamespace(n)
           \/ n \in used'
           \/ \E a \in Seats : enrolled[a] = None /\ enrolled'[a] = n]_vars
  <2>1. CASE Next
    BY <2>1, ReasonStep
  <2> QED
    BY <2>1
<1> QED
  BY <1>1, Invariant, PTL DEF Spec, NamespaceHasReason

\* Only a handler's own step moves it on.
LEMMA OthersStay ==
    ASSUME TypeOK, NEW s \in Slots, NEW r \in Slots \ {s}, Step(r)
    PROVE  slot'[s].pc = slot[s].pc
<1>h. slot[s] \in Handler
  BY HandlerTyped
<1>1. ASSUME NEW n, Outdate(r, n) PROVE slot'[s].pc = slot[s].pc
  BY <1>1, <1>h DEF Outdate, Handler
<1>2. ASSUME Drop(r) \/ Patch(r) PROVE slot'[s].pc = slot[s].pc
  BY <1>1, <1>2 DEF Drop, Patch, Answer, TypeOK
<1>3. ASSUME Enroll(r) \/ RefuseEnroll(r) \/ Lookup(r) \/ Metadata(r) \/ Turns(r) \/ Fail(r) PROVE slot'[s] = slot[s]
  BY <1>3 DEF Enroll, RefuseEnroll, Lookup, Metadata, Turns, Fail, Answer, TypeOK
<1>4. ASSUME Ensure(r) \/ Run(r) \/ \E i \in 1..3 : Resolve(r, i) PROVE slot'[s] = slot[s]
  BY <1>4 DEF Ensure, Run, Resolve, TypeOK
<1> QED
  BY <1>2, <1>3, <1>4 DEF Step

LEMMA PatchStep ==
    ASSUME TypeOK, AllKnow, Next, NEW s \in Slots,
           slot[s].pc = "write", slot'[s].pc # "write", Exists(slot[s].ns), ~slot[s].raced,
           NEW k \in Settings \ {slot[s].body[1]}
    PROVE  config'[slot[s].ns][k] = config[slot[s].ns][k]
<1>1. Step(s)
  <2>1. ASSUME NEW r \in Slots, Step(r) PROVE Step(s)
    BY <2>1, OthersStay
  <2>2. ASSUME NEW r \in Slots,
               \/ \E n \in Namespaces : BeginDelete(r, n)
               \/ \E p \in Patches : BeginPatch(r, p)
               \/ \E a \in Seats, n \in Namespaces : BeginEnroll(r, a, n)
               \/ \E t \in Tokens, c \in Convs : BeginQuery(r, t, c) \/ BeginTurns(r, t, c)
        PROVE  FALSE
    BY <2>2 DEF BeginDelete, BeginPatch, BeginEnroll, BeginQuery, BeginTurns, TypeOK
  <2>3. ASSUME \/ \E n \in Namespaces : CreateNamespace(n)
               \/ \E n \in Uploads : Ingest(n)
               \/ \E a \in Seats : Unenroll(a)
               \/ \E t \in Tokens : Expire(t)
               \/ \E t \in Tokens, a \in Seats, n \in Claims : IssueToken(t, a, n)
               \/ \E c \in Convs : DeleteConversation(c)
        PROVE  FALSE
    BY <2>3 DEF CreateNamespace, Ingest, Unenroll, Expire, IssueToken, DeleteConversation
  <2> QED
    BY <2>1, <2>2, <2>3 DEF Next
<1>2. Patch(s) \/ UNCHANGED config
  BY <1>1 DEF Step, Drop, Enroll, RefuseEnroll, Lookup, Ensure, Resolve, Run, Metadata, Turns,
              Fail
<1>3. CASE Patch(s)
  <2>1. slot[s].ns \in Namespaces /\ slot[s].copy = config[slot[s].ns]
    BY DEF AllKnow, Knows
  <2>2. config'[slot[s].ns] = [slot[s].copy EXCEPT ![slot[s].body[1]] = slot[s].body[2]]
    BY <1>3, <2>1 DEF Patch, Merged, TypeOK
  <2>3. slot[s].copy \in Config
    BY HandlerTyped DEF Handler
  <2> QED
    BY <2>1, <2>2, <2>3 DEF Config
<1> QED
  BY <1>2, <1>3

\* "keys not present in the body are preserved": a PATCH whose row nobody wrote
\* since it loaded it loses no setting, whatever else goes on.
THEOREM PatchesKeepOthers == Spec => PatchKeepsOthers
<1>1. TypeOK /\ AllKnow /\ [Next]_vars =>
        [\A s \in Slots :
           slot[s].pc = "write" /\ slot'[s].pc # "write" /\ Exists(slot[s].ns) /\ ~slot[s].raced
           => \A k \in Settings \ {slot[s].body[1]} :
                config'[slot[s].ns][k] = config[slot[s].ns][k]]_vars
  <2>1. CASE Next
    BY <2>1, PatchStep
  <2> QED
    BY <2>1
<1> QED
  BY <1>1, Invariant, PTL DEF Spec, PatchKeepsOthers
===============================================================================
