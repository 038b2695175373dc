----------------------- MODULE PersistentStoreProofs -----------------------
EXTENDS PersistentStore, Sequences, FiniteSetTheorems, TLAPS

LEMMA ArgFields ==
    ASSUME TypeOK, NEW k \in Calls
    PROVE  /\ arg[k] \in Args /\ arg[k].conv \in Convs \cup {None}
           /\ arg[k].question \in Questions \cup {None} /\ arg[k].count \in Nat
BY DEF TypeOK, Args

\* Leaving add_turn.
LEMMA ReturnTypes ==
    ASSUME TypeOK, NEW k \in Calls, Return(k)
    PROVE  /\ pc' \in [Calls -> {"idle", "lock", "write"}] /\ arg' \in [Calls -> Args]
           /\ pc'[k] = "idle"
           /\ \A j \in Calls \ {k} : pc'[j] = pc[j] /\ arg'[j] = arg[j]
BY DEF Return, TypeOK, Args, NoArgs

LEMMA EnsureStep == ASSUME IInv, NEW c \in Convs, Ensure(c) PROVE IInv'
BY DEF Ensure, IInv, TypeOK, HoldersOK, CountIsCurrent, Window, Pruned, callVars

LEMMA SoftDeleteStep == ASSUME IInv, NEW c \in Convs, SoftDelete(c) PROVE IInv'
<1> USE DEF IInv
<1>1. TypeOK' /\ HoldersOK' /\ Window'
  BY DEF SoftDelete, TypeOK, HoldersOK, Window, Pruned, callVars
<1>2. CountIsCurrent'
  BY NoneAssumption DEF SoftDelete, LockFree, TypeOK, HoldersOK, CountIsCurrent, callVars
<1> QED
  BY <1>1, <1>2

LEMMA ClearStep == ASSUME IInv, NEW c \in Convs, Clear(c) PROVE IInv'
<1> USE DEF IInv
<1>1. TypeOK'
  BY DEF Clear, TypeOK, NoTurns, callVars
<1>2. HoldersOK'
  BY DEF Clear, HoldersOK, callVars
<1>3. CountIsCurrent'
  BY NoneAssumption DEF Clear, LockFree, TypeOK, HoldersOK, CountIsCurrent, callVars
<1>4. Window'
  BY MaxTurnsAssumption DEF Clear, TypeOK, NoTurns, Window, Pruned
<1> QED
  BY <1>1, <1>2, <1>3, <1>4

LEMMA AddTurnStep ==
    ASSUME IInv, NEW k \in Calls, NEW c \in Convs, NEW q \in Questions, AddTurn(k, c, q)
    PROVE  IInv'
<1> USE DEF IInv
<1>1. TypeOK'
  BY DEF AddTurn, TypeOK, Args, rowVars
<1>2. HoldersOK'
  BY NoneAssumption DEF AddTurn, TypeOK, HoldersOK
<1>3. CountIsCurrent' /\ Window'
  BY DEF AddTurn, TypeOK, CountIsCurrent, Window, Pruned, rowVars
<1> QED
  BY <1>1, <1>2, <1>3

LEMMA LockStep == ASSUME IInv, NEW k \in Calls, Lock(k) PROVE IInv'
<1> USE DEF IInv
<1> DEFINE c == arg[k].conv
           A == [arg[k] EXCEPT !.count = count[c]]
<1>1. /\ pc[k] = "lock" /\ holder[c] = None /\ row[c] = "live"
      /\ holder' = [holder EXCEPT ![c] = k] /\ pc' = [pc EXCEPT ![k] = "write"]
      /\ arg' = [arg EXCEPT ![k] = A] /\ UNCHANGED rowVars
  BY DEF Lock, LockFree
<1>2. c \in Convs /\ arg[k].question \in Questions
  BY <1>1 DEF HoldersOK
<1>3. A \in Args /\ A.conv = c /\ A.question = arg[k].question /\ A.count = count[c]
  BY <1>2, ArgFields DEF Args, TypeOK
<1>4. /\ pc'[k] = "write" /\ arg'[k] = A
      /\ \A j \in Calls \ {k} : pc'[j] = pc[j] /\ arg'[j] = arg[j]
  BY <1>1 DEF TypeOK
<1> HIDE DEF A, c
<1>5. TypeOK'
  BY <1>1, <1>2, <1>3 DEF TypeOK, rowVars
<1>6. HoldersOK'
  BY <1>1, <1>2, <1>3, <1>4, NoneAssumption DEF HoldersOK, TypeOK
<1>7. CountIsCurrent'
  BY <1>1, <1>2, <1>3, <1>4 DEF CountIsCurrent, rowVars
<1>8. Window'
  BY <1>1 DEF Window, Pruned, rowVars
<1> QED
  BY <1>5, <1>6, <1>7, <1>8

LEMMA NotFoundStep == ASSUME IInv, NEW k \in Calls, NotFound(k) PROVE IInv'
<1> USE DEF IInv
<1>1. Return(k) /\ pc[k] = "lock" /\ UNCHANGED <<rowVars, holder>>
  BY DEF NotFound
<1>2. TypeOK'
  BY <1>1, ReturnTypes DEF TypeOK, rowVars
<1>3. HoldersOK' /\ CountIsCurrent' /\ Window'
  BY <1>1, ReturnTypes DEF HoldersOK, CountIsCurrent, Window, Pruned, rowVars, TypeOK
<1> QED
  BY <1>2, <1>3

LEMMA AbortStep == ASSUME IInv, NEW k \in Calls, Abort(k) PROVE IInv'
<1> USE DEF IInv
<1>1. /\ Return(k) /\ UNCHANGED rowVars
      /\ holder' = [c \in Convs |-> IF holder[c] = k THEN None ELSE holder[c]]
  BY DEF Abort
<1>2. TypeOK'
  BY <1>1, ReturnTypes DEF TypeOK, rowVars
<1>3. HoldersOK'
  BY <1>1, ReturnTypes, NoneAssumption DEF HoldersOK, TypeOK
<1>4. CountIsCurrent' /\ Window'
  BY <1>1, ReturnTypes DEF CountIsCurrent, Window, Pruned, rowVars, TypeOK
<1> QED
  BY <1>2, <1>3, <1>4

LEMMA WriteStep == ASSUME IInv, NEW k \in Calls, Write(k) PROVE IInv'
<1> USE DEF IInv
<1> DEFINE c == arg[k].conv
           n == arg[k].count + 1
           T == [m \in (DOMAIN turns[c] \cup {n}) \ Pruned(n) |->
                    IF m = n THEN arg[k].question ELSE turns[c][m]]
<1>1. /\ pc[k] = "write" /\ turns' = [turns EXCEPT ![c] = T]
      /\ count' = [count EXCEPT ![c] = n] /\ holder' = [holder EXCEPT ![c] = None]
      /\ Return(k) /\ row' = row
  BY DEF Write
<1>2. /\ c \in Convs /\ arg[k].question \in Questions /\ holder[c] = k
      /\ n = count[c] + 1 /\ n \in Nat /\ count[c] \in Nat
  BY <1>1, ArgFields DEF HoldersOK, CountIsCurrent, TypeOK
<1>3. DOMAIN turns[c] = {i \in 1..count[c] : i + MaxTurns > count[c]}
  BY <1>2 DEF Window
<1>4. DOMAIN T = {i \in 1..n : i + MaxTurns > n}
  BY <1>2, <1>3, MaxTurnsAssumption DEF Pruned
<1>5. DOMAIN T \subseteq Nat /\ T \in [DOMAIN T -> Questions]
  <2>1. DOMAIN T \subseteq Nat
    BY <1>4
  <2>2. ASSUME NEW m \in DOMAIN T PROVE T[m] \in Questions
    BY <1>2, <2>2 DEF TypeOK
  <2> QED
    BY <2>1, <2>2
<1> HIDE DEF T, c, n
<1>6. TypeOK'
  <2>1. /\ DOMAIN turns' = Convs
        /\ \A d \in Convs : turns'[d] = IF d = c THEN T ELSE turns[d]
    BY <1>1, <1>2 DEF TypeOK
  <2>2. \A d \in Convs : DOMAIN turns'[d] \subseteq Nat /\ turns'[d] \in [DOMAIN turns'[d] -> Questions]
    BY <1>5, <2>1 DEF TypeOK
  <2>3. /\ count' \in [Convs -> Nat] /\ holder' \in [Convs -> Calls \cup {None}]
        /\ row' \in [Convs -> {"none", "live", "deleted"}]
    BY <1>1, <1>2 DEF TypeOK
  <2> QED
    BY <1>1, <2>1, <2>2, <2>3, ReturnTypes DEF TypeOK
<1>7. HoldersOK'
  BY <1>1, <1>2, ReturnTypes, NoneAssumption DEF HoldersOK, TypeOK
<1>8. CountIsCurrent'
  <2> SUFFICES ASSUME NEW j \in Calls, pc'[j] = "write"
               PROVE  arg'[j].count = count'[arg'[j].conv] /\ row'[arg'[j].conv] = "live"
    BY DEF CountIsCurrent
  <2>1. j # k /\ pc[j] = "write" /\ arg'[j] = arg[j]
    BY <1>1, ReturnTypes
  <2>2. arg[j].conv \in Convs /\ arg[j].conv # c
    BY <1>2, <2>1 DEF HoldersOK
  <2> QED
    BY <1>1, <2>1, <2>2 DEF CountIsCurrent, TypeOK
<1>9. Window'
  BY <1>1, <1>2, <1>4 DEF Window, TypeOK
<1> QED
  BY <1>6, <1>7, <1>8, <1>9

-----------------------------------------------------------------------------
\* The invariant of the store, for any number of conversations and callers.
THEOREM Invariant == Spec => []IInv
<1>1. Init => IInv
  BY MaxTurnsAssumption DEF Init, IInv, TypeOK, HoldersOK, CountIsCurrent, Window, Pruned,
                            NoTurns, Args, NoArgs
<1>2. IInv /\ [Next]_vars => IInv'
  <2> SUFFICES ASSUME IInv, [Next]_vars PROVE IInv'
    OBVIOUS
  <2>1. CASE UNCHANGED vars
    BY <2>1 DEF vars, rowVars, callVars, IInv, TypeOK, HoldersOK, CountIsCurrent, Window, Pruned
  <2>2. CASE Next
    BY <2>2, EnsureStep, SoftDeleteStep, ClearStep, AddTurnStep, LockStep, NotFoundStep,
       WriteStep, AbortStep DEF Next, Step
  <2> QED
    BY <2>1, <2>2
<1> QED
  BY <1>1, <1>2, PTL DEF Spec

\* conversation.py:220-284: the stored turns are the last MaxTurns, no gap, no
\* repetition.
THEOREM WindowKept == Spec => []Window
<1>1. IInv => Window
  BY DEF IInv
<1> QED
  BY <1>1, Invariant, PTL

\* conversation.py:231-242: the FOR UPDATE lock keeps the count current.
THEOREM CountLocked == Spec => []CountIsCurrent
<1>1. IInv => CountIsCurrent
  BY DEF IInv
<1> QED
  BY <1>1, Invariant, PTL

\* conversation.py:220-284, 382-405: a stored turn is never rewritten, leaves
\* only when MaxTurns newer ones exist or with its conversation, and nothing is
\* added to a deleted conversation.
THEOREM StoredTurnsPersist == Spec => TurnsPersist
<1> DEFINE Persist(c) ==
             /\ row[c] = "deleted" => row'[c] \in {"deleted", "none"}
             /\ row'[c] = "deleted" => turns'[c] = turns[c]
             /\ \A n \in DOMAIN turns[c] :
                   \/ n \in DOMAIN turns'[c] /\ turns'[c][n] = turns[c][n]
                   \/ n + MaxTurns <= count'[c]
                   \/ row'[c] = "none"
<1>1. ASSUME IInv, [Next]_vars, NEW c \in Convs PROVE Persist(c)
  <2> USE DEF IInv
  <2>1. CASE UNCHANGED rowVars
    BY <1>1, <2>1 DEF rowVars
  <2>2. ASSUME NEW d \in Convs, Ensure(d) \/ SoftDelete(d) \/ Clear(d) PROVE Persist(c)
    BY <1>1, <2>2 DEF Ensure, SoftDelete, Clear, TypeOK
  <2>3. ASSUME NEW k \in Calls, Write(k) PROVE Persist(c)
    <3> DEFINE d == arg[k].conv
               n == arg[k].count + 1
    <3>1. /\ turns' = [turns EXCEPT ![d] = [m \in (DOMAIN turns[d] \cup {n}) \ Pruned(n) |->
                                             IF m = n THEN arg[k].question ELSE turns[d][m]]]
          /\ n \notin DOMAIN turns[d] /\ count' = [count EXCEPT ![d] = n] /\ row' = row
          /\ pc[k] = "write"
      BY <2>3 DEF Write
    <3>2. d \in Convs /\ row[d] = "live" /\ n \in Nat
      BY <1>1, <3>1, ArgFields DEF HoldersOK, CountIsCurrent
    <3>3. CASE c # d
      BY <1>1, <3>1, <3>2, <3>3 DEF TypeOK
    <3>4. CASE c = d
      <4>1. turns'[c] = [m \in (DOMAIN turns[c] \cup {n}) \ Pruned(n) |->
                           IF m = n THEN arg[k].question ELSE turns[c][m]] /\ count'[c] = n
        BY <1>1, <3>1, <3>2, <3>4 DEF TypeOK
      <4>2. ASSUME NEW m \in DOMAIN turns[c], m \notin DOMAIN turns'[c] \/ turns'[c][m] # turns[c][m]
            PROVE  m + MaxTurns <= n
        <5>1. m # n /\ m \in Nat
          BY <1>1, <3>1, <3>4 DEF TypeOK
        <5>2. m \in Pruned(n)
          BY <4>1, <4>2, <5>1
        <5> QED
          BY <3>2, <5>1, <5>2, MaxTurnsAssumption DEF Pruned
      <4> QED
        BY <3>1, <3>2, <3>4, <4>1, <4>2
    <3> QED
      BY <3>3, <3>4
  <2> QED
    BY <1>1, <2>1, <2>2, <2>3 DEF Next, Step, AddTurn, Lock, NotFound, Abort, vars, rowVars
<1> HIDE DEF Persist
<1>2. IInv /\ [Next]_vars => [\A c \in Convs : Persist(c)]_vars
  BY <1>1
<1>3. Spec => [][\A c \in Convs : Persist(c)]_vars
  BY <1>2, Invariant, PTL DEF Spec
<1> QED
  BY <1>3 DEF TurnsPersist, Persist

-----------------------------------------------------------------------------
(* Refinement of ConversationLog.                                          *)

\* Turns a + 1 to b, in order.
LEMMA OrderOfInterval ==
    ASSUME NEW a \in Nat, NEW b \in Nat, a <= b, NEW f, DOMAIN f = (a + 1) .. b
    PROVE  InOrder(f) = [i \in 1 .. (b - a) |-> f[a + i]]
<1> DEFINE D == DOMAIN f
           Below(n) == {m \in D : m <= n}
<1>1. \A x, y \in Int : Cardinality(x .. y) = IF x > y THEN 0 ELSE y - x + 1
  BY FS_Interval
<1>2. Cardinality(D) = b - a
  <2>1. CASE a = b
    BY <1>1, <2>1
  <2>2. CASE a # b
    BY <1>1, <2>2
  <2> QED
    BY <2>1, <2>2
<1>3. ASSUME NEW n \in D PROVE Cardinality(Below(n)) = n - a
  <2>1. Below(n) = (a + 1) .. n
    OBVIOUS
  <2>2. Cardinality((a + 1) .. n) = n - a
    BY <1>1
  <2> QED
    BY <2>1, <2>2
<1>4. ASSUME NEW i \in 1 .. (b - a)
      PROVE  (CHOOSE n \in D : Cardinality(Below(n)) = i) = a + i
  <2>1. a + i \in D
    OBVIOUS
  <2>2. \A n \in D : Cardinality(Below(n)) = i <=> n = a + i
    BY <1>3, <2>1
  <2> HIDE DEF Below, D
  <2> QED
    BY <2>1, <2>2
<1>5. InOrder(f) = [i \in 1 .. Cardinality(D) |-> f[CHOOSE n \in D : Cardinality(Below(n)) = i]]
  BY DEF InOrder
<1> HIDE DEF D, Below
<1> QED
  BY <1>2, <1>4, <1>5

\* Numbers of the turns stored: from First(n) + 1 to n.
Oldest(n) == IF n > MaxTurns THEN n - MaxTurns ELSE 0

Stored(f, n) == DOMAIN f = {i \in 1 .. n : i + MaxTurns > n}

LEMMA HistoryInOrder ==
    ASSUME NEW n \in Nat, NEW f, Stored(f, n)
    PROVE  /\ Oldest(n) \in Nat /\ Oldest(n) <= n
           /\ DOMAIN f = (Oldest(n) + 1) .. n
           /\ InOrder(f) = [i \in 1 .. (n - Oldest(n)) |-> f[Oldest(n) + i]]
<1>1. Oldest(n) \in Nat /\ Oldest(n) <= n /\ DOMAIN f = (Oldest(n) + 1) .. n
  BY MaxTurnsAssumption DEF Oldest, Stored
<1> QED
  BY <1>1, OrderOfInterval

\* A row that is not there has no turns.
Bare == \A c \in Convs : row[c] = "none" => count[c] = 0

LEMMA BareStep == ASSUME IInv, Bare, [Next]_vars PROVE Bare'
<1> USE DEF IInv
<1>1. CASE UNCHANGED rowVars
  BY <1>1 DEF rowVars, Bare
<1>2. ASSUME NEW c \in Convs, Ensure(c) \/ SoftDelete(c) \/ Clear(c) PROVE Bare'
  BY <1>2 DEF Ensure, SoftDelete, Clear, Bare, TypeOK
<1>3. ASSUME NEW k \in Calls, Write(k) PROVE Bare'
  BY <1>3 DEF Write, Bare, CountIsCurrent, TypeOK
<1> QED
  BY <1>1, <1>2, <1>3 DEF Next, Step, AddTurn, Lock, NotFound, Abort, vars

Grows(f, g, n, q) ==
    g = [m \in (DOMAIN f \cup {n + 1}) \ Pruned(n + 1) |-> IF m = n + 1 THEN q ELSE f[m]]

\* The turn that Write adds is the one the in-memory list appends.
LEMMA WriteAppends ==
    ASSUME NEW n \in Nat, NEW f, NEW g, NEW q \in Questions,
           Stored(f, n), \A i \in DOMAIN f : f[i] \in Questions, Grows(f, g, n, q)
    PROVE  InOrder(g) = Log!Recent(Append(InOrder(f), q))
<1> DEFINE a == Oldest(n)
           b == Oldest(n + 1)
           h == [i \in 1 .. (n - a) |-> f[a + i]]
           s == Append(h, q)
<1>0. MaxTurns \in Nat \ {0}
  BY MaxTurnsAssumption
<1>1. a \in Nat /\ a <= n /\ DOMAIN f = (a + 1) .. n /\ InOrder(f) = h
  BY HistoryInOrder
<1>2. Stored(g, n + 1)
  BY <1>0 DEF Pruned, Stored, Grows
<1>3. /\ b \in Nat /\ b <= n + 1 /\ DOMAIN g = (b + 1) .. (n + 1)
      /\ InOrder(g) = [i \in 1 .. (n + 1 - b) |-> g[b + i]]
  <2>1. n + 1 \in Nat
    OBVIOUS
  <2> QED
    BY <1>2, <2>1, HistoryInOrder
<1>4. h \in Seq(Questions) /\ Len(h) = n - a
  BY <1>1
<1>5. s \in Seq(Questions) /\ Len(s) = n - a + 1 /\ DOMAIN s = 1 .. (n - a + 1)
      /\ \A i \in 1 .. (n - a + 1) : s[i] = IF i = n - a + 1 THEN q ELSE f[a + i]
  <2> HIDE DEF a
  <2>1. s \in Seq(Questions) /\ Len(s) = n - a + 1
    BY <1>1, <1>4
  <2>2. \A i \in 1 .. (n - a + 1) : s[i] = IF i = n - a + 1 THEN q ELSE f[a + i]
    BY <1>1, <1>4
  <2> HIDE DEF h, s
  <2> QED
    BY <2>1, <2>2
<1>6. \A i \in 1 .. (n + 1 - b) : g[b + i] = IF b + i = n + 1 THEN q ELSE f[b + i]
  BY <1>3 DEF Grows
<1> HIDE DEF h, s
<1>7. CASE n + 1 > MaxTurns
  <2>1. n - a + 1 > MaxTurns => n - a = MaxTurns /\ b = a + 1
    BY <1>0, <1>7 DEF Oldest
  <2>2. ~(n - a + 1 > MaxTurns) => FALSE
    BY <1>0, <1>7 DEF Oldest
  <2> HIDE DEF a, b
  <2>3. Log!Recent(s) = SubSeq(s, Len(s) - MaxTurns + 1, Len(s)) /\ Len(s) - MaxTurns + 1 = 2
    BY <1>0, <1>5, <2>1, <2>2 DEF Log!Recent
  <2>4. Log!Recent(s) = [i \in 1 .. MaxTurns |-> s[1 + i]]
    <3> DEFINE r == SubSeq(s, 2, Len(s))
    <3>1. Len(s) = MaxTurns + 1 /\ Len(s) \in Nat
      BY <1>0, <1>1, <1>5, <2>1, <2>2
    <3>2. r \in Seq(Questions) /\ Len(r) = MaxTurns
      BY <1>0, <1>5, <3>1
    <3>3. \A i \in 1 .. MaxTurns : r[i] = s[1 + i]
      BY <1>0, <1>5, <3>1
    <3>4. Log!Recent(s) = r
      BY <2>3
    <3> HIDE DEF r
    <3>5. r = [i \in 1 .. MaxTurns |-> r[i]]
      BY <3>2
    <3> QED
      BY <3>3, <3>4, <3>5
  <2>5. n + 1 - b = MaxTurns
    BY <1>0, <1>1, <1>3, <2>1, <2>2
  <2>6. ASSUME NEW i \in 1 .. MaxTurns PROVE g[b + i] = s[1 + i]
    <3>1. b = a + 1 /\ n - a = MaxTurns /\ n \in Nat /\ a \in Nat
      BY <1>0, <1>1, <2>1, <2>2
    <3>2. 1 + i \in 1 .. (n - a + 1) /\ a + (1 + i) = b + i
          /\ (b + i = n + 1 <=> 1 + i = n - a + 1)
      BY <1>0, <3>1
    <3>3. g[b + i] = IF b + i = n + 1 THEN q ELSE f[b + i]
      BY <1>6, <2>5
    <3>4. s[1 + i] = IF 1 + i = n - a + 1 THEN q ELSE f[a + (1 + i)]
      BY <1>5, <3>2
    <3> QED
      BY <3>2, <3>3, <3>4
  <2>7. InOrder(g) = [i \in 1 .. MaxTurns |-> g[b + i]]
    BY <1>3, <2>5
  <2>8. InOrder(g) = Log!Recent(s)
    BY <2>4, <2>6, <2>7
  <2>9. s = Append(InOrder(f), q)
    BY <1>1 DEF s
  <2> QED
    BY <2>8, <2>9
<1>8. CASE ~(n + 1 > MaxTurns)
  <2>1. a = 0 /\ b = 0
    BY <1>0, <1>8 DEF Oldest
  <2> HIDE DEF a, b
  <2>2. Log!Recent(s) = s
    BY <1>0, <1>5, <1>8, <2>1 DEF Log!Recent
  <2>3. s = [i \in 1 .. (n + 1) |-> s[i]]
    BY <1>5, <2>1
  <2>4. \A i \in 1 .. (n + 1) : g[b + i] = s[i]
    BY <1>3, <1>5, <1>6, <2>1
  <2> QED
    BY <1>1, <1>3, <2>1, <2>2, <2>3, <2>4 DEF s
<1> QED
  BY <1>7, <1>8

\* Every step of the Postgres store is one of the in-memory list, or none.
LEMMA StepImplements ==
    ASSUME IInv, Bare, [Next]_vars
    PROVE  [Log!Next]_([c \in Convs |-> History(c)])
<1> DEFINE view == [c \in Convs |-> History(c)]
<1> USE DEF IInv
<1>1. CASE UNCHANGED rowVars
  <2>1. view' = view
    BY <1>1 DEF rowVars, History
  <2> QED
    BY <2>1
<1>2. ASSUME NEW c \in Convs, Ensure(c) PROVE view' = view
  <2>1. row[c] = "none" /\ row' = [row EXCEPT ![c] = "live"] /\ turns' = turns
    BY <1>2 DEF Ensure
  <2>2. InOrder(turns[c]) = <<>>
    <3>1. Stored(turns[c], 0)
      BY <2>1 DEF Bare, Window, Stored
    <3>2. InOrder(turns[c]) = [i \in 1 .. (0 - Oldest(0)) |-> turns[c][Oldest(0) + i]]
          /\ Oldest(0) = 0
      BY <3>1, HistoryInOrder, MaxTurnsAssumption DEF Oldest
    <3> QED
      BY <3>2
  <2>3. ASSUME NEW d \in Convs PROVE History(d)' = History(d)
    BY <2>1, <2>2 DEF History, TypeOK
  <2> QED
    BY <2>3
<1>3. ASSUME NEW c \in Convs, SoftDelete(c) \/ Clear(c) PROVE Log!Clear(c)
  <2>1. /\ row'[c] # "live"
        /\ \A d \in Convs \ {c} : row'[d] = row[d] /\ turns'[d] = turns[d]
    BY <1>3 DEF SoftDelete, Clear, TypeOK
  <2>2. view' = [view EXCEPT ![c] = <<>>]
    BY <2>1 DEF History
  <2> QED
    BY <2>2 DEF Log!Clear
<1>4. ASSUME NEW k \in Calls, Write(k)
      PROVE  \E c \in Convs, q \in Questions : Log!AddTurn(c, q)
  <2>1. PICK c \in Convs, q \in Questions, n \in Nat :
           /\ c = arg[k].conv /\ q = arg[k].question /\ n = count[c] /\ arg[k].count = n
           /\ row[c] = "live"
    BY <1>4 DEF Write, HoldersOK, CountIsCurrent, TypeOK
  <2> DEFINE T == [m \in (DOMAIN turns[c] \cup {n + 1}) \ Pruned(n + 1) |->
                      IF m = n + 1 THEN q ELSE turns[c][m]]
  <2>2. turns' = [turns EXCEPT ![c] = T] /\ row' = row
    BY <1>4, <2>1 DEF Write
  <2>3. /\ turns'[c] = T /\ Stored(turns[c], n) /\ Grows(turns[c], T, n, q)
        /\ \A i \in DOMAIN turns[c] : turns[c][i] \in Questions
        /\ \A d \in Convs \ {c} : turns'[d] = turns[d]
    BY <2>1, <2>2 DEF TypeOK, Window, Stored, Grows
  <2> HIDE DEF T
  <2>4. InOrder(T) = Log!Recent(Append(InOrder(turns[c]), q))
    BY <2>1, <2>3, WriteAppends
  <2>5. History(c) = InOrder(turns[c]) /\ History(c)' = InOrder(T)
    BY <2>1, <2>2, <2>3 DEF History
  <2>6. \A d \in Convs \ {c} : History(d)' = History(d)
    BY <2>2, <2>3 DEF History
  <2>7. view' = [view EXCEPT ![c] = Log!Recent(Append(@, q))]
    BY <2>1, <2>4, <2>5, <2>6
  <2> QED
    BY <2>1, <2>7 DEF Log!AddTurn
<1> QED
  BY <1>1, <1>2, <1>3, <1>4
     DEF Next, Step, AddTurn, Lock, NotFound, Abort, vars, Log!Next

\* The Postgres store stands in for the in-memory one: for any number of
\* conversations, callers and turns, get_history changes exactly as the list
\* of the last MaxTurns turns does, each change in one step.
THEOREM StoreImplementsLog == Spec => ImplementsLog
<1>1. Init => Bare /\ Log!Init
  <2>1. ASSUME Init, NEW c \in Convs PROVE History(c) = <<>>
    BY <2>1 DEF Init, History
  <2> QED
    BY <2>1 DEF Init, Bare, Log!Init
<1>2. IInv /\ Bare /\ [Next]_vars => Bare' /\ [Log!Next]_([c \in Convs |-> History(c)])
  BY BareStep, StepImplements
<1> QED
  BY <1>1, <1>2, Invariant, PTL DEF Spec, ImplementsLog, Log!Spec
=============================================================================
