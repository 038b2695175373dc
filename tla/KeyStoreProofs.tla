---------------------------- MODULE KeyStoreProofs ----------------------------
(***************************************************************************)
(* The key store for any number of requests and every fault.  The          *)
(* invariant says what a request's label promises of the row and the cache *)
(* of the key it is about, and what the cache of a key owes to its row.    *)
(***************************************************************************)
EXTENDS KeyStore, TLAPS

-----------------------------------------------------------------------------
(* The invariant.                                                          *)

\* A row is there once its creator has committed; a revoking request has
\* found the row, and from "uncache" on has revoked it.
LabelsTell ==
    \A r \in Requests :
      /\ row[r].state # "absent" =>
           req[r].op = "create" /\ req[r].pc \in {"refresh", "answered", "failed", "killed"}
      /\ req[r].pc \in {"lock", "write", "refresh"} => req[r].op = "create"
      /\ req[r].pc = "verify" => req[r].tok \in Keys
      /\ req[r].pc \in {"select", "commit", "uncache"} => req[r].op = "revoke"
      /\ req[r].pc = "refresh" => row[r].state # "absent" /\ cache[r].state = "absent"
      /\ req[r].pc \in {"commit", "uncache"} =>
           req[r].key \in Keys /\ row[req[r].key].state # "absent"
      /\ req[r].pc = "uncache" => row[req[r].key].state = "revoked"

\* What an answer means, and what an audit entry means.
AnswerTells(r) ==
    /\ r \in issued <=> req[r].pc = "answered" /\ req[r].op = "create"
    /\ r \in issued => row[r].state # "absent"
    /\ req[r].pc = "answered" /\ req[r].op = "revoke" =>
         req[r].key \in Keys /\ row[req[r].key].state = "revoked"
    /\ "event" \in todo[r] \/ <<r, "event">> \in audit => req[r].pc = "answered"
AnswersTell == \A r \in Requests : AnswerTells(r)

Pending(k) == \E r \in Requests : req[r].pc = "uncache" /\ req[r].key = k

\* An entry is a copy of its row; when it is not, the row was revoked and the
\* news is under way or was never sent.
EntryTells(k) ==
    /\ cache[k].state # "absent" =>
         row[k].state # "absent" /\ cache[k].admin = row[k].admin /\ cache[k].expires = row[k].expires
    /\ cache[k].state = "revoked" => row[k].state = "revoked"
    /\ row[k].state = "revoked" /\ (cache[k].state = "live" \/ req[k].pc = "refresh") =>
         k \in unnoticed \/ Pending(k)
    /\ up /\ k \in issued /\ Good(k) => cache[k] = row[k]
CacheTells == \A k \in Keys : EntryTells(k)

\* While the application is down nothing runs and nothing is cached.
DownIsSilent ==
    ~up => \A r \in Requests : req[r].pc \notin InFlight /\ cache[r].state = "absent"

\* A request that creates with the bootstrap key holds the row's lock.
CreatorHoldsLock ==
    \A r \in Requests : req[r].pc = "write" /\ req[r].tok = Boot => holder = r

IInv == /\ TypeOK /\ LabelsTell /\ AnswersTell /\ CacheTells /\ DownIsSilent
        /\ CreatorHoldsLock /\ LockComesFree /\ BootstrapOnce /\ NoAuditForgotten

-----------------------------------------------------------------------------
(* The invariant is inductive.                                             *)

USE DistinctAssumption DEF Keys, InFlight, Ended, Writers

\* Only r's request moves, to pc, and keeps what it is about.
Moved(r, pc) ==
    /\ req'[r].pc = pc
    /\ req'[r].op = req[r].op /\ req'[r].ui = req[r].ui
    /\ req'[r].tok = req[r].tok /\ req'[r].key = req[r].key
    /\ \A s \in Requests : s # r => req'[s] = req[s]

Request == [pc : {"idle"} \cup InFlight \cup Ended, op : {"create", "revoke"},
            ui : BOOLEAN, tok : Keys \cup {Boot}, key : Keys \cup {None}]

LEMMA GotoMoves ==
  ASSUME TypeOK, NEW r \in Requests, NEW pc \in {"idle"} \cup InFlight \cup Ended, Goto(r, pc)
  PROVE  req' \in [Requests -> Request] /\ Moved(r, pc)
<1> DEFINE V == [req[r] EXCEPT !.pc = pc]
<1>1. req \in [Requests -> Request] /\ req[r] \in Request
  BY DEF TypeOK, Request
<1>2. /\ V \in Request /\ V.pc = pc /\ V.op = req[r].op /\ V.ui = req[r].ui
      /\ V.tok = req[r].tok /\ V.key = req[r].key
  BY <1>1 DEF Request
<1>3. req' = [req EXCEPT ![r] = V]
  BY DEF Goto
<1> HIDE DEF V
<1> QED
  BY <1>1, <1>2, <1>3 DEF Moved

\* Rows are neither removed nor given back, so the other requests' answers
\* stay true.
LEMMA AnswersFramed ==
  ASSUME IInv, NEW r \in Requests, AnswerTells(r)',
         \A s \in Requests : s # r =>
           /\ req'[s] = req[s] /\ todo'[s] = todo[s]
           /\ s \in issued' <=> s \in issued,
         audit' = audit,
         \A k \in Keys : /\ row[k].state = "revoked" => row'[k].state = "revoked"
                         /\ row[k].state # "absent" => row'[k].state # "absent"
  PROVE  AnswersTell'
<1>1. ASSUME NEW s \in Requests, s # r PROVE AnswerTells(s)'
  <2>1. AnswerTells(s) /\ req'[s] = req[s] /\ todo'[s] = todo[s] /\ (s \in issued' <=> s \in issued)
    BY <1>1 DEF IInv, AnswersTell
  <2>2. /\ s \in issued => row'[s].state # "absent"
        /\ req[s].key \in Keys /\ row[req[s].key].state = "revoked" => row'[req[s].key].state = "revoked"
    BY <2>1 DEF AnswerTells
  <2> QED
    BY <2>1, <2>2 DEF AnswerTells
<1> QED
  BY <1>1 DEF AnswersTell

LEMMA InitIInv == Init => IInv
<1> SUFFICES ASSUME Init PROVE IInv
  OBVIOUS
<1> USE DEF Init, NoEntry
<1>1. TypeOK
  BY DEF TypeOK, Entry
<1>2. LabelsTell /\ AnswersTell /\ CacheTells /\ NoAuditForgotten
  BY DEF LabelsTell, AnswersTell, AnswerTells, CacheTells, EntryTells, Good, NoAuditForgotten
<1>3. DownIsSilent /\ CreatorHoldsLock /\ LockComesFree /\ BootstrapOnce
  BY DEF DownIsSilent, CreatorHoldsLock, LockComesFree, BootstrapOnce
<1> QED
  BY <1>1, <1>2, <1>3 DEF IInv

LEMMA LockIInv == ASSUME IInv, NEW r \in Requests, LockBootstrap(r) PROVE IInv'
<1> DEFINE pc == IF consumed THEN "refused" ELSE "write"
<1>1. req' \in [Requests -> Request] /\ Moved(r, pc) /\ req[r].pc = "lock"
  BY GotoMoves DEF LockBootstrap, IInv
<1>2. TypeOK'
  BY <1>1 DEF LockBootstrap, IInv, TypeOK, Request, database, auditing
<1>3. LabelsTell' /\ AnswersTell' /\ NoAuditForgotten'
  BY <1>1 DEF LockBootstrap, IInv, LabelsTell, AnswersTell, AnswerTells, NoAuditForgotten, Moved, auditing
<1>4. CacheTells'
  <2>1. \A k \in Keys : Pending(k) => Pending(k)'
    BY <1>1 DEF Pending, Moved
  <2> QED
    BY <1>1, <2>1 DEF LockBootstrap, IInv, CacheTells, EntryTells, Moved, Good
<1>5. DownIsSilent' /\ CreatorHoldsLock' /\ LockComesFree' /\ BootstrapOnce'
  BY <1>1 DEF LockBootstrap, IInv, DownIsSilent, CreatorHoldsLock, LockComesFree,
              BootstrapOnce, Moved, TypeOK
<1> QED
  BY <1>2, <1>3, <1>4, <1>5 DEF IInv

\* Steps of r that change its label and possibly its audit tasks, no more.
LEMMA QuietIInv ==
  ASSUME IInv, NEW r \in Requests, NEW pc \in {"declined", "refused", "write", "select"},
         req[r].pc \in {"verify", "write", "select"},
         pc = "write" => req[r].op = "create" /\ req[r].tok # Boot /\ req[r].pc = "verify",
         pc = "select" => req[r].op = "revoke",
         Goto(r, pc), holder' = IF holder = r THEN None ELSE holder,
         todo' \in [Requests -> SUBSET Writers], "event" \notin todo'[r],
         \A s \in Requests : s # r => todo'[s] = todo[s],
         UNCHANGED <<up, row, cache, consumed, expired, audit, lost, issued, unnoticed>>
  PROVE  IInv'
<1>1. req' \in [Requests -> Request] /\ Moved(r, pc)
  BY GotoMoves DEF IInv
<1>2. TypeOK'
  BY <1>1 DEF IInv, TypeOK, Request
<1>3. LabelsTell' /\ NoAuditForgotten'
  BY <1>1 DEF IInv, LabelsTell, NoAuditForgotten, Moved
<1>4. AnswersTell'
  BY <1>1 DEF IInv, AnswersTell, AnswerTells, Moved
<1>5. CacheTells'
  <2>1. \A k \in Keys : Pending(k) => Pending(k)'
    BY <1>1 DEF Pending, Moved
  <2> QED
    BY <1>1, <2>1 DEF IInv, CacheTells, EntryTells, Moved, Good
<1>6. DownIsSilent' /\ CreatorHoldsLock' /\ LockComesFree' /\ BootstrapOnce'
  BY <1>1 DEF IInv, DownIsSilent, CreatorHoldsLock, LockComesFree, BootstrapOnce, Moved, TypeOK
<1> QED
  BY <1>2, <1>3, <1>4, <1>5, <1>6 DEF IInv

LEMMA WriteIInv ==
  ASSUME IInv, NEW r \in Requests, NEW admin \in BOOLEAN, NEW expires \in BOOLEAN,
         Write(r, admin, expires)
  PROVE  IInv'
<1> USE DEF Write, Rollback, auditing
<1>1. req' \in [Requests -> Request] /\ Moved(r, "refresh") /\ req[r].pc = "write"
  BY GotoMoves DEF IInv
<1>2. /\ row[r].state = "absent" /\ req[r].op = "create"
      /\ row' \in [Keys -> Entry]
      /\ row'[r].state = "live"
      /\ \A k \in Keys : k # r => row'[k] = row[k]
  BY <1>1 DEF IInv, LabelsTell, TypeOK, Entry
<1>3. TypeOK'
  BY <1>1, <1>2 DEF IInv, TypeOK, Request
<1>4. cache[r].state = "absent" /\ r \notin issued
  BY <1>1, <1>2 DEF IInv, CacheTells, EntryTells, AnswersTell, AnswerTells
<1>5. \A s \in Requests : req[s].pc \in {"commit", "uncache"} => req[s].key # r
  BY <1>2 DEF IInv, LabelsTell
<1>6. \A s \in Requests : req[s].pc = "answered" /\ req[s].op = "revoke" => req[s].key # r
  BY <1>2 DEF IInv, AnswersTell, AnswerTells
<1>7. LabelsTell' /\ NoAuditForgotten'
  BY <1>1, <1>2, <1>4, <1>5 DEF IInv, LabelsTell, NoAuditForgotten, Moved
<1>8. AnswersTell'
  <2>1. AnswerTells(r)'
    BY <1>1, <1>2, <1>4 DEF IInv, AnswersTell, AnswerTells, Moved
  <2>2. ASSUME NEW s \in Requests, s # r PROVE AnswerTells(s)'
    <3>1. req'[s] = req[s] /\ AnswerTells(s)
      BY <1>1, <2>2 DEF IInv, AnswersTell, Moved
    <3>2. req[s].pc = "answered" /\ req[s].op = "revoke" => row'[req[s].key] = row[req[s].key]
      BY <1>2, <1>6, <3>1 DEF AnswerTells
    <3> QED
      BY <1>2, <2>2, <3>1, <3>2 DEF AnswerTells
  <2> QED
    BY <2>1, <2>2 DEF AnswersTell
<1>9. CacheTells'
  <2>1. \A k \in Keys : Pending(k) => Pending(k)'
    BY <1>1 DEF Pending, Moved
  <2> QED
    BY <1>1, <1>2, <1>4, <2>1 DEF IInv, CacheTells, EntryTells, Moved, Good
<1>10. DownIsSilent' /\ CreatorHoldsLock'
  BY <1>1 DEF IInv, DownIsSilent, CreatorHoldsLock, Moved
<1>11. LockComesFree'
  BY <1>1 DEF IInv, CreatorHoldsLock, LockComesFree, Moved, TypeOK
<1>12. BootstrapOnce'
  <2>1. req[r].tok = Boot => ~consumed
    BY <1>1 DEF IInv, CreatorHoldsLock, LockComesFree
  <2> QED
    <3>1. CASE req[r].tok = Boot
      <4>1. \A s \in Requests : req[s].tok = Boot => row[s].state = "absent"
        BY <2>1, <3>1 DEF IInv, BootstrapOnce
      <4>2. consumed'
        BY <3>1
      <4> QED
        BY <1>1, <1>2, <3>1, <4>1, <4>2 DEF BootstrapOnce, Moved
    <3>2. CASE req[r].tok # Boot
      <4>1. consumed' = consumed
        BY <3>2 DEF IInv, TypeOK
      <4>2. ASSUME NEW s \in Requests
            PROVE  (req[s].tok = Boot /\ row[s].state # "absent")'
                     <=> req[s].tok = Boot /\ row[s].state # "absent"
        BY <1>1, <1>2, <3>2 DEF Moved
      <4> QED
        BY <4>1, <4>2 DEF IInv, BootstrapOnce
    <3> QED
      BY <3>1, <3>2
<1> QED
  BY <1>3, <1>7, <1>8, <1>9, <1>10, <1>11, <1>12 DEF IInv

\* add_key puts a copy of the row in the cache; a revocation since the commit
\* is under way or was not noticed.
LEMMA CacheIInv ==
  ASSUME IInv, NEW r \in Requests, NEW pc \in {"answered", "failed"},
         req[r].pc = "refresh", Cache(r), Goto(r, pc),
         issued' = IF pc = "answered" THEN issued \cup {r} ELSE issued,
         todo' \in [Requests -> SUBSET Writers],
         pc = "answered" => todo'[r] # {},
         pc # "answered" => todo'[r] = todo[r],
         \A s \in Requests : s # r => todo'[s] = todo[s],
         UNCHANGED <<up, database, audit, lost, unnoticed>>
  PROVE  IInv'
<1> USE DEF Cache, database
<1>1. req' \in [Requests -> Request] /\ Moved(r, pc)
  BY GotoMoves DEF IInv
<1>2. /\ row[r].state # "absent" /\ req[r].op = "create" /\ cache[r].state = "absent"
      /\ cache' \in [Keys -> Entry]
      /\ cache'[r].state = "live" /\ cache'[r].admin = row[r].admin
      /\ cache'[r].expires = row[r].expires
      /\ \A k \in Keys : k # r => cache'[k] = cache[k]
  BY DEF IInv, LabelsTell, TypeOK, Entry
<1>3. row[r].state = "live" => cache'[r] = row[r]
  BY DEF IInv, TypeOK, Entry
<1>4. TypeOK'
  BY <1>1, <1>2 DEF IInv, TypeOK, Request
<1>5. LabelsTell' /\ NoAuditForgotten'
  BY <1>1, <1>2 DEF IInv, LabelsTell, NoAuditForgotten, Moved, TypeOK
<1>6. AnswersTell'
  <2>1. AnswerTells(r)'
    BY <1>1, <1>2 DEF IInv, AnswersTell, AnswerTells, Moved
  <2>2. ASSUME NEW s \in Requests, s # r PROVE AnswerTells(s)'
    BY <1>1, <1>2, <2>2 DEF IInv, AnswersTell, AnswerTells, Moved
  <2> QED
    BY <2>1, <2>2 DEF AnswersTell
<1>7. CacheTells'
  <2>1. \A k \in Keys : Pending(k) => Pending(k)'
    BY <1>1 DEF Pending, Moved
  <2> QED
    BY <1>1, <1>2, <1>3, <2>1 DEF IInv, CacheTells, EntryTells, Moved, Good
<1>8. DownIsSilent' /\ CreatorHoldsLock' /\ LockComesFree' /\ BootstrapOnce'
  BY <1>1, <1>2 DEF IInv, DownIsSilent, CreatorHoldsLock, LockComesFree, BootstrapOnce,
                    Moved, TypeOK
<1> QED
  BY <1>4, <1>5, <1>6, <1>7, <1>8 DEF IInv

LEMMA SelectIInv == ASSUME IInv, NEW r \in Requests, NEW k \in Keys, Select(r, k) PROVE IInv'
<1> USE DEF Select, database
<1>0. req[r].pc = "select" /\ req[r].op = "revoke"
  BY DEF IInv, LabelsTell
<1>1. CASE row[k].state # "live"
  <2>1. Goto(r, "declined") /\ todo'[r] = {"middleware"} /\ holder # r
    BY <1>0, <1>1 DEF IInv, LockComesFree, TypeOK
  <2>2. /\ todo' \in [Requests -> SUBSET Writers]
        /\ \A s \in Requests : s # r => todo'[s] = todo[s]
    BY <1>1 DEF IInv, TypeOK
  <2> QED
    BY <1>0, <2>1, <2>2, QuietIInv
<1>2. CASE row[k].state = "live"
  <2> DEFINE V == [req[r] EXCEPT !.pc = "commit", !.key = k]
  <2>1. req \in [Requests -> Request] /\ req[r] \in Request
    BY DEF IInv, TypeOK, Request
  <2>2. /\ V \in Request /\ V.pc = "commit" /\ V.op = req[r].op /\ V.key = k
        /\ V.tok = req[r].tok
    BY <2>1 DEF Request
  <2>3. req' = [req EXCEPT ![r] = V]
    BY <1>2
  <2> HIDE DEF V
  <2>4. /\ req' \in [Requests -> Request]
        /\ req'[r].pc = "commit" /\ req'[r].op = "revoke" /\ req'[r].key = k
        /\ req'[r].tok = req[r].tok
        /\ \A s \in Requests : s # r => req'[s] = req[s]
    BY <1>0, <2>1, <2>2, <2>3
  <2>5. TypeOK'
    BY <1>2, <2>4 DEF IInv, TypeOK, Request
  <2>6. LabelsTell' /\ NoAuditForgotten'
    BY <1>0, <1>2, <2>4 DEF IInv, LabelsTell, NoAuditForgotten
  <2>7. AnswersTell'
    <3>1. AnswerTells(r)'
      BY <1>0, <1>2, <2>4 DEF IInv, AnswersTell, AnswerTells
    <3> QED
      BY <1>2, <2>4, <3>1, AnswersFramed
  <2>8. CacheTells'
    <3>1. \A j \in Keys : Pending(j) => Pending(j)'
      BY <1>0, <2>4 DEF Pending
    <3> QED
      BY <1>0, <1>2, <2>4, <3>1 DEF IInv, CacheTells, EntryTells, Good
  <2>9. DownIsSilent' /\ CreatorHoldsLock' /\ LockComesFree' /\ BootstrapOnce'
    BY <1>0, <1>2, <2>4 DEF IInv, DownIsSilent, CreatorHoldsLock, LockComesFree,
                            BootstrapOnce, TypeOK
  <2> QED
    BY <2>5, <2>6, <2>7, <2>8, <2>9 DEF IInv
<1> QED
  BY <1>1, <1>2

\* Revoking a row: whoever created it is done with it or will find it revoked.
LEMMA RevokeIInv == ASSUME IInv, NEW r \in Requests, Revoke(r) PROVE IInv'
<1> SUFFICES ASSUME NEW k \in Keys, k = req[r].key PROVE IInv'
  BY DEF Revoke, IInv, LabelsTell
<1>1. req' \in [Requests -> Request] /\ Moved(r, "uncache") /\ req[r].pc = "commit"
  BY GotoMoves DEF Revoke, IInv
<1>2. /\ k \in Keys /\ row[k].state # "absent" /\ req[r].op = "revoke"
      /\ row' \in [Keys -> Entry]
      /\ row'[k].state = "revoked" /\ row'[k].admin = row[k].admin
      /\ row'[k].expires = row[k].expires
      /\ \A j \in Keys : j # k => row'[j] = row[j]
  <2>1. k \in Keys /\ row[k].state # "absent" /\ req[r].op = "revoke"
    BY <1>1 DEF IInv, LabelsTell
  <2>2. row' = [row EXCEPT ![k].state = "revoked"]
    BY DEF Revoke
  <2> QED
    BY <2>1, <2>2 DEF IInv, TypeOK, Entry
<1>p. Pending(k)' /\ \A j \in Keys : Pending(j) => Pending(j)'
  BY <1>1 DEF Pending, Moved
<1>q. req'[r].key = k
  BY <1>1 DEF Moved
<1> USE DEF Revoke, auditing
<1>3. TypeOK'
  BY <1>1, <1>2 DEF IInv, TypeOK, Request
<1>4. LabelsTell' /\ NoAuditForgotten'
  BY <1>1, <1>2, <1>q DEF IInv, LabelsTell, NoAuditForgotten, Moved
<1>5. AnswersTell'
  <2>1. AnswerTells(r)'
    BY <1>1, <1>2 DEF IInv, AnswersTell, AnswerTells, Moved
  <2> QED
    BY <1>1, <1>2, <2>1, AnswersFramed DEF Moved
<1>6. CacheTells'
  <2>1. EntryTells(k)'
    BY <1>2, <1>p DEF IInv, CacheTells, EntryTells, Good
  <2>2. ASSUME NEW j \in Keys, j # k PROVE EntryTells(j)'
    <3>1. EntryTells(j) /\ row'[j] = row[j] /\ (Pending(j) => Pending(j)')
      BY <1>2, <1>p, <2>2 DEF IInv, CacheTells
    <3>2. req'[j].pc = "refresh" => req[j].pc = "refresh"
      BY <1>1 DEF Moved
    <3> QED
      BY <3>1, <3>2 DEF EntryTells, Good
  <2> QED
    BY <2>1, <2>2 DEF CacheTells
<1>7. DownIsSilent' /\ CreatorHoldsLock' /\ LockComesFree'
  BY <1>1 DEF IInv, DownIsSilent, CreatorHoldsLock, LockComesFree, Moved, TypeOK
<1>8. BootstrapOnce'
  <2>1. ASSUME NEW s \in Requests
        PROVE  (req[s].tok = Boot /\ row[s].state # "absent")'
                 <=> req[s].tok = Boot /\ row[s].state # "absent"
    BY <1>1, <1>2 DEF Moved
  <2> QED
    BY <2>1 DEF IInv, BootstrapOnce
<1> QED
  BY <1>3, <1>4, <1>5, <1>6, <1>7, <1>8 DEF IInv

\* The cache hears of the revocation, or the key is noted as unnoticed.
LEMMA UncacheIInv ==
  ASSUME IInv, NEW r \in Requests, NEW pc \in {"answered", "failed"},
         req[r].pc = "uncache", MarkRevoked(req[r].key), Goto(r, pc),
         todo' \in [Requests -> SUBSET Writers],
         pc = "answered" => todo'[r] # {},
         pc # "answered" => todo'[r] = todo[r],
         \A s \in Requests : s # r => todo'[s] = todo[s],
         UNCHANGED <<up, database, audit, lost, issued>>
  PROVE  IInv'
<1> USE DEF database
<1> SUFFICES ASSUME NEW k \in Keys, k = req[r].key PROVE IInv'
  BY DEF IInv, LabelsTell
<1>1. req' \in [Requests -> Request] /\ Moved(r, pc)
  BY GotoMoves DEF IInv
<1>2. k \in Keys /\ row[k].state = "revoked" /\ req[r].op = "revoke"
  BY DEF IInv, LabelsTell
<1>q. MarkRevoked(k) /\ req'[r].key = k
  BY <1>1 DEF Moved
<1>p. \A j \in Keys : j # k /\ Pending(j) => Pending(j)'
  BY <1>1 DEF Pending, Moved
<1>3. /\ cache' \in [Keys -> Entry]
      /\ cache[k].state = "absent" => cache' = cache /\ k \in unnoticed'
      /\ cache[k].state # "absent" => cache'[k].state = "revoked"
      /\ cache'[k].admin = cache[k].admin /\ cache'[k].expires = cache[k].expires
      /\ \A j \in Keys : j # k => cache'[j] = cache[j]
      /\ unnoticed \subseteq unnoticed' /\ unnoticed' \subseteq Keys
  <2>1. cache \in [Keys -> Entry] /\ unnoticed \subseteq Keys
    BY DEF IInv, TypeOK
  <2>2. CASE cache[k].state = "absent"
    BY <1>2, <1>q, <2>1, <2>2 DEF MarkRevoked
  <2>3. CASE cache[k].state # "absent"
    <3>1. cache' = [cache EXCEPT ![k].state = "revoked"] /\ unnoticed' = unnoticed
      BY <1>q, <2>3 DEF MarkRevoked
    <3> QED
      BY <1>2, <2>1, <2>3, <3>1 DEF Entry
  <2> QED
    BY <2>2, <2>3
<1>4. TypeOK'
  BY <1>1, <1>3 DEF IInv, TypeOK, Request
<1>5. LabelsTell'
  <2>1. \A s \in Requests : req'[s].pc = "refresh" => cache'[s].state = "absent"
    <3>1. req[k].pc = "refresh" => cache[k].state = "absent"
      BY DEF IInv, LabelsTell
    <3>2. \A s \in Requests : req'[s].pc = "refresh" => req[s].pc = "refresh"
      BY <1>1 DEF Moved
    <3> QED
      BY <1>3, <3>1, <3>2 DEF IInv, LabelsTell
  <2> QED
    BY <1>1, <1>2, <2>1 DEF IInv, LabelsTell, Moved
<1>n. NoAuditForgotten'
  BY <1>1 DEF IInv, NoAuditForgotten, Moved, TypeOK
<1>6. AnswersTell'
  <2>1. AnswerTells(r)'
    BY <1>1, <1>2, <1>q DEF IInv, AnswersTell, AnswerTells, Moved
  <2> QED
    BY <1>1, <2>1, AnswersFramed DEF Moved
<1>7. CacheTells'
  <2>1. req[k].pc = "refresh" => cache[k].state = "absent"
    BY <1>2 DEF IInv, LabelsTell
  <2>2. EntryTells(k)'
    <3>1. req'[k].pc = "refresh" => req[k].pc = "refresh"
      BY <1>1, <1>2 DEF Moved
    <3> QED
      BY <1>2, <1>3, <2>1, <3>1 DEF IInv, CacheTells, EntryTells, Good
  <2>3. ASSUME NEW j \in Keys, j # k PROVE EntryTells(j)'
    <3>1. /\ EntryTells(j) /\ cache'[j] = cache[j] /\ (Pending(j) => Pending(j)')
          /\ j \in unnoticed => j \in unnoticed'
      BY <1>3, <1>p, <2>3 DEF IInv, CacheTells
    <3>2. req'[j].pc = "refresh" => req[j].pc = "refresh"
      BY <1>1 DEF Moved
    <3> QED
      BY <3>1, <3>2 DEF EntryTells, Good
  <2> QED
    BY <2>2, <2>3 DEF CacheTells
<1>8. DownIsSilent' /\ CreatorHoldsLock' /\ LockComesFree' /\ BootstrapOnce'
  BY <1>1 DEF IInv, DownIsSilent, CreatorHoldsLock, LockComesFree, BootstrapOnce, Moved, TypeOK
<1> QED
  BY <1>4, <1>5, <1>n, <1>6, <1>7, <1>8 DEF IInv

\* A failed statement: the label, and the lock when it was r's.
LEMMA FailIInv == ASSUME IInv, NEW r \in Requests, Fail(r) PROVE IInv'
<1> USE DEF Fail, Rollback, auditing
<1>1. /\ req' \in [Requests -> Request] /\ Moved(r, "failed")
      /\ req[r].pc \in {"lock", "write", "refresh", "select", "commit"}
  BY GotoMoves DEF IInv
<1>2. TypeOK'
  BY <1>1 DEF IInv, TypeOK, Request
<1>3. LabelsTell' /\ NoAuditForgotten'
  BY <1>1 DEF IInv, LabelsTell, NoAuditForgotten, Moved
<1>4. AnswersTell'
  <2>1. AnswerTells(r)'
    BY <1>1 DEF IInv, AnswersTell, AnswerTells, Moved
  <2> QED
    BY <1>1, <2>1, AnswersFramed DEF Moved
<1>5. CacheTells'
  <2>1. \A k \in Keys : Pending(k) => Pending(k)'
    BY <1>1 DEF Pending, Moved
  <2>2. \A k \in Keys : req'[k].pc = "refresh" => req[k].pc = "refresh"
    BY <1>1 DEF Moved
  <2> QED
    BY <2>1, <2>2 DEF IInv, CacheTells, EntryTells, Good
<1>6. DownIsSilent' /\ CreatorHoldsLock'
  BY <1>1 DEF IInv, DownIsSilent, CreatorHoldsLock, Moved
<1>7. LockComesFree'
  BY <1>1 DEF IInv, LockComesFree, Moved, TypeOK
<1>8. BootstrapOnce'
  <2>1. \A s \in Requests : req'[s].tok = req[s].tok
    BY <1>1 DEF Moved
  <2> QED
    BY <2>1 DEF IInv, BootstrapOnce
<1> QED
  BY <1>2, <1>3, <1>4, <1>5, <1>6, <1>7, <1>8 DEF IInv

\* A request begins about nothing.
LEMMA BeginIInv ==
  ASSUME IInv, NEW r \in Requests, NEW op \in {"create", "revoke"}, NEW ui \in BOOLEAN,
         NEW tok \in Keys \cup {Boot}, Begin(r, op, ui, tok)
  PROVE  IInv'
<1> USE DEF Begin, database, auditing
<1> DEFINE pc == IF tok = Boot THEN "lock"
                 ELSE IF cache[tok].state = "absent" THEN "refused" ELSE "verify"
           V == [pc |-> pc, op |-> op, ui |-> ui, tok |-> tok, key |-> None]
<1>1. V \in Request /\ V.pc \in {"lock", "refused", "verify"}
  BY DEF Request
<1>2. /\ V.op = op /\ V.tok = tok
      /\ V.pc = "lock" => op = "create"
      /\ V.pc = "verify" => tok \in Keys
  OBVIOUS
<1>3. req' = [req EXCEPT ![r] = V] /\ req \in [Requests -> Request]
  BY DEF IInv, TypeOK, Request
<1> HIDE DEF V, pc
<1>4. /\ req' \in [Requests -> Request]
      /\ req'[r].pc \in {"lock", "refused", "verify"}
      /\ req'[r].pc = "lock" => req'[r].op = "create"
      /\ req'[r].pc = "verify" => req'[r].tok \in Keys
      /\ \A s \in Requests : s # r => req'[s] = req[s]
  BY <1>1, <1>2, <1>3
<1>5. req[r].pc = "idle" /\ row[r].state = "absent" /\ up
  BY DEF IInv, LabelsTell
<1>6. TypeOK'
  BY <1>4 DEF IInv, TypeOK, Request
<1>7. LabelsTell' /\ NoAuditForgotten'
  BY <1>4, <1>5 DEF IInv, LabelsTell, NoAuditForgotten
<1>8. AnswersTell'
  <2>1. AnswerTells(r)'
    BY <1>4, <1>5 DEF IInv, AnswersTell, AnswerTells
  <2> QED
    BY <1>4, <2>1, AnswersFramed
<1>9. CacheTells'
  <2>1. \A k \in Keys : Pending(k) => Pending(k)'
    BY <1>4, <1>5 DEF Pending
  <2>2. \A k \in Keys : req'[k].pc = "refresh" => req[k].pc = "refresh"
    BY <1>4
  <2> QED
    BY <2>1, <2>2 DEF IInv, CacheTells, EntryTells, Good
<1>10. DownIsSilent' /\ CreatorHoldsLock' /\ LockComesFree'
  BY <1>4, <1>5 DEF IInv, DownIsSilent, CreatorHoldsLock, LockComesFree, TypeOK
<1>11. BootstrapOnce'
  <2>1. ASSUME NEW s \in Requests
        PROVE  (req[s].tok = Boot /\ row[s].state # "absent")'
                 <=> req[s].tok = Boot /\ row[s].state # "absent"
    BY <1>4, <1>5
  <2> QED
    BY <2>1 DEF IInv, BootstrapOnce
<1> QED
  BY <1>6, <1>7, <1>8, <1>9, <1>10, <1>11 DEF IInv

\* The request's steps.
LEMMA StepIInv == ASSUME IInv, NEW r \in Requests, Step(r) PROVE IInv'
<1>1. CASE Verify(r)
  <2> DEFINE pc == CASE ~Accepts(req[r].tok)      -> "refused"
                     [] ~cache[req[r].tok].admin  -> "declined"
                     [] req[r].op = "create"      -> "write"
                     [] req[r].op = "revoke"      -> "select"
  <2>0. req[r] \in Request /\ req[r].pc = "verify" /\ holder # r
    BY <1>1 DEF Verify, IInv, TypeOK, Request, LockComesFree
  <2>1. /\ pc \in {"declined", "refused", "write", "select"}
        /\ pc = "write" => req[r].op = "create"
        /\ pc = "select" => req[r].op = "revoke"
    BY <2>0 DEF Request
  <2>2. /\ Goto(r, pc)
        /\ todo' \in [Requests -> SUBSET Writers] /\ "event" \notin todo'[r]
        /\ \A s \in Requests : s # r => todo'[s] = todo[s]
    BY <1>1 DEF Verify, IInv, TypeOK
  <2>3. UNCHANGED <<up, row, cache, consumed, expired, audit, lost, issued, unnoticed, holder>>
    BY <1>1 DEF Verify, database
  <2> HIDE DEF pc
  <2>4. req[r].tok # Boot
    BY <2>0 DEF IInv, LabelsTell
  <2> QED
    BY <2>0, <2>1, <2>2, <2>3, <2>4, QuietIInv
<1>2. CASE Invalid(r)
  BY <1>2, QuietIInv DEF Invalid, Rollback, auditing, IInv, TypeOK, AnswersTell, AnswerTells
<1>3. CASE AddKey(r)
  BY <1>3, CacheIInv DEF AddKey, IInv, TypeOK
<1>4. CASE Uncache(r)
  BY <1>4, UncacheIInv DEF Uncache, IInv, TypeOK
<1>5. CASE ReloadFails(r)
  <2>1. CASE req[r].pc = "refresh" /\ Cache(r) /\ UNCHANGED unnoticed
    BY <1>5, <2>1, CacheIInv DEF ReloadFails, auditing, IInv, TypeOK
  <2>2. CASE req[r].pc = "uncache" /\ MarkRevoked(req[r].key)
    BY <1>5, <2>2, UncacheIInv DEF ReloadFails, auditing, IInv, TypeOK
  <2> QED
    BY <1>5, <2>1, <2>2 DEF ReloadFails
<1> QED
  BY <1>1, <1>2, <1>3, <1>4, <1>5, LockIInv, WriteIInv, SelectIInv, RevokeIInv, FailIInv
     DEF Step

\* Audit tasks and the clock.
LEMMA TaskIInv ==
  ASSUME IInv, \/ \E r \in Requests, w \in Writers : Audit(r, w)
               \/ \E k \in Keys : Expire(k)
  PROVE  IInv'
<1>1. ASSUME NEW r \in Requests, NEW w \in Writers, Audit(r, w) PROVE IInv'
  <2> USE DEF Audit, WriteAudit, LoseAudit, database
  <2>1. /\ req' = req /\ row' = row /\ cache' = cache /\ up' = up /\ issued' = issued
        /\ consumed' = consumed /\ holder' = holder /\ expired' = expired
        /\ unnoticed' = unnoticed
    BY <1>1
  <2>2. TypeOK'
    BY <1>1, <2>1 DEF IInv, TypeOK, Entry
  <2>3. \A s \in Requests :
          /\ "event" \in todo'[s] \/ <<s, "event">> \in audit'
               => "event" \in todo[s] \/ <<s, "event">> \in audit
          /\ s # r => todo'[s] = todo[s]
          /\ lost \subseteq lost' /\ audit \subseteq audit'
          /\ \A v \in todo[s] : v \in todo'[s] \/ <<s, v>> \in audit' \/ s \in lost'
    BY <1>1 DEF IInv, TypeOK
  <2>4. AnswersTell'
    BY <2>1, <2>3 DEF IInv, AnswersTell, AnswerTells
  <2>5. NoAuditForgotten'
    BY <2>1, <2>3 DEF IInv, NoAuditForgotten
  <2>6. LabelsTell' /\ CacheTells' /\ DownIsSilent' /\ CreatorHoldsLock' /\ LockComesFree' /\ BootstrapOnce'
    BY <2>1 DEF IInv, LabelsTell, CacheTells, EntryTells, Pending, Good, DownIsSilent,
                CreatorHoldsLock, LockComesFree, BootstrapOnce
  <2> QED
    BY <2>2, <2>4, <2>5, <2>6 DEF IInv
<1>2. ASSUME NEW k \in Keys, Expire(k) PROVE IInv'
  BY <1>2 DEF Expire, auditing, IInv, TypeOK, Entry, LabelsTell, AnswersTell, AnswerTells,
              CacheTells, EntryTells, Pending, Good, DownIsSilent, CreatorHoldsLock,
              LockComesFree, BootstrapOnce, NoAuditForgotten
<1> QED
  BY <1>1, <1>2

\* A row revoked by another hand is noted as such.
LEMMA ExternalIInv == ASSUME IInv, NEW k \in Keys, RevokeExternally(k) PROVE IInv'
<1> USE DEF RevokeExternally, auditing
<1>1. /\ row' \in [Keys -> Entry]
      /\ row'[k].state = "revoked" /\ row'[k].admin = row[k].admin
      /\ row'[k].expires = row[k].expires
      /\ row[k].state = "live" /\ k \in unnoticed'
      /\ \A j \in Keys : j # k => row'[j] = row[j] /\ (j \in unnoticed' <=> j \in unnoticed)
  BY DEF IInv, TypeOK, Entry
<1>2. TypeOK'
  BY <1>1 DEF IInv, TypeOK
<1>3. LabelsTell' /\ NoAuditForgotten'
  BY <1>1 DEF IInv, LabelsTell, NoAuditForgotten
<1>4. AnswersTell'
  <2>1. AnswerTells(k)'
    BY <1>1 DEF IInv, AnswersTell, AnswerTells
  <2> QED
    BY <1>1, <2>1, AnswersFramed
<1>5. CacheTells'
  <2>1. EntryTells(k)'
    BY <1>1 DEF IInv, CacheTells, EntryTells, Good
  <2>2. ASSUME NEW j \in Keys, j # k PROVE EntryTells(j)'
    <3>1. EntryTells(j) /\ row'[j] = row[j] /\ (Pending(j)' <=> Pending(j))
      BY <1>1, <2>2 DEF IInv, CacheTells, Pending
    <3> QED
      BY <1>1, <2>2, <3>1 DEF EntryTells, Good
  <2> QED
    BY <2>1, <2>2 DEF CacheTells
<1>6. DownIsSilent' /\ CreatorHoldsLock' /\ LockComesFree'
  BY DEF IInv, DownIsSilent, CreatorHoldsLock, LockComesFree
<1>7. BootstrapOnce'
  <2>1. \A s \in Requests : row'[s].state # "absent" <=> row[s].state # "absent"
    BY <1>1
  <2> QED
    BY <2>1 DEF IInv, BootstrapOnce
<1> QED
  BY <1>2, <1>3, <1>4, <1>5, <1>6, <1>7 DEF IInv

LEMMA CrashIInv == ASSUME IInv, Crash PROVE IInv'
<1> USE DEF Crash
<1>1. /\ req' \in [Requests -> Request]
      /\ \A s \in Requests :
           /\ req'[s].pc = IF req[s].pc \in InFlight THEN "killed" ELSE req[s].pc
           /\ req'[s].op = req[s].op /\ req'[s].tok = req[s].tok /\ req'[s].key = req[s].key
  <2>1. ASSUME NEW s \in Requests
        PROVE  LET V == [req[s] EXCEPT !.pc = "killed"]
               IN  V \in Request /\ V.pc = "killed" /\ V.op = req[s].op
                   /\ V.tok = req[s].tok /\ V.key = req[s].key
    BY DEF IInv, TypeOK, Request
  <2> QED
    BY <2>1 DEF IInv, TypeOK, Request
<1>2. TypeOK'
  BY <1>1 DEF IInv, TypeOK, Request, Entry, NoEntry
<1>3. LabelsTell'
  BY <1>1 DEF IInv, LabelsTell
<1>4. AnswersTell'
  <2>1. ASSUME NEW s \in Requests PROVE AnswerTells(s)'
    <3>1. AnswerTells(s) /\ (req'[s].pc = "answered" <=> req[s].pc = "answered")
      BY <1>1 DEF IInv, AnswersTell
    <3>2. "event" \notin todo'[s]
      OBVIOUS
    <3>3. req'[s].op = req[s].op /\ req'[s].key = req[s].key
      BY <1>1
    <3> QED
      BY <3>1, <3>2, <3>3 DEF AnswerTells
  <2> QED
    BY <2>1 DEF AnswersTell
<1>5. NoAuditForgotten'
  BY <1>1 DEF IInv, NoAuditForgotten, TypeOK
<1>6. CacheTells'
  <2>1. \A k \in Keys : cache'[k].state = "absent" /\ req'[k].pc # "refresh"
    BY <1>1 DEF NoEntry
  <2> QED
    BY <2>1 DEF CacheTells, EntryTells
<1>7. DownIsSilent' /\ CreatorHoldsLock' /\ LockComesFree'
  BY <1>1 DEF DownIsSilent, CreatorHoldsLock, LockComesFree, NoEntry, IInv, TypeOK
<1>8. BootstrapOnce'
  BY <1>1 DEF IInv, BootstrapOnce
<1> QED
  BY <1>2, <1>3, <1>4, <1>5, <1>6, <1>7, <1>8 DEF IInv

\* load_from_db caches exactly the good keys, while nothing runs.
LEMMA StartIInv == ASSUME IInv, Start PROVE IInv'
<1> USE DEF Start, database, auditing
<1>1. TypeOK'
  BY DEF IInv, TypeOK, Entry, NoEntry
<1>2. \A r \in Requests : req[r].pc \notin InFlight
  BY DEF IInv, DownIsSilent
<1>3. LabelsTell' /\ AnswersTell' /\ NoAuditForgotten'
  BY <1>2 DEF IInv, LabelsTell, AnswersTell, AnswerTells, NoAuditForgotten
<1>4. CacheTells'
  BY <1>2 DEF CacheTells, EntryTells, Good, NoEntry
<1>5. DownIsSilent' /\ CreatorHoldsLock' /\ LockComesFree'
  BY DEF IInv, DownIsSilent, CreatorHoldsLock, LockComesFree
<1>6. BootstrapOnce'
  BY DEF IInv, BootstrapOnce
<1> QED
  BY <1>1, <1>3, <1>4, <1>5, <1>6 DEF IInv

LEMMA NextIInv == IInv /\ [Next]_vars => IInv'
<1> SUFFICES ASSUME IInv, [Next]_vars PROVE IInv'
  OBVIOUS
<1>1. CASE UNCHANGED vars
  BY <1>1 DEF vars, IInv, TypeOK, LabelsTell, AnswersTell, AnswerTells, CacheTells, EntryTells,
              Pending, Good, DownIsSilent, CreatorHoldsLock, LockComesFree, BootstrapOnce,
              NoAuditForgotten
<1>2. CASE Next
  BY <1>2, BeginIInv, StepIInv, TaskIInv, ExternalIInv, CrashIInv, StartIInv DEF Next
<1> QED
  BY <1>1, <1>2

-----------------------------------------------------------------------------
(* Theorems.                                                               *)

\* Every reachable state satisfies the invariant.
THEOREM Invariant == Spec => []IInv
  BY InitIInv, NextIInv, PTL DEF Spec

\* Every variable keeps its type.
THEOREM TypeCorrect == Spec => []TypeOK
<1>1. IInv => TypeOK
  BY DEF IInv
<1> QED
  BY <1>1, Invariant, PTL

\* lookup_by_token accepts a key only while its row is good, except between a
\* revocation's commit and its news, and for keys whose revocation never
\* reached the cache.
THEOREM RevokedRejected == Spec => []RevokedIsRejected
<1>1. IInv => RevokedIsRejected
  <2> SUFFICES ASSUME IInv, NEW k \in Keys, Accepts(k)
               PROVE  Good(k) \/ k \in unnoticed \/ Pending(k)
    BY DEF RevokedIsRejected, Pending
  <2>1. cache[k].state = "live" /\ EntryTells(k) /\ row[k] \in Entry
    BY DEF Accepts, IInv, CacheTells, TypeOK
  <2>2. row[k].state \in {"live", "revoked"}
    BY <2>1 DEF EntryTells, Entry
  <2> QED
    BY <2>1, <2>2 DEF EntryTells, Accepts, Good
<1> QED
  BY <1>1, Invariant, PTL

\* A key that was handed out is accepted as long as its row is good.
THEOREM IssuedAccepted == Spec => []IssuedWorks
<1>1. IInv => IssuedWorks
  BY DEF IInv, TypeOK, CacheTells, EntryTells, IssuedWorks, Accepts, Good
<1> QED
  BY <1>1, Invariant, PTL

\* The bootstrap key makes one key, however many requests bring it.
THEOREM BootstrapUsedOnce == Spec => []BootstrapOnce
<1>1. IInv => BootstrapOnce
  BY DEF IInv
<1> QED
  BY <1>1, Invariant, PTL

\* What the audit log says of a key did happen.
THEOREM AuditHonest == Spec => []AuditIsTrue
<1>1. IInv => AuditIsTrue
  <2> SUFFICES ASSUME IInv, NEW r \in Requests, <<r, "event">> \in audit
               PROVE  IF req[r].op = "create" THEN row[r].state # "absent" /\ r \in issued
                      ELSE row[req[r].key].state = "revoked"
    BY DEF AuditIsTrue, IInv, TypeOK
  <2>1. AnswerTells(r) /\ req[r].op \in {"create", "revoke"}
    BY DEF IInv, TypeOK, AnswersTell
  <2> QED
    BY <2>1 DEF AnswerTells
<1> QED
  BY <1>1, Invariant, PTL

\* Answered changes are recorded, about to be recorded, or lost to a failure.
THEOREM AuditKept == Spec => []NoAuditForgotten
<1>1. IInv => NoAuditForgotten
  BY DEF IInv
<1> QED
  BY <1>1, Invariant, PTL

\* The bootstrap row is locked only by a request about to end its transaction.
THEOREM LockReleased == Spec => []LockComesFree
<1>1. IInv => LockComesFree
  BY DEF IInv
<1> QED
  BY <1>1, Invariant, PTL
=============================================================================
