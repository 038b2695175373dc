---------------------- MODULE DocumentLifecycleProofs ----------------------
EXTENDS DocumentLifecycle, TLAPS

(* Facts about the pieces the actions share.                               *)

LEMMA LocFields ==
    ASSUME TypeOK, NEW t \in Tasks
    PROVE  /\ loc[t] \in Locals /\ pc[t] \in Phases
           /\ loc[t].file \in Files \cup {None} /\ loc[t].hash \in Hashes \cup {None}
           /\ loc[t].doc \in Docs \cup {None} /\ loc[t].supersedes \in Docs \cup {None}
           /\ loc[t].version \in Nat /\ loc[t].names \in SUBSET Files
BY DEF TypeOK, Locals

LEMMA RowFields ==
    ASSUME TypeOK, NEW d \in Docs
    PROVE  /\ doc[d] \in Columns /\ status[d] \in Status
           /\ doc[d].file \in Files \cup {None} /\ doc[d].hash \in Hashes \cup {None}
           /\ doc[d].version \in Nat /\ doc[d].supersedes \in Docs \cup {None}
BY DEF TypeOK, Columns

\* A step of one ingest: what it must establish.
Moved(t) ==
    /\ pc' \in [Tasks -> Phases] /\ loc' \in [Tasks -> Locals]
    /\ \A u \in Tasks \ {t} : pc'[u] = pc[u] /\ loc'[u] = loc[u]
    /\ TaskOK(t)'

\* Leaving the call keeps the types and leaves nothing to require of the task.
LEMMA ReturnOK ==
    ASSUME TypeOK, NEW t \in Tasks, NEW r \in Resting, NEW d \in Docs \cup {None},
           Return(t, r, d)
    PROVE  Moved(t)
<1>1. [NoLocals EXCEPT !.doc = d] \in Locals
  BY DEF NoLocals, Locals
<1>2. pc'[t] \in Resting
  BY DEF Return, TypeOK
<1> QED
  BY <1>1, <1>2 DEF Moved, Return, TypeOK, Phases, TaskOK, Active

\* What a step must keep for the rows other calls refer to.
HeldKept ==
    \A d \in Held : d \in Stored \ expired =>
        status'[d] \in {"live", "deleted"} /\ d \notin expired' /\ doc'[d] = doc[d]

\* A call that does not move itself keeps its invariant if its rows are kept.
LEMMA OtherTask ==
    ASSUME TypeOK, HeldKept, NEW u \in Tasks, TaskOK(u), pc'[u] = pc[u], loc'[u] = loc[u]
    PROVE  TaskOK(u)'
<1> SUFFICES ASSUME Active(u)' PROVE TaskOK(u)'
  BY DEF TaskOK
<1>1. Active(u)
  BY DEF Active
<1>2. \A d \in {loc[u].doc, loc[u].supersedes} \ {None} :
         d \in Stored \ expired => d \in Stored' \ expired' /\ doc'[d] = doc[d]
  BY <1>1, LocFields DEF HeldKept, Held, Stored
<1> QED
  BY <1>1, <1>2 DEF TaskOK

\* Likewise for the delete endpoints.
LEMMA OtherAdmins ==
    ASSUME TypeOK, AdminsOK, HeldKept, UNCHANGED adminVars
    PROVE  AdminsOK'
<1> SUFFICES ASSUME NEW a \in Admins, apc[a] = "batch_mark", NEW d \in tgt[a]
             PROVE  d \in Stored' \ expired'
  BY DEF AdminsOK, adminVars
<1>1. d \in Held /\ d \in Stored \ expired
  BY DEF AdminsOK, Held, TypeOK
<1> QED
  BY <1>1 DEF HeldKept, Stored

LEMMA OtherTasks ==
    ASSUME TypeOK, TasksOK, HeldKept, UNCHANGED taskVars
    PROVE  TasksOK'
<1> SUFFICES ASSUME NEW u \in Tasks PROVE TaskOK(u)'
  BY DEF TasksOK
<1> QED
  BY OtherTask DEF TasksOK, taskVars

\* Steps that leave the rows alone.
LEMMA RowsSame ==
    ASSUME IInv, UNCHANGED rowVars
    PROVE  HeldKept /\ ExpiredAreDeleted' /\ LiveUnique' /\ VersionChain' /\ Stored' = Stored
BY DEF IInv, rowVars, HeldKept, Stored, ExpiredAreDeleted, LiveUnique, Live, VersionChain, Held

\* UPDATE ... SET deleted_at of existing rows.
LEMMA SoftDeleteOK ==
    ASSUME IInv, NEW S, S \subseteq Stored, NEW why \in Reasons,
           SoftDelete(S, why), UNCHANGED doc
    PROVE  /\ status' \in [Docs -> Status] /\ reason' \in [Docs -> Reasons]
           /\ expired' \in SUBSET Docs /\ expired' = expired \ S
           /\ HeldKept /\ ExpiredAreDeleted' /\ LiveUnique' /\ VersionChain'
           /\ Stored' = Stored
<1> USE DEF IInv
<1>1. /\ status' \in [Docs -> Status] /\ reason' \in [Docs -> Reasons]
      /\ expired' \in SUBSET Docs /\ expired' = expired \ S
  BY DEF SoftDelete, TypeOK, Status
<1>2. Stored' = Stored /\ Live' \subseteq Live
  BY DEF SoftDelete, Stored, Live, TypeOK
<1>3. HeldKept
  BY <1>1, <1>2 DEF HeldKept, Stored, SoftDelete, Held
<1>4. ExpiredAreDeleted'
  BY DEF SoftDelete, ExpiredAreDeleted, TypeOK
<1>5. LiveUnique'
  BY <1>2 DEF LiveUnique
<1>6. VersionChain'
  BY <1>2 DEF VersionChain
<1> QED
  BY <1>1, <1>2, <1>3, <1>4, <1>5, <1>6

\* A step of one ingest: the others are untouched.
LEMMA TaskMoved ==
    ASSUME TypeOK, TasksOK, HeldKept, NEW t \in Tasks, Moved(t)
    PROVE  TasksOK'
<1> SUFFICES ASSUME NEW u \in Tasks PROVE TaskOK(u)'
  BY DEF TasksOK
<1>1. CASE u = t
  BY <1>1 DEF Moved
<1>2. CASE u # t
  BY <1>2, OtherTask DEF TasksOK, Moved
<1> QED
  BY <1>1, <1>2

LEMMA UnwindOK ==
    ASSUME TypeOK, HeldKept, NEW t \in Tasks, TaskOK(t), Active(t), pc[t] # "add_alias", Unwind(t)
    PROVE  Moved(t)
<1>1. CASE loc[t].supersedes # None
  <2>1. /\ pc' = [pc EXCEPT ![t] = "restore"] /\ loc' = loc /\ pc'[t] = "restore"
        /\ pc' \in [Tasks -> Phases]
    BY <1>1 DEF Unwind, TypeOK, Phases
  <2>2. \A d \in {loc[t].doc, loc[t].supersedes} \ {None} :
           d \in Stored \ expired => d \in Stored' \ expired' /\ doc'[d] = doc[d]
    BY LocFields DEF HeldKept, Held, Stored
  <2>3. TaskOK(t)'
    BY <1>1, <2>1, <2>2 DEF TaskOK
  <2> QED
    BY <2>1, <2>3 DEF TypeOK, Moved
<1>2. CASE loc[t].supersedes = None
  <2>1. Return(t, "failed", loc[t].doc)
    BY <1>2 DEF Unwind
  <2> QED
    BY <2>1, ReturnOK, LocFields DEF Resting
<1> QED
  BY <1>1, <1>2

\* A step of one ingest that leaves the rows alone.
LEMMA CallStep ==
    ASSUME IInv, NEW t \in Tasks, Moved(t), UNCHANGED <<rowVars, adminVars, purgeVars>>,
           chunks' \subseteq Stored, gone \cap chunks' = {}
    PROVE  IInv'
<1> USE DEF IInv
<1>1. HeldKept /\ ExpiredAreDeleted' /\ LiveUnique' /\ VersionChain' /\ Stored' = Stored
  BY RowsSame
<1>2. TypeOK'
  BY DEF Moved, TypeOK, rowVars, adminVars, purgeVars, Stored
<1>3. TasksOK' /\ AdminsOK'
  BY <1>1, TaskMoved, OtherAdmins
<1>4. PurgeOK' /\ ChunksStored'
  BY <1>1 DEF PurgeOK, ChunksStored, rowVars, purgeVars
<1> QED
  BY <1>1, <1>2, <1>3, <1>4

-----------------------------------------------------------------------------
(* run_ingest: one lemma per action.                                       *)

LEMMA LookupHashStep ==
    ASSUME IInv, NEW t \in Tasks, NEW f \in Files, NEW h \in Hashes, LookupHash(t, f, h)
    PROVE  IInv'
<1> USE DEF IInv
<1>1. UNCHANGED <<rowVars, chunks, adminVars, purgeVars>>
  BY DEF LookupHash
<1>2. HeldKept /\ ExpiredAreDeleted' /\ LiveUnique' /\ VersionChain' /\ Stored' = Stored
  BY <1>1, RowsSame
<1>3. Moved(t)
  <2>1. CASE /\ pc' = [pc EXCEPT ![t] = "lookup_name"]
             /\ loc' = [loc EXCEPT ![t] = [NoLocals EXCEPT !.file = f, !.hash = h]]
    <3>1. [NoLocals EXCEPT !.file = f, !.hash = h] \in Locals
      BY DEF NoLocals, Locals
    <3> QED
      BY <2>1, <3>1 DEF Moved, TypeOK, Phases, TaskOK, NoLocals
  <2>2. CASE Return(t, "exists", None) \/ Return(t, "alias", None)
    BY <2>2, ReturnOK DEF Resting
  <2>3. ASSUME NEW d \in LiveByHash(h),
               pc' = [pc EXCEPT ![t] = "add_alias"],
               loc' = [loc EXCEPT ![t] = [NoLocals EXCEPT !.file = f, !.hash = h, !.doc = d,
                                                          !.names = aliases[d] \cup {f}]]
        PROVE  Moved(t)
    <3>1. d \in Docs /\ d \in Stored \ expired /\ d \in Stored' \ expired'
      BY <1>1 DEF LiveByHash, Live, Stored, ExpiredAreDeleted, rowVars
    <3> DEFINE L == [NoLocals EXCEPT !.file = f, !.hash = h, !.doc = d,
                                     !.names = aliases[d] \cup {f}]
    <3>2. L \in Locals /\ L.doc = d /\ L.supersedes = None
      BY <3>1 DEF NoLocals, Locals, TypeOK
    <3>3. /\ pc' \in [Tasks -> Phases] /\ loc' \in [Tasks -> Locals]
          /\ pc'[t] = "add_alias" /\ loc'[t] = L
          /\ \A u \in Tasks \ {t} : pc'[u] = pc[u] /\ loc'[u] = loc[u]
      BY <2>3, <3>2 DEF TypeOK, Phases
    <3> HIDE DEF L
    <3> QED
      BY <3>1, <3>2, <3>3, NoneAssumption DEF Moved, TaskOK
  <2> QED
    BY <2>1, <2>2, <2>3 DEF LookupHash
<1> QED
  BY <1>1, <1>3, CallStep DEF PurgeOK, ChunksStored

LEMMA AddAliasStep ==
    ASSUME IInv, NEW t \in Tasks, AddAlias(t)
    PROVE  IInv'
<1> USE DEF IInv
<1>1. Return(t, "alias", None) /\ UNCHANGED <<status, doc, expired, chunks, adminVars, purgeVars>>
  BY DEF AddAlias
<1>2. Moved(t)
  BY <1>1, ReturnOK DEF Resting
<1>3. TypeOK'
  <2>1. aliases' \in [Docs -> SUBSET Files]
    BY LocFields DEF AddAlias, TypeOK
  <2> QED
    BY <1>2, <2>1 DEF Moved, AddAlias, TypeOK, adminVars, purgeVars
<1>4. HeldKept /\ Stored' = Stored
  BY <1>1 DEF HeldKept, Stored
<1>5. TasksOK' /\ AdminsOK'
  BY <1>1, <1>2, <1>4, TaskMoved, OtherAdmins
<1> QED
  BY <1>1, <1>3, <1>4, <1>5 DEF ExpiredAreDeleted, PurgeOK, ChunksStored, LiveUnique, Live,
                               VersionChain, purgeVars

LEMMA LookupNameStep ==
    ASSUME IInv, NEW t \in Tasks, LookupName(t)
    PROVE  IInv'
<1> USE DEF IInv
<1>1. UNCHANGED <<rowVars, chunks, adminVars, purgeVars>> /\ pc[t] = "lookup_name" /\ Active(t)
  BY DEF LookupName, Active, Resting
<1>2. HeldKept /\ ExpiredAreDeleted' /\ LiveUnique' /\ VersionChain' /\ Stored' = Stored
  BY <1>1, RowsSame
<1>3. \A d \in {loc[t].doc, loc[t].supersedes} \ {None} :
           d \in Stored \ expired => d \in Stored' \ expired' /\ doc'[d] = doc[d]
  BY <1>1, <1>2 DEF rowVars
<1>4. Moved(t)
  <2>1. ASSUME pc' = [pc EXCEPT ![t] = "insert"],
               loc' = [loc EXCEPT ![t] = [loc[t] EXCEPT !.version = 1]]
        PROVE  Moved(t)
    <3> DEFINE L == [loc[t] EXCEPT !.version = 1]
    <3>1. /\ L \in Locals /\ L.file = loc[t].file /\ L.doc = loc[t].doc
          /\ L.supersedes = loc[t].supersedes /\ L.version = 1
      BY LocFields DEF Locals
    <3>2. /\ pc' \in [Tasks -> Phases] /\ loc' \in [Tasks -> Locals] /\ pc'[t] = "insert"
          /\ loc'[t] = L
          /\ \A u \in Tasks \ {t} : pc'[u] = pc[u] /\ loc'[u] = loc[u]
      BY <2>1, <3>1 DEF TypeOK, Phases
    <3> HIDE DEF L
    <3>3. TaskOK(t)'
      BY <1>1, <1>3, <3>1, <3>2 DEF TasksOK, TaskOK
    <3> QED
      BY <3>2, <3>3 DEF Moved
  <2>2. ASSUME NEW d \in LiveByName(loc[t].file),
               pc' = [pc EXCEPT ![t] = "supersede"],
               loc' = [loc EXCEPT ![t] = [loc[t] EXCEPT !.version = NextVersion(d), !.supersedes = d]]
        PROVE  Moved(t)
    <3> DEFINE L == [loc[t] EXCEPT !.version = NextVersion(d), !.supersedes = d]
    <3>1. d \in Docs /\ d \in Stored' \ expired' /\ doc'[d] = doc[d] /\ doc[d].file = loc[t].file
      BY <1>1 DEF LiveByName, Live, Stored, ExpiredAreDeleted, rowVars
    <3>2. NextVersion(d) \in Nat /\ NextVersion(d) = doc[d].version + 1
      BY <3>1, RowFields DEF NextVersion
    <3>3. /\ L \in Locals /\ L.file = loc[t].file /\ L.doc = loc[t].doc /\ L.supersedes = d
          /\ L.version = doc[d].version + 1
      BY <3>1, <3>2, LocFields DEF Locals
    <3>4. /\ pc' \in [Tasks -> Phases] /\ loc' \in [Tasks -> Locals] /\ pc'[t] = "supersede"
          /\ loc'[t] = L
          /\ \A u \in Tasks \ {t} : pc'[u] = pc[u] /\ loc'[u] = loc[u]
      BY <2>2, <3>3 DEF TypeOK, Phases
    <3> HIDE DEF L
    <3>5. TaskOK(t)'
      BY <1>1, <1>3, <3>1, <3>3, <3>4, NoneAssumption DEF TasksOK, TaskOK
    <3> QED
      BY <3>4, <3>5 DEF Moved
  <2> QED
    BY <2>1, <2>2 DEF LookupName
<1> QED
  BY <1>1, <1>4, CallStep DEF PurgeOK, ChunksStored

LEMMA SupersedeStep ==
    ASSUME IInv, NEW t \in Tasks, Supersede(t)
    PROVE  IInv'
<1> USE DEF IInv
<1> DEFINE d == loc[t].supersedes
<1>1. /\ pc[t] = "supersede" /\ SoftDelete({d}, "superseded")
      /\ pc' = [pc EXCEPT ![t] = "insert"]
      /\ UNCHANGED <<doc, aliases, chunks, loc, adminVars, purgeVars>> /\ Active(t)
  BY DEF Supersede, Active, Resting
<1>2. d \in Docs /\ d \in Stored \ expired
  BY <1>1, LocFields DEF TasksOK, TaskOK, Stored
<1>3. /\ status' \in [Docs -> Status] /\ reason' \in [Docs -> Reasons]
      /\ expired' \in SUBSET Docs /\ expired' = expired \ {d}
      /\ HeldKept /\ ExpiredAreDeleted' /\ LiveUnique' /\ VersionChain' /\ Stored' = Stored
  BY <1>1, <1>2, SoftDeleteOK DEF Reasons
<1>4. Moved(t)
  <2>1. pc' \in [Tasks -> Phases] /\ pc'[t] = "insert" /\ \A u \in Tasks \ {t} : pc'[u] = pc[u]
    BY <1>1 DEF TypeOK, Phases
  <2>2. TaskOK(t)'
    BY <1>1, <1>2, <1>3, <2>1 DEF TasksOK, TaskOK
  <2> QED
    BY <1>1, <2>1, <2>2 DEF Moved, TypeOK
<1>5. TypeOK'
  BY <1>1, <1>3, <1>4 DEF TypeOK, Moved, adminVars, purgeVars
<1>6. TasksOK' /\ AdminsOK'
  BY <1>1, <1>3, <1>4, TaskMoved, OtherAdmins
<1>7. PurgeOK'
  BY <1>1, <1>2, <1>3 DEF PurgeOK, purgeVars
<1>8. ChunksStored'
  BY <1>1, <1>3 DEF ChunksStored
<1> QED
  BY <1>3, <1>5, <1>6, <1>7, <1>8

LEMMA FailStep ==
    ASSUME IInv, NEW t \in Tasks, DetectFail(t) \/ InsertConflict(t)
    PROVE  IInv'
<1> USE DEF IInv
<1>1. /\ pc[t] = "insert" /\ Active(t) /\ Unwind(t)
      /\ UNCHANGED <<rowVars, chunks, adminVars, purgeVars>>
  BY DEF DetectFail, InsertConflict, Active, Resting
<1>2. Moved(t)
  BY <1>1, RowsSame, UnwindOK DEF TasksOK
<1> QED
  BY <1>1, <1>2, CallStep DEF PurgeOK, ChunksStored

LEMMA ProcessStep ==
    ASSUME IInv, NEW t \in Tasks, ProcessFail(t) \/ StoreFailDirty(t) \/ StoreOk(t) \/ Finalize(t)
    PROVE  IInv'
<1> USE DEF IInv
<1> DEFINE d == loc[t].doc
<1>1. /\ pc[t] \in {"store", "finalize"} /\ Active(t)
      /\ UNCHANGED <<rowVars, loc, adminVars, purgeVars>>
  BY DEF ProcessFail, StoreFailDirty, StoreOk, Finalize, Active, Resting
<1>2. d \in Docs /\ d \in Stored \ expired /\ chunks' \subseteq chunks \cup {d}
  BY <1>1, LocFields DEF TasksOK, TaskOK, ProcessFail, StoreFailDirty, StoreOk, Finalize
<1>3. \E q \in {"cleanup", "finalize", "count"} :
         pc' = [pc EXCEPT ![t] = q] /\ (q = "finalize" => loc[t].supersedes # None)
  BY DEF ProcessFail, StoreFailDirty, StoreOk, Finalize
<1>4. Moved(t)
  <2>1. /\ pc' \in [Tasks -> Phases] /\ \A u \in Tasks \ {t} : pc'[u] = pc[u]
        /\ pc'[t] \in {"cleanup", "finalize", "count"}
        /\ pc'[t] = "finalize" => loc[t].supersedes # None
    BY <1>3 DEF TypeOK, Phases
  <2>2. TaskOK(t)'
    BY <1>1, <1>2, <2>1, RowsSame DEF TasksOK, TaskOK, rowVars
  <2> QED
    BY <1>1, <2>1, <2>2 DEF Moved, TypeOK
<1> QED
  BY <1>1, <1>2, <1>4, CallStep DEF PurgeOK, ChunksStored

LEMMA SetCountStep ==
    ASSUME IInv, NEW t \in Tasks, SetCount(t)
    PROVE  IInv'
<1> USE DEF IInv
<1>1. Return(t, "new", None) /\ UNCHANGED <<rowVars, chunks, adminVars, purgeVars>>
  BY DEF SetCount
<1>2. Moved(t)
  BY <1>1, ReturnOK DEF Resting
<1> QED
  BY <1>1, <1>2, CallStep DEF PurgeOK, ChunksStored

LEMMA CleanupStep ==
    ASSUME IInv, NEW t \in Tasks, Cleanup(t)
    PROVE  IInv'
<1> USE DEF IInv
<1> DEFINE d == loc[t].doc
<1>1. /\ pc[t] = "cleanup" /\ Active(t) /\ Unwind(t)
      /\ UNCHANGED <<doc, aliases, chunks, adminVars, purgeVars>>
  BY DEF Cleanup, Active, Resting
<1>2. d \in Docs /\ d \in Stored \ expired
  BY <1>1, LocFields DEF TasksOK, TaskOK, Stored
<1>3. /\ status' \in [Docs -> Status] /\ reason' \in [Docs -> Reasons]
      /\ expired' \in SUBSET Docs /\ expired' \subseteq expired /\ expired \subseteq expired' \cup {d}
      /\ HeldKept /\ ExpiredAreDeleted' /\ LiveUnique' /\ VersionChain' /\ Stored' = Stored
  <2>1. CASE SoftDelete({d}, "pipeline_failure")
    BY <1>1, <1>2, <2>1, SoftDeleteOK DEF Reasons
  <2>2. CASE UNCHANGED <<status, reason, expired>>
    BY <1>1, <2>2, RowsSame DEF TypeOK, HeldKept, Stored, ExpiredAreDeleted, LiveUnique, Live, VersionChain
  <2> QED
    BY <2>1, <2>2 DEF Cleanup
<1>4. Moved(t)
  BY <1>1, <1>3, UnwindOK DEF TasksOK
<1>5. TypeOK'
  BY <1>1, <1>3, <1>4 DEF TypeOK, Moved, adminVars, purgeVars
<1>6. TasksOK' /\ AdminsOK'
  BY <1>1, <1>3, <1>4, TaskMoved, OtherAdmins
<1>7. PurgeOK'
  BY <1>1, <1>2, <1>3 DEF PurgeOK, purgeVars
<1>8. ChunksStored'
  BY <1>1, <1>3 DEF ChunksStored
<1> QED
  BY <1>3, <1>5, <1>6, <1>7, <1>8

LEMMA InsertStep ==
    ASSUME IInv, NEW t \in Tasks, NEW d \in Docs, Insert(t, d)
    PROVE  IInv'
<1> USE DEF IInv
<1> DEFINE R == [file |-> loc[t].file, hash |-> loc[t].hash,
                 version |-> loc[t].version, supersedes |-> loc[t].supersedes]
           L == [loc[t] EXCEPT !.doc = d]
<1>1. /\ pc[t] = "insert" /\ Active(t) /\ status[d] = "absent" /\ ~Clash(loc[t].file, loc[t].hash, d)
      /\ status' = [status EXCEPT ![d] = "live"] /\ doc' = [doc EXCEPT ![d] = R]
      /\ pc' = [pc EXCEPT ![t] = "store"] /\ loc' = [loc EXCEPT ![t] = L]
      /\ UNCHANGED <<reason, aliases, expired, chunks, adminVars, purgeVars>>
  BY DEF Insert, Active, Resting
<1>2. R \in Columns
  BY LocFields DEF Columns
<1>3. /\ L \in Locals /\ L.file = loc[t].file /\ L.doc = d
      /\ L.supersedes = loc[t].supersedes /\ L.version = loc[t].version
  BY LocFields DEF Locals
<1>4. /\ R.file = loc[t].file /\ R.hash = loc[t].hash
      /\ R.version = loc[t].version /\ R.supersedes = loc[t].supersedes
  OBVIOUS
<1> HIDE DEF R, L
<1>5. /\ status' \in [Docs -> Status] /\ doc' \in [Docs -> Columns] /\ doc'[d] = R
      /\ \A e \in Docs \ {d} : doc'[e] = doc[e] /\ status'[e] = status[e]
      /\ d \notin Stored /\ d \notin Live /\ d \notin expired
      /\ Stored' = Stored \cup {d} /\ Live' = Live \cup {d}
  BY <1>1, <1>2 DEF TypeOK, Status, Stored, Live, ExpiredAreDeleted
<1>6. HeldKept
  BY <1>1, <1>5 DEF HeldKept, Stored
<1>7. Moved(t)
  <2>1. /\ pc' \in [Tasks -> Phases] /\ loc' \in [Tasks -> Locals] /\ pc'[t] = "store"
        /\ loc'[t] = L
        /\ \A u \in Tasks \ {t} : pc'[u] = pc[u] /\ loc'[u] = loc[u]
    BY <1>1, <1>3 DEF TypeOK, Phases
  <2>2. loc[t].supersedes # None =>
           /\ loc[t].supersedes \in Stored' \ expired'
           /\ doc'[loc[t].supersedes] = doc[loc[t].supersedes]
    BY <1>1, <1>5, LocFields DEF TasksOK, TaskOK
  <2>3. TaskOK(t)'
    BY <1>1, <1>3, <1>5, <2>1, <2>2, NoneAssumption DEF TasksOK, TaskOK
  <2> QED
    BY <2>1, <2>3 DEF Moved
<1>8. TypeOK'
  BY <1>1, <1>5, <1>7 DEF TypeOK, Moved, adminVars, purgeVars
<1>9. TasksOK' /\ AdminsOK'
  BY <1>1, <1>6, <1>7, TaskMoved, OtherAdmins
<1>10. ExpiredAreDeleted' /\ PurgeOK' /\ ChunksStored'
  BY <1>1, <1>5 DEF ExpiredAreDeleted, PurgeOK, ChunksStored, purgeVars
<1>11. LiveUnique'
  <2>1. \A e \in Live : doc[e].file # loc[t].file /\ doc[e].hash # loc[t].hash
    BY <1>1, <1>5 DEF Clash, LiveByName, LiveByHash
  <2> QED
    BY <1>4, <1>5, <2>1 DEF LiveUnique, Live
<1>12. VersionChain'
  <2>1. \A e \in Stored : doc'[e] = doc[e] /\ e # d /\ e \in Docs
    BY <1>5 DEF Stored
  <2>2. \A e \in Stored : \/ doc'[e].version = 1 /\ doc'[e].supersedes = None
                          \/ /\ doc'[e].supersedes \in Stored'
                             /\ doc'[e].file = doc'[doc'[e].supersedes].file
                             /\ doc'[e].version = doc'[doc'[e].supersedes].version + 1
    BY <1>5, <2>1 DEF VersionChain
  <2>3. \/ doc'[d].version = 1 /\ doc'[d].supersedes = None
        \/ /\ doc'[d].supersedes \in Stored'
           /\ doc'[d].file = doc'[doc'[d].supersedes].file
           /\ doc'[d].version = doc'[doc'[d].supersedes].version + 1
    BY <1>1, <1>4, <1>5, <2>1 DEF TasksOK, TaskOK
  <2> QED
    BY <1>5, <2>2, <2>3 DEF VersionChain
<1> QED
  BY <1>8, <1>9, <1>10, <1>11, <1>12

LEMMA RestoreStep ==
    ASSUME IInv, NEW t \in Tasks, Restore(t)
    PROVE  IInv'
<1> USE DEF IInv
<1> DEFINE d == loc[t].supersedes
<1>1. /\ pc[t] = "restore" /\ Active(t) /\ Return(t, "failed", loc[t].doc)
      /\ UNCHANGED <<doc, aliases, chunks, adminVars, purgeVars>>
  BY DEF Restore, Active, Resting
<1>2. d \in Docs /\ d \in Stored \ expired
  BY <1>1, LocFields DEF TasksOK, TaskOK
<1>3. Moved(t)
  BY <1>1, LocFields, ReturnOK DEF Resting
<1>4. CASE UNCHANGED <<status, reason, expired>>
  BY <1>1, <1>3, <1>4, CallStep DEF rowVars, PurgeOK, ChunksStored
<1>5. CASE /\ ~Clash(doc[d].file, doc[d].hash, d)
           /\ status' = [status EXCEPT ![d] = "live"] /\ reason' = [reason EXCEPT ![d] = None]
           /\ expired' = expired \ {d}
  <2>1. /\ status' \in [Docs -> Status] /\ reason' \in [Docs -> Reasons]
        /\ \A e \in Docs \ {d} : status'[e] = status[e]
        /\ expired' = expired /\ Stored' = Stored /\ Live' = Live \cup {d}
    BY <1>2, <1>5 DEF TypeOK, Status, Reasons, Stored, Live
  <2>2. HeldKept
    BY <1>1, <1>5, <2>1 DEF HeldKept, Stored, Held
  <2>3. TypeOK'
    BY <1>1, <1>3, <2>1 DEF TypeOK, Moved, adminVars, purgeVars
  <2>4. TasksOK' /\ AdminsOK'
    BY <1>1, <1>3, <2>2, TaskMoved, OtherAdmins
  <2>5. ExpiredAreDeleted' /\ PurgeOK' /\ ChunksStored' /\ VersionChain'
    BY <1>1, <1>2, <2>1 DEF ExpiredAreDeleted, PurgeOK, ChunksStored, VersionChain, purgeVars
  <2>6. LiveUnique'
    BY <1>1, <1>2, <1>5, <2>1 DEF LiveUnique, Clash, LiveByName, LiveByHash
  <2> QED
    BY <2>3, <2>4, <2>5, <2>6
<1> QED
  BY <1>4, <1>5 DEF Restore

LEMMA IngestStepOK ==
    ASSUME IInv, NEW t \in Tasks, IngestStep(t)
    PROVE  IInv'
BY AddAliasStep, LookupNameStep, SupersedeStep, FailStep, InsertStep, ProcessStep,
   CleanupStep, RestoreStep, SetCountStep DEF IngestStep

-----------------------------------------------------------------------------
(* Delete endpoints.                                                       *)

\* A step of a delete request that leaves the rows alone.
LEMMA AdminStep ==
    ASSUME IInv, UNCHANGED <<rowVars, taskVars, purgeVars>>, chunks' \subseteq chunks,
           apc' \in [Admins -> {"idle", "mark", "batch_mark", "batch_chunks"}],
           tgt' \in [Admins -> SUBSET Docs], AdminsOK'
    PROVE  IInv'
<1> USE DEF IInv
<1>1. HeldKept /\ ExpiredAreDeleted' /\ LiveUnique' /\ VersionChain' /\ Stored' = Stored
  BY RowsSame
<1>2. TypeOK'
  BY DEF TypeOK, rowVars, taskVars, purgeVars
<1>3. TasksOK' /\ PurgeOK' /\ ChunksStored'
  BY <1>1, OtherTasks DEF PurgeOK, ChunksStored, purgeVars, rowVars
<1> QED
  BY <1>1, <1>2, <1>3

LEMMA DeleteChunksStep ==
    ASSUME IInv, NEW a \in Admins, NEW d \in Docs, DeleteChunks(a, d)
    PROVE  IInv'
<1>1. /\ apc' \in [Admins -> {"idle", "mark", "batch_mark", "batch_chunks"}]
      /\ tgt' \in [Admins -> SUBSET Docs]
  BY DEF DeleteChunks, IInv, TypeOK
<1>2. AdminsOK'
  BY DEF DeleteChunks, IInv, TypeOK, AdminsOK, Stored, rowVars
<1> QED
  BY <1>1, <1>2, AdminStep DEF DeleteChunks

LEMMA BatchSelectStep ==
    ASSUME IInv, NEW a \in Admins, NEW S \in SUBSET Docs, BatchSelect(a, S)
    PROVE  IInv'
<1>1. /\ apc' \in [Admins -> {"idle", "mark", "batch_mark", "batch_chunks"}]
      /\ tgt' \in [Admins -> SUBSET Docs]
  BY DEF BatchSelect, IInv, TypeOK
<1>2. S \subseteq Stored \ expired
  BY DEF BatchSelect, IInv, ExpiredAreDeleted, Live, Stored
<1>3. AdminsOK'
  BY <1>2 DEF BatchSelect, IInv, TypeOK, AdminsOK, Stored, rowVars
<1> QED
  BY <1>1, <1>3, AdminStep DEF BatchSelect

LEMMA BatchChunksStep ==
    ASSUME IInv, NEW a \in Admins, NEW d \in Docs, BatchChunks(a, d)
    PROVE  IInv'
<1>1. /\ apc' \in [Admins -> {"idle", "mark", "batch_mark", "batch_chunks"}]
      /\ tgt' \in [Admins -> SUBSET Docs]
  BY DEF BatchChunks, IInv, TypeOK
<1>2. AdminsOK'
  BY DEF BatchChunks, IInv, TypeOK, AdminsOK, Stored, rowVars
<1> QED
  BY <1>1, <1>2, AdminStep DEF BatchChunks

\* The UPDATE of either endpoint.
LEMMA MarkStep ==
    ASSUME IInv, NEW a \in Admins, DeleteMark(a) \/ BatchMark(a)
    PROVE  IInv'
<1> USE DEF IInv
<1>1. PICK S \in SUBSET Docs :
         SoftDelete(S, "user_request") /\ S \subseteq Stored \ expired
  <2>1. Markable(a) \in SUBSET Docs /\ Markable(a) \subseteq Stored \ expired
    BY DEF Markable, Live, Stored, ExpiredAreDeleted
  <2>2. apc[a] = "batch_mark" => tgt[a] \in SUBSET Docs /\ tgt[a] \subseteq Stored \ expired
    BY DEF AdminsOK, TypeOK
  <2> QED
    BY <2>1, <2>2 DEF DeleteMark, BatchMark
<1>2. UNCHANGED <<doc, aliases, chunks, taskVars, purgeVars>>
  BY DEF DeleteMark, BatchMark
<1>3. /\ status' \in [Docs -> Status] /\ reason' \in [Docs -> Reasons]
      /\ expired' \in SUBSET Docs /\ expired' = expired \ S
      /\ HeldKept /\ ExpiredAreDeleted' /\ LiveUnique' /\ VersionChain' /\ Stored' = Stored
  BY <1>1, <1>2, SoftDeleteOK DEF Reasons
<1>4. /\ apc' \in [Admins -> {"idle", "mark", "batch_mark", "batch_chunks"}]
      /\ tgt' \in [Admins -> SUBSET Docs]
      /\ apc'[a] # "batch_mark"
      /\ \A b \in Admins \ {a} : apc'[b] = apc[b] /\ tgt'[b] = tgt[b]
  BY DEF DeleteMark, BatchMark, TypeOK
<1>5. TypeOK'
  BY <1>2, <1>3, <1>4 DEF TypeOK, taskVars, purgeVars
<1>6. AdminsOK'
  BY <1>3, <1>4 DEF AdminsOK
<1>7. TasksOK' /\ PurgeOK' /\ ChunksStored'
  BY <1>1, <1>2, <1>3, OtherTasks DEF PurgeOK, ChunksStored, purgeVars
<1> QED
  BY <1>3, <1>5, <1>6, <1>7

LEMMA DeleteStepOK ==
    ASSUME IInv, NEW a \in Admins, DeleteStep(a)
    PROVE  IInv'
BY MarkStep, BatchChunksStep DEF DeleteStep

-----------------------------------------------------------------------------
(* Retention and crashes.                                                  *)

LEMMA ExpireStep ==
    ASSUME IInv, NEW d \in Docs, Expire(d)
    PROVE  IInv'
<1> USE DEF IInv
<1>1. /\ expired' = expired \cup {d} /\ status[d] = "deleted" /\ d \notin Held
      /\ UNCHANGED <<status, doc, reason, aliases, chunks, taskVars, adminVars, purgeVars>>
  BY DEF Expire
<1>2. HeldKept /\ Stored' = Stored /\ TypeOK'
  BY <1>1 DEF HeldKept, Stored, TypeOK, taskVars, adminVars, purgeVars
<1>3. TasksOK' /\ AdminsOK'
  BY <1>1, <1>2, OtherTasks, OtherAdmins
<1> QED
  BY <1>1, <1>2, <1>3 DEF ExpiredAreDeleted, PurgeOK, ChunksStored, LiveUnique, Live,
                          VersionChain, purgeVars

LEMMA PurgeSelectStep ==
    ASSUME IInv, PurgeSelect
    PROVE  IInv'
<1> USE DEF IInv
<1>1. HeldKept /\ ExpiredAreDeleted' /\ LiveUnique' /\ VersionChain' /\ Stored' = Stored
  BY RowsSame DEF PurgeSelect
<1>2. TypeOK' /\ PurgeOK' /\ ChunksStored'
  BY <1>1 DEF PurgeSelect, Purgeable, TypeOK, PurgeOK, ChunksStored, rowVars, taskVars, adminVars
<1>3. TasksOK' /\ AdminsOK'
  BY <1>1, OtherTasks, OtherAdmins DEF PurgeSelect
<1> QED
  BY <1>1, <1>2, <1>3

LEMMA PurgeChunksStep ==
    ASSUME IInv, NEW d \in Docs, PurgeChunks(d)
    PROVE  IInv'
<1> USE DEF IInv
<1>1. HeldKept /\ ExpiredAreDeleted' /\ LiveUnique' /\ VersionChain' /\ Stored' = Stored
  BY RowsSame DEF PurgeChunks
<1>2. TypeOK' /\ ChunksStored'
  BY <1>1 DEF PurgeChunks, TypeOK, ChunksStored, rowVars, taskVars, adminVars
<1>3. PurgeOK'
  BY DEF PurgeChunks, PurgeOK, rowVars
<1>4. TasksOK' /\ AdminsOK'
  BY <1>1, OtherTasks, OtherAdmins DEF PurgeChunks
<1> QED
  BY <1>1, <1>2, <1>3, <1>4

LEMMA PurgeRowsStep ==
    ASSUME IInv, PurgeRows
    PROVE  IInv'
<1> USE DEF IInv
<1>1. UNCHANGED <<todo, taskVars, adminVars>> /\ cpc' = "idle" /\ gone' = {} /\ todo = {}
  BY DEF PurgeRows, PurgeOK
<1>2. CASE PurgeBlocked(gone)
  <2>1. UNCHANGED rowVars /\ chunks' = chunks
    BY <1>2 DEF PurgeRows
  <2>2. HeldKept /\ ExpiredAreDeleted' /\ LiveUnique' /\ VersionChain' /\ Stored' = Stored
    BY <2>1, RowsSame
  <2>3. TypeOK' /\ PurgeOK' /\ ChunksStored'
    BY <1>1, <2>1, <2>2 DEF TypeOK, PurgeOK, ChunksStored, rowVars, taskVars, adminVars
  <2>4. TasksOK' /\ AdminsOK'
    BY <1>1, <2>2, OtherTasks, OtherAdmins
  <2> QED
    BY <2>2, <2>3, <2>4
<1>3. CASE ~PurgeBlocked(gone)
  <2>1. /\ status' = [d \in Docs |-> IF d \in gone THEN "purged" ELSE status[d]]
        /\ doc' = [d \in Docs |-> IF d \in gone THEN NoColumns ELSE doc[d]]
        /\ reason' = [d \in Docs |-> IF d \in gone THEN None ELSE reason[d]]
        /\ aliases' = [d \in Docs |-> IF d \in gone THEN {} ELSE aliases[d]]
        /\ expired' = expired \ gone
        /\ chunks' \subseteq chunks
    BY <1>3 DEF PurgeRows
  <2>2. NoColumns \in Columns
    BY DEF NoColumns, Columns
  <2>3. TypeOK'
    BY <1>1, <2>1, <2>2 DEF TypeOK, Status, Reasons, taskVars, adminVars
  <2>4. /\ gone \subseteq expired /\ gone \cap chunks = {} /\ gone \cap Live = {}
        /\ Stored' = Stored \ gone /\ Live' = Live
        /\ \A d \in Docs \ gone : doc'[d] = doc[d] /\ status'[d] = status[d]
    BY <2>1 DEF PurgeOK, ExpiredAreDeleted, TypeOK, Stored, Live
  <2>5. HeldKept
    BY <2>1, <2>4 DEF HeldKept, Held, Stored
  <2>6. TasksOK' /\ AdminsOK'
    BY <1>1, <2>5, OtherTasks, OtherAdmins
  <2>7. ExpiredAreDeleted' /\ PurgeOK' /\ ChunksStored'
    BY <1>1, <2>1, <2>4 DEF ExpiredAreDeleted, PurgeOK, ChunksStored, TypeOK
  <2>8. LiveUnique'
    BY <2>4 DEF LiveUnique, Live
  <2>9. VersionChain'
    <3>1. \A d \in Stored \ gone : doc[d].supersedes \notin gone
      BY <1>3 DEF PurgeBlocked
    <3>2. \A d \in Stored \ gone : d \in Docs
      BY DEF Stored
    <3>3. \A d \in Stored : doc[d].supersedes \in Stored => doc[d].supersedes \in Docs
      BY DEF Stored
    <3> QED
      BY <2>4, <3>1, <3>2, <3>3 DEF VersionChain
  <2> QED
    BY <2>3, <2>6, <2>7, <2>8, <2>9
<1> QED
  BY <1>2, <1>3

LEMMA AppCrashStep ==
    ASSUME IInv, AppCrash
    PROVE  IInv'
<1> USE DEF IInv
<1>1. UNCHANGED <<rowVars, chunks, purgeVars>>
  BY DEF AppCrash
<1>2. HeldKept /\ ExpiredAreDeleted' /\ LiveUnique' /\ VersionChain' /\ Stored' = Stored
  BY <1>1, RowsSame
<1>3. NoLocals \in Locals
  BY DEF NoLocals, Locals
<1>4. TypeOK'
  BY <1>1, <1>3 DEF AppCrash, TypeOK, Phases, Resting, rowVars, purgeVars
<1>5. TasksOK' /\ AdminsOK'
  BY DEF AppCrash, TasksOK, TaskOK, Active, Resting, AdminsOK, TypeOK
<1> QED
  BY <1>1, <1>2, <1>4, <1>5 DEF PurgeOK, ChunksStored, purgeVars, rowVars

LEMMA WorkerCrashStep ==
    ASSUME IInv, WorkerCrash
    PROVE  IInv'
<1> USE DEF IInv
<1>1. HeldKept /\ ExpiredAreDeleted' /\ LiveUnique' /\ VersionChain' /\ Stored' = Stored
  BY RowsSame DEF WorkerCrash
<1>2. TypeOK' /\ PurgeOK' /\ ChunksStored'
  BY <1>1 DEF WorkerCrash, TypeOK, PurgeOK, ChunksStored, rowVars, taskVars, adminVars
<1>3. TasksOK' /\ AdminsOK'
  BY <1>1, OtherTasks, OtherAdmins DEF WorkerCrash
<1> QED
  BY <1>1, <1>2, <1>3

-----------------------------------------------------------------------------
(* The theorems.                                                           *)

\* The invariant holds when the tables are empty and nothing runs.
LEMMA InitIInv == Init => IInv
<1> SUFFICES ASSUME Init PROVE IInv
  OBVIOUS
<1>1. NoColumns \in Columns /\ NoLocals \in Locals
  BY DEF NoColumns, Columns, NoLocals, Locals
<1>2. TypeOK
  BY <1>1 DEF Init, TypeOK, Status, Reasons, Phases, Resting
<1> QED
  BY <1>2 DEF Init, IInv, ExpiredAreDeleted, TasksOK, TaskOK, Active, Resting, AdminsOK,
              PurgeOK, ChunksStored, LiveUnique, Live, VersionChain, Stored

\* Every step of every actor keeps it.
LEMMA NextIInv == IInv /\ [Next]_vars => IInv'
<1> SUFFICES ASSUME IInv, [Next]_vars PROVE IInv'
  OBVIOUS
<1>1. CASE UNCHANGED vars
  <2>1. /\ UNCHANGED rowVars /\ UNCHANGED taskVars /\ UNCHANGED adminVars
        /\ UNCHANGED purgeVars /\ chunks' = chunks
    BY <1>1 DEF vars
  <2>2. AdminsOK' /\ apc' = apc /\ tgt' = tgt
    BY <2>1, RowsSame, OtherAdmins DEF IInv, adminVars
  <2> QED
    BY <2>1, <2>2, AdminStep DEF IInv, TypeOK
<1>2. CASE \E t \in Tasks, f \in Files, h \in Hashes : LookupHash(t, f, h)
  BY <1>2, LookupHashStep
<1>3. CASE \E t \in Tasks : IngestStep(t)
  BY <1>3, IngestStepOK
<1>4. CASE \E a \in Admins, d \in Docs : DeleteChunks(a, d)
  BY <1>4, DeleteChunksStep
<1>5. CASE \E a \in Admins, S \in SUBSET Docs : BatchSelect(a, S)
  BY <1>5, BatchSelectStep
<1>6. CASE \E a \in Admins : DeleteStep(a)
  BY <1>6, DeleteStepOK
<1>7. CASE \E d \in Docs : Expire(d)
  BY <1>7, ExpireStep
<1>8. CASE PurgeStep
  BY <1>8, PurgeSelectStep, PurgeChunksStep, PurgeRowsStep DEF PurgeStep
<1>9. CASE AppCrash \/ WorkerCrash
  BY <1>9, AppCrashStep, WorkerCrashStep
<1> QED
  BY <1>1, <1>2, <1>3, <1>4, <1>5, <1>6, <1>7, <1>8, <1>9 DEF Next

\* The invariant holds in every reachable state, for any number of ingests,
\* delete requests, documents, names and contents, either store, any faults.
THEOREM Invariant == Spec => []IInv
<1> QED
  BY InitIInv, NextIInv, PTL DEF Spec

\* Every variable keeps its type.
THEOREM TypeCorrect == Spec => []TypeOK
<1>1. IInv => TypeOK
  BY DEF IInv
<1> QED
  BY <1>1, Invariant, PTL

\* pipeline.py:264-327, 576-602: no interleaving of inserts, supersedes and
\* restores makes two live rows share a name or a content.
THEOREM LiveRowsUnique == Spec => []LiveUnique
<1>1. IInv => LiveUnique
  BY DEF IInv
<1> QED
  BY <1>1, Invariant, PTL

\* pipeline.py:238-310: however the replaced row changes between its lookup
\* and the insert of its successor, and whatever the worker purges in between,
\* the versions of a stored document can be followed down to the first.
THEOREM HistoryKept == Spec => []VersionChain
<1>1. IInv => VersionChain
  BY DEF IInv
<1> QED
  BY <1>1, Invariant, PTL

\* jobs.py:194-275: a row is dropped only after its points.
THEOREM PurgeIsComplete == Spec => []PurgedLeavesNothing
<1>1. IInv => PurgedLeavesNothing
  BY DEF IInv, ChunksStored, Stored, PurgedLeavesNothing
<1> QED
  BY <1>1, Invariant, PTL

\* jobs.py:229-268: the final DELETE, which does not look at the rows again,
\* drops only rows that are soft-deleted and past the cutoff.
THEOREM PurgeIsSafe == Spec => NeverPurgeLive
<1> DEFINE A == \A d \in Docs : status[d] # "purged" /\ status'[d] = "purged"
                                  => status[d] = "deleted" /\ d \in expired
<1>1. IInv /\ [Next]_vars => [A]_vars
  <2> SUFFICES ASSUME IInv, Next, NEW d \in Docs, status[d] # "purged", status'[d] = "purged"
               PROVE  status[d] = "deleted" /\ d \in expired
    OBVIOUS
  <2>1. CASE PurgeRows
    BY <2>1 DEF PurgeRows, rowVars, IInv, PurgeOK, ExpiredAreDeleted
  <2>2. CASE ~PurgeRows
    <3>1. \/ status' = status
          \/ \E S, why : SoftDelete(S, why)
          \/ \E t \in Tasks, e \in Docs : Insert(t, e)
          \/ \E t \in Tasks : Restore(t)
      BY <2>2 DEF Next, IngestStep, DeleteStep, PurgeStep, LookupHash, AddAlias, LookupName,
                  Supersede, DetectFail, InsertConflict, ProcessFail, StoreFailDirty, StoreOk,
                  Cleanup, Finalize, SetCount, DeleteChunks, DeleteMark, BatchSelect, BatchMark,
                  BatchChunks, Expire, PurgeSelect, PurgeChunks, AppCrash, WorkerCrash, rowVars
    <3>2. status \in [Docs -> Status]
      BY DEF IInv, TypeOK
    <3> QED
      BY <3>1, <3>2 DEF SoftDelete, Insert, Restore
  <2> QED
    BY <2>1, <2>2
<1> QED
  BY <1>1, Invariant, PTL DEF Spec, NeverPurgeLive

\* With pgvector a search joins the live rows (pgvector.py), so it can never
\* mix two versions of a file or two copies of a content.
THEOREM PgvectorAnswersOnce == Spec /\ Backend = "pgvector" => []OneVersionAnswers
<1>1. IInv /\ Backend = "pgvector" => OneVersionAnswers
  BY DEF IInv, LiveUnique, OneVersionAnswers, Searchable
<1>2. CASE Backend = "pgvector"
  <2>1. IInv => OneVersionAnswers
    BY <1>1, <1>2
  <2> QED
    BY <2>1, Invariant, PTL
<1>3. CASE Backend # "pgvector"
  BY <1>3
<1> QED
  BY <1>2, <1>3

-----------------------------------------------------------------------------
(* Ingests one at a time, beside deletes, purges, crashes and all faults.    *)

\* What a row holds does not change.
RowsKept == \A d \in Stored : d \in Stored' => doc'[d] = doc[d]

\* No row appears or becomes live.
Hides == Stored' \subseteq Stored /\ Live' \subseteq Live /\ RowsKept

LEMMA InsertRows ==
    ASSUME IInv, NEW t \in Tasks, NEW d \in Docs, Insert(t, d)
    PROVE  /\ d \notin Stored /\ Live' = Live \cup {d} /\ Stored' = Stored \cup {d}
           /\ doc'[d] = [file |-> loc[t].file, hash |-> loc[t].hash,
                         version |-> loc[t].version, supersedes |-> loc[t].supersedes]
           /\ \A e \in Docs \ {d} : doc'[e] = doc[e]
           /\ RowsKept
<1>1. /\ status[d] = "absent" /\ status' = [status EXCEPT ![d] = "live"]
      /\ doc' = [doc EXCEPT ![d] = [file |-> loc[t].file, hash |-> loc[t].hash,
                                    version |-> loc[t].version,
                                    supersedes |-> loc[t].supersedes]]
  BY DEF Insert
<1>2. d \notin Stored /\ Live' = Live \cup {d} /\ Stored' = Stored \cup {d}
  BY <1>1 DEF IInv, TypeOK, Stored, Live
<1>3. /\ doc'[d] = [file |-> loc[t].file, hash |-> loc[t].hash,
                    version |-> loc[t].version, supersedes |-> loc[t].supersedes]
      /\ \A e \in Docs \ {d} : doc'[e] = doc[e]
  BY <1>1 DEF IInv, TypeOK
<1> QED
  BY <1>2, <1>3 DEF RowsKept, Stored

LEMMA RestoreRows ==
    ASSUME IInv, NEW t \in Tasks, Restore(t)
    PROVE  Stored' = Stored /\ doc' = doc /\ RowsKept
<1>1. loc[t].supersedes \in Stored /\ doc' = doc
  BY DEF Restore, IInv, TasksOK, TaskOK, Active, Resting
<1>2. status' = status \/ status' = [status EXCEPT ![loc[t].supersedes] = "live"]
  BY DEF Restore
<1> QED
  BY <1>1, <1>2 DEF RowsKept, Stored, IInv, TypeOK

LEMMA SoftDeleteHides ==
    ASSUME NEW S \in SUBSET Stored, NEW why, SoftDelete(S, why), UNCHANGED doc
    PROVE  Hides
BY DEF SoftDelete, Hides, RowsKept, Live, Stored

LEMMA PurgeHides ==
    ASSUME IInv, PurgeRows
    PROVE  Hides
BY DEF IInv, TypeOK, PurgeRows, Hides, RowsKept, Live, Stored, rowVars

\* An UPDATE that hides rows.
SoftDeletes(S) == (\E why : SoftDelete(S, why)) /\ UNCHANGED doc

\* Only an insert and a restore make a row live.
LEMMA WhatMakesLive ==
    ASSUME IInv, [Next]_vars
    PROVE  \/ \E t \in Tasks, d \in Docs : Insert(t, d)
           \/ \E t \in Tasks : Restore(t)
           \/ Hides
<1>1. CASE UNCHANGED <<status, doc>>
  BY <1>1 DEF Hides, RowsKept, Live, Stored
<1>2. CASE PurgeRows
  BY <1>2, PurgeHides
<1>3. CASE \E S \in SUBSET Stored : SoftDeletes(S)
  BY <1>3, SoftDeleteHides DEF SoftDeletes
<1>4. CASE UNCHANGED vars
  BY <1>1, <1>4 DEF vars, rowVars
<1>5. ASSUME NEW t \in Tasks, IngestStep(t)
      PROVE  \/ \E d \in Docs : Insert(t, d)
             \/ Restore(t)
             \/ UNCHANGED <<status, doc>>
             \/ \E S \in SUBSET Stored : SoftDeletes(S)
  <2>1. CASE Supersede(t)
    <3>1. {loc[t].supersedes} \in SUBSET Stored
      BY <2>1 DEF Supersede, IInv, TasksOK, TaskOK, Active, Resting
    <3> QED
      BY <2>1, <3>1 DEF Supersede, SoftDeletes
  <2>2. CASE Cleanup(t)
    <3>1. {loc[t].doc} \in SUBSET Stored
      BY <2>2 DEF Cleanup, IInv, TasksOK, TaskOK, Active, Resting
    <3> QED
      BY <2>2, <3>1 DEF Cleanup, SoftDeletes
  <2> QED
    BY <1>5, <2>1, <2>2 DEF IngestStep, AddAlias, LookupName, DetectFail, InsertConflict,
       ProcessFail, StoreFailDirty, StoreOk, Finalize, SetCount, rowVars
<1>6. ASSUME Next, ~\E t \in Tasks : IngestStep(t), ~PurgeRows
      PROVE  \/ UNCHANGED <<status, doc>>
             \/ \E S \in SUBSET Stored : SoftDeletes(S)
  <2>1. ASSUME NEW a \in Admins, DeleteMark(a) \/ BatchMark(a)
        PROVE  \E S \in SUBSET Stored : SoftDeletes(S)
    <3>1. Markable(a) \in SUBSET Stored /\ (apc[a] = "batch_mark" => tgt[a] \in SUBSET Stored)
      BY DEF Markable, Live, Stored, IInv, AdminsOK
    <3> QED
      BY <2>1, <3>1 DEF DeleteMark, BatchMark, SoftDeletes
  <2> QED
    BY <1>6, <2>1 DEF Next, LookupHash, DeleteStep, PurgeStep, DeleteChunks, BatchSelect,
                      BatchChunks, Expire, PurgeSelect, PurgeChunks, AppCrash, WorkerCrash,
                      rowVars
<1> QED
  BY <1>1, <1>2, <1>3, <1>4, <1>5, <1>6

\* What a row holds is written once.
LEMMA ColumnsKept ==
    ASSUME IInv, [Next]_vars
    PROVE  RowsKept
BY WhatMakesLive, InsertRows, RestoreRows DEF Hides

\* A call that goes on with the same content and the same replaced row.
LEMMA StaysFresh ==
    ASSUME IInv, IInv', RowsKept, NEW t \in Tasks, Fresh(t), Active(t),
           loc'[t].supersedes = loc[t].supersedes, loc'[t].hash = loc[t].hash,
           pc'[t] # "lookup_name"
    PROVE  Fresh(t)'
<1> SUFFICES ASSUME Active(t)', loc'[t].supersedes # None
             PROVE  doc'[loc'[t].supersedes].hash # loc'[t].hash
  BY DEF Fresh
<1>1. loc[t].supersedes \in Stored /\ loc[t].supersedes \in Stored'
  BY DEF IInv, TasksOK, TaskOK
<1> QED
  BY <1>1 DEF RowsKept, Fresh

\* A call that does not move, while rows only become hidden.
LEMMA WaitsFresh ==
    ASSUME IInv, IInv', Hides, NEW t \in Tasks, Fresh(t), pc'[t] = pc[t], loc'[t] = loc[t]
    PROVE  Fresh(t)'
<1>1. ASSUME pc[t] = "lookup_name" PROVE LiveByHash(loc[t].hash)' = {}
  BY <1>1 DEF Fresh, Hides, RowsKept, LiveByHash, Live, Stored
<1>2. ASSUME Active(t), loc[t].supersedes # None
      PROVE  doc'[loc[t].supersedes].hash # loc[t].hash
  <2>1. loc[t].supersedes \in Stored /\ loc[t].supersedes \in Stored'
    BY <1>2 DEF IInv, TasksOK, TaskOK, Active
  <2> QED
    BY <1>2, <2>1 DEF Hides, RowsKept, Fresh
<1> QED
  BY <1>1, <1>2 DEF Fresh, Active

LEMMA RestsFresh ==
    ASSUME NEW t \in Tasks, pc'[t] \in Resting
    PROVE  Fresh(t)'
BY DEF Fresh, Active, Resting

LEMMA UnwindFresh ==
    ASSUME IInv, IInv', RowsKept, NEW t \in Tasks, Fresh(t), Active(t), Unwind(t)
    PROVE  Fresh(t)'
<1>1. CASE loc[t].supersedes # None
  <2>1. pc'[t] = "restore" /\ loc' = loc
    BY <1>1 DEF Unwind, IInv, TypeOK
  <2> QED
    BY <2>1, StaysFresh
<1>2. CASE loc[t].supersedes = None
  BY <1>2, RestsFresh DEF Unwind, Return, IInv, TypeOK, Resting
<1> QED
  BY <1>1, <1>2

LEMMA LookupHashFresh ==
    ASSUME IInv, NEW t \in Tasks, NEW f \in Files, NEW h \in Hashes, LookupHash(t, f, h)
    PROVE  Fresh(t)'
<1>1. UNCHANGED <<status, doc>>
  BY DEF LookupHash, rowVars
<1>2. CASE Return(t, "exists", None) \/ Return(t, "alias", None)
  BY <1>2, RestsFresh DEF Return, IInv, TypeOK, Resting
<1>3. CASE /\ LiveByHash(h) = {} /\ pc' = [pc EXCEPT ![t] = "lookup_name"]
           /\ loc' = [loc EXCEPT ![t] = [NoLocals EXCEPT !.file = f, !.hash = h]]
  <2>1. loc'[t].hash = h /\ loc'[t].supersedes = None
    BY <1>3 DEF IInv, TypeOK, NoLocals
  <2>2. LiveByHash(h)' = {}
    BY <1>1, <1>3 DEF LiveByHash, Live
  <2> QED
    BY <2>1, <2>2 DEF Fresh
<1>4. ASSUME NEW d, pc' = [pc EXCEPT ![t] = "add_alias"],
             loc' = [loc EXCEPT ![t] = [NoLocals EXCEPT !.file = f, !.hash = h, !.doc = d,
                                                        !.names = aliases[d] \cup {f}]]
      PROVE  Fresh(t)'
  <2>1. pc'[t] = "add_alias" /\ loc'[t].supersedes = None
    BY <1>4 DEF IInv, TypeOK, NoLocals
  <2> QED
    BY <2>1 DEF Fresh
<1> QED
  BY <1>2, <1>3, <1>4 DEF LookupHash

LEMMA LookupNameFresh ==
    ASSUME IInv, NEW t \in Tasks, Fresh(t), LookupName(t)
    PROVE  Fresh(t)'
<1>1. UNCHANGED <<status, doc>> /\ LiveByHash(loc[t].hash) = {} /\ loc[t].supersedes = None
  BY DEF LookupName, rowVars, Fresh, IInv, TasksOK, TaskOK, Active, Resting
<1>2. loc[t] \in Locals /\ DOMAIN pc = Tasks /\ DOMAIN loc = Tasks
  BY DEF IInv, TypeOK
<1>3. CASE /\ pc' = [pc EXCEPT ![t] = "insert"]
           /\ loc' = [loc EXCEPT ![t] = [loc[t] EXCEPT !.version = 1]]
  <2>1. pc'[t] = "insert" /\ loc'[t].supersedes = None
    BY <1>1, <1>2, <1>3 DEF Locals
  <2> QED
    BY <2>1 DEF Fresh
<1>4. ASSUME NEW d \in LiveByName(loc[t].file), pc' = [pc EXCEPT ![t] = "supersede"],
             loc' = [loc EXCEPT ![t] = [loc[t] EXCEPT !.version = NextVersion(d),
                                                      !.supersedes = d]]
      PROVE  Fresh(t)'
  <2>1. pc'[t] = "supersede" /\ loc'[t].supersedes = d /\ loc'[t].hash = loc[t].hash
    BY <1>2, <1>4 DEF Locals
  <2>2. doc[d].hash # loc[t].hash
    BY <1>1 DEF LiveByHash, LiveByName
  <2> QED
    BY <1>1, <2>1, <2>2 DEF Fresh
<1> QED
  BY <1>3, <1>4 DEF LookupName

LEMMA IngestFresh ==
    ASSUME IInv, IInv', RowsKept, NEW t \in Tasks, Fresh(t), IngestStep(t)
    PROVE  Fresh(t)'
<1>1. CASE LookupName(t)
  BY <1>1, LookupNameFresh
<1>2. CASE AddAlias(t) \/ Restore(t) \/ SetCount(t)
  BY <1>2, RestsFresh DEF AddAlias, Restore, SetCount, Return, IInv, TypeOK, Resting
<1>3. CASE DetectFail(t) \/ InsertConflict(t) \/ Cleanup(t)
  BY <1>3, UnwindFresh DEF DetectFail, InsertConflict, Cleanup, Active, Resting
<1>4. CASE Supersede(t) \/ ProcessFail(t) \/ StoreFailDirty(t) \/ StoreOk(t) \/ Finalize(t)
  <2>1. Active(t) /\ loc' = loc /\ pc'[t] # "lookup_name"
    BY <1>4 DEF Supersede, ProcessFail, StoreFailDirty, StoreOk, Finalize, Active, Resting,
                IInv, TypeOK
  <2> QED
    BY <2>1, StaysFresh
<1>5. ASSUME NEW d \in Docs, Insert(t, d) PROVE Fresh(t)'
  <2>1. Active(t) /\ pc'[t] = "store" /\ loc'[t] = [loc[t] EXCEPT !.doc = d]
    BY <1>5 DEF Insert, Active, Resting, IInv, TypeOK
  <2>2. loc[t] \in Locals
    BY DEF IInv, TypeOK
  <2>3. loc'[t].supersedes = loc[t].supersedes /\ loc'[t].hash = loc[t].hash
    BY <2>1, <2>2 DEF Locals
  <2> QED
    BY <2>1, <2>3, StaysFresh
<1> QED
  BY <1>1, <1>2, <1>3, <1>4, <1>5 DEF IngestStep

LEMMA NextFresh ==
    ASSUME OneAtATime, IInv, AllFresh, [Next]_vars
    PROVE  AllFresh'
<1> SUFFICES ASSUME NEW t \in Tasks PROVE Fresh(t)'
  BY DEF AllFresh
<1>1. IInv' /\ RowsKept /\ Fresh(t)
  BY NextIInv, ColumnsKept DEF AllFresh
<1>2. CASE \E u \in Tasks, f \in Files, h \in Hashes : LookupHash(u, f, h)
  BY <1>2, LookupHashFresh DEF OneAtATime
<1>3. CASE \E u \in Tasks : IngestStep(u)
  BY <1>1, <1>3, IngestFresh DEF OneAtATime
<1>4. CASE AppCrash
  <2>1. pc'[t] \in Resting
    BY <1>4 DEF AppCrash, Active, Resting
  <2> QED
    BY <2>1, RestsFresh
<1>5. CASE UNCHANGED taskVars
  <2>1. CASE \E u \in Tasks : (\E d \in Docs : Insert(u, d)) \/ Restore(u)
    BY <1>3, <2>1 DEF IngestStep
  <2> QED
    BY <1>1, <1>5, <2>1, WhatMakesLive, WaitsFresh DEF taskVars
<1>6. \/ \E u \in Tasks, f \in Files, h \in Hashes : LookupHash(u, f, h)
      \/ \E u \in Tasks : IngestStep(u)
      \/ AppCrash
      \/ UNCHANGED taskVars
  BY DEF Next, vars, DeleteStep, PurgeStep, DeleteChunks, DeleteMark, BatchSelect, BatchMark,
         BatchChunks, Expire, PurgeSelect, PurgeChunks, PurgeRows, WorkerCrash
<1> QED
  BY <1>2, <1>3, <1>4, <1>5, <1>6

LEMMA NextDiffers ==
    ASSUME IInv, AllFresh, VersionHasNewContent, [Next]_vars
    PROVE  VersionHasNewContent'
<1>1. IInv' /\ RowsKept
  BY NextIInv, ColumnsKept
<1> SUFFICES ASSUME NEW d \in Stored', doc'[d].supersedes # None
             PROVE  doc'[d].hash # doc'[doc'[d].supersedes].hash
  BY DEF VersionHasNewContent
<1> d \in Docs
  BY DEF Stored
<1>2. CASE d \in Stored
  <2>1. doc'[d] = doc[d] /\ doc[d].supersedes \in Stored /\ doc[d].supersedes \in Stored'
    BY <1>1, <1>2 DEF RowsKept, IInv, VersionChain
  <2> QED
    BY <1>1, <1>2, <2>1 DEF RowsKept, VersionHasNewContent
<1>3. CASE d \notin Stored
  <2>1. PICK t \in Tasks : Insert(t, d)
    <3>1. ASSUME NEW t \in Tasks, NEW e \in Docs, Insert(t, e) PROVE d = e
      <4>1. Stored' = Stored \cup {e}
        BY <3>1, InsertRows
      <4> QED
        BY <1>3, <4>1
    <3> QED
      <4>1. ~Hides
        BY <1>3 DEF Hides
      <4>2. ASSUME NEW t \in Tasks PROVE ~Restore(t)
        BY <1>3, <4>2, RestoreRows
      <4> QED
        BY <3>1, <4>1, <4>2, WhatMakesLive
  <2> DEFINE s == loc[t].supersedes
  <2>4. doc'[d].supersedes = s /\ doc'[d].hash = loc[t].hash
    <3>1. doc'[d] = [file |-> loc[t].file, hash |-> loc[t].hash,
                     version |-> loc[t].version, supersedes |-> loc[t].supersedes]
      BY <2>1, InsertRows
    <3> QED
      BY <3>1
  <2>2. s \in Stored /\ doc[s].hash # loc[t].hash
    BY <2>1, <2>4 DEF AllFresh, Fresh, Insert, Active, Resting, IInv, TasksOK, TaskOK
  <2>3. s \in Stored'
    BY <2>1, <2>2, InsertRows DEF Stored
  <2> QED
    BY <1>1, <2>4, <2>2, <2>3 DEF RowsKept
<1> QED
  BY <1>2, <1>3

\* pipeline.py:219-247: while ingests run one at a time, the two lookups of an
\* ingest are still true when it inserts, whatever deletes, purges, crashes and
\* faults do meanwhile: a version never repeats the content it replaces.
THEOREM VersionsDiffer ==
    ASSUME OneAtATime
    PROVE  Spec => []VersionHasNewContent
<1>1. Init => AllFresh /\ VersionHasNewContent
  BY DEF Init, AllFresh, Fresh, Active, Resting, VersionHasNewContent, Stored
<1>2. IInv /\ AllFresh /\ [Next]_vars => AllFresh'
  BY NextFresh
<1>3. IInv /\ AllFresh /\ VersionHasNewContent /\ [Next]_vars => VersionHasNewContent'
  BY NextDiffers
<1> QED
  BY <1>1, <1>2, <1>3, Invariant, PTL DEF Spec

-----------------------------------------------------------------------------
(* Atomic ingestion: one ingest at a time, nobody deletes, the process lives *)
(* and the database answers.  Store calls may fail, retention may run.       *)

Healthy == OneAtATime /\ Admins = {} /\ Faults \subseteq {"store"}

SInv == IInv /\ AllFresh /\ AllPlaced

Working(t) == pc[t] \in {"insert", "store", "cleanup", "restore"}
Quiet(f) == \A t \in Tasks : ~(Working(t) /\ loc[t].file = f)
Show(f) == LiveByName(f) \cap chunks

\* What the mapping makes of a state.
ShelfTells ==
    \A f \in Files :
        /\ Quiet(f) /\ Show(f) = {} => Shelf(f) = None
        /\ Quiet(f) => \A d \in Show(f) : Shelf(f) = doc[d].hash
        /\ \A t \in Tasks : Working(t) /\ loc[t].file = f =>
              Shelf(f) = IF loc[t].supersedes = None THEN None ELSE doc[loc[t].supersedes].hash

LEMMA ShelfMeaning == OneAtATime /\ IInv => ShelfTells
<1> SUFFICES ASSUME OneAtATime, IInv, NEW f \in Files
             PROVE  /\ Quiet(f) /\ Show(f) = {} => Shelf(f) = None
                    /\ Quiet(f) => \A d \in Show(f) : Shelf(f) = doc[d].hash
                    /\ \A t \in Tasks : Working(t) /\ loc[t].file = f =>
                          Shelf(f) = IF loc[t].supersedes = None THEN None
                                     ELSE doc[loc[t].supersedes].hash
  BY DEF ShelfTells
<1> DEFINE undecided == {t \in Tasks : /\ pc[t] \in {"insert", "store", "cleanup", "restore"}
                                       /\ loc[t].file = f}
           old == {loc[t].supersedes : t \in undecided} \ {None}
           shown == IF undecided = {} THEN Show(f) ELSE old
<1>1. Shelf(f) = IF shown = {} THEN None ELSE doc[CHOOSE d \in shown : TRUE].hash
  BY DEF Shelf, Show
<1>2. Quiet(f) => undecided = {}
  BY DEF Quiet, Working
<1>3. ASSUME Quiet(f), NEW d \in Show(f) PROVE Shelf(f) = doc[d].hash
  <2>1. shown = Show(f)
    BY <1>2, <1>3
  <2>2. \A e \in Show(f) : e = d
    BY DEF Show, LiveByName, IInv, LiveUnique
  <2>3. (CHOOSE e \in Show(f) : TRUE) = d
    BY <2>2
  <2> HIDE DEF shown
  <2> QED
    BY <1>1, <1>3, <2>1, <2>3
<1>4. ASSUME NEW t \in Tasks, Working(t), loc[t].file = f
      PROVE  Shelf(f) = IF loc[t].supersedes = None THEN None ELSE doc[loc[t].supersedes].hash
  <2>1. undecided = {t}
    BY <1>4 DEF Working, OneAtATime
  <2>2. shown = {loc[t].supersedes} \ {None}
    <3> HIDE DEF undecided
    <3> QED
      BY <2>1
  <2>3. loc[t].supersedes # None => (CHOOSE e \in {loc[t].supersedes} : TRUE) = loc[t].supersedes
    OBVIOUS
  <2>4. loc[t].supersedes # None => shown = {loc[t].supersedes}
    BY <2>2
  <2> HIDE DEF shown
  <2> QED
    BY <1>1, <2>2, <2>3, <2>4
<1> QED
  BY <1>1, <1>2, <1>3, <1>4

LEMMA ShelfMeaningNext == OneAtATime /\ IInv' => ShelfTells'
<1>1. OneAtATime => OneAtATime'
  BY DEF OneAtATime
<1> QED
  BY <1>1, ShelfMeaning, PTL

\* A name no ingest is working on, whose answer does not change.
SameShow(g) == Show(g)' = Show(g) /\ \A d \in Show(g) : doc'[d] = doc[d]

LEMMA QuietShelf ==
    ASSUME OneAtATime, IInv, IInv', NEW g \in Files, Quiet(g), Quiet(g)', SameShow(g)
    PROVE  Shelf(g)' = Shelf(g)
<1>1. ShelfTells /\ ShelfTells'
  BY ShelfMeaning, ShelfMeaningNext
<1>2. CASE Show(g) = {}
  <2>1. Show(g)' = {}
    BY <1>2 DEF SameShow
  <2>2. Shelf(g) = None /\ Shelf(g)' = None
    BY <1>1, <1>2, <2>1 DEF ShelfTells
  <2> QED
    BY <2>2
<1>3. ASSUME NEW d \in Show(g) PROVE Shelf(g)' = Shelf(g)
  <2>1. d \in Show(g)' /\ doc'[d] = doc[d]
    BY <1>3 DEF SameShow
  <2>2. Shelf(g) = doc[d].hash /\ Shelf(g)' = doc'[d].hash
    BY <1>1, <1>3, <2>1 DEF ShelfTells
  <2> QED
    BY <2>1, <2>2
<1> QED
  BY <1>2, <1>3

\* The name of an ingest that stays between its supersede and its store.
LEMMA WorkingShelf ==
    ASSUME OneAtATime, IInv, IInv', RowsKept, NEW t \in Tasks,
           Working(t), Working(t)', loc'[t].file = loc[t].file,
           loc'[t].supersedes = loc[t].supersedes,
           NEW f \in Files, f = loc[t].file
    PROVE  Shelf(f)' = Shelf(f)
<1>1. ShelfTells /\ ShelfTells'
  BY ShelfMeaning, ShelfMeaningNext
<1>2. loc[t].supersedes # None => loc[t].supersedes \in Stored /\ loc[t].supersedes \in Stored'
  BY DEF IInv, TasksOK, TaskOK, Active, Resting, Working
<1>3. loc[t].supersedes # None => doc'[loc[t].supersedes] = doc[loc[t].supersedes]
  BY <1>2 DEF RowsKept
<1> QED
  BY <1>1, <1>3 DEF ShelfTells

\* The names no ingest works on, before and after a step of the only ingest.
LEMMA OtherNames ==
    ASSUME OneAtATime, IInv, IInv', NEW t \in Tasks, NEW g \in Files,
           loc[t].file # g \/ ~Working(t), loc'[t].file # g \/ ~Working(t)', SameShow(g)
    PROVE  Shelf(g)' = Shelf(g)
<1>1. Quiet(g) /\ Quiet(g)'
  BY DEF Quiet, OneAtATime, Working
<1> QED
  BY <1>1, QuietShelf

-----------------------------------------------------------------------------
(* The place of the only ingest, action by action.                           *)

LEMMA RestsPlaced ==
    ASSUME NEW t \in Tasks, pc'[t] \in Resting, Live' \subseteq chunks'
    PROVE  Place(t)'
BY DEF Place, Active, Resting, Unstored

\* What Place and IInv say where an ingest is between two phases.
LEMMA AllIndexed ==
    ASSUME NEW t \in Tasks, Place(t), pc[t] \notin {"store", "cleanup"}
    PROVE  Live \subseteq chunks
BY DEF Place, Unstored

LEMMA LookupHashPlaced ==
    ASSUME IInv, NEW t \in Tasks, Place(t), NEW f \in Files, NEW h \in Hashes, LookupHash(t, f, h)
    PROVE  Place(t)'
<1>1. UNCHANGED <<status, doc, chunks>> /\ Live' \subseteq chunks'
  BY AllIndexed DEF LookupHash, rowVars, Live, Active, Resting
<1>2. CASE Return(t, "exists", None) \/ Return(t, "alias", None)
  BY <1>1, <1>2, RestsPlaced DEF Return, IInv, TypeOK, Resting
<1>3. ASSUME NEW L \in Locals, L.file \in Files, L.hash \in Hashes,
             NEW p \in {"lookup_name", "add_alias"}, pc' = [pc EXCEPT ![t] = p],
             loc' = [loc EXCEPT ![t] = L]
      PROVE  Place(t)'
  <2>1. pc'[t] = p /\ loc'[t] = L
    BY <1>3 DEF IInv, TypeOK
  <2> QED
    BY <1>1, <1>3, <2>1 DEF Place, Unstored
<1>4. CASE /\ LiveByHash(h) = {} /\ pc' = [pc EXCEPT ![t] = "lookup_name"]
           /\ loc' = [loc EXCEPT ![t] = [NoLocals EXCEPT !.file = f, !.hash = h]]
  <2> DEFINE L == [NoLocals EXCEPT !.file = f, !.hash = h]
  <2>1. L \in Locals /\ L.file = f /\ L.hash = h
    BY DEF NoLocals, Locals
  <2>2. pc' = [pc EXCEPT ![t] = "lookup_name"] /\ loc' = [loc EXCEPT ![t] = L]
    BY <1>4
  <2> HIDE DEF L
  <2> QED
    BY <1>3, <2>1, <2>2
<1>5. ASSUME NEW d \in LiveByHash(h), pc' = [pc EXCEPT ![t] = "add_alias"],
             loc' = [loc EXCEPT ![t] = [NoLocals EXCEPT !.file = f, !.hash = h, !.doc = d,
                                                        !.names = aliases[d] \cup {f}]]
      PROVE  Place(t)'
  <2> DEFINE L == [NoLocals EXCEPT !.file = f, !.hash = h, !.doc = d,
                                   !.names = aliases[d] \cup {f}]
  <2>1. L \in Locals /\ L.file = f /\ L.hash = h
    BY DEF NoLocals, Locals, LiveByHash, Live, IInv, TypeOK
  <2>2. pc' = [pc EXCEPT ![t] = "add_alias"] /\ loc' = [loc EXCEPT ![t] = L]
    BY <1>5
  <2> HIDE DEF L
  <2> QED
    BY <1>3, <2>1, <2>2
<1> QED
  BY <1>2, <1>4, <1>5 DEF LookupHash

LEMMA LookupNamePlaced ==
    ASSUME IInv, NEW t \in Tasks, Fresh(t), Place(t), LookupName(t)
    PROVE  Place(t)'
<1>1. UNCHANGED <<status, doc, chunks>> /\ pc[t] = "lookup_name" /\ Active(t)
  BY DEF LookupName, rowVars, Active, Resting
<1>2. /\ Live' = Live /\ Live \subseteq chunks
      /\ loc[t].supersedes = None /\ LiveByHash(loc[t].hash) = {}
      /\ loc[t].file \in Files /\ loc[t].hash \in Hashes
  BY <1>1, AllIndexed DEF Live, Fresh, Place, IInv, TasksOK, TaskOK
<1>3. loc[t] \in Locals /\ DOMAIN pc = Tasks /\ DOMAIN loc = Tasks
  BY DEF IInv, TypeOK
<1>4. CASE /\ LiveByName(loc[t].file) = {} /\ pc' = [pc EXCEPT ![t] = "insert"]
           /\ loc' = [loc EXCEPT ![t] = [loc[t] EXCEPT !.version = 1]]
  <2>1. /\ pc'[t] = "insert" /\ loc'[t].supersedes = None /\ loc'[t].file = loc[t].file
        /\ loc'[t].hash = loc[t].hash
    BY <1>2, <1>3, <1>4 DEF Locals
  <2> QED
    BY <1>1, <1>2, <1>4, <2>1 DEF Place, Unstored, LiveByName, LiveByHash
<1>5. ASSUME NEW d \in LiveByName(loc[t].file), pc' = [pc EXCEPT ![t] = "supersede"],
             loc' = [loc EXCEPT ![t] = [loc[t] EXCEPT !.version = NextVersion(d),
                                                      !.supersedes = d]]
      PROVE  Place(t)'
  <2>1. /\ pc'[t] = "supersede" /\ loc'[t].supersedes = d /\ loc'[t].file = loc[t].file
        /\ loc'[t].hash = loc[t].hash
    BY <1>3, <1>5 DEF Locals
  <2> QED
    BY <1>1, <1>2, <1>5, <2>1 DEF Place, Unstored, LiveByName, LiveByHash
<1> QED
  BY <1>4, <1>5 DEF LookupName

\* A row by its name and by its content is the only live one.
LEMMA OnlyOne ==
    ASSUME IInv, NEW d \in Live
    PROVE  LiveByName(doc[d].file) = {d} /\ LiveByHash(doc[d].hash) = {d}
BY DEF IInv, LiveUnique, LiveByName, LiveByHash

LEMMA SupersedePlaced ==
    ASSUME IInv, NEW t \in Tasks, Place(t), Supersede(t)
    PROVE  Place(t)'
<1> DEFINE d == loc[t].supersedes
<1>1. /\ pc[t] = "supersede" /\ pc'[t] = "insert" /\ loc' = loc /\ doc' = doc
      /\ chunks' = chunks /\ Active(t) /\ Live' = Live \ {d}
  BY DEF Supersede, IInv, TypeOK, Active, Resting, SoftDelete, Live
<1>2. /\ d \in Live /\ doc[d].file = loc[t].file /\ Live \subseteq chunks
      /\ loc[t].file \in Files /\ loc[t].hash \in Hashes /\ LiveByHash(loc[t].hash) = {}
  BY <1>1, AllIndexed DEF Place, IInv, TasksOK, TaskOK
<1>3. LiveByName(doc[d].file) = {d} /\ LiveByHash(doc[d].hash) = {d}
  BY <1>2, OnlyOne
<1>4. /\ LiveByName(loc[t].file)' = {} /\ LiveByHash(doc[d].hash)' = {}
      /\ LiveByHash(loc[t].hash)' = {}
  BY <1>1, <1>2, <1>3 DEF LiveByName, LiveByHash
<1> HIDE DEF d
<1> QED
  BY <1>1, <1>2, <1>4 DEF Place, Unstored, d

\* The except clauses, in a place where the only live row by that name is gone.
LEMMA UnwindPlaced ==
    ASSUME IInv, NEW t \in Tasks, Active(t), Unwind(t), Live' \subseteq chunks',
           loc[t].file \in Files, loc[t].hash \in Hashes,
           \A e \in Live' : doc'[e].file # loc[t].file,
           loc[t].supersedes # None => /\ loc[t].supersedes \in chunks'
                                       /\ \A e \in Live' : doc'[e].hash # doc'[loc[t].supersedes].hash
    PROVE  Place(t)'
<1>1. CASE loc[t].supersedes # None
  <2>1. pc'[t] = "restore" /\ loc' = loc
    BY <1>1 DEF Unwind, IInv, TypeOK
  <2> QED
    BY <1>1, <2>1 DEF Place, Unstored, LiveByName, LiveByHash
<1>2. CASE loc[t].supersedes = None
  BY <1>2, RestsPlaced DEF Unwind, Return, IInv, TypeOK, Resting
<1> QED
  BY <1>1, <1>2

LEMMA FailPlaced ==
    ASSUME IInv, NEW t \in Tasks, Place(t), DetectFail(t) \/ InsertConflict(t)
    PROVE  Place(t)'
<1>1. /\ pc[t] = "insert" /\ Unwind(t) /\ Active(t)
      /\ UNCHANGED <<status, doc, chunks>>
  BY DEF DetectFail, InsertConflict, rowVars, Active, Resting
<1>2. /\ Live \subseteq chunks /\ loc[t].file \in Files /\ loc[t].hash \in Hashes
      /\ LiveByName(loc[t].file) = {}
      /\ loc[t].supersedes # None => /\ loc[t].supersedes \in chunks
                                     /\ LiveByHash(doc[loc[t].supersedes].hash) = {}
  BY <1>1, AllIndexed DEF Place, Unstored
<1>3. /\ Live' \subseteq chunks' /\ \A e \in Live' : doc'[e].file # loc[t].file
      /\ loc[t].supersedes # None => /\ loc[t].supersedes \in chunks'
                                     /\ \A e \in Live' : doc'[e].hash # doc'[loc[t].supersedes].hash
  BY <1>1, <1>2 DEF Live, LiveByName, LiveByHash
<1> QED
  BY <1>1, <1>2, <1>3, UnwindPlaced

LEMMA InsertPlaced ==
    ASSUME IInv, NEW t \in Tasks, Fresh(t), Place(t), NEW d \in Docs, Insert(t, d)
    PROVE  Place(t)'
<1>1. /\ pc[t] = "insert" /\ Active(t) /\ pc'[t] = "store" /\ chunks' = chunks
      /\ loc' = [loc EXCEPT ![t] = [loc[t] EXCEPT !.doc = d]]
  BY DEF Insert, IInv, TypeOK, Active, Resting
<1>2. /\ loc'[t].doc = d /\ loc'[t].file = loc[t].file /\ loc'[t].hash = loc[t].hash
      /\ loc'[t].supersedes = loc[t].supersedes
  BY <1>1 DEF IInv, TypeOK, Locals
<1>3. /\ d \notin Stored /\ Live' = Live \cup {d}
      /\ doc'[d].file = loc[t].file /\ doc'[d].hash = loc[t].hash
      /\ \A e \in Docs \ {d} : doc'[e] = doc[e]
  <2>1. doc'[d] = [file |-> loc[t].file, hash |-> loc[t].hash,
                   version |-> loc[t].version, supersedes |-> loc[t].supersedes]
    BY InsertRows
  <2> QED
    BY <2>1, InsertRows
<1>4. /\ Live \subseteq chunks /\ loc[t].file \in Files /\ loc[t].hash \in Hashes
      /\ LiveByName(loc[t].file) = {}
      /\ loc[t].supersedes # None => /\ loc[t].supersedes \in chunks
                                     /\ LiveByHash(doc[loc[t].supersedes].hash) = {}
                                     /\ doc[loc[t].supersedes].hash # loc[t].hash
                                     /\ loc[t].supersedes \in Stored
  BY <1>1, AllIndexed DEF Place, Unstored, Fresh, IInv, TasksOK, TaskOK
<1>5. \A e \in Live' : doc'[e].file = loc[t].file => e = d
  BY <1>3, <1>4 DEF LiveByName, Live
<1>6. ASSUME loc[t].supersedes # None PROVE \A e \in Live' : doc'[e].hash # doc'[loc[t].supersedes].hash
  <2>1. doc'[loc[t].supersedes] = doc[loc[t].supersedes]
    BY <1>3, <1>4, <1>6 DEF Stored
  <2> QED
    BY <1>3, <1>4, <1>6, <2>1 DEF LiveByHash, Live
<1> QED
  BY <1>1, <1>2, <1>3, <1>4, <1>5, <1>6 DEF Place, Unstored, LiveByName, LiveByHash

LEMMA StorePlaced ==
    ASSUME IInv, NEW t \in Tasks, Place(t), ProcessFail(t) \/ StoreFailDirty(t) \/ StoreOk(t)
    PROVE  Place(t)'
<1>1. /\ pc[t] = "store" /\ loc' = loc /\ UNCHANGED <<status, doc>> /\ Active(t)
      /\ chunks \subseteq chunks'
      /\ \/ pc'[t] = "cleanup"
         \/ pc'[t] = "count" /\ loc[t].doc \in chunks'
         \/ pc'[t] = "finalize" /\ loc[t].doc \in chunks' /\ loc[t].supersedes # None
  BY DEF ProcessFail, StoreFailDirty, StoreOk, rowVars, IInv, TypeOK, Active, Resting
<1>2. Live' = Live /\ \A f : LiveByName(f)' = LiveByName(f) /\ LiveByHash(f)' = LiveByHash(f)
  BY <1>1 DEF Live, LiveByName, LiveByHash
<1>3. /\ Live \subseteq chunks \cup {loc[t].doc} /\ loc[t].file \in Files /\ loc[t].hash \in Hashes
      /\ LiveByName(loc[t].file) \subseteq {loc[t].doc}
      /\ loc[t].supersedes # None => /\ loc[t].supersedes \in chunks
                                     /\ LiveByHash(doc[loc[t].supersedes].hash) = {}
      /\ loc[t].doc \in Live
      /\ doc[loc[t].doc].file = loc[t].file /\ doc[loc[t].doc].hash = loc[t].hash
  BY <1>1 DEF Place, Unstored
<1>4. loc[t].supersedes # None => loc[t].supersedes \notin Live
  BY <1>3 DEF LiveByHash
<1>5. CASE pc'[t] = "cleanup"
  BY <1>1, <1>2, <1>3, <1>5 DEF Place, Unstored
<1>6. CASE pc'[t] \in {"count", "finalize"}
  BY <1>1, <1>2, <1>3, <1>4, <1>6 DEF Place, Unstored
<1> QED
  BY <1>1, <1>5, <1>6

LEMMA CleanupPlaced ==
    ASSUME Healthy, IInv, NEW t \in Tasks, Place(t), Cleanup(t)
    PROVE  Place(t)'
<1>1. /\ pc[t] = "cleanup" /\ Active(t) /\ Unwind(t) /\ UNCHANGED <<doc, chunks>>
      /\ Live' = Live \ {loc[t].doc}
  <2>1. "db" \notin Faults
    BY DEF Healthy
  <2>2. SoftDelete({loc[t].doc}, "pipeline_failure")
    BY <2>1 DEF Cleanup
  <2> QED
    BY <2>2 DEF Cleanup, SoftDelete, Live, Active, Resting
<1>2. /\ Live \subseteq chunks \cup {loc[t].doc} /\ loc[t].file \in Files /\ loc[t].hash \in Hashes
      /\ LiveByName(loc[t].file) \subseteq {loc[t].doc}
      /\ loc[t].supersedes # None => /\ loc[t].supersedes \in chunks
                                     /\ LiveByHash(doc[loc[t].supersedes].hash) = {}
  BY <1>1 DEF Place, Unstored
<1>3. /\ Live' \subseteq chunks' /\ \A e \in Live' : doc'[e].file # loc[t].file
      /\ loc[t].supersedes # None => /\ loc[t].supersedes \in chunks'
                                     /\ \A e \in Live' : doc'[e].hash # doc'[loc[t].supersedes].hash
  BY <1>1, <1>2 DEF LiveByName, LiveByHash
<1> QED
  BY <1>1, <1>2, <1>3, UnwindPlaced

LEMMA RestorePlaced ==
    ASSUME IInv, NEW t \in Tasks, Place(t), Restore(t)
    PROVE  Place(t)'
<1>1. /\ pc[t] = "restore" /\ chunks' = chunks /\ pc'[t] \in Resting
      /\ Live' \subseteq Live \cup {loc[t].supersedes}
  BY DEF Restore, Return, IInv, TypeOK, Live, Resting
<1>2. Live \subseteq chunks /\ loc[t].supersedes \in chunks
  BY <1>1, AllIndexed DEF Place, IInv, TasksOK, TaskOK, Active, Resting
<1> QED
  BY <1>1, <1>2, RestsPlaced

LEMMA LastPlaced ==
    ASSUME IInv, NEW t \in Tasks, Place(t), Finalize(t) \/ SetCount(t) \/ AddAlias(t)
    PROVE  Place(t)'
<1>1. CASE Finalize(t)
  <2>1. /\ pc[t] = "finalize" /\ Active(t) /\ pc'[t] = "count" /\ loc' = loc
        /\ UNCHANGED <<status, doc>> /\ chunks \ {loc[t].supersedes} \subseteq chunks'
    BY <1>1 DEF Finalize, IInv, TypeOK, Active, Resting, rowVars
  <2>2. Live \subseteq chunks /\ loc[t].supersedes \notin Live /\ Live' = Live
    BY <2>1, AllIndexed DEF Place, Live
  <2> QED
    BY <2>1, <2>2 DEF Place, Unstored
<1>2. CASE SetCount(t) \/ AddAlias(t)
  <2>1. /\ pc[t] \in {"count", "add_alias"} /\ pc'[t] \in Resting
        /\ UNCHANGED <<status, chunks>>
    BY <1>2 DEF SetCount, AddAlias, Return, IInv, TypeOK, Resting, rowVars
  <2> QED
    BY <2>1, AllIndexed, RestsPlaced DEF Live
<1> QED
  BY <1>1, <1>2

\* Steps of the worker and the passage of time.
LEMMA Background ==
    ASSUME IInv, (\E d \in Docs : Expire(d)) \/ PurgeStep \/ WorkerCrash \/ UNCHANGED vars
    PROVE  /\ UNCHANGED taskVars /\ Live' = Live
           /\ \A d \in Stored \ expired : doc'[d] = doc[d] /\ (d \in chunks' <=> d \in chunks)
<1>1. CASE UNCHANGED <<status, doc, chunks, taskVars>>
  BY <1>1 DEF Live
<1>2. ASSUME NEW d \in Docs, PurgeChunks(d)
      PROVE  /\ UNCHANGED <<status, doc, taskVars>>
             /\ d \in expired /\ (chunks' = chunks \/ chunks' = chunks \ {d})
  BY <1>2 DEF PurgeChunks, rowVars, IInv, PurgeOK
<1>3. CASE PurgeRows
  <2>1. UNCHANGED taskVars /\ gone \subseteq expired /\ gone \cap chunks = {} /\ gone \cap Live = {}
    BY <1>3 DEF PurgeRows, IInv, PurgeOK, ExpiredAreDeleted, Live
  <2>2. /\ chunks' = chunks
        /\ \A d \in Docs \ gone : status'[d] = status[d] /\ doc'[d] = doc[d]
        /\ \A d \in gone : status'[d] # "live"
    BY <1>3, <2>1 DEF PurgeRows, rowVars, Live, IInv, TypeOK
  <2> QED
    BY <2>1, <2>2 DEF Live, Stored
<1> QED
  BY <1>1, <1>2, <1>3 DEF Expire, PurgeStep, PurgeSelect, WorkerCrash, vars, rowVars, Live

LEMMA BackgroundPlaced ==
    ASSUME IInv, NEW t \in Tasks, Place(t),
           (\E d \in Docs : Expire(d)) \/ PurgeStep \/ WorkerCrash \/ UNCHANGED vars
    PROVE  Place(t)'
<1>1. /\ pc' = pc /\ loc' = loc /\ Live' = Live
      /\ \A d \in Stored \ expired : doc'[d] = doc[d] /\ (d \in chunks' <=> d \in chunks)
  BY Background DEF taskVars
<1>2. Live \subseteq Stored \ expired
  BY DEF Live, Stored, IInv, ExpiredAreDeleted
<1>3. \A x : LiveByName(x)' = LiveByName(x) /\ LiveByHash(x)' = LiveByHash(x)
  BY <1>1, <1>2 DEF LiveByName, LiveByHash
<1>4. Active(t) /\ loc[t].supersedes # None =>
         /\ doc'[loc[t].supersedes] = doc[loc[t].supersedes]
         /\ loc[t].supersedes \in chunks' <=> loc[t].supersedes \in chunks
  BY <1>1 DEF IInv, TasksOK, TaskOK
<1>5. Active(t)' = Active(t) /\ Unstored(t)' = Unstored(t) /\ Live \cap chunks' = Live \cap chunks
  BY <1>1, <1>2 DEF Active, Unstored
<1>6. pc[t] \in {"insert", "store", "cleanup", "restore"} => Active(t)
  BY DEF Active, Resting
<1> QED
  BY <1>1, <1>2, <1>3, <1>4, <1>5, <1>6 DEF Place

\* With no administrator and no crash, these are the steps there are.
LEMMA HealthySteps ==
    ASSUME Healthy, [Next]_vars
    PROVE  \/ \E t \in Tasks, f \in Files, h \in Hashes : LookupHash(t, f, h)
           \/ \E t \in Tasks : IngestStep(t)
           \/ (\E d \in Docs : Expire(d)) \/ PurgeStep \/ WorkerCrash \/ UNCHANGED vars
BY DEF Healthy, Next, AppCrash

LEMMA NextPlaced ==
    ASSUME Healthy, SInv, [Next]_vars
    PROVE  AllPlaced'
<1> SUFFICES ASSUME NEW t \in Tasks PROVE Place(t)'
  BY DEF AllPlaced
<1>1. IInv /\ Fresh(t) /\ Place(t) /\ \A u \in Tasks : u = t
  BY DEF SInv, AllFresh, AllPlaced, Healthy, OneAtATime
<1>2. CASE \E u \in Tasks, f \in Files, h \in Hashes : LookupHash(u, f, h)
  BY <1>1, <1>2, LookupHashPlaced
<1>3. CASE \E u \in Tasks : IngestStep(u)
  <2>1. IngestStep(t)
    BY <1>1, <1>3
  <2> QED
    BY <1>1, <2>1, LookupNamePlaced, SupersedePlaced, FailPlaced, InsertPlaced, StorePlaced,
       CleanupPlaced, RestorePlaced, LastPlaced DEF IngestStep
<1>4. CASE (\E d \in Docs : Expire(d)) \/ PurgeStep \/ WorkerCrash \/ UNCHANGED vars
  BY <1>1, <1>4, BackgroundPlaced
<1> QED
  BY <1>2, <1>3, <1>4, HealthySteps

-----------------------------------------------------------------------------
(* The step of the library an action amounts to.                             *)

\* The shelf an action leaves as it was.
SameShelf == \A g \in Files : Shelf(g)' = Shelf(g)

LEMMA SameShowIf ==
    ASSUME NEW g,
           \A d \in Live : doc[d].file = g =>
               d \in Live' /\ doc'[d] = doc[d] /\ (d \in chunks' <=> d \in chunks),
           \A d \in Live' : doc'[d].file = g /\ d \in chunks' => d \in Live /\ doc'[d] = doc[d]
    PROVE  SameShow(g)
BY DEF SameShow, Show, LiveByName

\* A step before or after the phases in which a name keeps its old content.
LEMMA OutsideShelf ==
    ASSUME OneAtATime, IInv, IInv', NEW t \in Tasks, ~Working(t), ~Working(t)',
           UNCHANGED <<status, doc>>, \A d \in Live : d \in chunks' <=> d \in chunks
    PROVE  SameShelf
<1> SUFFICES ASSUME NEW g \in Files PROVE Shelf(g)' = Shelf(g)
  BY DEF SameShelf
<1>1. SameShow(g)
  BY SameShowIf DEF Live
<1> QED
  BY <1>1, OtherNames

\* A step within them, that changes only rows of this name.
LEMMA InsideShelf ==
    ASSUME OneAtATime, IInv, IInv', RowsKept, NEW t \in Tasks, Working(t), Working(t)',
           loc'[t].file = loc[t].file, loc'[t].supersedes = loc[t].supersedes,
           \A g \in Files \ {loc[t].file} : SameShow(g)
    PROVE  SameShelf
<1> SUFFICES ASSUME NEW g \in Files PROVE Shelf(g)' = Shelf(g)
  BY DEF SameShelf
<1>1. CASE g = loc[t].file
  BY <1>1, WorkingShelf
<1>2. CASE g # loc[t].file
  BY <1>2, OtherNames
<1> QED
  BY <1>1, <1>2

LEMMA LookupNameShelf ==
    ASSUME OneAtATime, IInv, IInv', NEW t \in Tasks, Fresh(t), Place(t), LookupName(t)
    PROVE  SameShelf
<1>1. UNCHANGED <<status, doc, chunks>> /\ pc[t] = "lookup_name" /\ ~Working(t)
  BY DEF LookupName, rowVars, Working
<1>2. loc[t] \in Locals /\ DOMAIN pc = Tasks /\ DOMAIN loc = Tasks
  BY DEF IInv, TypeOK
<1>3. CASE /\ LiveByName(loc[t].file) = {} /\ pc' = [pc EXCEPT ![t] = "insert"]
           /\ loc' = [loc EXCEPT ![t] = [loc[t] EXCEPT !.version = 1]]
  <2>1. /\ loc'[t].supersedes = None /\ loc'[t].file = loc[t].file /\ Working(t)'
    BY <1>1, <1>2, <1>3 DEF Locals, IInv, TasksOK, TaskOK, Active, Resting, Working
  <2>2. ShelfTells /\ ShelfTells'
    BY ShelfMeaning, ShelfMeaningNext
  <2> SUFFICES ASSUME NEW g \in Files PROVE Shelf(g)' = Shelf(g)
    BY DEF SameShelf
  <2>3. CASE g = loc[t].file
    <3>1. Quiet(g) /\ Show(g) = {}
      BY <1>1, <1>3, <2>3 DEF Quiet, OneAtATime, Show
    <3>2. Shelf(g) = None
      BY <2>2, <3>1 DEF ShelfTells
    <3>3. Shelf(g)' = None
      BY <2>1, <2>2, <2>3 DEF ShelfTells
    <3> QED
      BY <3>2, <3>3
  <2>4. CASE g # loc[t].file
    <3>1. SameShow(g)
      BY <1>1, SameShowIf DEF Live
    <3> QED
      BY <1>1, <2>1, <2>4, <3>1, OtherNames
  <2> QED
    BY <2>3, <2>4
<1>4. CASE pc' = [pc EXCEPT ![t] = "supersede"]
  <2>1. ~Working(t)'
    BY <1>2, <1>4 DEF Working
  <2> QED
    BY <1>1, <2>1, OutsideShelf
<1> QED
  BY <1>3, <1>4 DEF LookupName

LEMMA SupersedeShelf ==
    ASSUME OneAtATime, IInv, IInv', NEW t \in Tasks, Place(t), Supersede(t)
    PROVE  SameShelf
<1> DEFINE d == loc[t].supersedes
<1>1. /\ pc[t] = "supersede" /\ pc'[t] = "insert" /\ loc' = loc /\ doc' = doc
      /\ chunks' = chunks /\ Active(t) /\ Live' = Live \ {d} /\ ~Working(t) /\ Working(t)'
  BY DEF Supersede, IInv, TypeOK, Active, Resting, SoftDelete, Live, Working
<1>2. d \in Live /\ d # None /\ doc[d].file = loc[t].file /\ Live \subseteq chunks
  BY <1>1, AllIndexed, NoneAssumption DEF Place, IInv, TasksOK, TaskOK
<1>3. ShelfTells /\ ShelfTells'
  BY ShelfMeaning, ShelfMeaningNext
<1> SUFFICES ASSUME NEW g \in Files PROVE Shelf(g)' = Shelf(g)
  BY DEF SameShelf
<1>4. CASE g = loc[t].file
  <2>1. Quiet(g) /\ d \in Show(g)
    BY <1>1, <1>2, <1>4 DEF Quiet, OneAtATime, Show, LiveByName
  <2>2. Shelf(g) = doc[d].hash
    BY <1>3, <2>1 DEF ShelfTells
  <2>3. Shelf(g)' = doc[d].hash
    BY <1>1, <1>2, <1>3, <1>4 DEF ShelfTells
  <2> QED
    BY <2>2, <2>3
<1>5. CASE g # loc[t].file
  <2>1. SameShow(g)
    BY <1>1, <1>2, <1>5, SameShowIf
  <2> QED
    BY <1>1, <1>5, <2>1, OtherNames
<1> QED
  BY <1>4, <1>5

\* The except clauses: the name keeps its old content, or stays without one.
LEMMA UnwindShelf ==
    ASSUME OneAtATime, IInv, IInv', RowsKept, NEW t \in Tasks, Working(t), Unwind(t),
           \A e \in Live' : doc'[e].file # loc[t].file,
           \A g \in Files \ {loc[t].file} : SameShow(g)
    PROVE  SameShelf
<1>1. CASE loc[t].supersedes # None
  <2>1. Working(t)' /\ loc' = loc
    BY <1>1 DEF Unwind, IInv, TypeOK, Working
  <2> QED
    BY <2>1, InsideShelf
<1>2. CASE loc[t].supersedes = None
  <2>1. ~Working(t)'
    BY <1>2 DEF Unwind, Return, IInv, TypeOK, Working
  <2>2. ShelfTells /\ ShelfTells'
    BY ShelfMeaning, ShelfMeaningNext
  <2> SUFFICES ASSUME NEW g \in Files PROVE Shelf(g)' = Shelf(g)
    BY DEF SameShelf
  <2>3. CASE g = loc[t].file
    <3>1. Shelf(g) = None
      BY <1>2, <2>2, <2>3 DEF ShelfTells
    <3>2. Quiet(g)' /\ Show(g)' = {}
      BY <2>1, <2>3 DEF Quiet, OneAtATime, Show, LiveByName
    <3>3. Shelf(g)' = None
      BY <2>2, <3>2 DEF ShelfTells
    <3> QED
      BY <3>1, <3>3
  <2>4. CASE g # loc[t].file
    BY <2>1, <2>4, OtherNames
  <2> QED
    BY <2>3, <2>4
<1> QED
  BY <1>1, <1>2

LEMMA FailShelf ==
    ASSUME OneAtATime, IInv, IInv', RowsKept, NEW t \in Tasks, Place(t),
           DetectFail(t) \/ InsertConflict(t)
    PROVE  SameShelf
<1>1. pc[t] = "insert" /\ Working(t) /\ Unwind(t) /\ UNCHANGED <<status, doc, chunks>>
  BY DEF DetectFail, InsertConflict, rowVars, Working
<1>2. LiveByName(loc[t].file) = {} /\ Live' = Live
  BY <1>1 DEF Place, Unstored, Live
<1>3. \A e \in Live' : doc'[e].file # loc[t].file
  BY <1>1, <1>2 DEF LiveByName
<1>4. \A g \in Files : SameShow(g)
  BY <1>1, <1>2, SameShowIf
<1> QED
  BY <1>1, <1>3, <1>4, UnwindShelf

LEMMA InsertShelf ==
    ASSUME OneAtATime, IInv, IInv', RowsKept, NEW t \in Tasks, NEW d \in Docs, Insert(t, d)
    PROVE  SameShelf
<1>1. /\ Working(t) /\ Working(t)' /\ chunks' = chunks
      /\ loc' = [loc EXCEPT ![t] = [loc[t] EXCEPT !.doc = d]]
  BY DEF Insert, IInv, TypeOK, Working
<1>2. loc'[t].file = loc[t].file /\ loc'[t].supersedes = loc[t].supersedes
  BY <1>1 DEF IInv, TypeOK, Locals
<1>3. /\ d \notin Stored /\ Live' = Live \cup {d} /\ doc'[d].file = loc[t].file
      /\ \A e \in Docs \ {d} : doc'[e] = doc[e]
  <2>1. doc'[d] = [file |-> loc[t].file, hash |-> loc[t].hash,
                   version |-> loc[t].version, supersedes |-> loc[t].supersedes]
    BY InsertRows
  <2> QED
    BY <2>1, InsertRows
<1>4. ASSUME NEW g \in Files \ {loc[t].file} PROVE SameShow(g)
  <2>1. \A e \in Live : e \in Live' /\ doc'[e] = doc[e]
    BY <1>3 DEF Live, Stored
  <2> QED
    BY <1>1, <1>3, <2>1, SameShowIf
<1> QED
  BY <1>1, <1>2, <1>4, InsideShelf

LEMMA DirtyShelf ==
    ASSUME OneAtATime, IInv, IInv', RowsKept, NEW t \in Tasks, Place(t),
           ProcessFail(t) \/ StoreFailDirty(t)
    PROVE  SameShelf
<1>1. /\ pc[t] = "store" /\ Working(t) /\ Working(t)' /\ loc' = loc /\ UNCHANGED <<status, doc>>
      /\ chunks' = chunks \/ chunks' = chunks \cup {loc[t].doc}
  BY DEF ProcessFail, StoreFailDirty, rowVars, IInv, TypeOK, Working
<1>2. doc[loc[t].doc].file = loc[t].file
  BY <1>1 DEF Place
<1>3. ASSUME NEW g \in Files \ {loc[t].file} PROVE SameShow(g)
  BY <1>1, <1>2, SameShowIf DEF Live
<1> QED
  BY <1>1, <1>3, InsideShelf

LEMMA CleanupShelf ==
    ASSUME Healthy, IInv, IInv', RowsKept, NEW t \in Tasks, Place(t), Cleanup(t)
    PROVE  SameShelf
<1>1. /\ pc[t] = "cleanup" /\ Working(t) /\ Unwind(t) /\ UNCHANGED <<doc, chunks>>
      /\ Live' = Live \ {loc[t].doc}
  <2>1. SoftDelete({loc[t].doc}, "pipeline_failure")
    BY DEF Cleanup, Healthy
  <2> QED
    BY <2>1 DEF Cleanup, SoftDelete, Live, Working
<1>2. LiveByName(loc[t].file) \subseteq {loc[t].doc} /\ doc[loc[t].doc].file = loc[t].file
  BY <1>1 DEF Place, Unstored
<1>3. \A e \in Live' : doc'[e].file # loc[t].file
  BY <1>1, <1>2 DEF LiveByName
<1>4. ASSUME NEW g \in Files \ {loc[t].file} PROVE SameShow(g)
  BY <1>1, <1>2, SameShowIf
<1> QED
  BY <1>1, <1>3, <1>4, UnwindShelf DEF Healthy

LEMMA RestoreShelf ==
    ASSUME Healthy, IInv, IInv', NEW t \in Tasks, Place(t), Restore(t)
    PROVE  SameShelf
<1> DEFINE d == loc[t].supersedes
<1>1. pc[t] = "restore" /\ Working(t) /\ ~Working(t)' /\ UNCHANGED <<doc, chunks>>
  BY DEF Restore, Return, IInv, TypeOK, Working
<1>2. /\ d \in Docs /\ d # None /\ doc[d].file = loc[t].file /\ d \in chunks
      /\ LiveByName(loc[t].file) = {} /\ LiveByHash(doc[d].hash) = {}
  BY <1>1 DEF Place, Unstored, IInv, TasksOK, TaskOK, Active, Resting, Stored
<1>3. Live' = Live \cup {d}
  <2>1. ~Clash(doc[d].file, doc[d].hash, d) /\ "db" \notin Faults
    BY <1>2 DEF Clash, Healthy
  <2>2. status' = [status EXCEPT ![d] = "live"]
    BY <2>1 DEF Restore
  <2> QED
    BY <1>2, <2>2 DEF Live, IInv, TypeOK
<1>4. ShelfTells /\ ShelfTells'
  BY ShelfMeaning, ShelfMeaningNext DEF Healthy
<1> SUFFICES ASSUME NEW g \in Files PROVE Shelf(g)' = Shelf(g)
  BY DEF SameShelf
<1>5. CASE g = loc[t].file
  <2>1. Shelf(g) = doc[d].hash
    BY <1>1, <1>2, <1>4, <1>5 DEF ShelfTells
  <2>2. Quiet(g)' /\ d \in Show(g)'
    BY <1>1, <1>2, <1>3, <1>5 DEF Quiet, Healthy, OneAtATime, Show, LiveByName
  <2>3. Shelf(g)' = doc[d].hash
    BY <1>1, <1>4, <2>2 DEF ShelfTells
  <2> QED
    BY <2>1, <2>3
<1>6. CASE g # loc[t].file
  <2>1. SameShow(g)
    BY <1>1, <1>2, <1>3, <1>6, SameShowIf
  <2> QED
    BY <1>1, <1>6, <2>1, OtherNames DEF Healthy
<1> QED
  BY <1>5, <1>6

LEMMA LastShelf ==
    ASSUME OneAtATime, IInv, IInv', NEW t \in Tasks, Place(t),
           Finalize(t) \/ SetCount(t) \/ AddAlias(t)
    PROVE  SameShelf
<1>1. ~Working(t) /\ ~Working(t)' /\ UNCHANGED <<status, doc>>
  BY DEF Finalize, SetCount, AddAlias, Return, rowVars, IInv, TypeOK, Working
<1>2. \A e \in Live : e \in chunks' <=> e \in chunks
  BY DEF Finalize, SetCount, AddAlias, Place
<1> QED
  BY <1>1, <1>2, OutsideShelf

LEMMA LookupHashShelf ==
    ASSUME OneAtATime, IInv, IInv', NEW t \in Tasks, NEW f \in Files, NEW h \in Hashes,
           LookupHash(t, f, h)
    PROVE  SameShelf
<1>1. ~Working(t) /\ ~Working(t)' /\ UNCHANGED <<status, doc, chunks>>
  BY DEF LookupHash, Return, rowVars, IInv, TypeOK, Working, Active, Resting
<1> QED
  BY <1>1, OutsideShelf

LEMMA BackgroundShelf ==
    ASSUME OneAtATime, IInv, IInv',
           (\E d \in Docs : Expire(d)) \/ PurgeStep \/ WorkerCrash \/ UNCHANGED vars
    PROVE  SameShelf
<1>1. /\ pc' = pc /\ loc' = loc /\ Live' = Live
      /\ \A d \in Stored \ expired : doc'[d] = doc[d] /\ (d \in chunks' <=> d \in chunks)
  BY Background DEF taskVars
<1>2. Live \subseteq Stored \ expired
  BY DEF Live, Stored, IInv, ExpiredAreDeleted
<1>3. \A g \in Files : SameShow(g)
  BY <1>1, <1>2, SameShowIf
<1>4. ShelfTells /\ ShelfTells'
  BY ShelfMeaning, ShelfMeaningNext
<1> SUFFICES ASSUME NEW g \in Files PROVE Shelf(g)' = Shelf(g)
  BY DEF SameShelf
<1>5. CASE Quiet(g)
  <2>1. Quiet(g)'
    BY <1>1, <1>5 DEF Quiet, Working
  <2> QED
    BY <1>3, <1>5, <2>1, QuietShelf
<1>6. CASE ~Quiet(g)
  <2>1. PICK t \in Tasks : Working(t) /\ loc[t].file = g
    BY <1>6 DEF Quiet
  <2>2. Working(t)' /\ loc'[t] = loc[t]
    BY <1>1, <2>1 DEF Working
  <2>3. loc[t].supersedes # None => doc'[loc[t].supersedes] = doc[loc[t].supersedes]
    BY <1>1, <2>1 DEF IInv, TasksOK, TaskOK, Active, Resting, Working
  <2> QED
    BY <1>4, <2>1, <2>2, <2>3 DEF ShelfTells
<1> QED
  BY <1>5, <1>6

\* Storing the points is the step that publishes.
LEMMA StoreShelf ==
    ASSUME OneAtATime, IInv, IInv', NEW t \in Tasks, Fresh(t), Place(t), StoreOk(t)
    PROVE  \E f \in Files, h \in Hashes :
              /\ \A g \in Files : Shelf(g) # h
              /\ Shelf(f)' = h
              /\ \A g \in Files \ {f} : Shelf(g)' = Shelf(g)
<1>0. PICK f \in Files, h \in Hashes, d \in Docs :
          f = loc[t].file /\ h = loc[t].hash /\ d = loc[t].doc
  BY DEF StoreOk, Place, Active, Resting, Live
<1>1. /\ pc[t] = "store" /\ Working(t) /\ ~Working(t)' /\ UNCHANGED <<status, doc, loc>>
      /\ chunks' = chunks \cup {d} /\ Active(t)
  BY <1>0 DEF StoreOk, rowVars, IInv, TypeOK, Working, Active, Resting
<1>2. /\ f \in Files /\ h \in Hashes /\ d \in Live /\ doc[d].file = f /\ doc[d].hash = h
      /\ loc[t].supersedes # None => doc[loc[t].supersedes].hash # h
  BY <1>0, <1>1 DEF Place, Fresh
<1>3. ShelfTells /\ ShelfTells'
  BY ShelfMeaning, ShelfMeaningNext
<1>4. h # None /\ LiveByHash(h) = {d} /\ Live' = Live
  BY <1>1, <1>2, OnlyOne, NoneAssumption DEF Live
<1>5. ASSUME NEW g \in Files PROVE Shelf(g) # h
  <2>1. CASE g = f
    BY <1>0, <1>1, <1>2, <1>3, <1>4, <2>1 DEF ShelfTells
  <2>2. CASE g # f
    <3>1. Quiet(g)
      BY <1>0, <1>1, <2>2 DEF Quiet, OneAtATime
    <3>2. CASE Show(g) = {}
      BY <1>3, <1>4, <3>1, <3>2 DEF ShelfTells
    <3>3. ASSUME NEW e \in Show(g) PROVE Shelf(g) # h
      <4>1. e \in Live /\ doc[e].file = g
        BY DEF Show, LiveByName
      <4>2. doc[e].hash # h
        BY <1>2, <1>4, <2>2, <4>1 DEF LiveByHash
      <4> QED
        BY <1>3, <3>1, <4>2 DEF ShelfTells
    <3> QED
      BY <3>2, <3>3
  <2> QED
    BY <2>1, <2>2
<1>6. Shelf(f)' = h
  <2>1. Quiet(f)' /\ d \in Show(f)' /\ doc'[d].hash = h
    BY <1>1, <1>2, <1>4 DEF Quiet, OneAtATime, Show, LiveByName
  <2> QED
    BY <1>2, <1>3, <2>1 DEF ShelfTells
<1>7. ASSUME NEW g \in Files \ {f} PROVE Shelf(g)' = Shelf(g)
  <2>1. SameShow(g)
    BY <1>1, <1>2, <1>4, SameShowIf
  <2> QED
    BY <1>0, <1>1, <2>1, OtherNames
<1> QED
  BY <1>2, <1>5, <1>6, <1>7

LEMMA LibraryStep ==
    ASSUME Healthy, SInv, [Next]_vars
    PROVE  [Atomic!Next]_([f \in Files |-> Shelf(f)])
<1>1. IInv' /\ RowsKept
  BY NextIInv, ColumnsKept DEF SInv
<1>2. OneAtATime /\ IInv /\ \A t \in Tasks : Fresh(t) /\ Place(t)
  BY DEF SInv, AllFresh, AllPlaced, Healthy
<1>3. SameShelf => [Atomic!Next]_([f \in Files |-> Shelf(f)])
  BY DEF SameShelf
<1>4. ASSUME NEW t \in Tasks, StoreOk(t) PROVE Atomic!Next
  <2>1. PICK f \in Files, h \in Hashes :
              /\ \A g \in Files : Shelf(g) # h
              /\ Shelf(f)' = h
              /\ \A g \in Files \ {f} : Shelf(g)' = Shelf(g)
    BY <1>1, <1>2, <1>4, StoreShelf
  <2>2. Atomic!Publish(f, h)
    BY <2>1 DEF Atomic!Publish
  <2> QED
    BY <2>2 DEF Atomic!Next
<1>5. ASSUME NEW t \in Tasks, IngestStep(t), ~StoreOk(t) PROVE SameShelf
  <2>1. CASE LookupName(t) \/ Supersede(t)
    BY <1>1, <1>2, <2>1, LookupNameShelf, SupersedeShelf
  <2>2. CASE DetectFail(t) \/ InsertConflict(t) \/ \E d \in Docs : Insert(t, d)
    BY <1>1, <1>2, <2>2, FailShelf, InsertShelf
  <2>3. CASE ProcessFail(t) \/ StoreFailDirty(t) \/ Cleanup(t) \/ Restore(t)
    BY <1>1, <1>2, <2>3, DirtyShelf, CleanupShelf, RestoreShelf
  <2>4. CASE Finalize(t) \/ SetCount(t) \/ AddAlias(t)
    BY <1>1, <1>2, <2>4, LastShelf
  <2> QED
    BY <1>5, <2>1, <2>2, <2>3, <2>4 DEF IngestStep
<1>6. CASE \E t \in Tasks, f \in Files, h \in Hashes : LookupHash(t, f, h)
  BY <1>1, <1>2, <1>3, <1>6, LookupHashShelf
<1>7. CASE (\E d \in Docs : Expire(d)) \/ PurgeStep \/ WorkerCrash \/ UNCHANGED vars
  BY <1>1, <1>2, <1>3, <1>7, BackgroundShelf
<1> QED
  BY <1>3, <1>4, <1>5, <1>6, <1>7, HealthySteps

\* BR-003, pipeline.py:191-609: seen through the mapping, one ingest at a time
\* publishes its content in the single step that stores its points, and fails
\* without a trace, while store calls fail and the worker purges.
THEOREM IngestIsAtomic ==
    ASSUME OneAtATime, Admins = {}, Faults \subseteq {"store"}
    PROVE  Spec => AtomicIngest
<1>1. Healthy
  BY DEF Healthy
<1>2. Init => SInv
  BY InitIInv DEF Init, SInv, AllFresh, Fresh, AllPlaced, Place, Active, Resting, Live
<1>3. Init => Atomic!Init
  <2> SUFFICES ASSUME Init PROVE Atomic!Init
    OBVIOUS
  <2>1. ShelfTells
    BY InitIInv, ShelfMeaning
  <2>2. ASSUME NEW f \in Files PROVE Shelf(f) = None
    <3>1. Quiet(f) /\ Show(f) = {}
      BY DEF Init, Quiet, Working, Show
    <3> QED
      BY <2>1, <3>1 DEF ShelfTells
  <2> QED
    BY <2>2 DEF Atomic!Init
<1>4. SInv /\ [Next]_vars => SInv'
  BY <1>1, NextIInv, NextFresh, NextPlaced DEF SInv, Healthy
<1>5. SInv /\ [Next]_vars => [Atomic!Next]_([f \in Files |-> Shelf(f)])
  BY <1>1, LibraryStep
<1> QED
  BY <1>2, <1>3, <1>4, <1>5, PTL DEF Spec, AtomicIngest, Atomic!Spec
=============================================================================
