---------------------------- MODULE ReindexProofs ----------------------------
(***************************************************************************)
(* What a completed reindex is worth, and that it costs the version being  *)
(* served nothing: for any number of documents, jobs and versions, both    *)
(* stores, failing reads and writes, and restarts.                         *)
(***************************************************************************)
EXTENDS Reindex, FiniteSetTheorems, TLAPS

USE VersionsAssumption, SeedAssumption

\* The invariant, one job at a time.
Good(k) ==
    /\ pc[k] # "off" => job[k].target # active /\ job[k].status \in {"pending", "running"}
    /\ pc[k] \in {"store", "progress"} => hand[k] \in todo[k]
    /\ job[k].status = "completed" => base[k] \subseteq DocsAt(job[k].target)
    /\ job[k].status = "absent" \/ pc[k] \in {"queued", "count"} => base[k] = {}
    /\ pc[k] \in {"list", "store", "progress"} =>
          \A d \in base[k] : IF d \in todo[k] /\ ~(d = hand[k] /\ pc[k] = "progress")
                             THEN d \in DocsAt(active)
                             ELSE d \in DocsAt(job[k].target)

LEMMA Parts == IInv <=> TypeOK /\ SeedIsVersion /\ \A k \in Jobs : Good(k)
  BY DEF IInv, Good, TargetIdle, CompletedCovers, CopyInProgress

LEMMA PartsPrime == IInv' <=> TypeOK' /\ SeedIsVersion' /\ \A k \in Jobs : Good(k)'
  BY DEF IInv, Good, TargetIdle, CompletedCovers, CopyInProgress

\* The initial state satisfies the invariant.
LEMMA InitIInv == Init => IInv
  BY DEF Init, IInv, TypeOK, Job, Point, SeedIsVersion, TargetIdle, CompletedCovers,
         CopyInProgress

\* A job that does not move keeps its part of the invariant when no document it
\* still answers for leaves the version it reads or the one it writes.
LEMMA Kept ==
  ASSUME NEW k \in Jobs, Good(k), active' = active,
         job'[k] = job[k], pc'[k] = pc[k], todo'[k] = todo[k], hand'[k] = hand[k],
         base'[k] \subseteq base[k],
         \A d \in base'[k] : \A v \in {active, job[k].target} :
             d \in DocsAt(v) => d \in DocsAt(v)'
  PROVE  Good(k)'
<1> DEFINE A == DocsAt(active)
           A1 == DocsAt(active)'
           T == DocsAt(job[k].target)
           T1 == DocsAt(job[k].target)'
<1>1. \A d \in base'[k] : (d \in A => d \in A1) /\ (d \in T => d \in T1)
  OBVIOUS
<1>2. DocsAt(active)' = A1 /\ DocsAt(job[k].target)' = T1
  OBVIOUS
<1> HIDE DEF A, A1, T, T1
<1>3. /\ job[k].status = "completed" => base[k] \subseteq T
      /\ pc[k] \in {"list", "store", "progress"} =>
          \A d \in base[k] : IF d \in todo[k] /\ ~(d = hand[k] /\ pc[k] = "progress")
                             THEN d \in A ELSE d \in T
  BY DEF Good, A, T
<1> QED
  BY <1>1, <1>2, <1>3 DEF Good

\* Nothing of a version goes when the store only gains points, or keeps them.
LEMMA Gains ==
  ASSUME points \subseteq points', NEW v, NEW d \in DocsAt(v)
  PROVE  d \in DocsAt(v)'
  BY DEF DocsAt, At

\* Ingests and deletes.
LEMMA DocumentIInv == ASSUME NEW d \in Docs, IInv, Document(d) PROVE IInv'
<1>0. TypeOK /\ SeedIsVersion /\ \A k \in Jobs : Good(k)
  BY Parts
<1>1. CASE IngestRow(d) \/ Delete(d) \/ Mark(d)
  <2>1. TypeOK' /\ SeedIsVersion'
    BY <1>0, <1>1 DEF IngestRow, Delete, Mark, TypeOK, SeedIsVersion, jobVars
  <2>2. UNCHANGED <<points, active, job, pc, todo, hand, base>>
    BY <1>1 DEF IngestRow, Delete, Mark, jobVars
  <2>3. ASSUME NEW k \in Jobs PROVE Good(k)'
    BY <1>0, <2>2 DEF Good, DocsAt, At
  <2> QED
    BY <2>1, <2>3, PartsPrime
<1>2. CASE IngestStore(d)
  <2>1. TypeOK' /\ SeedIsVersion'
    BY <1>0, <1>2 DEF IngestStore, TypeOK, SeedIsVersion, jobVars, Point
  <2>2. UNCHANGED <<active, job, pc, todo, hand, base>> /\ points \subseteq points'
    BY <1>2 DEF IngestStore, jobVars
  <2>3. ASSUME NEW k \in Jobs PROVE Good(k)'
    <3>1. \A e \in base'[k] : \A v \in {active, job[k].target} :
             e \in DocsAt(v) => e \in DocsAt(v)'
      BY <2>2, Gains
    <3> QED
      BY <1>0, <2>2, <3>1, Kept
  <2> QED
    BY <2>1, <2>3, PartsPrime
<1>3. CASE Drop(d)
  <2>1. TypeOK' /\ SeedIsVersion'
    BY <1>0, <1>3 DEF Drop, TypeOK, SeedIsVersion
  <2>2. /\ UNCHANGED <<active, job, pc, todo, hand>>
        /\ points' = {p \in points : p.doc # d}
        /\ base' = [k \in Jobs |-> base[k] \ {d}]
    BY <1>3 DEF Drop
  <2>3. ASSUME NEW k \in Jobs PROVE Good(k)'
    <3>1. base'[k] = base[k] \ {d}
      BY <2>2
    <3>2. \A e \in base'[k] : \A v \in {active, job[k].target} :
             e \in DocsAt(v) => e \in DocsAt(v)'
      BY <2>2, <3>1 DEF DocsAt, At
    <3> QED
      BY <1>0, <2>2, <3>1, <3>2, Kept
  <2> QED
    BY <2>1, <2>3, PartsPrime
<1> QED
  BY <1>1, <1>2, <1>3 DEF Document

\* A cleanup leaves every other version alone, and it refuses the active one.
LEMMA DeleteVersionIInv == ASSUME NEW v \in Versions, IInv, DeleteVersion(v) PROVE IInv'
<1>0. TypeOK /\ SeedIsVersion /\ \A k \in Jobs : Good(k)
  BY Parts
<1>1. TypeOK' /\ SeedIsVersion'
  BY <1>0 DEF DeleteVersion, TypeOK, SeedIsVersion, docVars
<1>2. /\ UNCHANGED <<active, job, pc, todo, hand>> /\ v # active
      /\ points' = points \ At(v)
      /\ base' = [j \in Jobs |-> IF job[j].target = v THEN {} ELSE base[j]]
  BY DEF DeleteVersion
<1>3. ASSUME NEW w, w # v, NEW d \in DocsAt(w) PROVE d \in DocsAt(w)'
  BY <1>2, <1>3 DEF DocsAt, At
<1>4. ASSUME NEW k \in Jobs PROVE Good(k)'
  <2>1. base'[k] \subseteq base[k] /\ (job[k].target = v => base'[k] = {})
    BY <1>2
  <2>2. \A d \in base'[k] : \A w \in {active, job[k].target} :
            d \in DocsAt(w) => d \in DocsAt(w)'
    BY <1>2, <1>3, <2>1
  <2> QED
    BY <1>0, <1>2, <2>1, <2>2, Kept
<1> QED
  BY <1>1, <1>4, PartsPrime

\* A restart ends every job; what is stored stays.
LEMMA RestartIInv == ASSUME NEW v \in Versions, IInv, Restart(v) PROVE IInv'
<1>0. TypeOK /\ SeedIsVersion /\ \A k \in Jobs : Good(k)
  BY Parts
<1>1. TypeOK' /\ SeedIsVersion'
  BY <1>0 DEF Restart, TypeOK, SeedIsVersion
<1>2. UNCHANGED <<points, job, base>> /\ \A k \in Jobs : pc'[k] = "off"
  BY DEF Restart
<1>3. ASSUME NEW k \in Jobs PROVE Good(k)'
  BY <1>0, <1>2 DEF Good, DocsAt, At
<1> QED
  BY <1>1, <1>3, PartsPrime

\* What a step of job j leaves to the others: their own variables, and every
\* document in the version they read and in the one they write.
Apart(j) ==
    /\ active' = active
    /\ \A k \in Jobs : k # j =>
          /\ job'[k] = job[k] /\ pc'[k] = pc[k] /\ todo'[k] = todo[k]
          /\ hand'[k] = hand[k] /\ base'[k] = base[k]
    /\ \A v \in Versions : \A d \in DocsAt(v) : d \in DocsAt(v)'

\* So only j itself has to be looked at.
LEMMA Others ==
  ASSUME NEW j \in Jobs, IInv, TypeOK', SeedIsVersion', Apart(j), Good(j)'
  PROVE  IInv'
<1>0. TypeOK /\ \A k \in Jobs : Good(k)
  BY Parts
<1>1. ASSUME NEW k \in Jobs, k # j PROVE Good(k)'
  <2>1. active \in Versions /\ job[k].target \in Versions
    BY <1>0 DEF TypeOK, Job
  <2>2. \A d \in base'[k] : \A v \in {active, job[k].target} :
            d \in DocsAt(v) => d \in DocsAt(v)'
    BY <2>1 DEF Apart
  <2>3. /\ active' = active /\ job'[k] = job[k] /\ pc'[k] = pc[k] /\ todo'[k] = todo[k]
        /\ hand'[k] = hand[k] /\ base'[k] \subseteq base[k]
    BY <1>1 DEF Apart
  <2> QED
    BY <1>0, <2>2, <2>3, Kept
<1> QED
  BY <1>1, PartsPrime

\* The row of job j after a step that writes the values r.
LEMMA Wrote ==
  ASSUME TypeOK, NEW j \in Jobs, NEW r \in Job, job' = [job EXCEPT ![j] = r]
  PROVE  /\ job' \in [Jobs -> Job] /\ job'[j] = r
         /\ \A k \in Jobs : k # j => job'[k] = job[k]
  BY DEF TypeOK

\* A trigger is refused for the version being served.
LEMMA TriggerIInv ==
  ASSUME NEW j \in Jobs, NEW v \in Targets, IInv, Trigger(j, v) PROVE IInv'
<1> DEFINE R == [status |-> "pending", source |-> active,
                 target |-> v, total |-> 0, stored |-> 0]
<1>0. TypeOK /\ SeedIsVersion /\ Good(j)
  BY Parts
<1>1. R \in Job /\ R.status = "pending" /\ R.target = v
  BY <1>0 DEF TypeOK, Job
<1>2. job' = [job EXCEPT ![j] = R] /\ v # active /\ pc' = [pc EXCEPT ![j] = "queued"]
      /\ UNCHANGED <<docVars, points, active, todo, hand, base>>
      /\ job[j].status = "absent"
  BY DEF Trigger
<1> HIDE DEF R
<1>3. job' \in [Jobs -> Job] /\ job'[j] = R /\ \A k \in Jobs : k # j => job'[k] = job[k]
  BY <1>0, <1>1, <1>2, Wrote
<1>4. TypeOK' /\ SeedIsVersion'
  BY <1>0, <1>2, <1>3 DEF TypeOK, SeedIsVersion, docVars, Running
<1>5. Apart(j)
  BY <1>0, <1>2, <1>3 DEF Apart, DocsAt, At, TypeOK
<1>6. pc'[j] = "queued" /\ base'[j] = base[j] /\ base[j] = {}
  BY <1>0, <1>2 DEF TypeOK, Good
<1> QED
  BY <1>1, <1>2, <1>3, <1>4, <1>5, <1>6, Others DEF Good

\* total_documents is a number.
LEMMA LiveCount == Cardinality(Live) \in Nat
<1>1. Live \subseteq Docs
  BY DEF Live
<1> QED
  BY <1>1, DocsAssumption, FS_Subset, FS_CardinalityType

\* The end of a job, with either result, when it answers for the target.
LEMMA SettledJob ==
  ASSUME TypeOK, NEW j \in Jobs, Good(j), NEW result \in {"completed", "failed"},
         Settle(j, result), UNCHANGED <<docVars, points, active, todo, hand, base>>,
         job[j].status # "absent",
         result = "completed" => base[j] \subseteq DocsAt(job[j].target)
  PROVE  TypeOK' /\ Apart(j) /\ Good(j)'
<1> DEFINE R == [job[j] EXCEPT !.status = result]
<1>0. job[j] \in Job
  BY DEF TypeOK
<1>1. R \in Job /\ R.status = result /\ R.target = job[j].target
  BY <1>0 DEF Job
<1>2. job' = [job EXCEPT ![j] = R] /\ pc' = [pc EXCEPT ![j] = "off"]
  BY DEF Settle, TypeOK
<1> HIDE DEF R
<1>3. job' \in [Jobs -> Job] /\ job'[j] = R /\ \A k \in Jobs : k # j => job'[k] = job[k]
  BY <1>1, <1>2, Wrote
<1>4. TypeOK' /\ pc'[j] = "off"
  BY <1>2, <1>3 DEF TypeOK, docVars
<1>5. Apart(j)
  BY <1>2, <1>3 DEF Apart, DocsAt, At, TypeOK
<1>6. DocsAt(job[j].target)' = DocsAt(job[j].target)
  BY <1>1, <1>3 DEF DocsAt, At
<1>7. Good(j)'
  BY <1>1, <1>3, <1>4, <1>6 DEF Good
<1> QED
  BY <1>4, <1>5, <1>7

\* Every step of run_reindex: what it copied stays copied.
LEMMA StepIInv == ASSUME NEW j \in Jobs, IInv, Step(j) PROVE IInv'
<1>0. TypeOK /\ SeedIsVersion /\ Good(j) /\ job[j] \in Job
  BY Parts DEF TypeOK
<1>1. CASE Count(j)
  <2> DEFINE R == [job[j] EXCEPT !.status = "running", !.total = Cardinality(Live)]
  <2>1. Cardinality(Live) \in Nat
    BY LiveCount
  <2>2. R \in Job /\ R.status = "running" /\ R.target = job[j].target
    BY <1>0, <2>1 DEF Job
  <2>3. job' = [job EXCEPT ![j] = R] /\ pc[j] = "queued"
        /\ pc' = [pc EXCEPT ![j] = "count"]
        /\ UNCHANGED <<docVars, points, active, todo, hand, base>>
    BY <1>0, <1>1 DEF Count, TypeOK
  <2> HIDE DEF R
  <2>4. job' \in [Jobs -> Job] /\ job'[j] = R /\ \A k \in Jobs : k # j => job'[k] = job[k]
    BY <1>0, <2>2, <2>3, Wrote
  <2>5. TypeOK' /\ SeedIsVersion'
    BY <1>0, <2>3, <2>4 DEF TypeOK, SeedIsVersion, docVars, Running
  <2>6. Apart(j) /\ pc'[j] = "count"
    BY <1>0, <2>3, <2>4 DEF Apart, DocsAt, At, TypeOK
  <2>7. Good(j)'
    BY <1>0, <2>2, <2>3, <2>4, <2>6 DEF Good
  <2> QED
    BY <2>5, <2>6, <2>7, Others
<1>2. CASE Snapshot(j)
  <2>1. /\ pc[j] = "count" /\ pc'[j] = "list" /\ todo'[j] = Live
        /\ base'[j] = DocsAt(active) \cap Live
        /\ UNCHANGED <<docVars, points, active, job, hand>>
    BY <1>0, <1>2 DEF Snapshot, TypeOK
  <2>2. TypeOK' /\ SeedIsVersion'
    BY <1>0, <1>2 DEF Snapshot, TypeOK, SeedIsVersion, docVars, Running, Live
  <2>3. Apart(j)
    BY <1>0, <1>2 DEF Snapshot, Apart, DocsAt, At, TypeOK
  <2>4. DocsAt(active)' = DocsAt(active)
    BY <2>1 DEF DocsAt, At
  <2>5. Good(j)'
    BY <1>0, <2>1, <2>4 DEF Good
  <2> QED
    BY <2>2, <2>3, <2>5, Others
<1>3. ASSUME NEW d \in Docs, List(j, d) PROVE IInv'
  <2>1. /\ pc[j] = "list" /\ d \in todo[j] /\ hand'[j] = d
        /\ pc'[j] = IF d \in DocsAt(active) THEN "store" ELSE "progress"
        /\ UNCHANGED <<docVars, points, active, job, todo, base>>
    BY <1>0, <1>3 DEF List, TypeOK
  <2>2. TypeOK' /\ SeedIsVersion'
    BY <1>0, <1>3 DEF List, TypeOK, SeedIsVersion, docVars, Running
  <2>3. Apart(j)
    BY <1>0, <1>3 DEF List, Apart, DocsAt, At, TypeOK
  <2>4. DocsAt(active)' = DocsAt(active) /\ DocsAt(job[j].target)' = DocsAt(job[j].target)
    BY <2>1 DEF DocsAt, At
  <2>5. Good(j)'
    BY <1>0, <2>1, <2>4 DEF Good
  <2> QED
    BY <2>2, <2>3, <2>5, Others
<1>4. CASE Store(j)
  <2> DEFINE P == TargetPoint(j)
  <2>1. /\ pc[j] = "store" /\ hand[j] \in todo[j] /\ hand[j] \in Docs
        /\ UNCHANGED <<docVars, active, todo, hand, base>>
    BY <1>0, <1>4 DEF Store, Good, TypeOK
  <2>2. P \in Point /\ P.doc = hand[j] /\ P.seed = job[j].target
        /\ P.version = job[j].target
    BY <1>0, <2>1 DEF TargetPoint, Point, Job
  <2>3. CASE Settle(j, "failed") /\ UNCHANGED points
    <3>1. TypeOK' /\ Apart(j) /\ Good(j)'
      BY <1>0, <2>1, <2>3, SettledJob DEF Good
    <3>2. SeedIsVersion'
      BY <1>0, <2>3 DEF SeedIsVersion
    <3> QED
      BY <3>1, <3>2, Others
  <2>4. CASE /\ points' = {p \in points : ~SameId(p, P)} \cup {P}
             /\ job' = [job EXCEPT ![j].stored = @ + 1]
             /\ pc' = [pc EXCEPT ![j] = "progress"]
    <3> DEFINE R == [job[j] EXCEPT !.stored = @ + 1]
    <3>1. R \in Job /\ R.status = job[j].status /\ R.target = job[j].target
      BY <1>0 DEF Job
    <3>2. job' = [job EXCEPT ![j] = R]
      BY <1>0, <2>4 DEF TypeOK
    <3> HIDE DEF R, P
    <3>3. job' \in [Jobs -> Job] /\ job'[j] = R
          /\ \A k \in Jobs : k # j => job'[k] = job[k]
      BY <1>0, <3>1, <3>2, Wrote
    <3>4. TypeOK' /\ SeedIsVersion' /\ pc'[j] = "progress"
      BY <1>0, <2>1, <2>2, <2>4, <3>3 DEF TypeOK, SeedIsVersion, docVars, Running
    <3>5. ASSUME NEW v \in Versions, NEW d \in DocsAt(v) PROVE d \in DocsAt(v)'
      <4>1. PICK p \in points : p.version = v /\ p.doc = d
        BY <3>5 DEF DocsAt, At
      <4>2. CASE SameId(p, P)
        <5>1. P.doc = d /\ P.version = v
          BY <1>0, <2>2, <4>1, <4>2 DEF SameId, SeedIsVersion, Point, Job, TypeOK
        <5> QED
          BY <2>4, <5>1 DEF DocsAt, At
      <4>3. CASE ~SameId(p, P)
        BY <2>4, <4>1, <4>3 DEF DocsAt, At
      <4> QED
        BY <4>2, <4>3
    <3>6. Apart(j)
      BY <1>0, <2>1, <2>4, <3>3, <3>5 DEF Apart, TypeOK
    <3>7. hand[j] \in DocsAt(job[j].target)'
      BY <2>2, <2>4, <3>1, <3>3 DEF DocsAt, At
    <3>8. /\ \A d \in DocsAt(active) : d \in DocsAt(active)'
          /\ \A d \in DocsAt(job[j].target) : d \in DocsAt(job[j].target)'
      <4>1. active \in Versions /\ job[j].target \in Versions
            /\ active' = active /\ job'[j].target = job[j].target
        BY <1>0, <2>1, <3>1, <3>3 DEF TypeOK, Job
      <4> QED
        BY <3>5, <4>1
    <3>9. Good(j)'
      <4>1. \A d \in base[j] : IF d \in todo[j] /\ d # hand[j]
                               THEN d \in DocsAt(active)'
                               ELSE d \in DocsAt(job[j].target)'
        BY <1>0, <2>1, <3>1, <3>3, <3>7, <3>8 DEF Good
      <4>2. active' = active /\ todo' = todo /\ hand' = hand /\ base' = base
        BY <2>1
      <4> QED
        BY <1>0, <2>1, <3>1, <3>3, <3>4, <4>1, <4>2 DEF Good
    <3> QED
      BY <3>4, <3>6, <3>9, Others
  <2> QED
    BY <1>4, <2>3, <2>4 DEF Store
<1>5. CASE Progress(j)
  <2>1. /\ pc[j] = "progress" /\ pc'[j] = "list" /\ hand'[j] = None
        /\ todo'[j] = todo[j] \ {hand[j]}
        /\ UNCHANGED <<docVars, points, active, job, base>>
    BY <1>0, <1>5 DEF Progress, TypeOK
  <2>2. TypeOK' /\ SeedIsVersion'
    BY <1>0, <1>5 DEF Progress, TypeOK, SeedIsVersion, docVars, Running
  <2>3. Apart(j)
    BY <1>0, <1>5 DEF Progress, Apart, DocsAt, At, TypeOK
  <2>4. DocsAt(active)' = DocsAt(active) /\ DocsAt(job[j].target)' = DocsAt(job[j].target)
    BY <2>1 DEF DocsAt, At
  <2>5. Good(j)'
    BY <1>0, <2>1, <2>4 DEF Good
  <2> QED
    BY <2>2, <2>3, <2>5, Others
<1>6. CASE Finish(j)
  <2>1. PICK result \in {"completed", "failed"} : Settle(j, result)
    BY <1>6 DEF Finish
  <2>2. pc[j] = "list" /\ todo[j] = {}
        /\ UNCHANGED <<docVars, points, active, todo, hand, base>>
    BY <1>6 DEF Finish
  <2>3. base[j] \subseteq DocsAt(job[j].target) /\ job[j].status # "absent"
    BY <1>0, <2>2 DEF Good
  <2>4. TypeOK' /\ Apart(j) /\ Good(j)'
    BY <1>0, <2>1, <2>2, <2>3, SettledJob
  <2>5. SeedIsVersion'
    BY <1>0, <2>2 DEF SeedIsVersion
  <2> QED
    BY <2>4, <2>5, Others
<1>7. CASE Raise(j)
  <2>1. /\ Settle(j, "failed") /\ pc[j] # "off"
        /\ UNCHANGED <<docVars, points, active, todo, hand, base>>
    BY <1>7 DEF Raise
  <2>2. TypeOK' /\ Apart(j) /\ Good(j)'
    BY <1>0, <2>1, SettledJob DEF Good
  <2>3. SeedIsVersion'
    BY <1>0, <2>1 DEF SeedIsVersion
  <2> QED
    BY <2>2, <2>3, Others
<1> QED
  BY <1>1, <1>2, <1>3, <1>4, <1>5, <1>6, <1>7 DEF Step

\* Every step keeps the invariant.
LEMMA NextIInv == IInv /\ [Next]_vars => IInv'
<1> SUFFICES ASSUME IInv, [Next]_vars PROVE IInv'
  OBVIOUS
<1>1. CASE UNCHANGED vars
  <2>1. UNCHANGED <<row, ingest, drop, mark, points, active, job, pc, todo, hand, base>>
    BY <1>1 DEF vars, docVars, jobVars
  <2> QED
    BY <2>1 DEF IInv, TypeOK, SeedIsVersion, TargetIdle, CompletedCovers,
                CopyInProgress, DocsAt, At
<1>2. ASSUME NEW v \in Versions, Switch(v) PROVE IInv'
  BY <1>2, RestartIInv DEF Switch
<1>3. CASE Restart(active)
  BY <1>3, RestartIInv DEF IInv, TypeOK
<1> QED
  BY <1>1, <1>2, <1>3, DocumentIInv, TriggerIInv, StepIInv, DeleteVersionIInv
     DEF Next, Routine

\* The invariant holds in every reachable state.
THEOREM Invariant == Spec => []IInv
  BY InitIInv, NextIInv, PTL DEF Spec

\* A completed job has copied every document that had points when it took its
\* list and kept them, for any overlap of jobs, deletes, cleanups and restarts.
THEOREM CopyIsComplete == Spec => []CompletedCovers
<1>1. IInv => CompletedCovers
  BY DEF IInv
<1> QED
  BY <1>1, Invariant, PTL

\* No step takes a served point away, unless its document is being deleted.
LEMMA StepServes ==
  IInv /\ [Next]_vars
    => [active' = active => \A p \in At(active) : p \in points' \/ p.doc \in drop]_vars
<1> SUFFICES ASSUME IInv, Next, active' = active, NEW p \in At(active)
             PROVE  p \in points' \/ p.doc \in drop
  OBVIOUS
<1>0. TypeOK /\ SeedIsVersion /\ p \in points /\ p.version = active
      /\ \A k \in Jobs : Good(k)
  BY Parts DEF At
<1>1. ASSUME NEW d \in Docs, Document(d) PROVE p \in points' \/ p.doc \in drop
  BY <1>0, <1>1 DEF Document, IngestRow, IngestStore, Delete, Drop, Mark
<1>2. ASSUME NEW j \in Jobs, NEW v \in Targets, Trigger(j, v) PROVE p \in points'
  BY <1>0, <1>2 DEF Trigger
<1>3. ASSUME NEW j \in Jobs, Step(j) PROVE p \in points'
  <2>1. CASE Store(j)
    <3>1. job[j].target # active /\ job[j].target \in Versions
      BY <1>0, <2>1 DEF Store, Good, TypeOK, Job
    <3>2. ~SameId(p, TargetPoint(j))
      BY <1>0, <3>1 DEF SameId, TargetPoint, SeedIsVersion
    <3> QED
      BY <1>0, <2>1, <3>2 DEF Store
  <2> QED
    BY <1>0, <1>3, <2>1 DEF Step, Count, Snapshot, List, Progress, Finish, Raise
<1>4. ASSUME NEW v \in Versions, DeleteVersion(v) PROVE p \in points'
  BY <1>0, <1>4 DEF DeleteVersion, At
<1>5. ASSUME NEW v \in Versions, Switch(v) PROVE p \in points'
  BY <1>0, <1>5 DEF Switch, Restart
<1>6. CASE Restart(active)
  BY <1>0, <1>6 DEF Restart
<1> QED
  BY <1>1, <1>2, <1>3, <1>4, <1>5, <1>6 DEF Next, Routine

\* Zero downtime: no job and no cleanup ever takes a point from the version
\* being served.
THEOREM ServedVersionUntouched == Spec => ServingUntouched
  BY Invariant, StepServes, PTL DEF Spec, ServingUntouched

\* One job's part of NoEmptySuccess.
Filled(k) == job[k].status = "completed" /\ job[k].total > 0 => job[k].stored > 0

\* A job that has ended never moves again, and one that ends well has stored
\* something or had nothing to store.
LEMMA FilledStep ==
  ASSUME IInv, NEW k \in Jobs, Filled(k), [Next]_vars
  PROVE  Filled(k)'
<1>0. TypeOK /\ Good(k) /\ job[k] \in Job
  BY Parts DEF TypeOK
<1>1. CASE job'[k] = job[k]
  BY <1>1 DEF Filled
<1>2. ASSUME NEW j \in Jobs, NEW v \in Targets, Trigger(j, v) PROVE Filled(k)'
  BY <1>0, <1>2 DEF Trigger, Filled, TypeOK
<1>3. ASSUME NEW j \in Jobs, Step(j) PROVE Filled(k)'
  <2>1. CASE j # k
    BY <1>0, <1>1, <1>3, <2>1
       DEF Step, Count, Snapshot, List, Store, Progress, Finish, Raise, Settle, TypeOK
  <2>2. CASE j = k /\ Finish(k)
    <3>1. /\ job'[k].status = IF job[k].total > 0 /\ job[k].stored = 0
                              THEN "failed" ELSE "completed"
          /\ job'[k].total = job[k].total /\ job'[k].stored = job[k].stored
      BY <1>0, <2>2 DEF Finish, Settle, TypeOK, Job
    <3>2. job[k].stored \in Nat
      BY <1>0 DEF Job
    <3> QED
      BY <3>1, <3>2 DEF Filled
  <2>3. CASE j = k /\ ~Finish(k)
    <3>1. CASE job' = job
      BY <1>1, <3>1
    <3>2. CASE job' # job
      <4>1. job[k].status \in {"pending", "running"}
        BY <1>0, <1>3, <2>3, <3>2
           DEF Step, Count, Snapshot, List, Store, Progress, Raise, Good
      <4>2. job'[k].status \in {"running", "failed", job[k].status}
        BY <1>0, <1>3, <2>3, <3>2
           DEF Step, Count, Snapshot, List, Store, Progress, Raise, Settle, TypeOK, Job
      <4> QED
        BY <4>1, <4>2 DEF Filled
    <3> QED
      BY <3>1, <3>2
  <2> QED
    BY <1>3, <2>1, <2>2, <2>3
<1>4. ASSUME NEW d \in Docs, Document(d) PROVE Filled(k)'
  BY <1>1, <1>4 DEF Document, IngestRow, IngestStore, Delete, Drop, Mark, jobVars
<1>5. ASSUME NEW v \in Versions, DeleteVersion(v) \/ Switch(v) \/ Restart(active)
      PROVE  Filled(k)'
  BY <1>1, <1>5 DEF DeleteVersion, Switch, Restart
<1>6. CASE UNCHANGED vars
  BY <1>1, <1>6 DEF vars, jobVars
<1> QED
  BY <1>2, <1>3, <1>4, <1>5, <1>6 DEF Next, Routine

\* BUG-023 stays fixed: a job over documents that copied none of them has
\* failed, whatever other jobs, deletes, cleanups and restarts run beside it.
THEOREM SuccessHasCopies == Spec => []NoEmptySuccess
<1> DEFINE All == \A k \in Jobs : Filled(k)
<1>1. Init => All
  BY DEF Init, Filled
<1>2. IInv /\ All /\ [Next]_vars => All'
  BY FilledStep
<1>3. All => NoEmptySuccess
  BY DEF Filled, NoEmptySuccess
<1> HIDE DEF All
<1> QED
  BY <1>1, <1>2, <1>3, Invariant, PTL DEF Spec

\* With pgvector a document that is marked as deleted stays so, and no search
\* returns it again: no version that still holds its points, none that a job
\* copies it to after the delete and no restart that cuts the delete off brings
\* it back.
THEOREM DeletedForGood ==
  ASSUME Backend = "pgvector"
  PROVE  /\ Spec => []DeletedStaysSilent
         /\ \A d \in Docs : Spec => [](row[d] = "deleted" => [](d \notin Answers(active)))
<1>1. ASSUME NEW d \in Docs PROVE row[d] = "deleted" => d \notin Answers(active)
  BY DEF Answers, Live
<1>2. DeletedStaysSilent
  BY <1>1 DEF DeletedStaysSilent
<1>3. Spec => []DeletedStaysSilent
  BY <1>2, PTL
<1>4. ASSUME NEW d \in Docs
      PROVE  Spec => [](row[d] = "deleted" => [](d \notin Answers(active)))
  <2> DEFINE Gone == row[d] = "deleted"
             Silent == d \notin Answers(active)
  <2>1. IInv /\ Gone /\ [Next]_vars => Gone'
    <3> SUFFICES ASSUME TypeOK, row[d] = "deleted", [Next]_vars PROVE row'[d] = "deleted"
      BY DEF IInv
    <3>1. ASSUME NEW e \in Docs, Document(e) PROVE row'[d] = "deleted"
      BY <3>1 DEF Document, IngestRow, IngestStore, Delete, Drop, Mark, TypeOK
    <3>2. CASE row' = row
      BY <3>2
    <3>3. ASSUME NEW j \in Jobs, Step(j) PROVE row' = row
      BY <3>3 DEF Step, Count, Snapshot, List, Store, Progress, Finish, Raise, docVars
    <3> QED
      BY <3>1, <3>2, <3>3
         DEF Next, Routine, Trigger, DeleteVersion, Switch, Restart, vars, docVars
  <2>2. Gone => Silent
    BY <1>1
  <2> HIDE DEF Gone, Silent
  <2>3. Spec => [](Gone => []Silent)
    BY <2>1, <2>2, Invariant, PTL DEF Spec
  <2> QED
    BY <2>3 DEF Gone, Silent
<1> QED
  BY <1>3, <1>4
=============================================================================
