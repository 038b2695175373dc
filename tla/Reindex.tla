------------------------------- MODULE Reindex -------------------------------
(***************************************************************************)
(* Index versions of one namespace (REQ-064): background reindex jobs copy *)
(* the points of the version being served to another one, an operator      *)
(* switches versions by restarting the app and removes the old one, while  *)
(* documents are ingested and deleted.                                     *)
(*                                                                         *)
(* A document's chunks are stored, listed and dropped together: one point  *)
(* stands for them.  Its id is the document and the seed of the uuid5:     *)
(* Ingested for run_ingest, the target version for a reindex.              *)
(***************************************************************************)
EXTENDS Naturals, FiniteSets

CONSTANTS
    Docs,      \* document ids; each is ingested once
    Jobs,      \* reindex jobs; each id is used once
    Versions,  \* index versions that exist in a run
    First,     \* VEKTRA_ACTIVE_INDEX_VERSION of the first start
    Targets,   \* versions an admin asks a reindex to write
    Ingested,  \* the seed of ids that run_ingest computes
    None,
    Backend,   \* the store: pgvector or qdrant
    Faults     \* {"store"}: a read, an embedding or a write fails

ASSUME DocsAssumption == IsFiniteSet(Docs)
ASSUME VersionsAssumption == First \in Versions /\ Targets \subseteq Versions
ASSUME SeedAssumption == Ingested \notin Versions /\ None \notin Docs
ASSUME BackendAssumption == Backend \in {"pgvector", "qdrant"}
ASSUME FaultsAssumption == Faults \subseteq {"store"}

VARIABLES
    row,    \* source_documents
    ingest, \* documents whose row is committed and whose points are not stored
    drop, mark, \* delete steps to come: remove the points, soft-delete the row
    points, \* the vector store
    active, \* VEKTRA_ACTIVE_INDEX_VERSION of the running process
    job,    \* reindex_jobs
    pc, todo, hand,  \* run_reindex: control, doc_ids still to do, current doc_id
    base    \* history: the documents that had points when doc_ids was read and
            \* were not dropped, nor the target cleaned up, since

docVars == <<row, ingest, drop, mark>>
jobVars == <<job, pc, todo, hand, base>>
vars == <<docVars, points, active, jobVars>>

-----------------------------------------------------------------------------
Point == [doc : Docs, seed : Versions \cup {Ingested}, version : Versions]
Job == [status : {"absent", "pending", "running", "completed", "failed"},
        source : Versions, target : Versions, total : Nat, stored : Nat]
Running == {"queued", "count", "list", "store", "progress"}

TypeOK ==
    /\ row \in [Docs -> {"absent", "live", "deleted"}]
    /\ ingest \in SUBSET Docs /\ drop \in SUBSET Docs /\ mark \in SUBSET Docs
    /\ points \in SUBSET Point
    /\ active \in Versions
    /\ job \in [Jobs -> Job]
    /\ pc \in [Jobs -> Running \cup {"off"}]
    /\ todo \in [Jobs -> SUBSET Docs]
    /\ hand \in [Jobs -> Docs \cup {None}]
    /\ base \in [Jobs -> SUBSET Docs]

Init ==
    /\ row = [d \in Docs |-> "absent"]
    /\ ingest = {} /\ drop = {} /\ mark = {}
    /\ points = {}
    /\ active = First
    /\ job = [j \in Jobs |-> [status |-> "absent", source |-> First,
                              target |-> First, total |-> 0, stored |-> 0]]
    /\ pc = [j \in Jobs |-> "off"]
    /\ todo = [j \in Jobs |-> {}]
    /\ hand = [j \in Jobs |-> None]
    /\ base = [j \in Jobs |-> {}]

Live == {d \in Docs : row[d] = "live"}
At(v) == {p \in points : p.version = v}
DocsAt(v) == {p.doc : p \in At(v)}

\* Mutant of Answers: the join with the live row is left out.
AnswersNoJoin(v) == DocsAt(v)

\* What a search can return: the pgvector query joins the live row.
Answers(v) == IF Backend = "pgvector" THEN DocsAt(v) \cap Live ELSE DocsAt(v)

-----------------------------------------------------------------------------
(* Documents, as far as their points go (DocumentLifecycle has the rest).  *)

IngestRow(d) ==
    /\ row[d] = "absent"
    /\ row' = [row EXCEPT ![d] = "live"]
    /\ ingest' = ingest \cup {d}
    /\ UNCHANGED <<drop, mark, points, active, jobVars>>

\* store() without index_version writes the active one.
IngestStore(d) ==
    /\ d \in ingest
    /\ ingest' = ingest \ {d}
    /\ points' = points \cup {[doc |-> d, seed |-> Ingested, version |-> active]}
    /\ UNCHANGED <<row, drop, mark, active, jobVars>>

\* A delete: DELETE /documents/{id} drops, then marks; a batch delete and a
\* replaced version are marked, then dropped.
Delete(d) ==
    /\ row[d] = "live" /\ d \notin ingest \cup drop \cup mark
    /\ drop' = drop \cup {d}
    /\ mark' = mark \cup {d}
    /\ UNCHANGED <<row, ingest, points, active, jobVars>>

\* delete(): the points of every version.
Drop(d) ==
    /\ d \in drop
    /\ drop' = drop \ {d}
    /\ points' = {p \in points : p.doc # d}
    /\ base' = [j \in Jobs |-> base[j] \ {d}]
    /\ UNCHANGED <<row, ingest, mark, active, job, pc, todo, hand>>

Mark(d) ==
    /\ d \in mark
    /\ mark' = mark \ {d}
    /\ row' = [row EXCEPT ![d] = "deleted"]
    /\ UNCHANGED <<ingest, drop, points, active, jobVars>>

-----------------------------------------------------------------------------
(* trigger_reindex and run_reindex.                                        *)

\* 202, unless the target is the active version; the job starts after it.
Trigger(j, v) ==
    /\ job[j].status = "absent"
    /\ v # active
    /\ job' = [job EXCEPT ![j] = [status |-> "pending", source |-> active,
                                  target |-> v, total |-> 0, stored |-> 0]]
    /\ pc' = [pc EXCEPT ![j] = "queued"]
    /\ UNCHANGED <<docVars, points, active, todo, hand, base>>

\* running, and total_documents, in two transactions.
Count(j) ==
    /\ pc[j] = "queued"
    /\ job' = [job EXCEPT ![j].status = "running", ![j].total = Cardinality(Live)]
    /\ pc' = [pc EXCEPT ![j] = "count"]
    /\ UNCHANGED <<docVars, points, active, todo, hand, base>>

\* doc_ids is read in a later statement than the count.
Snapshot(j) ==
    /\ pc[j] = "count"
    /\ todo' = [todo EXCEPT ![j] = Live]
    /\ base' = [base EXCEPT ![j] = DocsAt(active) \cap Live]
    /\ pc' = [pc EXCEPT ![j] = "list"]
    /\ UNCHANGED <<docVars, points, active, job, hand>>

\* list_chunks() reads the active version; a document without chunks is
\* counted as processed and skipped.
List(j, d) ==
    /\ pc[j] = "list" /\ d \in todo[j]
    /\ hand' = [hand EXCEPT ![j] = d]
    /\ pc' = [pc EXCEPT ![j] = IF d \in DocsAt(active) THEN "store" ELSE "progress"]
    /\ UNCHANGED <<docVars, points, active, job, todo, base>>

\* _target_chunk_id: another seed per target version.
TargetPoint(j) == [doc |-> hand[j], seed |-> job[j].target, version |-> job[j].target]

SameId(p, q) == p.doc = q.doc /\ p.seed = q.seed

Settle(j, result) ==
    /\ job' = [job EXCEPT ![j].status = result]
    /\ pc' = [pc EXCEPT ![j] = "off"]

\* pgvector inserts: an id that exists already violates the primary key and the
\* job fails.  Qdrant upserts: the point with that id is replaced.
Store(j) ==
    /\ pc[j] = "store"
    /\ IF Backend = "pgvector" /\ \E p \in points : SameId(p, TargetPoint(j))
       THEN /\ Settle(j, "failed")
            /\ UNCHANGED points
       ELSE /\ points' = {p \in points : ~SameId(p, TargetPoint(j))}
                             \cup {TargetPoint(j)}
            /\ job' = [job EXCEPT ![j].stored = @ + 1]
            /\ pc' = [pc EXCEPT ![j] = "progress"]
    /\ UNCHANGED <<docVars, active, todo, hand, base>>

Progress(j) ==
    /\ pc[j] = "progress"
    /\ todo' = [todo EXCEPT ![j] = @ \ {hand[j]}]
    /\ hand' = [hand EXCEPT ![j] = None]
    /\ pc' = [pc EXCEPT ![j] = "list"]
    /\ UNCHANGED <<docVars, points, active, job, base>>

\* Mutant of Finish: an empty copy is a success (BUG-023).
FinishAlways(j) ==
    /\ pc[j] = "list" /\ todo[j] = {}
    /\ Settle(j, "completed")
    /\ UNCHANGED <<docVars, points, active, todo, hand, base>>

\* Mutant of Finish: the job is over once some document is stored.
FinishEarly(j) ==
    /\ pc[j] = "list"
    /\ todo[j] = {} \/ job[j].stored > 0
    /\ Settle(j, IF job[j].total > 0 /\ job[j].stored = 0 THEN "failed" ELSE "completed")
    /\ UNCHANGED <<docVars, points, active, todo, hand, base>>

\* A namespace with documents of which nothing was stored is a failure.
Finish(j) ==
    /\ pc[j] = "list" /\ todo[j] = {}
    /\ Settle(j, IF job[j].total > 0 /\ job[j].stored = 0 THEN "failed" ELSE "completed")
    /\ UNCHANGED <<docVars, points, active, todo, hand, base>>

Raise(j) ==
    /\ "store" \in Faults
    /\ pc[j] \in {"list", "store"}
    /\ Settle(j, "failed")
    /\ UNCHANGED <<docVars, points, active, todo, hand, base>>

-----------------------------------------------------------------------------
(* The operator.                                                           *)

\* Mutant of DeleteVersion: the provider does not refuse the active version.
DeleteAnyVersion(v) ==
    /\ At(v) # {}
    /\ points' = points \ At(v)
    /\ base' = [j \in Jobs |-> IF job[j].target = v THEN {} ELSE base[j]]
    /\ UNCHANGED <<docVars, active, job, pc, todo, hand>>

\* DELETE /index-versions/{v}.
DeleteVersion(v) ==
    /\ v # active
    /\ At(v) # {}
    /\ points' = points \ At(v)
    /\ base' = [j \in Jobs |-> IF job[j].target = v THEN {} ELSE base[j]]
    /\ UNCHANGED <<docVars, active, job, pc, todo, hand>>

\* The process restarts with another active version (or the same: a crash).
\* Background tasks and requests in flight are gone, the rows stay.
Restart(v) ==
    /\ active' = v
    /\ pc' = [j \in Jobs |-> "off"]
    /\ todo' = [j \in Jobs |-> {}]
    /\ hand' = [j \in Jobs |-> None]
    /\ ingest' = {} /\ drop' = {} /\ mark' = {}
    /\ UNCHANGED <<row, points, job, base>>

\* docs/reference/api.md, steps 3 and 4: switch to the target of a completed job
\* that copied every document it counted.
Switch(v) ==
    /\ v # active
    /\ \E j \in Jobs : job[j].status = "completed" /\ job[j].target = v
                       /\ job[j].stored > 0 /\ job[j].stored = job[j].total
    /\ Restart(v)

-----------------------------------------------------------------------------
Step(j) ==
    \/ Count(j)
    \/ Snapshot(j)
    \/ \E d \in Docs : List(j, d)
    \/ Store(j)
    \/ Progress(j)
    \/ Finish(j)
    \/ Raise(j)

Document(d) ==
    \/ IngestRow(d)
    \/ IngestStore(d)
    \/ Delete(d)
    \/ Drop(d)
    \/ Mark(d)

Routine ==
    \/ \E d \in Docs : Document(d)
    \/ \E j \in Jobs, v \in Targets : Trigger(j, v)
    \/ \E j \in Jobs : Step(j)

Next ==
    \/ Routine
    \/ \E v \in Versions : DeleteVersion(v)
    \/ \E v \in Versions : Switch(v)
    \/ Restart(active)

Spec == Init /\ [][Next]_vars

\* The process is not stopped, and its event loop runs every task.
UninterruptedSpec ==
    /\ Init
    /\ [][Routine \/ \E v \in Versions : DeleteVersion(v)]_vars
    /\ \A j \in Jobs : WF_vars(Step(j))

\* The process is only stopped to switch, when no request is in flight, and
\* nothing is cleaned up.
Quiet == ingest = {} /\ drop = {} /\ mark = {}
CalmSpec == Init /\ [][Routine \/ (Quiet /\ \E v \in Versions : Switch(v))]_vars

-----------------------------------------------------------------------------
(* Properties.                                                             *)

\* A running job never writes the version being served, and handles one of its
\* documents at a time.
TargetIdle ==
    \A j \in Jobs :
        /\ pc[j] # "off" => job[j].target # active /\ job[j].status \in {"pending", "running"}
        /\ pc[j] \in {"store", "progress"} => hand[j] \in todo[j]

\* Zero downtime: while a version is served, its points go only with their
\* document, whatever jobs and cleanups run beside it.
ServingUntouched ==
    [][active' = active =>
          \A p \in At(active) : p \in points' \/ p.doc \in drop]_vars

\* A job that says completed has copied every document that had points when it
\* took its list and kept them: jobs that overlap, retries, and cleanups of
\* other versions included.
CompletedCovers ==
    \A j \in Jobs : job[j].status = "completed" => base[j] \subseteq DocsAt(job[j].target)

\* What makes it so: a running job has copied what it is done with, and can
\* still read the rest at the version that stays active under it.
CopyInProgress ==
    \A j \in Jobs :
        /\ job[j].status = "absent" \/ pc[j] \in {"queued", "count"} => base[j] = {}
        /\ pc[j] \in {"list", "store", "progress"} =>
              \A d \in base[j] : IF d \in todo[j] /\ ~(d = hand[j] /\ pc[j] = "progress")
                                 THEN d \in DocsAt(active)
                                 ELSE d \in DocsAt(job[j].target)

\* The id of a copied point names the version it is stored under.
SeedIsVersion == \A p \in points : p.seed \in {Ingested, p.version}

\* The inductive invariant.
IInv == TypeOK /\ SeedIsVersion /\ TargetIdle /\ CompletedCovers /\ CopyInProgress

\* BUG-023: documents in the namespace and nothing copied is not "completed".
NoEmptySuccess ==
    \A j \in Jobs : job[j].status = "completed" /\ job[j].total > 0 => job[j].stored > 0

\* A reindex run again over the same version, finished or broken off, succeeds
\* (reindex.py: "re-running a reindex is idempotent").
RerunCompletes ==
    \A j \in Jobs : job[j].status = "failed" => base[j] = {}

\* NFR-005: what was searchable before a restart is searchable after it.
SwitchLosesNothing ==
    [][active' # active =>
          \A d \in Live : d \in DocsAt(active) => d \in DocsAt(active')]_vars

\* Once a delete is over, no search returns the document again, in whichever
\* version.
DeletedStaysSilent ==
    \A d \in Docs : row[d] = "deleted" /\ d \notin drop => d \notin Answers(active)

\* A poll of a job ends: it reaches completed or failed, whatever is ingested,
\* deleted and cleaned up beside it.
EveryJobEnds ==
    \A j \in Jobs : job[j].status = "pending" ~> job[j].status \in {"completed", "failed"}
=============================================================================
