------------------------------ MODULE IngestJobs ------------------------------
(***************************************************************************)
(* Asynchronous ingestion: the rows of ingest_jobs, the requests that      *)
(* create them (one large upload, or a batch), and the background task of  *)
(* each job, which reports its progress to the row while run_ingest works. *)
(*                                                                         *)
(* No code registers "arq_pool", so every job runs as a FastAPI background *)
(* task: the tasks of a request run one after the other, in the app        *)
(* process, once the response is out.  run_ingest is reduced to the        *)
(* progress calls and the outcome (DocumentLifecycle has its detail).      *)
(***************************************************************************)
EXTENDS Naturals, Sequences, FiniteSets

CONSTANTS
    Requests,  \* POST /ingest (above 10 MB) and POST /ingest/batch calls
    Jobs,      \* job ids; each is used once (bound on the run's length)
    Docs,      \* document ids; each is used once
    None,      \* SQL NULL
    Faults     \* which failures of the environment occur

ASSUME NoneAssumption == None \notin Docs \cup {"extracting", "chunking", "embedding"}
ASSUME FaultsAssumption == Faults \subseteq {"crash", "db", "request"}

VARIABLES
    docs,  \* source_documents: absent, live, deleted (soft), purged
    job,   \* ingest_jobs
    req,   \* what the request is doing
    queue, \* its background tasks, in the order they were added
    pc,    \* ingest_document_task
    got    \* result.document_id of run_ingest

vars == <<docs, job, req, queue, pc, got>>

-----------------------------------------------------------------------------
Terminal == {"indexed", "failed"}
Row == [status : {"absent", "pending", "processing"} \cup Terminal,
        phase : {None, "extracting", "chunking", "embedding"},
        doc : Docs \cup {None}]

\* "indexed" and "failed": run_ingest is over, its outcome is not yet reported.
Working  == {"lookups", "extracting", "chunking", "embedding"}
Reporting == {"indexed", "failed"}

TypeOK ==
    /\ docs \in [Docs -> {"absent", "live", "deleted", "purged"}]
    /\ job \in [Jobs -> Row]
    /\ req \in [Requests -> {"idle", "open", "answered", "aborted", "killed"}]
    /\ queue \in [Requests -> Seq(Jobs)]
    /\ pc \in [Jobs -> {"waiting", "ended"} \cup Working \cup Reporting]
    /\ got \in [Jobs -> Docs \cup {None}]

Init ==
    /\ docs = [d \in Docs |-> "absent"]
    /\ job = [j \in Jobs |-> [status |-> "absent", phase |-> None, doc |-> None]]
    /\ req = [r \in Requests |-> "idle"]
    /\ queue = [r \in Requests |-> <<>>]
    /\ pc = [j \in Jobs |-> "waiting"]
    /\ got = [j \in Jobs |-> None]

-----------------------------------------------------------------------------
(* The requests.                                                           *)

Open(r) ==
    /\ req[r] = "idle"
    /\ req' = [req EXCEPT ![r] = "open"]
    /\ UNCHANGED <<docs, job, queue, pc, got>>

\* The job row is committed before its task is added to the request.
Accept(r, j) ==
    /\ req[r] = "open"
    /\ job[j].status = "absent"
    /\ job' = [job EXCEPT ![j].status = "pending"]
    /\ queue' = [queue EXCEPT ![r] = Append(@, j)]
    /\ UNCHANGED <<docs, req, pc, got>>

\* The handler raises on a later file of the batch (reading the upload, or
\* committing its row): no response, and none of its tasks ever starts.
Abort(r) ==
    /\ "request" \in Faults
    /\ req[r] = "open"
    /\ req' = [req EXCEPT ![r] = "aborted"]
    /\ UNCHANGED <<docs, job, queue, pc, got>>

\* 202: the response is out, the background tasks start.  A request that
\* accepted nothing (files over the limit) answers too.
Answer(r) ==
    /\ req[r] = "open"
    /\ req' = [req EXCEPT ![r] = "answered"]
    /\ UNCHANGED <<docs, job, queue, pc, got>>

-----------------------------------------------------------------------------
(* _update_job: a transaction of its own whose failure is only logged, so  *)
(* the task goes on whether or not the row was written.                    *)

Update(j, values) ==
    \/ job' = [job EXCEPT ![j] = values]
    \/ "db" \in Faults /\ UNCHANGED job

\* processing: phase is set, document_id keeps what it had.
Processing(j, phase) ==
    Update(j, [job[j] EXCEPT !.status = "processing", !.phase = phase])

\* indexed, failed: the stale phase is cleared.
Terminate(j, status, d) ==
    Update(j, [status |-> status, phase |-> None, doc |-> d])

-----------------------------------------------------------------------------
(* ingest_document_task.                                                   *)

\* j is the background task its request is running.
Turn(j) == \E r \in Requests :
    req[r] = "answered" /\ queue[r] # <<>> /\ Head(queue[r]) = j

Goto(j, label) == pc' = [pc EXCEPT ![j] = label]

Begin(j) ==
    /\ Turn(j) /\ pc[j] = "waiting"
    /\ Processing(j, "extracting")
    /\ Goto(j, "lookups")
    /\ UNCHANGED <<docs, req, queue, got>>

\* The content is already in the namespace (with this name, or one that
\* becomes an alias): run_ingest answers with that document.
Known(j, d) ==
    /\ Turn(j) /\ pc[j] = "lookups"
    /\ docs[d] = "live"
    /\ got' = [got EXCEPT ![j] = d]
    /\ Goto(j, "indexed")
    /\ UNCHANGED <<docs, job, req, queue>>

\* A row of its own; then extraction starts.  The version it may replace is
\* soft-deleted by the same call: here, some Delete.
Insert(j, d) ==
    /\ Turn(j) /\ pc[j] = "lookups"
    /\ docs[d] = "absent"
    /\ docs' = [docs EXCEPT ![d] = "live"]
    /\ got' = [got EXCEPT ![j] = d]
    /\ Processing(j, "extracting")
    /\ Goto(j, "extracting")
    /\ UNCHANGED <<req, queue>>

\* The text is extracted (chunked): chunking (embedding) is announced.
OnPhase(j) ==
    /\ Turn(j)
    /\ \/ pc[j] = "extracting" /\ Processing(j, "chunking") /\ Goto(j, "chunking")
       \/ pc[j] = "chunking" /\ Processing(j, "embedding") /\ Goto(j, "embedding")
    /\ UNCHANGED <<docs, req, queue, got>>

\* The chunks are stored and the old version finalized.
Stored(j) ==
    /\ Turn(j) /\ pc[j] = "embedding"
    /\ Goto(j, "indexed")
    /\ UNCHANGED <<docs, job, req, queue, got>>

\* Mutant of Raise: the task takes every outcome for a success.
RaiseSwallowed(j) ==
    /\ Turn(j) /\ pc[j] \in Working
    /\ docs' = [d \in Docs |-> IF d = got[j] /\ docs[d] = "live"
                               THEN "deleted" ELSE docs[d]]
    /\ got' = [got EXCEPT ![j] = None]
    /\ Goto(j, "indexed")
    /\ UNCHANGED <<job, req, queue>>

\* run_ingest raises: a name conflict at the insert, an extraction, an
\* embedding or a store error.  The row it inserted is soft-deleted.
Raise(j) ==
    /\ Turn(j) /\ pc[j] \in Working
    /\ docs' = [d \in Docs |-> IF d = got[j] /\ docs[d] = "live"
                               THEN "deleted" ELSE docs[d]]
    /\ got' = [got EXCEPT ![j] = None]
    /\ Goto(j, "failed")
    /\ UNCHANGED <<job, req, queue>>

Dequeue(j) ==
    queue' = [r \in Requests |-> IF queue[r] # <<>> /\ Head(queue[r]) = j
                                 THEN Tail(queue[r]) ELSE queue[r]]

\* Mutant of Report: the task is run again, as a retry would.
ReportRetried(j) ==
    /\ Turn(j) /\ pc[j] \in Reporting
    /\ Terminate(j, pc[j], got[j])
    /\ Goto(j, "waiting")
    /\ got' = [got EXCEPT ![j] = None]
    /\ UNCHANGED <<docs, req, queue>>

\* Mutant of Report: a failed task keeps its request's turn.
ReportKeepsTurn(j) ==
    /\ Turn(j) /\ pc[j] \in Reporting
    /\ Terminate(j, pc[j], got[j])
    /\ Goto(j, "ended")
    /\ IF pc[j] = "indexed" THEN Dequeue(j) ELSE UNCHANGED queue
    /\ UNCHANGED <<docs, req, got>>

\* indexed with the document, or failed; the request runs its next task.
Report(j) ==
    /\ Turn(j) /\ pc[j] \in Reporting
    /\ Terminate(j, pc[j], got[j])
    /\ Goto(j, "ended")
    /\ Dequeue(j)
    /\ UNCHANGED <<docs, req, got>>

-----------------------------------------------------------------------------
(* The rest of the system, as far as it touches documents and tasks.       *)

Delete(d) ==
    /\ docs[d] = "live"
    /\ docs' = [docs EXCEPT ![d] = "deleted"]
    /\ UNCHANGED <<job, req, queue, pc, got>>

\* Documents a running task still refers to: a retention period is days, a
\* task is minutes, so none of them is expired.
InUse == {got[j] : j \in {k \in Jobs : Turn(k)}}

\* cleanup_soft_deleted_task removes the expired rows S in one statement, which
\* fails as a whole while a job row refers to one of them.
Purge(S) ==
    /\ S # {} /\ \A d \in S : docs[d] = "deleted" /\ d \notin InUse
    /\ \A j \in Jobs : job[j].doc \notin S
    /\ docs' = [d \in Docs |-> IF d \in S THEN "purged" ELSE docs[d]]
    /\ UNCHANGED <<job, req, queue, pc, got>>

\* The app process stops: handlers and background tasks are gone, rows stay.
Crash ==
    /\ "crash" \in Faults
    /\ \E r \in Requests : req[r] \in {"open", "answered"}
    /\ req' = [r \in Requests |-> IF req[r] = "idle" THEN "idle" ELSE "killed"]
    /\ UNCHANGED <<docs, job, queue, pc, got>>

-----------------------------------------------------------------------------
Task(j) ==
    \/ Begin(j)
    \/ \E d \in Docs : Known(j, d)
    \/ \E d \in Docs : Insert(j, d)
    \/ OnPhase(j)
    \/ Stored(j)
    \/ Raise(j)
    \/ Report(j)

Request(r) ==
    \/ Open(r)
    \/ \E j \in Jobs : Accept(r, j)
    \/ Abort(r)
    \/ Answer(r)

Next ==
    \/ \E r \in Requests : Request(r)
    \/ \E j \in Jobs : Task(j)
    \/ \E d \in Docs : Delete(d)
    \/ \E S \in SUBSET Docs : Purge(S)
    \/ Crash

Spec == Init /\ [][Next]_vars

\* A handler answers, and the event loop keeps running the current task.
FairSpec ==
    /\ Spec
    /\ \A r \in Requests : WF_vars(Answer(r))
    /\ \A j \in Jobs : WF_vars(Task(j))

RetentionSpec == FairSpec /\ WF_vars(\E S \in SUBSET Docs : Purge(S))

-----------------------------------------------------------------------------
(* Properties.                                                             *)

\* The row never runs ahead of the task: a terminal status is the task's last
\* act, and a phase is announced before its work starts.
NeverAhead ==
    \A j \in Jobs :
        /\ job[j].status \in Terminal => pc[j] = "ended"
        /\ pc[j] = "waiting" => job[j].phase = None
        /\ pc[j] \in {"lookups", "extracting"} => job[j].phase \in {None, "extracting"}
        /\ pc[j] = "chunking" => job[j].phase # "embedding"

\* run_ingest has a document from the insert on, and none once it raised.
OutcomeKnown ==
    \A j \in Jobs :
        /\ pc[j] \in {"extracting", "chunking", "embedding", "indexed"} => got[j] # None
        /\ pc[j] = "failed" => got[j] = None

\* The phase is the sub-state of "processing" and is NULL in any other status
\* (NFR-010), also when progress updates were lost on the way.
PhaseOnlyWhileProcessing ==
    \A j \in Jobs : job[j].phase # None => job[j].status = "processing"

\* What a poll answers about a finished job is what happened: an indexed job
\* names the document run_ingest returned, a failed one had no document.
RowIsHonest ==
    \A j \in Jobs : job[j].status \in Terminal =>
        /\ job[j].doc = got[j]
        /\ (job[j].status = "indexed") <=> (got[j] # None)

\* The inductive invariant: what the row says, and what the task still knows.
IInv == TypeOK /\ NeverAhead /\ OutcomeKnown /\ PhaseOnlyWhileProcessing /\ RowIsHonest

\* indexed and failed are final: no late progress call, no second task and no
\* restart takes a job out of them.
TerminalFinal ==
    [][\A j \in Jobs : job[j].status \in Terminal => job'[j] = job[j]]_vars

\* Its request raised later on, or its process stopped.
Forsaken(j) == \E r \in Requests :
    req[r] \in {"aborted", "killed"} /\ \E i \in DOMAIN queue[r] : queue[r][i] = j

\* BR-004: every accepted file reaches INDEXED or FAILED, also behind a task that
\* raised or whose update was lost.  What the code gives up are the tasks of a
\* request or process that is gone, and a last update that the database refused.
EveryJobEnds ==
    \A j \in Jobs : job[j].status = "pending" ~>
        \/ job[j].status \in Terminal
        \/ Forsaken(j)
        \/ pc[j] = "ended" /\ "db" \in Faults

\* A soft-deleted document is eventually removed (REQ-057).
DeletedIsPurged ==
    \A d \in Docs : docs[d] = "deleted" ~> docs[d] = "purged"
=============================================================================
