------------------------- MODULE DocumentLifecycle -------------------------
(***************************************************************************)
(* Documents of one namespace: the rows of source_documents, the points    *)
(* (chunks) the vector store holds for them, and the three writers that    *)
(* race over both: run_ingest (vektra-ingest), the two delete endpoints,   *)
(* and the retention job of the worker process.                            *)
(*                                                                         *)
(* A step is what the program does between two awaits that commit a        *)
(* transaction or call the vector store.  File contents are hashes, names  *)
(* and ids are model values.                                               *)
(***************************************************************************)
EXTENDS Naturals, FiniteSets

CONSTANTS
    Tasks,      \* concurrent run_ingest calls of the app process
    Admins,     \* concurrent delete requests
    Docs,       \* row ids; a row id is used once (bound on the run's length)
    Files,      \* file names
    Hashes,     \* SHA-256 content hashes
    None,       \* SQL NULL / Python None
    Backend,    \* VEKTRA_VECTOR_STORE_PROVIDER
    Retention,  \* VEKTRA_RETENTION_DAYS is set
    Faults      \* which failures of the environment occur

ASSUME NoneAssumption == None \notin Docs \cup Files \cup Hashes
ASSUME BackendAssumption == Backend \in {"pgvector", "qdrant"}
ASSUME RetentionAssumption == Retention \in BOOLEAN
ASSUME FaultsAssumption == Faults \subseteq {"crash", "db", "store"}

VARIABLES
    status,   \* absent: no row yet; live: deleted_at IS NULL; purged: row gone
    doc,      \* columns written once, by the INSERT
    reason,   \* deletion_reason
    aliases,  \* filename_aliases
    expired,  \* deleted_at is older than the retention cutoff
    chunks,   \* documents with points in the vector store
    pc, loc,  \* run_ingest: control and local variables
    apc, tgt, \* delete endpoints: control and the ids still to handle
    cpc, todo, gone   \* cleanup_soft_deleted_task: control, expired, purged_ids

rowVars   == <<status, doc, reason, aliases, expired>>
taskVars  == <<pc, loc>>
adminVars == <<apc, tgt>>
purgeVars == <<cpc, todo, gone>>
vars == <<rowVars, chunks, taskVars, adminVars, purgeVars>>

-----------------------------------------------------------------------------
Status  == {"absent", "live", "deleted", "purged"}
Reasons == {None, "superseded", "pipeline_failure", "user_request"}
Columns == [file : Files \cup {None}, hash : Hashes \cup {None},
            version : Nat, supersedes : Docs \cup {None}]
NoColumns == [file |-> None, hash |-> None, version |-> 0, supersedes |-> None]

\* run_ingest has returned (its result is the label) or was never called.
Resting == {"idle", "new", "exists", "alias", "failed"}
Phases  == Resting \cup {"add_alias", "lookup_name", "supersede", "insert",
                         "store", "cleanup", "restore", "finalize", "count"}
Locals  == [file : Files \cup {None}, hash : Hashes \cup {None},
            doc : Docs \cup {None}, supersedes : Docs \cup {None},
            version : Nat, names : SUBSET Files]
NoLocals == [file |-> None, hash |-> None, doc |-> None, supersedes |-> None,
             version |-> 0, names |-> {}]

TypeOK ==
    /\ status \in [Docs -> Status]
    /\ doc \in [Docs -> Columns]
    /\ reason \in [Docs -> Reasons]
    /\ aliases \in [Docs -> SUBSET Files]
    /\ expired \in SUBSET Docs
    /\ chunks \in SUBSET Docs
    /\ pc \in [Tasks -> Phases]
    /\ loc \in [Tasks -> Locals]
    /\ apc \in [Admins -> {"idle", "mark", "batch_mark", "batch_chunks"}]
    /\ tgt \in [Admins -> SUBSET Docs]
    /\ cpc \in {"idle", "chunks", "rows"}
    /\ todo \in SUBSET Docs
    /\ gone \in SUBSET Docs

Init ==
    /\ status = [d \in Docs |-> "absent"]
    /\ doc = [d \in Docs |-> NoColumns]
    /\ reason = [d \in Docs |-> None]
    /\ aliases = [d \in Docs |-> {}]
    /\ expired = {}
    /\ chunks = {}
    /\ pc = [t \in Tasks |-> "idle"]
    /\ loc = [t \in Tasks |-> NoLocals]
    /\ apc = [a \in Admins |-> "idle"]
    /\ tgt = [a \in Admins |-> {}]
    /\ cpc = "idle"
    /\ todo = {}
    /\ gone = {}

-----------------------------------------------------------------------------
(* Rows.                                                                   *)

Live == {d \in Docs : status[d] = "live"}
Stored == {d \in Docs : status[d] \in {"live", "deleted"}}
LiveByHash(h) == {d \in Live : doc[d].hash = h}
LiveByName(f) == {d \in Live : doc[d].file = f}

\* Mutant of Clash: uq_source_documents_filename was never created.
ClashHashOnly(f, h, d) == LiveByHash(h) \ {d} # {}

\* The partial unique indexes (WHERE deleted_at IS NULL) refuse to make d live
\* with this name and this content.
Clash(f, h, d) == (LiveByName(f) \cup LiveByHash(h)) \ {d} # {}

\* UPDATE source_documents SET deleted_at = now(), deletion_reason = why
\* WHERE id IN S, whatever the rows' present state: deleted_at starts anew.
SoftDelete(S, why) ==
    /\ status' = [d \in Docs |-> IF d \in S THEN "deleted" ELSE status[d]]
    /\ reason' = [d \in Docs |-> IF d \in S THEN why ELSE reason[d]]
    /\ expired' = expired \ S

Active(t) == pc[t] \notin Resting

\* The ids an ingest or a delete request in flight still refers to.
Held == {d \in Docs :
            \/ \E t \in Tasks : Active(t) /\ d \in {loc[t].doc, loc[t].supersedes}
            \/ \E a \in Admins : d \in tgt[a]}

\* Visible to a query: pgvector joins the live row, Qdrant filters its payload.
Searchable == IF Backend = "pgvector" THEN chunks \cap Live ELSE chunks

-----------------------------------------------------------------------------
(* run_ingest.                                                             *)

\* Leave the call: the result survives, and the row a failed ingest inserted.
Return(t, result, d) ==
    /\ pc' = [pc EXCEPT ![t] = result]
    /\ loc' = [loc EXCEPT ![t] = [NoLocals EXCEPT !.doc = d]]

\* Mutant of LookupHash: the content is not looked up before the name.
LookupHashSkipped(t, f, h) ==
    /\ ~Active(t)
    /\ pc' = [pc EXCEPT ![t] = "lookup_name"]
    /\ loc' = [loc EXCEPT ![t] = [NoLocals EXCEPT !.file = f, !.hash = h]]
    /\ UNCHANGED <<rowVars, chunks, adminVars, purgeVars>>

\* Steps 0 and 1: look for a live row with the same content.
LookupHash(t, f, h) ==
    /\ ~Active(t)
    /\ \/ /\ LiveByHash(h) = {}
          /\ pc' = [pc EXCEPT ![t] = "lookup_name"]
          /\ loc' = [loc EXCEPT ![t] = [NoLocals EXCEPT !.file = f, !.hash = h]]
       \/ LiveByHash(h) \cap LiveByName(f) # {} /\ Return(t, "exists", None)
       \/ \E d \in LiveByHash(h) \ LiveByName(f) :
             /\ f \in aliases[d]
             /\ Return(t, "alias", None)
       \/ \E d \in LiveByHash(h) \ LiveByName(f) :
             /\ f \notin aliases[d]
             /\ pc' = [pc EXCEPT ![t] = "add_alias"]
             /\ loc' = [loc EXCEPT ![t] =
                          [NoLocals EXCEPT !.file = f, !.hash = h, !.doc = d,
                                           !.names = aliases[d] \cup {f}]]
    /\ UNCHANGED <<rowVars, chunks, adminVars, purgeVars>>

\* The alias list read in step 1, with this name appended, is written back.
AddAlias(t) ==
    /\ pc[t] = "add_alias"
    /\ aliases' = [aliases EXCEPT ![loc[t].doc] = loc[t].names]
    /\ Return(t, "alias", None)
    /\ UNCHANGED <<status, doc, reason, expired, chunks, adminVars, purgeVars>>

\* Mutant of NextVersion: the version of the replaced row is not incremented.
NextVersionSame(d) == doc[d].version

NextVersion(d) == doc[d].version + 1

\* Step 2, first half: look for a live row with the same name.
LookupName(t) ==
    /\ pc[t] = "lookup_name"
    /\ \/ /\ LiveByName(loc[t].file) = {}
          /\ pc' = [pc EXCEPT ![t] = "insert"]
          /\ loc' = [loc EXCEPT ![t] = [@ EXCEPT !.version = 1]]
       \/ \E d \in LiveByName(loc[t].file) :
             /\ pc' = [pc EXCEPT ![t] = "supersede"]
             /\ loc' = [loc EXCEPT ![t] =
                          [@ EXCEPT !.version = NextVersion(d), !.supersedes = d]]
    /\ UNCHANGED <<rowVars, chunks, adminVars, purgeVars>>

\* Step 2, second half: soft-delete that row by id and commit.
Supersede(t) ==
    /\ pc[t] = "supersede"
    /\ SoftDelete({loc[t].supersedes}, "superseded")
    /\ pc' = [pc EXCEPT ![t] = "insert"]
    /\ UNCHANGED <<doc, aliases, chunks, loc, adminVars, purgeVars>>

\* Mutant of Unwind: the supersede is not undone.
UnwindNoRestore(t) == Return(t, "failed", loc[t].doc)

\* The except clauses: undo the supersede if there was one, else give up.
Unwind(t) ==
    IF loc[t].supersedes # None
    THEN pc' = [pc EXCEPT ![t] = "restore"] /\ UNCHANGED loc
    ELSE Return(t, "failed", loc[t].doc)

\* The content type is unknown or unsupported; no row was inserted.
DetectFail(t) ==
    /\ pc[t] = "insert"
    /\ Unwind(t)
    /\ UNCHANGED <<rowVars, chunks, adminVars, purgeVars>>

\* Step 5: INSERT and commit.
Insert(t, d) ==
    /\ pc[t] = "insert"
    /\ status[d] = "absent"
    /\ ~Clash(loc[t].file, loc[t].hash, d)
    /\ status' = [status EXCEPT ![d] = "live"]
    /\ doc' = [doc EXCEPT ![d] = [file |-> loc[t].file, hash |-> loc[t].hash,
                                  version |-> loc[t].version,
                                  supersedes |-> loc[t].supersedes]]
    /\ pc' = [pc EXCEPT ![t] = "store"]
    /\ loc' = [loc EXCEPT ![t] = [@ EXCEPT !.doc = d]]
    /\ UNCHANGED <<reason, aliases, expired, chunks, adminVars, purgeVars>>

\* Step 5 loses the race on a unique index: rolled back, no row of its own.
InsertConflict(t) ==
    /\ pc[t] = "insert"
    /\ Clash(loc[t].file, loc[t].hash, None)
    /\ Unwind(t)
    /\ UNCHANGED <<rowVars, chunks, adminVars, purgeVars>>

\* Extraction, chunking, embedding or the store fails and no point is left
\* (pgvector rolled back, Qdrant's compensating delete succeeded).
ProcessFail(t) ==
    /\ pc[t] = "store"
    /\ pc' = [pc EXCEPT ![t] = "cleanup"]
    /\ UNCHANGED <<rowVars, chunks, loc, adminVars, purgeVars>>

\* Qdrant only: the upsert timed out after the server applied it, or the
\* compensating delete failed too.
StoreFailDirty(t) ==
    /\ Backend = "qdrant" /\ "store" \in Faults
    /\ pc[t] = "store"
    /\ chunks' = chunks \cup {loc[t].doc}
    /\ pc' = [pc EXCEPT ![t] = "cleanup"]
    /\ UNCHANGED <<rowVars, loc, adminVars, purgeVars>>

\* Step 7.
StoreOk(t) ==
    /\ pc[t] = "store"
    /\ chunks' = chunks \cup {loc[t].doc}
    /\ pc' = [pc EXCEPT ![t] = IF loc[t].supersedes # None THEN "finalize" ELSE "count"]
    /\ UNCHANGED <<rowVars, loc, adminVars, purgeVars>>

\* _cleanup_document, in a session of its own; its errors are only logged.
Cleanup(t) ==
    /\ pc[t] = "cleanup"
    /\ \/ SoftDelete({loc[t].doc}, "pipeline_failure")
       \/ "db" \in Faults /\ UNCHANGED <<status, reason, expired>>
    /\ Unwind(t)
    /\ UNCHANGED <<doc, aliases, chunks, adminVars, purgeVars>>

\* _restore_superseded_document: UPDATE by id; a unique violation or any other
\* error is only logged.
Restore(t) ==
    LET d == loc[t].supersedes
        blocked == Clash(doc[d].file, doc[d].hash, d)
    IN  /\ pc[t] = "restore"
        /\ \/ /\ ~blocked
              /\ status' = [status EXCEPT ![d] = "live"]
              /\ reason' = [reason EXCEPT ![d] = None]
              /\ expired' = expired \ {d}
           \/ (blocked \/ "db" \in Faults) /\ UNCHANGED <<status, reason, expired>>
        /\ Return(t, "failed", loc[t].doc)
        /\ UNCHANGED <<doc, aliases, chunks, adminVars, purgeVars>>

\* Mutant of Finalize: the points of the new document are dropped instead.
FinalizeDropsNew(t) ==
    /\ pc[t] = "finalize"
    /\ chunks' = chunks \ {loc[t].doc}
    /\ pc' = [pc EXCEPT ![t] = "count"]
    /\ UNCHANGED <<rowVars, loc, adminVars, purgeVars>>

\* Step 7b: drop the points of the replaced document, best effort.
Finalize(t) ==
    /\ pc[t] = "finalize"
    /\ \/ chunks' = chunks \ {loc[t].supersedes}
       \/ "store" \in Faults /\ UNCHANGED chunks
    /\ pc' = [pc EXCEPT ![t] = "count"]
    /\ UNCHANGED <<rowVars, loc, adminVars, purgeVars>>

\* Step 8 and the result: chunk_count, a number for display, is left out.
SetCount(t) ==
    /\ pc[t] = "count"
    /\ Return(t, "new", None)
    /\ UNCHANGED <<rowVars, chunks, adminVars, purgeVars>>

IngestStep(t) ==
    \/ AddAlias(t) \/ LookupName(t) \/ Supersede(t) \/ DetectFail(t)
    \/ \E d \in Docs : Insert(t, d)
    \/ InsertConflict(t) \/ ProcessFail(t) \/ StoreFailDirty(t) \/ StoreOk(t)
    \/ Cleanup(t) \/ Restore(t) \/ Finalize(t) \/ SetCount(t)

-----------------------------------------------------------------------------
(* Delete endpoints.                                                       *)

\* DELETE /documents/{id}, first half: remove the points (an error ends it).
DeleteChunks(a, d) ==
    /\ apc[a] = "idle"
    /\ status[d] # "absent"
    /\ chunks' = chunks \ {d}
    /\ apc' = [apc EXCEPT ![a] = "mark"]
    /\ tgt' = [tgt EXCEPT ![a] = {d}]
    /\ UNCHANGED <<rowVars, taskVars, purgeVars>>

Markable(a) == tgt[a] \cap Live

\* Second half: UPDATE ... WHERE id = ... AND deleted_at IS NULL.
DeleteMark(a) ==
    /\ apc[a] = "mark"
    /\ SoftDelete(Markable(a), "user_request")
    /\ apc' = [apc EXCEPT ![a] = "idle"]
    /\ tgt' = [tgt EXCEPT ![a] = {}]
    /\ UNCHANGED <<doc, aliases, chunks, taskVars, purgeVars>>

\* DELETE /documents/batch: SELECT the live rows among the requested ids.
BatchSelect(a, S) ==
    /\ apc[a] = "idle"
    /\ S # {} /\ S \subseteq Live
    /\ apc' = [apc EXCEPT ![a] = "batch_mark"]
    /\ tgt' = [tgt EXCEPT ![a] = S]
    /\ UNCHANGED <<rowVars, chunks, taskVars, purgeVars>>

\* UPDATE them by id and commit.
BatchMark(a) ==
    /\ apc[a] = "batch_mark"
    /\ SoftDelete(tgt[a], "user_request")
    /\ apc' = [apc EXCEPT ![a] = "batch_chunks"]
    /\ UNCHANGED <<doc, aliases, chunks, tgt, taskVars, purgeVars>>

\* Remove the points of one of them, best effort.
BatchChunks(a, d) ==
    /\ apc[a] = "batch_chunks"
    /\ d \in tgt[a]
    /\ \/ chunks' = chunks \ {d}
       \/ "store" \in Faults /\ UNCHANGED chunks
    /\ tgt' = [tgt EXCEPT ![a] = @ \ {d}]
    /\ apc' = [apc EXCEPT ![a] = IF tgt[a] = {d} THEN "idle" ELSE @]
    /\ UNCHANGED <<rowVars, taskVars, purgeVars>>

DeleteStep(a) == DeleteMark(a) \/ BatchMark(a) \/ \E d \in Docs : BatchChunks(a, d)

-----------------------------------------------------------------------------
(* Retention: cleanup_soft_deleted_task of the worker process.             *)

\* Time passes: a row soft-deleted long ago falls behind the cutoff.  The
\* period is at least a day, so no request in flight still holds the row
\* (time-scale assumption).
Expire(d) ==
    /\ Retention
    /\ status[d] = "deleted" /\ d \notin expired
    /\ d \notin Held
    /\ expired' = expired \cup {d}
    /\ UNCHANGED <<status, doc, reason, aliases, chunks, taskVars,
                   adminVars, purgeVars>>

\* Mutant of Purgeable: the deleted_at IS NOT NULL / cutoff filter is dropped.
PurgeableAll == Stored

Purgeable == expired

PurgeSelect ==
    /\ Retention
    /\ cpc = "idle" /\ Purgeable # {}
    /\ cpc' = "chunks"
    /\ todo' = Purgeable
    /\ gone' = {}
    /\ UNCHANGED <<rowVars, chunks, taskVars, adminVars>>

\* Mutant of PurgeChunks: the `continue` after a failed delete is missing.
PurgeChunksNoContinue(d) ==
    /\ cpc = "chunks" /\ d \in todo
    /\ todo' = todo \ {d}
    /\ gone' = gone \cup {d}
    /\ \/ chunks' = chunks \ {d}
       \/ "store" \in Faults /\ UNCHANGED chunks
    /\ cpc' = IF todo' = {} THEN "rows" ELSE cpc
    /\ UNCHANGED <<rowVars, taskVars, adminVars>>

\* Delete one document's points; on failure the document is skipped.
PurgeChunks(d) ==
    /\ cpc = "chunks" /\ d \in todo
    /\ todo' = todo \ {d}
    /\ \/ chunks' = chunks \ {d} /\ gone' = gone \cup {d}
       \/ "store" \in Faults /\ UNCHANGED <<chunks, gone>>
    /\ cpc' = IF todo' = {} THEN "rows" ELSE cpc
    /\ UNCHANGED <<rowVars, taskVars, adminVars>>

\* supersedes_id REFERENCES source_documents(id) with no ON DELETE: one
\* surviving successor makes the whole DELETE fail.
PurgeBlocked(S) == \E d \in Stored \ S : doc[d].supersedes \in S

\* One DELETE ... WHERE id IN purged_ids; an error is only logged.
PurgeRows ==
    /\ cpc = "rows"
    /\ IF PurgeBlocked(gone)
       THEN UNCHANGED rowVars
       ELSE /\ status' = [d \in Docs |-> IF d \in gone THEN "purged" ELSE status[d]]
            /\ doc' = [d \in Docs |-> IF d \in gone THEN NoColumns ELSE doc[d]]
            /\ reason' = [d \in Docs |-> IF d \in gone THEN None ELSE reason[d]]
            /\ aliases' = [d \in Docs |-> IF d \in gone THEN {} ELSE aliases[d]]
            /\ expired' = expired \ gone
    /\ chunks' = IF Backend = "pgvector" /\ ~PurgeBlocked(gone)
                 THEN chunks \ gone    \* ON DELETE CASCADE
                 ELSE chunks
    /\ cpc' = "idle"
    /\ gone' = {}
    /\ UNCHANGED <<todo, taskVars, adminVars>>

PurgeStep == PurgeSelect \/ (\E d \in Docs : PurgeChunks(d)) \/ PurgeRows

-----------------------------------------------------------------------------
\* The app process dies: every call in flight is lost, nothing resumes it.
AppCrash ==
    /\ "crash" \in Faults
    /\ (\E t \in Tasks : Active(t)) \/ (\E a \in Admins : apc[a] # "idle")
    /\ pc' = [t \in Tasks |-> IF Active(t) THEN "idle" ELSE pc[t]]
    /\ loc' = [t \in Tasks |-> IF Active(t) THEN NoLocals ELSE loc[t]]
    /\ apc' = [a \in Admins |-> "idle"]
    /\ tgt' = [a \in Admins |-> {}]
    /\ UNCHANGED <<rowVars, chunks, purgeVars>>

\* The worker process dies.
WorkerCrash ==
    /\ "crash" \in Faults
    /\ cpc # "idle"
    /\ cpc' = "idle" /\ todo' = {} /\ gone' = {}
    /\ UNCHANGED <<rowVars, chunks, taskVars, adminVars>>

Next ==
    \/ \E t \in Tasks, f \in Files, h \in Hashes : LookupHash(t, f, h)
    \/ \E t \in Tasks : IngestStep(t)
    \/ \E a \in Admins, d \in Docs : DeleteChunks(a, d)
    \/ \E a \in Admins, S \in SUBSET Docs : BatchSelect(a, S)
    \/ \E a \in Admins : DeleteStep(a)
    \/ \E d \in Docs : Expire(d)
    \/ PurgeStep
    \/ AppCrash \/ WorkerCrash

Spec == Init /\ [][Next]_vars

-----------------------------------------------------------------------------
(* Fairness: the event loop resumes every call whose await has completed, and *)
(* arq runs the retention job every night.  Requests, Expire and crashes are  *)
(* not fair: nobody has to upload or delete anything.                         *)
IngestFairness == \A t \in Tasks : WF_vars(IngestStep(t))
PurgeFairness == WF_vars(PurgeStep)
FairSpec == Spec /\ IngestFairness /\ PurgeFairness

-----------------------------------------------------------------------------
(* Properties that hold for every interleaving.                            *)

\* Two live rows never share a name or a content, although three code paths
\* (insert, restore, a late restore of an old version) make rows live.
LiveUnique ==
    \A d, e \in Live : d # e => doc[d].file # doc[e].file /\ doc[d].hash # doc[e].hash

\* The version recorded between two lookups is still one above the row it
\* replaced when the insert commits later, that row still exists and has the
\* same name: the history of a document can always be walked down to version 1.
VersionChain ==
    \A d \in Stored :
        \/ doc[d].version = 1 /\ doc[d].supersedes = None
        \/ /\ doc[d].supersedes \in Stored
           /\ doc[d].file = doc[doc[d].supersedes].file
           /\ doc[d].version = doc[doc[d].supersedes].version + 1

\* A search of the pgvector store never mixes two versions of one file, nor
\* two copies of one content, while ingests replace and restore them.
OneVersionAnswers ==
    \A d, e \in Searchable : d # e => doc[d].file # doc[e].file /\ doc[d].hash # doc[e].hash

\* Retention: no row is dropped while its content survives (jobs.py:206).
PurgedLeavesNothing == \A d \in Docs : status[d] = "purged" => d \notin chunks

\* Retention: the DELETE runs on ids selected earlier, without looking at the
\* row again; a row that is live, or was deleted recently, is never dropped.
NeverPurgeLive ==
    [][\A d \in Docs : status[d] # "purged" /\ status'[d] = "purged"
                         => status[d] = "deleted" /\ d \in expired]_vars

-----------------------------------------------------------------------------
(* The inductive invariant behind those properties.                        *)

ExpiredAreDeleted == expired \subseteq {d \in Docs : status[d] = "deleted"}

\* An ingest in flight refers only to rows that exist and are not about to be
\* purged, and its version is still one above the row it replaces.
TaskOK(t) ==
    Active(t) =>
        /\ pc[t] \in {"add_alias", "store", "cleanup", "finalize", "count"} => loc[t].doc # None
        /\ pc[t] \in {"supersede", "restore", "finalize"} => loc[t].supersedes # None
        /\ pc[t] \in {"lookup_name", "add_alias"} => loc[t].supersedes = None
        /\ loc[t].doc # None => loc[t].doc \in Stored \ expired
        /\ loc[t].supersedes # None =>
              /\ loc[t].supersedes \in Stored \ expired
              /\ doc[loc[t].supersedes].file = loc[t].file
              /\ loc[t].version = doc[loc[t].supersedes].version + 1
        /\ pc[t] = "insert" /\ loc[t].supersedes = None => loc[t].version = 1

TasksOK == \A t \in Tasks : TaskOK(t)

AdminsOK == \A a \in Admins : apc[a] = "batch_mark" => tgt[a] \subseteq Stored \ expired

PurgeOK ==
    /\ todo \cup gone \subseteq expired
    /\ cpc = "rows" => todo = {}
    /\ gone \cap chunks = {}

ChunksStored == chunks \subseteq Stored

IInv ==
    /\ TypeOK /\ ExpiredAreDeleted /\ TasksOK /\ AdminsOK /\ PurgeOK
    /\ ChunksStored /\ LiveUnique /\ VersionChain

-----------------------------------------------------------------------------
(* Properties that hold when ingests run one at a time, or with one store,  *)
(* and that some concurrent or faulty execution breaks.                     *)

\* BR-003: a failed ingestion leaves no artifacts in the vector store.
FailedLeavesNoArtifacts ==
    \A d \in Docs : status[d] = "deleted" /\ reason[d] = "pipeline_failure" => d \notin chunks

\* BR-003: a live document no ingest is working on is indexed.
NoPartialDocument ==
    \A d \in Live : d \in chunks \/ \E t \in Tasks : Active(t) /\ loc[t].doc = d

\* REQ-033: content that is live under its name is answered "exists", so a
\* version always differs in content from the one it replaces.
VersionHasNewContent ==
    \A d \in Stored : doc[d].supersedes # None => doc[d].hash # doc[doc[d].supersedes].hash

\* REQ-057: soft-deleted documents are excluded from every search.
DeletedNotSearchable == Searchable \subseteq Live

\* A document a user deleted is not brought back by an ingest that fails.
UserDeleteIsFinal ==
    [][\A d \in Docs : status[d] = "deleted" /\ reason[d] = "user_request"
                         => status'[d] # "live"]_vars

\* After DELETE /documents/{id} has returned, its content no longer answers.
UserDeletedIsSilent ==
    \A d \in Searchable : reason[d] = "user_request" => \E a \in Admins : d \in tgt[a]

\* A name whose document was replaced is, in the end, served again: by the new
\* version, or by the old one restored.
SupersededIsAnswered ==
    \A f \in Files :
        (\E d \in Docs : status[d] = "deleted" /\ reason[d] = "superseded" /\ doc[d].file = f)
            ~> LiveByName(f) # {}

\* An expired document that no surviving row refers to is purged in the end.
ExpiredIsPurged ==
    \A d \in Docs : (d \in expired /\ \A e \in Stored : doc[e].supersedes # d)
                        ~> status[d] = "purged"

-----------------------------------------------------------------------------
(* What ingests that run one at a time keep: the invariants behind           *)
(* VersionHasNewContent and AtomicIngest.                                    *)

OneAtATime == \A t, u \in Tasks : t = u

\* Nobody else publishes, so what the lookups saw stays true: the content is
\* not live, and the row to be replaced has another one.
Fresh(t) ==
    /\ pc[t] = "lookup_name" => LiveByHash(loc[t].hash) = {}
    /\ Active(t) /\ loc[t].supersedes # None =>
          doc[loc[t].supersedes].hash # loc[t].hash

AllFresh == \A t \in Tasks : Fresh(t)

-----------------------------------------------------------------------------
(* An ingest, seen from outside, replaces the content of a name atomically. *)

\* What the name stands for: an ingest in flight counts only once it stored.
Shelf(f) ==
    LET undecided == {t \in Tasks : /\ pc[t] \in {"insert", "store", "cleanup", "restore"}
                                    /\ loc[t].file = f}
        old == {loc[t].supersedes : t \in undecided} \ {None}
        shown == IF undecided = {} THEN LiveByName(f) \cap chunks ELSE old
    IN  IF shown = {} THEN None ELSE doc[CHOOSE d \in shown : TRUE].hash

Atomic == INSTANCE AtomicLibrary WITH shelf <- [f \in Files |-> Shelf(f)]

\* The row an ingest has published and not yet stored.
Unstored(t) == IF pc[t] \in {"store", "cleanup"} THEN {loc[t].doc} ELSE {}

\* Where the only ingest stands: every other live row is indexed; what it
\* replaces was live, and afterwards is hidden but can come back; nobody takes
\* its name or its content, nor those of the row it replaces.
Place(t) ==
    /\ Live \ Unstored(t) \subseteq chunks
    /\ Active(t) => loc[t].file \in Files /\ loc[t].hash \in Hashes
    /\ pc[t] \in {"supersede", "insert"} => LiveByHash(loc[t].hash) = {}
    /\ pc[t] = "supersede" => loc[t].supersedes \in Live
    /\ pc[t] \in {"insert", "store", "cleanup", "restore"} =>
          /\ LiveByName(loc[t].file) \subseteq Unstored(t)
          /\ loc[t].supersedes # None =>
                /\ loc[t].supersedes \in chunks
                /\ LiveByHash(doc[loc[t].supersedes].hash) = {}
    /\ pc[t] \in {"store", "cleanup", "finalize", "count"} =>
          /\ loc[t].doc \in Live
          /\ doc[loc[t].doc].file = loc[t].file /\ doc[loc[t].doc].hash = loc[t].hash
    /\ pc[t] = "finalize" => loc[t].supersedes \notin Live

AllPlaced == \A t \in Tasks : Place(t)

\* BR-003, atomic ingestion, as a refinement.
AtomicIngest == Atomic!Spec
=============================================================================
