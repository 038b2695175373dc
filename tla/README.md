# vektra-stack, specified in TLA+

vektra-stack is a retrieval-augmented-generation platform: a FastAPI process
(plus an arq worker for nightly jobs) in front of PostgreSQL and a vector store,
which is pgvector in the same database or a Qdrant server.  Documents are
uploaded, chunked, embedded and indexed; questions are answered by a language
model over the chunks that a search finds, within a conversation.

This directory holds TLA+ models of the parts of it whose correctness depends on
order, failure and concurrency, the TLC configurations that check them on small
instances, and TLAPS proofs of their main invariants for every instance.

Contents: [the system](#the-system), [modules](#modules), [runs](#runs),
[what is proved](#what-is-proved), [departures](#departures),
[abstractions](#abstractions-and-bounds), [what is not modelled](#what-is-not-modelled),
[plan](#plan).

## The system

| Component | State | Operations | Talks to | What is hard |
|---|---|---|---|---|
| Ingestion pipeline (`vektra-ingest/pipeline.py`) | rows of `source_documents`, points in the store | `run_ingest` | DB (a session per step), vector store, progress callback | six separate transactions around one store call; two uploads of one name or content; clean-up after failure |
| Deletion and retention (`vektra-index/api.py`, `vektra-ingest/api.py`, `jobs.py`) | the same | `DELETE /documents/{id}`, batch delete, nightly purge | DB, vector store | two stores without a common transaction, in different orders; foreign keys |
| Ingest API and jobs (`vektra-ingest/api.py`, `jobs.py`) | rows of `ingest_jobs`, background tasks | upload, batch, poll, phase updates | pipeline, DB | updates that get lost, tasks that die with the process |
| Reindex (`vektra-index/reindex.py`) | rows of `reindex_jobs`, points per index version | trigger, background copy, delete version | vector store, registry, documents | a copy that runs for hours beside ingests, deletes, other jobs, restarts |
| Chunking (`vektra-ingest/chunking.py`) | locals of a generator | split | pipeline | window loops with overlap, decode failures, ids made of positions |
| Vector stores (`vektra-index/providers`) | points, Qdrant collections and alias | store, delete, search, list, retrieve, ensure_collection | – | pgvector joins live rows and is transactional, Qdrant neither; the rank fusion of two lists |
| Conversation stores (`vektra-core/conversation.py`) | `conversations`, `conversation_turns`; or a dict | add_turn, get_history, soft_delete, clear, ensure | DB row locks | numbering and pruning under concurrent turns |
| Query pipelines (`vektra-core/pipeline.py`, `advanced_pipeline.py`, `api.py`) | locals of a request; the conversation | execute, stream | safeguard, embedding, store, reranker, model, conversation store | every call may fail; two pipelines and two modes promise the same |
| Token budget (`vektra-core/budget.py`) | none | allocate | query pipelines | boundaries of a greedy choice |
| API keys and bootstrap (`vektra-admin`: `keystore.py`, `bootstrap.py`, `auth.py`, `api.py`, `ui.py`) | `api_keys`, `system_state`, an in-memory copy, audit tasks | create, revoke, lookup, load | auth dependency of every route | the copy is changed after the commit; several requests bring the bootstrap key |
| Namespace configuration (`vektra-admin/api.py`, `vektra-shared/namespace_config.py`) | one JSONB column per namespace | create, PATCH, GET, delete, resolve | query routes | read-modify-write across awaits; readers in sessions of their own |
| Courses (`vektra-learn`) | `enrollments`, tokens, conversations | enrol, unenrol, token, query, show turns | namespaces, query pipeline, conversations | enrolment creates a namespace; two ways to find a student's namespace |
| Application (`vektra-app/main.py`) | provider registry, clients, the Qdrant collection | eleven start steps, serve, stop | everything | one provider reached by four ways; replicas that start together; clean-up after failures |
| Rate limiter, quotas | windows per key | check | nothing calls them | – |
| Analytics, traces, feedback, admin pages, audit | own tables | inserts, aggregates, pages | – | little depends on order |

How they meet: an upload runs the pipeline, directly or as a job; the pipeline,
the delete handlers, retention and reindex share document rows and points; a
query reads points and a conversation and adds a turn; a restart ends all tasks
and keeps all rows.

What makes each part correct:

* documents: one live row per name and per content, a version history without
  gaps, searches that never mix versions, a failed ingest that leaves nothing and
  gives the old version back, retention that never drops a live row or leaves
  content behind, a name that is served again after every replacement;
* jobs: a row that never contradicts what happened, final states that are final,
  phases in order, every accepted job ends;
* conversations: exactly the last turns, no turn lost to a numbering clash,
  nothing stored in a deleted conversation;
* reindex: completed means copied, the served version is never touched, deleted
  documents do not come back, jobs end;
* chunks: no text lost, no passage cut that the overlap should keep whole, no chunk
  inside another, parents that enclose their children, a fused answer that never
  inverts what both lists agree on;
* keys: a revoked or expired key opens nothing, an issued one works across restarts,
  one key per bootstrap secret, an audit log that neither lies nor forgets;
* courses: queries see the settings that GET shows, a PATCH keeps what it does not
  name, a namespace appears for a reason, an answered turn is in its conversation;
* application: what serves is what was configured, by every way to it, and is closed
  again; what starts with a sound configuration serves;
* queries: a refusal is final, strict answers have context, prompts fit, nothing
  stands in a prompt twice, conversations remember what was shown.

## Modules

| Module | Models | Composition |
|---|---|---|
| `DocumentLifecycle` | `run_ingest`, both DELETE handlers, `cleanup_soft_deleted_task` over rows and points | shown to implement `AtomicLibrary` |
| `AtomicLibrary` | what BR-003 promises: the content of a name changes in one step | abstract |
| `IngestJobs` | requests, job rows, background tasks, progress | stands on the outcome of `run_ingest` |
| `PersistentStore` | `PersistentConversationStore` under Postgres row locks | shown to implement `ConversationLog` |
| `ConversationLog` | `InMemoryConversationStore`; also the promise of either store | used by `QueryPipeline` |
| `Reindex` | reindex jobs beside ingests, deletes, cleanups, switches and restarts | – |
| `TokenBudget` | `allocate_token_budget` | used by `QueryPipeline` |
| `QueryPipeline` | the query route, both pipelines, answer and stream | `INSTANCE ConversationLog`, `EXTENDS TokenBudget` |
| `Chunking` | both chunkers and the stored ids of `run_ingest` step 5 | – |
| `HybridSearch` | dense, sparse and fused search of pgvector over what `Chunking` stored | `EXTENDS Chunking` |
| `KeyStore` | keys, their in-memory copy, the bootstrap key, audit tasks | – |
| `CourseAccess` | enrolment, tokens, course queries and turns, beside namespace creation, configuration and deletion | joins `vektra-learn` and `vektra-admin` |
| `Startup` | start, wiring, Qdrant collection, stop of replicas | – |
| `DocumentLifecycleProofs`, `PersistentStoreProofs`, `ReindexProofs`, `KeyStoreProofs`, `QueryPipelineProofs`, `CourseAccessProofs`, `StartupProofs` | theorems | each extends its module |
| `IngestProofs` | theorems about chunks and jobs | `EXTENDS HybridSearch, IngestJobs` |
| `MC*` | constants and symmetry for TLC | – |

### DocumentLifecycle

`status`, `doc`, `reason`, `aliases` and `expired` are the columns of
`source_documents` (a row is absent, live, deleted, or purged); `chunks` is the
set of documents with points.  `pc`/`loc` are the control and locals of each
`run_ingest` call, one action per await that commits or calls the store:
`LookupHash` (step 1), `AddAlias`, `LookupName`, `Supersede`, `Insert` or
`InsertConflict` on the partial unique indexes, `StoreOk`/`ProcessFail`/
`StoreFailDirty`, then `Finalize`, `SetCount`, or `Cleanup` and `Restore`.
`DetectFail`, `Unwind` are the early failures.  `DeleteChunks`, `DeleteMark` are
`DELETE /documents/{id}` (points first, row second); `BatchSelect`, `BatchMark`,
`BatchChunks` the batch (rows first).  `PurgeSelect`, `PurgeChunks`, `PurgeRows`
are the nightly job, whose single `DELETE` fails as a whole when a surviving row
refers to one of its rows (`PurgeBlocked`).  `AppCrash`, `WorkerCrash` lose the
control state and keep the rows.  `Searchable` is the difference between the
stores: pgvector joins live rows.

### IngestJobs

`job` is the row, `req` and `queue` the handler and its background tasks, `pc`
and `got` what `ingest_document_task` is doing and has from `run_ingest`.  A
lost status update is the same action with the row unchanged, because the code
swallows the exception.  `Delete` stands for every way a document becomes
soft-deleted (user or superseding), `Purge` for retention, which the foreign key
of job rows restrains.

### PersistentStore and ConversationLog

`row`, `count`, `turns` are the two tables; `holder` is the row lock taken by
`SELECT ... FOR UPDATE`.  `Lock`, `NotFound`, `Write`, `Abort` are `add_turn`'s
statements; `Write` is one step because nothing it writes shows before its
commit.  `History` is `get_history`, and mapping `log` to it gives the refinement
to the in-memory store (`ImplementsLog`): a soft-deleted conversation maps
to an empty log, a dropped turn or an aborted call to a stutter.

### Reindex

`points` holds (document, id seed, version); the seed is what `_target_chunk_id`
hashes.  `Count`, `Snapshot`, `List`, `Store`, `Progress`, `Finish`, `Raise` are
the statements of `run_reindex`, `Trigger` the route with its conflict check,
`DeleteVersion` the cleanup route, `Restart` and `Switch` the operator.  Documents
are ingested (`IngestRow`, `IngestStore`) and deleted (`Delete`, `Drop`, `Mark`)
meanwhile.  `base` is a history variable: the documents a job owes.

### QueryPipeline

Each query has a `pc` and a record of locals, named after the code's.  The simple
and the advanced pipeline share the actions and differ by `config.advanced` in
where they read the history, in expansion and in the flags of a declined query;
streams differ in the model phase, in what is stored and in how events leave.
Every action that calls something may take the branch the code takes when the
call raises.  `Orders`, `fair`, `good` are all a result list is: an order of the
chunks, how many of the top results reach the rescue floor and how many the
threshold.  `Filtered`, `Distinct`, `Leaders` and `Admitted` are the filter, the
deduplication, the sibling collapse and the greedy budget as operators.
`Earlier` is a set of queries answered before the run starts: their turns are the
history, so that one query in flight already meets a full conversation.

### Chunking and HybridSearch

Tokens are numbered in reading order and a chunk is an interval of them, because
what can go wrong is in the bounds.  `ReadText`, `ReadTable`, `ReadMarker`,
`EndOfElements` are the loop over elements; `EmitParent`, `EmitWindow`,
`EndOfWindows` the two window loops, one iteration per action; `ParentFails`,
`WindowFails` the decodes that raise and are skipped.  `Store` gives rows the ids
the pipeline makes of positions.  `HybridSearch` searches the rows: `SearchDense`
and `SearchSparse` return any order the similarity could give, `Fused` is the
reciprocal rank fusion.  `Ahead` is the order of its stable sort: scores compared with
fractions cleared (`Better`), ties in the order `all_chunks` was filled; the n-th of
the answer has n - 1 ahead of it.  Scores are exact here and floats in the code: with
ranks up to 101 two scores that differ do so by more than 1e-10, so rounding can only
order rows that tie exactly, on which `AnswerIsFair` says nothing.

### KeyStore

A request's `pc` is between two awaits: `Verify` is the auth dependency,
`LockBootstrap` the `SELECT ... FOR UPDATE` of `system_state`, `Write` the insert
and commit, `AddKey` the refresh and the copy, `Select`, `Revoke`, `Uncache` the
revocation.  `Invalid` and `Fail` are refusals and database failures at each place,
`RevokeExternally` an edit of the table by hand, `Crash` and `Start` a restart with
`load_keys`.  `WriteAudit` and `LoseAudit` are the tasks that run after the answer,
one per writer (the handler's event and the middleware's entry).  `issued`,
`unnoticed` and `lost` are history variables that only properties read.

### CourseAccess

`config` is the JSONB column per namespace, `maker` the transaction that has
inserted a row and not committed, which others wait for (`Insertable`).  A slot is
a handler with several sessions: `BeginPatch`/`Patch`, `BeginDelete`/`Drop`,
`BeginEnroll`/`Enroll`/`RefuseEnroll`, the course query `BeginQuery`, `Lookup`,
`Ensure`, three `Resolve`s, `Run`, and the display `BeginTurns`, `Metadata`,
`Turns`.  `raced` and `shaky` are history flags of a slot: somebody else wrote the
row it read, a call that the code lets fail failed.

### Startup

One action per step of `_run_startup`, cut where it waits for a server, in order:
`Migrate`, `Configure`, the checks, `RegisterEmbedding`, `RegisterStores`,
`LoadKeys`, `RegisterPipeline`, `CheckRegistration`, `WarmUp`, `Validate`, the four
of `ensure_collection`, `Serve`; then `Stop`, `CloseEmbedding`, `CloseReranker`,
`DisposeEngine`.  A failing step is a structured exit (`Abort`) or an uncaught
exception (`Crash`).  `registry` maps (category, name) to a provider as
`ProviderRegistry` does, `wired` is what the pipeline got by argument.

## Runs

Each fault class that is off in a run is named in its `Faults`, and the departures
below say what happens when it is on.

| Run | Configuration | Checks | Bounds and why they are enough |
|---|---|---|---|
| `doc_concurrent` | `DocConcurrent` | `LiveUnique`, `VersionChain`, `OneVersionAnswers` | two overlapping ingests of one name, an administrator, three rows, two contents, DB and store failures, pgvector: two writers race on every pair of steps, and a third row lets a restore meet a newer version |
| `doc_retention` | `DocRetention` | `PurgedLeavesNothing`, `NeverPurgeLive` | Qdrant, one ingest, one administrator, crashes of both processes, store failures: every order of a purge and a restore, delete or replacement of its rows |
| `doc_serial` | `DocSerial` | `VersionHasNewContent`, `AtomicIngest`, `SupersededIsAnswered` | one ingest at a time, three names, processing may fail: what sequential ingestion guarantees, with refinement and liveness |
| `conversation` | `PersistentStore` | `Window`, `ImplementsLog` | three callers, two turns kept; up to six are added, so pruning happens several times |
| `jobs` | `Jobs` | `RowIsHonest`, `TerminalFinal`, `EveryJobEnds` | two requests, three jobs (two behind each other in one request), one document, lost updates, raising handlers, restarts |
| `reindex` | `Reindex` | `CompletedCovers`, `DeletedStaysSilent`, `NoEmptySuccess`, `ServingUntouched` | two jobs, two documents, three versions (served, target, a second target or the previous one), cleanups, switches, restarts, failing stores, pgvector |
| `query` | `Query` | `RefusedIsSilent`, `StrictIsGrounded`, `WithinBudget`, `NothingTwice`, `RememberedWasShown` | one query after two others, three chunks with siblings and a near-duplicate, four deployments: a window without room, one that fits chunks but not parents, with and without rescue, deduplication, fallback, expansion |
| `chunks` | `HybridSearch` | `TextIsWhole`, `ChunksInPlace`, `NoChunkInAnother`, `ChunkingEnds`, `AnswerIsFair` | up to three elements of up to five tokens, sizes 2 and 3, overlaps 0 to 2 (a refused one included): sections of one to three windows, tails shorter than the overlap; top_k 1 and 2 below and at the cap |
| `key_store` | `KeyStore` | `RevokedIsRejected`, `IssuedWorks`, `BootstrapOnce`, `AuditIsTrue`, `NoAuditForgotten` | three requests: two may bring the bootstrap key while a third revokes what the first made; expiry, failures, edits by hand, restarts |
| `course` | `CourseAccess` | `QueriesSeeResolved`, `TurnIsKept`, `NamespaceHasReason`, `PatchKeepsOthers` | two handlers at a time, two namespaces, one student, one token, one conversation, three patches of two settings, database failures: every pair of handlers overlaps in every way |
| `startup` | `Startup` | `ServesConfigured`, `EnsuredIsThere`, `AllClosed`, `SoundServes` | two replicas, two starts each, eight configurations (three sound ones, five that must not serve), two vector sizes, every server failing, kills: two race for the collection, later starts meet what they left |
| `jobs_block_purge` | `JobsBlockPurge` | `DeletedIsPurged` is violated | see departures |

Further configurations that pass: `QueryConcurrent` (`RememberedWasShown` with two
queries of one conversation in flight, which `RememberedIsShown` below proves for
any number) and `ReindexEnds` (`EveryJobEnds` with Qdrant, store failures and no
restart).

Bounds inside the modules: a document, job, query, request or key id is used once,
so the length of a run is bounded by their number; `MaxCount` bounds the calls of
`add_turn`, `MaxTokens` the tokens of a stream or element, `MaxLaunches` the starts
of a replica, `MaxSearched` the rows of a document that is searched.  Ids are
interchangeable, so symmetry is used in runs that check no liveness.  Deadlock is
not checked where the system may stop: when every id is used up, nothing has to
happen any more.

Fairness, and why the code has it:

* `WF` on the steps of an ingest, of a background task, of a handler and of the
  audit tasks: the asyncio loop resumes a coroutine whose await has completed, and
  each awaited call returns, raises or times out;
* `WF` on the purge: arq runs the job every night;
* `WF` on the steps of a reindex job, in `ReindexEnds`, where no restart ends it;
* `WF` on chunking: a loop that nothing awaits;
* `WF` on the steps of a start and of a stop, for each replica: straight-line code
  whose calls return or raise.  `SoundServes` excuses a process that was killed or
  whose database or model failed;
* none on uploads, deletes, cleanups, switches, crashes, clients, administrators or
  what a stream receives from the model (no time-out guards it, `pipeline.py:923`).

`EveryJobEnds` of `IngestJobs` excuses what the code gives up: jobs of a request
that raised or of a process that is gone, and a task that ended when its last
update was refused by the database.  The runs `conversation`, `reindex`, `query`,
`key_store` and `course` check safety only.

Every property of a passing run can be broken by a plausible mistake: next to the
definition it changes stands a variant with the mistake in it ("Mutant of ..." where
the comment names it), and with the variant in its place TLC finds the property
violated.

## What is proved

TLAPS proves these for every value of the constants (any number of documents,
tasks, callers, queries, chunks, versions), from the assumptions named in the
modules.  They say what the code and its configuration guarantee: `None` is not a
value, constants lie in their sets, `MaxTurns >= 1`, `Docs` and `Chunks` are finite
where they are counted.  Three are worth naming: token counts are natural numbers
and the share of the chunks is a percentage (`BudgetAssumption`); somebody is there
to enrol and to converse (`PeopleAssumption`, without which a slot of `CourseAccess`
would have no value to hold); no store is called "default", which the registry would
take for its alias (`Startup`).

| Theorem | Says |
|---|---|
| `DocumentLifecycleProofs!Invariant` | `IInv` |
| `TypeCorrect`, `LiveRowsUnique`, `HistoryKept`, `PurgeIsComplete`, `PgvectorAnswersOnce` | types, `LiveUnique`, `VersionChain`, `PurgedLeavesNothing`, and `OneVersionAnswers` for pgvector |
| `PurgeIsSafe` | `NeverPurgeLive`, an action property |
| `VersionsDiffer` | `VersionHasNewContent` when ingests run one at a time (`OneAtATime`), beside any deletes, purges, crashes and faults |
| `IngestIsAtomic` | `AtomicIngest`: one ingest at a time, whose store calls may fail, implements `AtomicLibrary` |
| `PersistentStoreProofs!Invariant`, `WindowKept`, `CountLocked`, `StoredTurnsPersist` | `IInv`, `Window`, `CountIsCurrent`, `TurnsPersist` |
| `StoreImplementsLog` | `ImplementsLog`: the Postgres store implements `ConversationLog` |
| `IngestProofs!Invariant`, `PhaseShown`, `HonestRows`, `FinalStatus` | `IInv` of jobs, `PhaseOnlyWhileProcessing`, `RowIsHonest`, `TerminalFinal` |
| `IngestProofs!TextIsKept`, `ParentsEnclose`, `ChunksDoNotNest` | `TextIsWhole`, `ChunksInPlace`, `NoChunkInAnother`, for documents of any length |
| `IngestProofs!AnswersAreFair` | `AnswerIsFair`, for any `top_k`, cap and constant of the fusion |
| `ReindexProofs!Invariant`, `CopyIsComplete`, `ServedVersionUntouched` | `IInv`, `CompletedCovers`, `ServingUntouched` |
| `SuccessHasCopies`, `DeletedForGood` | `NoEmptySuccess`; `DeletedStaysSilent` for pgvector |
| `KeyStoreProofs!RevokedRejected`, `IssuedAccepted`, `BootstrapUsedOnce`, `AuditHonest`, `AuditKept`, `LockReleased` | the five properties of run `key_store`, and `LockComesFree` |
| `QueryPipelineProofs!RefusalIsFinal`, `RememberedIsShown` | `RefusedIsSilent`, `RememberedWasShown`, for any number of queries in flight |
| `PromptsAreSound`, `StrictNeedsGrounds`, `PromptsFitWindow`, `PromptsRepeatNothing` | `AllSound`, and from it `StrictIsGrounded`, `WithinBudget`, `NothingTwice` |
| `CourseAccessProofs!TypeCorrect`, `ResolvedIsSeen`, `TurnsAreKept`, `NamespacesHaveReasons`, `PatchesKeepOthers` | `TypeOK` and the four properties of run `course` |
| `StartupProofs!ServedAsConfigured`, `CollectionIsThere`, `ShutdownCloses`, `TypeCorrect` | `ServesConfigured`, `EnsuredIsThere`, `AllClosed`, `TypeOK` |

The arguments:

* *Documents.* `LiveUnique` rests on the guard of the unique indexes and is
  inductive on its own.  `VersionChain` is not: `Insert` writes a version computed
  several transactions earlier, so `TaskOK` adds that an ingest in flight refers
  to a row that still exists, is not expired and has the version below.  That in
  turn needs `ExpiredAreDeleted` and `PurgeOK` (what the purge holds is expired,
  and what it is about to drop has no points), which also give `NeverPurgeLive`
  and `PurgedLeavesNothing`.  The abstraction it rests on is that the retention
  period is longer than a request: `Expire` does not touch rows an ingest in
  flight works on.
* *One ingest at a time.* With two of them neither result holds (`DocSameContent`
  shows one), so the theorems assume `OneAtATime`.  `Fresh` says that what the
  lookups saw is still so: nobody else makes a row live, so the content is not live
  and the row to be replaced has another one.  For the refinement `Place` says where
  the ingest stands: every other live row is indexed, and what it hides can come
  back.  `Shelf` is the content a reader of a name would get, or got until the ingest
  hid it; `StoreOk` is the step that publishes, `Restore` and `Cleanup` leave every
  shelf as it is, and the purge touches only rows on no shelf.  No administrator
  works beside it: a DELETE of the row being replaced would empty the shelf first.
* *Conversations.* `HoldersOK` ties the lock to the one call about to write, so
  no other step changes the count it read; `Window` then follows from `Pruned`.
  For the refinement, the positions of the rows are an interval (`Window`), so
  ordering them by position is unique (`OrderOfInterval`): a write appends at the
  end and prunes at the front.  `Bare` adds that a row that is absent has no turns.
* *Chunks.* `ChunkInv` has five parts.  `InOrder`: what is left is an unbroken line of
  runs and tables from where the text has been split (`Reached`) to its end.
  `ChunksRise`: chunks lie before that place and the leaves among them rise at both
  ends, which is why none lies in another; the start of a parent determines it,
  which is why its position is the one that is stored.  `WindowNext`: every leaf ends
  before the next window would, because a window that reaches the end is the last.
  `NothingLost`: what the windows have passed is whole in a chunk or in a failure; a
  window at `child` holds each stretch of overlap + 1 tokens that starts before
  `child + Step`.  `TablesSeparate` is inductive with these.  A search changes
  nothing of it (`SearchLeavesChunks`).
* *Jobs.* `NeverAhead` and `OutcomeKnown` relate the row to the task: a row can
  only be terminal when its task has ended, and what it then says is `got`.
* *Reindex.* `CopyInProgress` says for each document owed that it is either
  still readable at the source or already at the target; `TargetIdle` (no job
  writes the served version) keeps the source; `SeedIsVersion` shows which points
  a write can collide with.  `Filled` gives `NoEmptySuccess`: `Finish` looks at
  what was stored, and a job that has ended never moves again.  With pgvector `DeletedStaysSilent` needs none of
  it: the join asks for a live row, and no step makes a row live again.
* *Keys.* `EntryTells` says of each cache entry which row it may differ from and
  whose fault that is; to keep it, `LabelsTell` says what a request at each label
  knows of its key, and `CreatorHoldsLock` that a request about to create with the
  bootstrap key holds the row's lock, so that two never pass the check together.
* *Queries.* `Silent` and `Sent` bind the label of a query to its locals (a refusal
  only at the last labels, no prompt before it is built, a turn stored only when the
  client has all that was made).  A step changes one query: `Local` is what it
  promises of itself, `Alone` that it leaves the others.  `LogTells` and
  `HistoryTells` then say that every turn in a conversation, in a history read
  earlier and in a prompt belongs to a query that stored it there; they survive
  because what was stored stays true (`Told`) and the log only grows at its end and
  shrinks at its front (`RecentIsTail`, `StoresAppends`).
* *Prompts.* `Sound` says what a query at each label has found: chunks whose words
  are `Apart`, and once the prompt is built, that it `Fits`.  `Distinct` and
  `Admitted` are recursive functions; what they return is shown by induction along
  the rank of the chunks, which the prover gets from well-foundedness (a least
  number, a smallest finite set without the property) since it cannot instantiate
  the library's induction theorems.
* *Searches.* `SearchInv` adds to `ChunkInv` that only a stored document is searched
  and that the dense list waiting for the sparse one is a list of its rows.  `Ahead`
  is a strict total order of what the two lists hold (`AheadOrders`): scores are
  fractions, whose comparison is transitive (`CrossTransitive`), and no two rows are
  filled at one place.  Counting who is ahead then numbers the rows without a gap
  (`Numbering`, by the pigeonhole principle), so every place of the answer is taken
  once (`FusedSorts`), and lower ranks in both lists are a higher score
  (`LowerIsBetter`).  Since a list is never longer than `FetchK` and `FetchK` never
  less than top_k, the default rank comes after every rank and the answer is full.
* *Courses.* `Knows` says of a handler between two awaits what of its reading still
  stands: the row a PATCH has loaded is the row in the table, a setting a query has
  resolved is the one GET would show, unless another handler wrote the row meanwhile
  (`raced`) or a call that may fail did (`shaky`).  A step of another handler writes
  a row only by making those who read it `raced` (`Spared`).
* *Start.* `LabelTells` says per label which keys of the registry exist and what
  they hold; the checks of steps 7 to 10 turn it into `ServesConfigured`.
  `ClosesAll` keeps, label by label of the teardown, which clients are still open.

Only model-checked:

* liveness (`SupersededIsAnswered`, `EveryJobEnds`, `SoundServes`, `ChunkingEnds`):
  the prover reaches neither fairness nor ENABLED;
* `DeletedStaysSilent` is proved for pgvector, the store that run `reindex` has; with
  Qdrant it is false (`ReindexDelete`).  The same holds for `OneVersionAnswers`.

## Departures

One run shows the code departing from what the repository says:

* `jobs_block_purge` (`DeletedIsPurged`): no code removes job rows and
  `ingest_jobs.document_id` is a foreign key, so a document ingested as a job can
  never be purged, and it blocks the purge of others, because all expired rows go
  in one statement (`jobs.py:261`).

The following configurations are kept as reproductions.  TLC finds the named
property violated; each is outside what the passing runs claim.

| Configuration | Property | What happens |
|---|---|---|
| `DocSameContent` | `VersionHasNewContent` | two concurrent uploads of one file miss the hash lookup, the second becomes version 2 of the same content |
| `DocCrash` | `NoPartialDocument` | the process dies between the insert and the store: a live document without points |
| `DocReplacedLost` | `SupersededIsAnswered` | a failed ingest cannot restore what it superseded because the name or content was taken meanwhile |
| `DocUserDelete` | `UserDeleteIsFinal` | a batch delete marks a row that a failing ingest restores |
| `DocPurgeBlocked` | `ExpiredIsPurged` | an expired row that a surviving successor refers to blocks every purge |
| `DocQdrantSearch` | `DeletedNotSearchable` | with Qdrant a superseded document answers until its points are dropped |
| `DocQdrantDelete` | `UserDeletedIsSilent` | DELETE removes points before an ingest in flight stores them; they keep answering |
| `DocQdrantTimeout` | `FailedLeavesNoArtifacts` | an upsert that was applied and timed out, then a failing clean-up |
| `ReindexRerun` | `RerunCompletes` | with pgvector the deterministic ids that should make a reindex idempotent (`reindex.py:174`) clash with the primary key: run again over the same version it fails until that version is deleted |
| `ReindexSwitch` | `SwitchLosesNothing` | a document indexed while a reindex runs is not at the target after the switch |
| `ReindexDelete` | `DeletedStaysSilent` | with Qdrant a reindex writes back what was deleted since it read it |
| `QueryContextOnly` | `ContextOnlyHasSources` | the budget drops every chunk and the models fail: a context-only answer without sources |
| `CourseTurns` | `OwnTurnsShown` | a token without a namespace claim: the query uses the enrolment's namespace, the display the course's, and refuses the conversation the query made |
| `KeyStoreExternal` | `RevocationIsNoticed` | a key revoked in the table is accepted until a restart: the 60 s fallback of `keystore.py:4` does not exist |
| `StartupTraceback` | `FatalIsStructured` | an exception in step 4 or 5 ends the process with a traceback, not the structured message of ARCH-057 (`.s2s/architecture.md:479`) |
| `StartupMismatch` | `MismatchFailsFast` | a collection of another vector size raises (`qdrant.py:120` says it fails fast), and step 11 logs it as a warning and serves |

Seen in the code while modelling, and part of the models without a configuration of
their own:

* documents: an upload of known content writes the whole alias list back, so two at
  once lose one; an ingest can supersede a row whose own ingest then fails, and
  restore it;
* keys: a revocation that overtakes the creation's `add_key` leaves the key in the
  copy (`unnoticed`); a bootstrap request that fails at the refresh has consumed the
  secret and shown no key; two revocations at once both answer 204; answers of 500
  are not audited;
* courses: a query that reads its settings while a PATCH commits gets a mixture
  (`raced`); `get_turns_detail` does not look at `deleted_at`; a conversation whose
  creation fails is logged and the turn is lost (`shaky`);
* chunking: children of neighbouring parents share no overlap, though
  `chunking.py:131` says that they do; the fusion's default rank is `fetch_k + 1`
  where the docstring says `top_k + 1`;
* start: the replica that loses the race for the collection does not compare its
  vector size; Qdrant and webhook clients are never closed, and a failed start
  closes nothing; an unknown embedding provider silently becomes the local one, an
  unknown pipeline the simple one.

## Abstractions and bounds

* File contents are hashes, names and ids model values, texts the sets of chunks
  they hold; in `Chunking` tokens are numbers.  Embedding, scoring and rendering do
  not appear.
* A document's points are stored, listed and dropped together.  In the code they
  go in one call per document; Qdrant applies an upsert batch by batch, and a
  partly applied one is `StoreFailDirty`.
* Transactions are READ COMMITTED; a step is one transaction or one store call.
* `IngestJobs` reduces `run_ingest` to its callbacks and outcome.  The arq branch
  of the API is left out: nothing registers `arq_pool`, every job is a background
  task of the process that accepted it.
* A reindex switch happens after a job that copied all it counted, which is the
  procedure the documentation gives.
* Turns of a conversation cost the same in the budget; `TurnCost` is one number.
* Faults: `db` (a transaction fails), `store` (a store call fails, applied or not),
  `crash` or `kill` (a process stops), `request` (a handler raises midway), `external`
  (the table is edited by hand), and in `Startup` the name of each server, or `close`
  (an `aclose` raises).
* Two replicas share the database and Qdrant in `Startup` only; the other modules
  model the one process that `main` starts.
* `CourseAccess` keeps of a conversation its namespace, its owner and whether a turn
  is in it; what `add_turn` does is `PersistentStore`'s.

## What is not modelled

* The rate limiter and quotas: nothing puts a `rate_limiter` into `app.state`, no
  handler sets `rate_limit_rpm`, and `check_namespace_quota` is called by nothing, so
  the running system has no such behaviour.
* Extractors and MIME detection: functions of bytes around third-party parsers; the
  pipeline sees that they succeed, yield nothing or raise.
* Embedding, reranking and model adapters: stateless calls whose outcomes are
  nondeterminism here.  The bundled safeguard rules and prompt templates are regular
  expressions and text.
* Scores, metadata filters and the sparse encoder; Qdrant's own fusion, which runs in
  its server.
* Traces, feedback, analytics, statistics, direct indexing, health, metrics and the
  admin pages that only show: single inserts, reads and deletes by age, in which no
  step depends on another.
* Row-level security (a setting of the database session) and the other middleware.
* The arq branch of uploads: nothing registers `arq_pool`.
* Shared protocols, errors and types, migrations and deployment files, beyond the
  constraints and the order that the models rely on.

## Plan

Done, in this order: documents, conversations, jobs, reindex, queries, and the
invariants of the first four proved; keys with proofs, courses with namespace
configuration, chunking with hybrid search, start-up with proofs, and the proofs
about queries; then proofs of the two refinements, of courses, of prompts, of chunks,
of ingests one at a time, of the rest of reindex, and of the fusion of searches.  Every
safety property that a passing run checks is now a theorem.

Next:

1. A composition of `Reindex` and `DocumentLifecycle` over one set of points.
2. Several application processes on one database: caches of keys per process, and
   rows of jobs whose process is another one.
3. `AtomicIngest` beside administrators, against an abstract library that knows of
   deletion.
4. `FailedLeavesNoArtifacts` and `DeletedNotSearchable` for pgvector as theorems.
