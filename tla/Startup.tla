-------------------------------- MODULE Startup --------------------------------
(***************************************************************************)
(* The start, the wiring and the stop of application processes             *)
(* (vektra-app/main.py): the eleven steps of ARCH-057, the provider        *)
(* registry they fill, the Qdrant collection that replicas starting        *)
(* together look for and create, and the teardown after serving.           *)
(*                                                                         *)
(* A configuration is a record: what the environment variables say, and    *)
(* whether they and the prompt templates are valid.  An action is the      *)
(* code between two awaits on a server that other replicas use too; the    *)
(* registration (step 5) is cut where it calls out.                        *)
(***************************************************************************)
EXTENDS Naturals, FiniteSets

CONSTANTS
    Replicas,
    Configs,      \* the configurations a process may be started with
    Dims,         \* the vector size of each embedding provider
    None,
    MaxLaunches,  \* starts of a replica (bound)
    Faults        \* the servers that may fail, and "kill", "close"

ASSUME FaultsAssumption ==
    Faults \subseteq {"db", "embedding", "qdrant", "reranker", "close", "kill"}

\* A store called "default" would be taken for the registry's alias, and served
\* by pgvector.
ASSUME ConfigsAssumption ==
    /\ Configs \subseteq
         [valid : BOOLEAN, extra : BOOLEAN, templates : BOOLEAN, store : STRING,
          embedding : STRING, sparse : BOOLEAN, rerank : BOOLEAN,
          pipeline : STRING, secret : {"none", "short", "long"}]
    /\ \A c \in Configs : c.store # "default"

\* What is closed at the end, if it was opened.
Clients == {"engine", "tei", "qdrant", "reranker"}
ASSUME NoneAssumption == None \notin Clients
ASSUME BoundAssumption == MaxLaunches \in Nat

VARIABLES
    pc,         \* what each replica does next
    cfg,        \* its configuration
    registry,   \* ProviderRegistry._store: (category, name) to provider
    wired,      \* the providers that were handed to the query pipeline
    open,       \* clients and engine it has not closed
    unclosed,   \* clients whose aclose raised
    collection, \* the vector size of the Qdrant collection, or None
    ensured,    \* how ensure_collection ended
    cause,      \* why the process ended
    launches    \* starts so far

vars == <<pc, cfg, registry, wired, open, unclosed, collection, ensured,
          cause, launches>>
process == <<cfg, launches>>
providers == <<registry, wired>>

Keys == {<<"llm", "default">>, <<"embedding", "default">>,
         <<"vector_store", "default">>, <<"vector_store", "pgvector">>,
         <<"vector_store", "qdrant">>, <<"sparse_embedding", "default">>,
         <<"sparse_embedding", "fastembed-bm25">>, <<"reranker", "default">>,
         <<"query_pipeline", "default">>, <<"analytics", "default">>,
         <<"learn", "default">>, <<"health", "vector_store">>,
         <<"health", "embedding">>}
Nothing == [k \in {} |-> None]
Unwired == [embedding |-> None, store |-> None, sparse |-> None, reranker |-> None]

Running == <<"none", "none">>

Init ==
    /\ pc = [r \in Replicas |-> "off"]
    /\ cfg = [r \in Replicas |-> None]
    /\ registry = [r \in Replicas |-> Nothing]
    /\ wired = [r \in Replicas |-> Unwired]
    /\ open = [r \in Replicas |-> {}]
    /\ unclosed = [r \in Replicas |-> {}]
    /\ collection = None
    /\ ensured = [r \in Replicas |-> "no"]
    /\ cause = [r \in Replicas |-> Running]
    /\ launches = [r \in Replicas |-> 0]

-----------------------------------------------------------------------------
(* Helpers *)

\* The map g with p under every key of ks, over what was there.
Register(g, ks, p) ==
    [k \in DOMAIN g \cup ks |-> IF k \in ks THEN p ELSE g[k]]

Goto(r, to) == pc' = [pc EXCEPT ![r] = to]

End(r, how, why) ==
    /\ Goto(r, "exited")
    /\ cause' = [cause EXCEPT ![r] = <<how, why>>]

\* StartupValidationError: a line that names the step, and exit code 1.
Abort(r, why) == End(r, "structured", why)

\* An exception nothing catches: the process ends with a Python traceback.
Crash(r, why) == End(r, "traceback", why)

\* A step that reads a server: it passes, or ends the process.
Step(r, from, to, server, Fails(_, _)) ==
    /\ pc[r] = from
    /\ \/ Goto(r, to) /\ UNCHANGED cause
       \/ server \in Faults /\ Fails(r, server)
    /\ UNCHANGED <<process, providers, open, unclosed, collection, ensured>>

\* Provider names that no branch of the registration knows fall back to local
\* models for embeddings.
ActiveEmbedding(c) == IF c.embedding = "tei" THEN "tei" ELSE "local"

ASSUME DimsAssumption ==
    \A c \in Configs : ActiveEmbedding(c) \in DOMAIN Dims /\ Dims[ActiveEmbedding(c)] # None

\* Mistake: the override of the adapter for pipeline and health is forgotten.
ActiveStoreFirst(c) == "pgvector"

\* The vector store handed to the pipeline and to the health checks.
ActiveStore(c) == IF c.store = "qdrant" THEN "qdrant" ELSE "pgvector"

-----------------------------------------------------------------------------
(* Start *)

\* The container starts or starts again; the entrypoint migrates first.
Launch(r) ==
    /\ pc[r] \in {"off", "exited"} /\ launches[r] < MaxLaunches
    /\ \E c \in Configs : cfg' = [cfg EXCEPT ![r] = c]
    /\ launches' = [launches EXCEPT ![r] = @ + 1]
    /\ registry' = [registry EXCEPT ![r] = Nothing]
    /\ wired' = [wired EXCEPT ![r] = Unwired]
    /\ open' = [open EXCEPT ![r] = {}]
    /\ unclosed' = [unclosed EXCEPT ![r] = {}]
    /\ ensured' = [ensured EXCEPT ![r] = "no"]
    /\ cause' = [cause EXCEPT ![r] = Running]
    /\ Goto(r, "migrate")
    /\ UNCHANGED collection

Migrate(r) == Step(r, "migrate", "configure", "db", Abort)

\* What the validators of VektraSettings find, taken together.
Valid(c) == c.valid

\* Step 1: settings, then the engine.
Configure(r) ==
    /\ pc[r] = "configure"
    /\ IF Valid(cfg[r])
       THEN /\ open' = [open EXCEPT ![r] = {"engine"}]
            /\ Goto(r, "database")
            /\ UNCHANGED cause
       ELSE Abort(r, "config") /\ UNCHANGED open
    /\ UNCHANGED <<process, providers, unclosed, collection, ensured>>

\* Steps 2 to 4.  The query of step 4 stands outside any handler.
CheckDatabase(r) == Step(r, "database", "schema", "db", Abort)
CheckSchema(r) == Step(r, "schema", "pgvector", "db", Abort)
CheckPgvector(r) == Step(r, "pgvector", "embedding", "db", Crash)

\* Step 5: the language model and the embedding provider.
RegisterEmbedding(r) ==
    LET c == cfg[r]
        e == ActiveEmbedding(c)
    IN  /\ pc[r] = "embedding"
        /\ IF c.extra
           THEN /\ registry' = [registry EXCEPT ![r] =
                       Register(Register(@, {<<"llm", "default">>}, "litellm"),
                                {<<"embedding", "default">>}, e)]
                /\ open' = [open EXCEPT ![r] = @ \cup ({e} \cap {"tei"})]
                /\ Goto(r, "stores")
                /\ UNCHANGED cause
           ELSE Crash(r, "config") /\ UNCHANGED <<registry, open>>
        /\ UNCHANGED <<process, wired, unclosed, collection, ensured>>

\* Mistake (BUG-024): the default alias alone.
SparseKeysDefault == {<<"sparse_embedding", "default">>}

\* The aliases of the sparse provider: the callers use "default", the check of
\* the registration the configured name.
SparseKeys == {<<"sparse_embedding", "default">>,
               <<"sparse_embedding", "fastembed-bm25">>}

\* Step 5: the pgvector adapter, the sparse provider, and over them Qdrant,
\* whose collection is sized by asking the embedding provider.
RegisterStores(r) ==
    LET c == cfg[r]
        pg == Register(registry[r], {<<"vector_store", "default">>,
                                     <<"vector_store", "pgvector">>}, "pgvector")
        sp == IF c.sparse THEN Register(pg, SparseKeys, "bm25") ELSE pg
        qd == IF c.store = "qdrant"
              THEN Register(sp, {<<"vector_store", "default">>,
                                 <<"vector_store", "qdrant">>}, "qdrant")
              ELSE sp
    IN  /\ pc[r] = "stores"
        /\ \/ /\ registry' = [registry EXCEPT ![r] = qd]
              /\ open' = [open EXCEPT ![r] = @ \cup ({c.store} \cap {"qdrant"})]
              /\ Goto(r, "keys")
              /\ UNCHANGED cause
           \/ /\ "embedding" \in Faults /\ c.store = "qdrant"
              /\ Crash(r, "embedding")
              /\ UNCHANGED <<registry, open>>
        /\ UNCHANGED <<process, wired, unclosed, collection, ensured>>

\* Step 5: the key store reads its rows.
LoadKeys(r) == Step(r, "keys", "pipeline", "db", Crash)

\* create_reranker gives None when disabled and when anything goes wrong.
Rerankers(c) ==
    IF ~c.rerank THEN {None}
    ELSE {"reranker"} \cup (IF "reranker" \in Faults THEN {None} ELSE {})

\* Step 5: reranker, templates, pipeline, analytics, learn and health.
RegisterPipeline(r) ==
    LET c == cfg[r]
        s == ActiveStore(c)
    IN  /\ pc[r] = "pipeline"
        /\ \E k \in Rerankers(c) :
              LET g == IF k = None THEN registry[r]
                       ELSE Register(registry[r], {<<"reranker", "default">>}, k)
                  h == Register(Register(g, {<<"health", "vector_store">>}, s),
                                {<<"health", "embedding">>}, ActiveEmbedding(c))
                  a == Register(Register(h, {<<"query_pipeline", "default">>},
                                         c.pipeline),
                                {<<"analytics", "default">>}, "analytics")
              IN  IF c.templates
                  THEN /\ registry' = [registry EXCEPT ![r] =
                              IF c.secret = "none" THEN a
                              ELSE Register(a, {<<"learn", "default">>}, "learn")]
                       /\ wired' = [wired EXCEPT ![r] =
                              [embedding |-> ActiveEmbedding(c), store |-> s,
                               sparse |-> IF c.sparse /\ c.pipeline = "advanced"
                                          THEN "bm25" ELSE None,
                               reranker |-> IF c.pipeline = "advanced"
                                            THEN k ELSE None]]
                       /\ open' = [open EXCEPT ![r] = @ \cup ({k} \ {None})]
                       /\ Goto(r, "registered")
                       /\ UNCHANGED cause
                  ELSE /\ Crash(r, "templates")
                       /\ UNCHANGED <<registry, wired, open>>
        /\ UNCHANGED <<process, unclosed, collection, ensured>>

\* Step 5, last: the configured names are there.
Required(c) ==
    {<<"embedding", "default">>, <<"vector_store", c.store>>}
        \cup (IF c.sparse THEN {<<"sparse_embedding", "fastembed-bm25">>} ELSE {})

CheckRegistration(r) ==
    /\ pc[r] = "registered"
    /\ IF Required(cfg[r]) \subseteq DOMAIN registry[r]
       THEN Goto(r, "warmup") /\ UNCHANGED cause
       ELSE Abort(r, "registration")
    /\ UNCHANGED <<process, providers, open, unclosed, collection, ensured>>

\* Step 6: a first embedding, of the size that dimensions() reports.
WarmUp(r) ==
    /\ pc[r] = "warmup"
    /\ \/ Goto(r, "llm") /\ UNCHANGED cause
       \/ "embedding" \in Faults /\ Abort(r, "embedding")
    /\ UNCHANGED <<process, providers, open, unclosed, collection, ensured>>

\* Steps 7 to 10: the model's health is only logged, and an error of the
\* templates would have ended step 5 already.
Validate(r) ==
    LET c == cfg[r]
    IN  /\ pc[r] = "llm"
        /\ IF \/ ~c.templates
              \/ <<"analytics", "default">> \notin DOMAIN registry[r]
              \/ /\ c.secret # "none"
                 /\ \/ <<"learn", "default">> \notin DOMAIN registry[r]
                    \/ c.secret = "short"
           THEN Abort(r, "config")
           ELSE Goto(r, "qdrant") /\ UNCHANGED cause
        /\ UNCHANGED <<process, providers, open, unclosed, collection, ensured>>

-----------------------------------------------------------------------------
(* Step 11 and ensure_collection: whatever goes wrong is a warning. *)

Size(r) == Dims[ActiveEmbedding(cfg[r])]

Warn(r) == Goto(r, "serve") /\ UNCHANGED ensured

Ensured(r, how) ==
    /\ ensured' = [ensured EXCEPT ![r] = how]
    /\ Goto(r, "serve")

ListCollections(r) ==
    /\ pc[r] = "qdrant"
    /\ \/ cfg[r].store # "qdrant" /\ Warn(r)
       \/ cfg[r].store = "qdrant" /\ "qdrant" \in Faults /\ Warn(r)
       \/ /\ cfg[r].store = "qdrant"
          /\ Goto(r, IF collection = None THEN "create" ELSE "compare")
          /\ UNCHANGED ensured
    /\ UNCHANGED <<process, providers, open, unclosed, collection, cause>>

\* The sizes are compared; a ValueError becomes a warning.
CompareSize(r) ==
    /\ pc[r] = "compare"
    /\ \/ collection = Size(r) /\ Ensured(r, "checked")
       \/ collection # Size(r) /\ Warn(r)
       \/ "qdrant" \in Faults /\ Warn(r)
    /\ UNCHANGED <<process, providers, open, unclosed, collection, cause>>

\* Qdrant refuses to create what is there; an answer may be lost either way.
CreateCollection(r) ==
    /\ pc[r] = "create"
    /\ \/ collection = None /\ collection' = Size(r) /\ Ensured(r, "created")
       \/ /\ collection # None \/ "qdrant" \in Faults
          /\ UNCHANGED <<collection, ensured>> /\ Goto(r, "relist")
       \/ /\ collection = None /\ "qdrant" \in Faults
          /\ collection' = Size(r) /\ Goto(r, "relist") /\ UNCHANGED ensured
    /\ UNCHANGED <<process, providers, open, unclosed, cause>>

\* Mistake: it takes the collection for granted.
RelistTrusts(r) ==
    /\ pc[r] = "relist"
    /\ Ensured(r, "raced")
    /\ UNCHANGED <<process, providers, open, unclosed, collection, cause>>

\* The loser of the race, or of the answer, looks whether it is there now.
Relist(r) ==
    /\ pc[r] = "relist"
    /\ \/ collection # None /\ Ensured(r, "raced")
       \/ (collection = None \/ "qdrant" \in Faults) /\ Warn(r)
    /\ UNCHANGED <<process, providers, open, unclosed, collection, cause>>

-----------------------------------------------------------------------------
(* Serving and stopping *)

Serve(r) ==
    /\ pc[r] = "serve"
    /\ Goto(r, "serving")
    /\ UNCHANGED <<process, providers, open, unclosed, collection, ensured, cause>>

Stop(r) ==
    /\ pc[r] = "serving"
    /\ Goto(r, "close embedding")
    /\ UNCHANGED <<process, providers, open, unclosed, collection, ensured, cause>>

\* Mistake: the exception leaves the teardown.
AfterCloseRaises(r, to) == Crash(r, "close")

\* An aclose that raises is logged, and the teardown goes on; a provider that
\* is not registered, or has no aclose, is passed over.
AfterClose(r, to) == Goto(r, to) /\ UNCHANGED cause

CloseProvider(r, from, category, to) ==
    LET p == IF <<category, "default">> \in DOMAIN registry[r]
             THEN registry[r][<<category, "default">>] ELSE None
    IN  /\ pc[r] = from
        /\ \/ /\ open' = [open EXCEPT ![r] = @ \ {p}]
              /\ Goto(r, to)
              /\ UNCHANGED <<unclosed, cause>>
           \/ /\ p \in open[r] /\ "close" \in Faults
              /\ unclosed' = [unclosed EXCEPT ![r] = @ \cup {p}]
              /\ AfterClose(r, to)
              /\ UNCHANGED open
        /\ UNCHANGED <<process, providers, collection, ensured>>

CloseEmbedding(r) == CloseProvider(r, "close embedding", "embedding", "close reranker")
CloseReranker(r) == CloseProvider(r, "close reranker", "reranker", "dispose")

DisposeEngine(r) ==
    /\ pc[r] = "dispose"
    /\ open' = [open EXCEPT ![r] = @ \ {"engine"}]
    /\ End(r, "done", "stop")
    /\ UNCHANGED <<process, providers, unclosed, collection, ensured>>

\* The process is killed, at any moment.
Kill(r) ==
    /\ "kill" \in Faults
    /\ pc[r] \notin {"off", "exited"}
    /\ End(r, "killed", "kill")
    /\ UNCHANGED <<process, providers, open, unclosed, collection, ensured>>

-----------------------------------------------------------------------------
Starting(r) ==
    \/ Migrate(r) \/ Configure(r) \/ CheckDatabase(r) \/ CheckSchema(r)
    \/ CheckPgvector(r) \/ RegisterEmbedding(r) \/ RegisterStores(r)
    \/ LoadKeys(r) \/ RegisterPipeline(r) \/ CheckRegistration(r) \/ WarmUp(r)
    \/ Validate(r) \/ ListCollections(r) \/ CompareSize(r)
    \/ CreateCollection(r) \/ Relist(r) \/ Serve(r)
Stopping(r) ==
    CloseEmbedding(r) \/ CloseReranker(r) \/ DisposeEngine(r)

Next == \E r \in Replicas :
            Launch(r) \/ Starting(r) \/ Stop(r) \/ Stopping(r) \/ Kill(r)

\* Fair is the code that runs; a process need not be launched, stopped or killed.
Spec == Init /\ [][Next]_vars
             /\ \A r \in Replicas : WF_vars(Starting(r)) /\ WF_vars(Stopping(r))

-----------------------------------------------------------------------------
(* Properties *)

\* Reachable values have their types (registry, main.py, config.py).
TypeOK ==
    /\ \A r \in Replicas :
          /\ cfg[r] \in Configs \cup {None}
          /\ DOMAIN registry[r] \subseteq Keys
          /\ open[r] \subseteq Clients
          /\ unclosed[r] \subseteq open[r]
          /\ ensured[r] \in {"no", "checked", "created", "raced"}
          /\ launches[r] \in 0 .. MaxLaunches
    /\ collection = None \/ \E e \in DOMAIN Dims : collection = Dims[e]

Live(r) == pc[r] \in {"serve", "serving"}

\* A replica that serves does so with what it was configured with, and the same
\* by every way to it: the registry's default, the configured name, the
\* pipeline and the health checks (_step_5_register_providers).
ServesConfigured == \A r \in Replicas : Live(r) =>
    LET c == cfg[r]
        g == registry[r]
    IN  /\ c.valid /\ c.extra /\ c.templates
        /\ g[<<"vector_store", "default">>] = c.store
        /\ g[<<"vector_store", c.store>>] = c.store
        /\ g[<<"health", "vector_store">>] = c.store
        /\ wired[r].store = c.store
        /\ g[<<"embedding", "default">>] = wired[r].embedding
        /\ c.sparse /\ c.pipeline = "advanced" =>
              wired[r].sparse = g[<<"sparse_embedding", "default">>]
        /\ (<<"learn", "default">> \in DOMAIN g) = (c.secret = "long")

\* A replica whose ensure_collection returned can rely on the collection, with
\* vectors of its model's size if it created it or compared, whichever replica
\* was first and whichever answer was lost (QdrantVectorStoreProvider).
EnsuredIsThere == \A r \in Replicas :
    /\ ensured[r] # "no" => collection # None
    /\ ensured[r] \in {"checked", "created"} => collection = Size(r)

\* A replica that was stopped after serving has disposed its engine and closed
\* every embedding and reranking client whose aclose did not raise, also after
\* another one's did (_run_shutdown).
AllClosed == \A r \in Replicas :
    pc[r] = "exited" /\ cause[r][1] \notin {"structured", "killed"}
      /\ <<"analytics", "default">> \in DOMAIN registry[r] =>
        open[r] \subseteq unclosed[r] \cup {"qdrant"}

Sound(c) == /\ c.valid /\ c.extra /\ c.templates /\ c.secret # "short"
            /\ c.store \in {"pgvector", "qdrant"}

\* A start with a sound configuration ends in serving unless the process is
\* killed, or the database or the embedding model fails: Qdrant and the
\* reranker do not keep it from serving (_run_startup).
SoundServes == \A r \in Replicas :
    pc[r] = "configure" /\ Sound(cfg[r]) ~>
        pc[r] = "serving" \/ cause[r][2] \in {"db", "embedding", "kill"}

\* .s2s/architecture.md:479 (ARCH-057): a fatal step ends the container with a
\* structured error message.
FatalIsStructured == \A r \in Replicas : cause[r][1] # "traceback"

\* qdrant.py:120: a collection of another vector size fails fast.
MismatchFailsFast == \A r \in Replicas :
    Live(r) /\ cfg[r].store = "qdrant" /\ collection # None => collection = Size(r)

=============================================================================
