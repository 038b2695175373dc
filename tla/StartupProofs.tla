----------------------------- MODULE StartupProofs -----------------------------
(***************************************************************************)
(* The start and the stop for any number of replicas, configurations and   *)
(* launches, whatever server fails and whenever a process is killed.       *)
(***************************************************************************)
EXTENDS Startup, TLAPS

-----------------------------------------------------------------------------
(* Every replica has a value in every variable.                            *)

Shape ==
    /\ pc = [r \in Replicas |-> pc[r]]
    /\ cfg = [r \in Replicas |-> cfg[r]]
    /\ registry = [r \in Replicas |-> registry[r]]
    /\ wired = [r \in Replicas |-> wired[r]]
    /\ open = [r \in Replicas |-> open[r]]
    /\ unclosed = [r \in Replicas |-> unclosed[r]]
    /\ ensured = [r \in Replicas |-> ensured[r]]
    /\ cause = [r \in Replicas |-> cause[r]]

LEMMA ShapeInit == Init => Shape
BY DEF Init, Shape

LEMMA ShapeStep == Shape /\ [Next]_vars => Shape'
<1> SUFFICES ASSUME Shape, [Next]_vars PROVE Shape'
  OBVIOUS
<1> USE DEF Shape, Goto, End, process, providers
<1>1. ASSUME NEW r \in Replicas, Launch(r) PROVE Shape'
  BY <1>1 DEF Launch
<1>2. ASSUME NEW r \in Replicas, Starting(r) PROVE Shape'
  <2> USE DEF Abort, Crash, Step, Ensured, Warn
  <2>1. CASE Migrate(r) \/ CheckDatabase(r) \/ CheckSchema(r) \/ CheckPgvector(r) \/ LoadKeys(r)
    BY <2>1 DEF Migrate, CheckDatabase, CheckSchema, CheckPgvector, LoadKeys
  <2>2. CASE Configure(r)
    BY <2>2 DEF Configure
  <2>3. CASE RegisterEmbedding(r)
    BY <2>3 DEF RegisterEmbedding
  <2>4. CASE RegisterStores(r)
    BY <2>4 DEF RegisterStores
  <2>5. CASE RegisterPipeline(r)
    BY <2>5 DEF RegisterPipeline
  <2>6. CASE CheckRegistration(r) \/ WarmUp(r) \/ Validate(r)
    BY <2>6 DEF CheckRegistration, WarmUp, Validate
  <2>7. CASE ListCollections(r) \/ CompareSize(r) \/ CreateCollection(r) \/ Relist(r) \/ Serve(r)
    BY <2>7 DEF ListCollections, CompareSize, CreateCollection, Relist, Serve
  <2> QED
    BY <1>2, <2>1, <2>2, <2>3, <2>4, <2>5, <2>6, <2>7 DEF Starting
<1>3. ASSUME NEW r \in Replicas, Stop(r) \/ Stopping(r) \/ Kill(r) PROVE Shape'
  BY <1>3 DEF Stop, Stopping, Kill, CloseEmbedding, CloseReranker, CloseProvider,
              DisposeEngine, AfterClose
<1>4. CASE UNCHANGED vars
  BY <1>4 DEF vars
<1> QED
  BY <1>1, <1>2, <1>3, <1>4 DEF Next

-----------------------------------------------------------------------------
(* A replica acts on its own state and on the collection.                  *)

Elsewhere(r) ==
    \A q \in Replicas \ {r} :
      /\ pc'[q] = pc[q] /\ cfg'[q] = cfg[q] /\ registry'[q] = registry[q]
      /\ wired'[q] = wired[q] /\ open'[q] = open[q] /\ unclosed'[q] = unclosed[q]
      /\ ensured'[q] = ensured[q] /\ cause'[q] = cause[q]

LEMMA StepIsLocal ==
    ASSUME Shape, NEW r \in Replicas,
           Launch(r) \/ Starting(r) \/ Stop(r) \/ Stopping(r) \/ Kill(r)
    PROVE  Elsewhere(r)
<1> USE DEF Shape, Goto, End, process, providers, Elsewhere
<1>1. CASE Launch(r)
  BY <1>1 DEF Launch
<1>2. CASE Starting(r)
  <2> USE DEF Abort, Crash, Step, Ensured, Warn
  <2>1. CASE Migrate(r) \/ CheckDatabase(r) \/ CheckSchema(r) \/ CheckPgvector(r) \/ LoadKeys(r)
    BY <2>1 DEF Migrate, CheckDatabase, CheckSchema, CheckPgvector, LoadKeys
  <2>2. CASE Configure(r)
    BY <2>2 DEF Configure
  <2>3. CASE RegisterEmbedding(r)
    BY <2>3 DEF RegisterEmbedding
  <2>4. CASE RegisterStores(r)
    BY <2>4 DEF RegisterStores
  <2>5. CASE RegisterPipeline(r)
    BY <2>5 DEF RegisterPipeline
  <2>6. CASE CheckRegistration(r) \/ WarmUp(r) \/ Validate(r)
    BY <2>6 DEF CheckRegistration, WarmUp, Validate
  <2>7. CASE ListCollections(r) \/ CompareSize(r) \/ CreateCollection(r) \/ Relist(r) \/ Serve(r)
    BY <2>7 DEF ListCollections, CompareSize, CreateCollection, Relist, Serve
  <2> QED
    BY <1>2, <2>1, <2>2, <2>3, <2>4, <2>5, <2>6, <2>7 DEF Starting
<1>3. CASE Stop(r) \/ Stopping(r) \/ Kill(r)
  BY <1>3 DEF Stop, Stopping, Kill, CloseEmbedding, CloseReranker, CloseProvider,
              DisposeEngine, AfterClose
<1> QED
  BY <1>1, <1>2, <1>3

-----------------------------------------------------------------------------
(* What the three parts of the registration leave in the map.              *)

WithEmbedding(g, c) ==
    Register(Register(g, {<<"llm", "default">>}, "litellm"),
             {<<"embedding", "default">>}, ActiveEmbedding(c))

LEMMA EmbeddingRegistered ==
    ASSUME NEW g, NEW c
    PROVE  /\ DOMAIN WithEmbedding(g, c) =
                DOMAIN g \cup {<<"llm", "default">>, <<"embedding", "default">>}
           /\ WithEmbedding(g, c)[<<"embedding", "default">>] = ActiveEmbedding(c)
BY DEF WithEmbedding, Register

WithStores(g, c) ==
    LET pg == Register(g, {<<"vector_store", "default">>,
                           <<"vector_store", "pgvector">>}, "pgvector")
        sp == IF c.sparse THEN Register(pg, SparseKeys, "bm25") ELSE pg
    IN  IF c.store = "qdrant"
        THEN Register(sp, {<<"vector_store", "default">>,
                           <<"vector_store", "qdrant">>}, "qdrant")
        ELSE sp

StoreKeys(c) ==
    {<<"vector_store", "default">>, <<"vector_store", "pgvector">>}
      \cup (IF c.sparse THEN SparseKeys ELSE {})
      \cup (IF c.store = "qdrant" THEN {<<"vector_store", "qdrant">>} ELSE {})

HasStores(w, g, c) ==
    /\ DOMAIN w = DOMAIN g \cup StoreKeys(c)
    /\ \A k \in DOMAIN g : w[k] = g[k]
    /\ w[<<"vector_store", "default">>] = ActiveStore(c)
    /\ w[<<"vector_store", "pgvector">>] = "pgvector"
    /\ c.store = "qdrant" => w[<<"vector_store", "qdrant">>] = "qdrant"
    /\ c.sparse => w[<<"sparse_embedding", "default">>] = "bm25"

LEMMA StoresRegistered ==
    ASSUME NEW g, NEW c,
           DOMAIN g = {<<"llm", "default">>, <<"embedding", "default">>}
    PROVE  HasStores(WithStores(g, c), g, c)
<1> USE DEF HasStores
<1>1. CASE c.sparse
  BY <1>1 DEF WithStores, StoreKeys, SparseKeys, Register, ActiveStore
<1>2. CASE ~c.sparse
  BY <1>2 DEF WithStores, StoreKeys, SparseKeys, Register, ActiveStore
<1> QED
  BY <1>1, <1>2

WithPipeline(g, c, k) ==
    LET s == ActiveStore(c)
        m == IF k = None THEN g ELSE Register(g, {<<"reranker", "default">>}, k)
        h == Register(Register(m, {<<"health", "vector_store">>}, s),
                      {<<"health", "embedding">>}, ActiveEmbedding(c))
        a == Register(Register(h, {<<"query_pipeline", "default">>}, c.pipeline),
                      {<<"analytics", "default">>}, "analytics")
    IN  IF c.secret = "none" THEN a ELSE Register(a, {<<"learn", "default">>}, "learn")

PipelineKeys(c, k) ==
    {<<"health", "vector_store">>, <<"health", "embedding">>,
     <<"query_pipeline", "default">>, <<"analytics", "default">>}
      \cup (IF k = None THEN {} ELSE {<<"reranker", "default">>})
      \cup (IF c.secret = "none" THEN {} ELSE {<<"learn", "default">>})

HasPipelineOf(w, g, c, k) ==
    /\ DOMAIN w = DOMAIN g \cup PipelineKeys(c, k)
    /\ \A x \in DOMAIN g \ PipelineKeys(c, k) : w[x] = g[x]
    /\ w[<<"health", "vector_store">>] = ActiveStore(c)
    /\ k # None => w[<<"reranker", "default">>] = k

LEMMA PipelineRegistered ==
    ASSUME NEW g, NEW c, NEW k
    PROVE  HasPipelineOf(WithPipeline(g, c, k), g, c, k)
<1> USE DEF HasPipelineOf
<1>1. CASE k = None
  BY <1>1 DEF WithPipeline, PipelineKeys, Register
<1>2. CASE k # None
  BY <1>2 DEF WithPipeline, PipelineKeys, Register
<1> QED
  BY <1>1, <1>2

-----------------------------------------------------------------------------
(* What a replica's label promises of its registry.                        *)

Registered == {"registered", "warmup", "llm", "qdrant", "compare", "create",
               "relist", "serve", "serving"}
Checked == Registered \ {"registered"}
Validated == Checked \ {"warmup", "llm"}

At(r, category, name, p) ==
    <<category, name>> \in DOMAIN registry[r] /\ registry[r][<<category, name>>] = p

HasConfig(r) == pc[r] # "off" => cfg[r] \in Configs

\* Before the registration nothing is registered.
EmptyAtFirst(r) ==
    pc[r] \in {"migrate", "configure", "database", "schema", "pgvector", "embedding"} =>
        DOMAIN registry[r] = {}

\* The settings are valid from step 2 on.
SettingsValid(r) ==
    pc[r] \in {"database", "schema", "pgvector", "embedding", "stores", "keys",
               "pipeline"} \cup Registered => cfg[r].valid

\* The embedding provider is the configured one.
EmbeddingStands(r) ==
    /\ pc[r] = "stores" => DOMAIN registry[r] = {<<"llm", "default">>, <<"embedding", "default">>}
    /\ pc[r] \in {"stores", "keys", "pipeline"} \cup Registered =>
         /\ cfg[r].extra
         /\ At(r, "embedding", "default", ActiveEmbedding(cfg[r]))

\* So is the store, under all its names.
StoresStand(r) ==
    pc[r] \in {"keys", "pipeline"} \cup Registered =>
      /\ At(r, "vector_store", "default", ActiveStore(cfg[r]))
      /\ At(r, "vector_store", "pgvector", "pgvector")
      /\ cfg[r].store = "qdrant" => At(r, "vector_store", "qdrant", "qdrant")
      /\ \A name : <<"vector_store", name>> \in DOMAIN registry[r] =>
           name \in {"default", "pgvector", "qdrant"}
      /\ <<"vector_store", "qdrant">> \in DOMAIN registry[r] => cfg[r].store = "qdrant"
      /\ cfg[r].sparse => At(r, "sparse_embedding", "default", "bm25")
      /\ pc[r] \in {"keys", "pipeline"} => <<"learn", "default">> \notin DOMAIN registry[r]

\* The pipeline and the health checks have what the registry has.
PipelineStands(r) ==
    pc[r] \in Registered =>
      /\ cfg[r].templates
      /\ At(r, "health", "vector_store", ActiveStore(cfg[r]))
      /\ wired[r].store = ActiveStore(cfg[r])
      /\ wired[r].embedding = ActiveEmbedding(cfg[r])
      /\ cfg[r].sparse /\ cfg[r].pipeline = "advanced" => wired[r].sparse = "bm25"
      /\ <<"learn", "default">> \in DOMAIN registry[r] <=> cfg[r].secret # "none"

\* What the later steps refuse is gone.
ChecksHold(r) ==
    /\ pc[r] \in Checked => <<"vector_store", cfg[r].store>> \in DOMAIN registry[r]
    /\ pc[r] \in Validated => cfg[r].secret # "short"

LabelTells(r) ==
    /\ HasConfig(r) /\ EmptyAtFirst(r) /\ SettingsValid(r) /\ EmbeddingStands(r)
    /\ StoresStand(r) /\ PipelineStands(r) /\ ChecksHold(r)
LabelsTell == \A r \in Replicas : LabelTells(r)

LEMMA LabelStays ==
    ASSUME Shape, LabelsTell, NEW r \in Replicas,
           Launch(r) \/ Starting(r) \/ Stop(r) \/ Stopping(r) \/ Kill(r)
    PROVE  LabelTells(r)'
<1> USE DEF Shape, Goto, End, process, providers
<1> USE DEF HasConfig, EmptyAtFirst, SettingsValid, EmbeddingStands, StoresStand,
            PipelineStands, ChecksHold, At, Registered, Checked, Validated
<1>0. LabelTells(r)
  BY DEF LabelsTell
<1>1. CASE Launch(r)
  BY <1>0, <1>1 DEF Launch, LabelTells, Nothing
<1>2. CASE Starting(r)
  <2> USE DEF Abort, Crash, Step, Ensured, Warn
  <2>1. CASE Migrate(r) \/ CheckDatabase(r) \/ CheckSchema(r) \/ CheckPgvector(r) \/ LoadKeys(r)
    BY <1>0, <2>1 DEF Migrate, CheckDatabase, CheckSchema, CheckPgvector, LoadKeys, LabelTells
  <2>2. CASE Configure(r)
    BY <1>0, <2>2 DEF Configure, LabelTells, Valid
  <2>3. CASE RegisterEmbedding(r)
    <3>1. \/ cfg[r].extra /\ registry'[r] = WithEmbedding(registry[r], cfg[r]) /\ pc'[r] = "stores"
          \/ pc'[r] = "exited" /\ registry' = registry
      BY <2>3 DEF RegisterEmbedding, WithEmbedding
    <3>2. pc[r] = "embedding" /\ cfg' = cfg
      BY <2>3 DEF RegisterEmbedding
    <3> DEFINE w == WithEmbedding(registry[r], cfg[r])
    <3>3. /\ DOMAIN w = DOMAIN registry[r] \cup {<<"llm", "default">>, <<"embedding", "default">>}
          /\ w[<<"embedding", "default">>] = ActiveEmbedding(cfg[r])
      BY EmbeddingRegistered
    <3>4. w = WithEmbedding(registry[r], cfg[r])
      OBVIOUS
    <3> HIDE DEF w
    <3>5. CASE pc'[r] = "exited"
      BY <1>0, <3>1, <3>2, <3>5 DEF LabelTells
    <3>6. CASE cfg[r].extra /\ registry'[r] = w /\ pc'[r] = "stores"
      BY <1>0, <3>2, <3>3, <3>6 DEF LabelTells
    <3> QED
      BY <3>1, <3>4, <3>5, <3>6
  <2>4. CASE RegisterStores(r)
    <3>1. \/ registry'[r] = WithStores(registry[r], cfg[r]) /\ pc'[r] = "keys"
          \/ registry' = registry /\ pc'[r] = "exited"
      BY <2>4 DEF RegisterStores, WithStores
    <3>2. pc[r] = "stores" /\ cfg' = cfg
      BY <2>4 DEF RegisterStores
    <3>3. CASE pc'[r] = "exited"
      BY <1>0, <3>1, <3>2, <3>3 DEF LabelTells
    <3>4. CASE registry'[r] = WithStores(registry[r], cfg[r]) /\ pc'[r] = "keys"
      <4>1. DOMAIN registry[r] = {<<"llm", "default">>, <<"embedding", "default">>}
        BY <1>0, <3>2 DEF LabelTells
      <4> DEFINE w == WithStores(registry[r], cfg[r])
      <4>2. HasStores(w, registry[r], cfg[r])
        BY <4>1, StoresRegistered
      <4>3. registry'[r] = w
        BY <3>4
      <4> HIDE DEF w
      <4>4. EmbeddingStands(r)'
        BY <1>0, <3>2, <3>4, <4>1, <4>2, <4>3 DEF LabelTells, HasStores, StoreKeys, SparseKeys
      <4>5. StoresStand(r)'
        BY <1>0, <3>2, <3>4, <4>1, <4>2, <4>3 DEF LabelTells, HasStores, StoreKeys, SparseKeys
      <4> QED
        BY <1>0, <3>2, <3>4, <4>4, <4>5 DEF LabelTells
    <3> QED
      BY <3>1, <3>3, <3>4
  <2>5. CASE RegisterPipeline(r)
    <3>1. PICK k : \/ pc'[r] = "exited" /\ registry' = registry
                   \/ /\ pc'[r] = "registered" /\ cfg[r].templates
                      /\ registry'[r] = WithPipeline(registry[r], cfg[r], k)
                      /\ wired'[r].store = ActiveStore(cfg[r])
                      /\ wired'[r].embedding = ActiveEmbedding(cfg[r])
                      /\ cfg[r].sparse /\ cfg[r].pipeline = "advanced" => wired'[r].sparse = "bm25"
      BY <2>5 DEF RegisterPipeline, WithPipeline
    <3>2. pc[r] = "pipeline" /\ cfg' = cfg
      BY <2>5 DEF RegisterPipeline
    <3>3. CASE pc'[r] = "exited"
      BY <1>0, <3>1, <3>2, <3>3 DEF LabelTells
    <3>4. CASE pc'[r] = "registered"
      <4> DEFINE w == WithPipeline(registry[r], cfg[r], k)
      <4>1. /\ registry'[r] = w /\ cfg[r].templates
            /\ wired'[r].store = ActiveStore(cfg[r])
            /\ wired'[r].embedding = ActiveEmbedding(cfg[r])
            /\ cfg[r].sparse /\ cfg[r].pipeline = "advanced" => wired'[r].sparse = "bm25"
        BY <3>1, <3>4
      <4>2. HasPipelineOf(w, registry[r], cfg[r], k)
        BY PipelineRegistered
      <4> HIDE DEF w
      <4>3. /\ \A category \in {"embedding", "vector_store", "sparse_embedding"} : \A name :
                 <<category, name>> \notin PipelineKeys(cfg[r], k)
            /\ <<"learn", "default">> \in PipelineKeys(cfg[r], k) <=> cfg[r].secret # "none"
            /\ <<"health", "vector_store">> \in PipelineKeys(cfg[r], k)
        BY DEF PipelineKeys
      <4>4. EmbeddingStands(r)'
        BY <1>0, <3>2, <3>4, <4>1, <4>2, <4>3 DEF LabelTells, HasPipelineOf
      <4>5. StoresStand(r)'
        BY <1>0, <3>2, <3>4, <4>1, <4>2, <4>3 DEF LabelTells, HasPipelineOf
      <4>6. PipelineStands(r)'
        BY <1>0, <3>2, <3>4, <4>1, <4>2, <4>3 DEF LabelTells, HasPipelineOf
      <4> QED
        BY <1>0, <3>2, <3>4, <4>4, <4>5, <4>6 DEF LabelTells
    <3> QED
      BY <3>1, <3>3, <3>4
  <2>6. CASE CheckRegistration(r) \/ WarmUp(r) \/ Validate(r)
    BY <1>0, <2>6 DEF CheckRegistration, WarmUp, Validate, Required, LabelTells
  <2>7. CASE ListCollections(r) \/ CompareSize(r) \/ CreateCollection(r) \/ Relist(r) \/ Serve(r)
    BY <1>0, <2>7 DEF ListCollections, CompareSize, CreateCollection, Relist, Serve, LabelTells
  <2> QED
    BY <1>2, <2>1, <2>2, <2>3, <2>4, <2>5, <2>6, <2>7 DEF Starting
<1>3. CASE Stop(r) \/ Stopping(r) \/ Kill(r)
  <2>1. /\ pc[r] # "off" /\ cfg' = cfg /\ registry' = registry
        /\ pc'[r] \in {"close embedding", "close reranker", "dispose", "exited"}
    BY <1>3 DEF Stop, Stopping, Kill, CloseEmbedding, CloseReranker, CloseProvider,
                DisposeEngine, AfterClose
  <2> QED
    BY <1>0, <2>1 DEF LabelTells
<1> QED
  BY <1>1, <1>2, <1>3

-----------------------------------------------------------------------------
(* What a replica has opened, and what the teardown will find of it.       *)

ClientsFound(r) ==
    /\ open[r] \subseteq Clients
    /\ "tei" \in open[r] => At(r, "embedding", "default", "tei")
    /\ "reranker" \in open[r] => At(r, "reranker", "default", "reranker")
    /\ <<"embedding", "default">> \in DOMAIN registry[r] =>
         registry[r][<<"embedding", "default">>] \in {"tei", "local"}
    /\ <<"reranker", "default">> \in DOMAIN registry[r] =>
         registry[r][<<"reranker", "default">>] = "reranker"
    /\ pc[r] \in {"off", "keys", "pipeline"} => <<"analytics", "default">> \notin DOMAIN registry[r]

\* How far the teardown has come.
Closing(r) ==
    /\ unclosed[r] \subseteq open[r]
    /\ pc[r] \notin {"close reranker", "dispose", "exited"} => unclosed[r] = {}
    /\ pc[r] = "close reranker" => /\ unclosed[r] \subseteq {"tei"}
                                   /\ "tei" \in open[r] => "tei" \in unclosed[r]
    /\ pc[r] = "dispose" => /\ unclosed[r] \subseteq {"tei", "reranker"}
                            /\ open[r] \subseteq unclosed[r] \cup {"engine", "qdrant"}
    /\ pc[r] = "exited" /\ cause[r][1] \notin {"structured", "killed"}
         /\ <<"analytics", "default">> \in DOMAIN registry[r] =>
           open[r] \subseteq unclosed[r] \cup {"qdrant"}

ClosesAll == \A r \in Replicas : ClientsFound(r) /\ Closing(r)

LEMMA ClosingStays ==
    ASSUME Shape, LabelsTell, ClosesAll, NEW r \in Replicas,
           Launch(r) \/ Starting(r) \/ Stop(r) \/ Stopping(r) \/ Kill(r)
    PROVE  (ClientsFound(r) /\ Closing(r))'
<1> USE DEF Shape, Goto, End, process, providers, ClientsFound, Closing, At
<1>0. LabelTells(r) /\ ClientsFound(r) /\ Closing(r)
  BY DEF LabelsTell, ClosesAll
<1>1. CASE Launch(r)
  BY <1>0, <1>1 DEF Launch, Nothing
<1>2. CASE Starting(r)
  <2> USE DEF Abort, Crash, Step, Ensured, Warn
  <2>1. CASE Migrate(r) \/ CheckDatabase(r) \/ CheckSchema(r) \/ CheckPgvector(r) \/ LoadKeys(r)
    BY <1>0, <2>1 DEF Migrate, CheckDatabase, CheckSchema, CheckPgvector, LoadKeys,
                      LabelTells, EmptyAtFirst
  <2>2. CASE Configure(r)
    <3>1. /\ pc[r] = "configure" /\ UNCHANGED <<registry, unclosed>>
          /\ \/ open'[r] = {"engine"} /\ pc'[r] = "database"
             \/ UNCHANGED open /\ pc'[r] = "exited" /\ cause'[r][1] = "structured"
      BY <2>2 DEF Configure
    <3> QED
      BY <1>0, <3>1 DEF Clients, LabelTells, EmptyAtFirst
  <2>3. CASE RegisterEmbedding(r)
    <3> DEFINE w == WithEmbedding(registry[r], cfg[r])
               e == ActiveEmbedding(cfg[r])
    <3>1. \/ /\ registry'[r] = w /\ pc'[r] = "stores"
             /\ open'[r] = open[r] \cup ({e} \cap {"tei"})
          \/ pc'[r] = "exited" /\ cause'[r][1] = "traceback" /\ UNCHANGED <<registry, open>>
      BY <2>3 DEF RegisterEmbedding, WithEmbedding
    <3>2. pc[r] = "embedding" /\ UNCHANGED unclosed /\ DOMAIN registry[r] = {}
      BY <1>0, <2>3 DEF RegisterEmbedding, LabelTells, EmptyAtFirst
    <3>3. /\ DOMAIN w = DOMAIN registry[r] \cup {<<"llm", "default">>, <<"embedding", "default">>}
          /\ w[<<"embedding", "default">>] = e
          /\ e \in {"tei", "local"}
      BY EmbeddingRegistered DEF ActiveEmbedding
    <3> HIDE DEF w, e
    <3>4. CASE pc'[r] = "exited"
      BY <1>0, <3>1, <3>2, <3>4
    <3>5. CASE registry'[r] = w /\ pc'[r] = "stores" /\ open'[r] = open[r] \cup ({e} \cap {"tei"})
      <4>1. "tei" \notin open[r] /\ "reranker" \notin open[r]
        BY <1>0, <3>2
      <4>2. ClientsFound(r)'
        BY <1>0, <3>3, <3>5, <3>2, <4>1 DEF Clients
      <4> QED
        BY <1>0, <3>2, <3>5, <4>2
    <3> QED
      BY <3>1, <3>4, <3>5
  <2>4. CASE RegisterStores(r)
    <3> DEFINE w == WithStores(registry[r], cfg[r])
    <3>1. \/ /\ registry'[r] = w /\ pc'[r] = "keys"
             /\ open'[r] = open[r] \cup ({cfg[r].store} \cap {"qdrant"})
          \/ pc'[r] = "exited" /\ cause'[r][1] = "traceback" /\ UNCHANGED <<registry, open>>
      BY <2>4 DEF RegisterStores, WithStores
    <3>2. /\ pc[r] = "stores" /\ UNCHANGED unclosed
          /\ DOMAIN registry[r] = {<<"llm", "default">>, <<"embedding", "default">>}
      BY <1>0, <2>4 DEF RegisterStores, LabelTells, EmbeddingStands
    <3>3. HasStores(w, registry[r], cfg[r])
      BY <3>2, StoresRegistered
    <3> HIDE DEF w
    <3>4. CASE pc'[r] = "exited"
      BY <1>0, <3>1, <3>2, <3>4
    <3>5. CASE /\ registry'[r] = w /\ pc'[r] = "keys"
               /\ open'[r] = open[r] \cup ({cfg[r].store} \cap {"qdrant"})
      <4>1. /\ w[<<"embedding", "default">>] = registry[r][<<"embedding", "default">>]
            /\ \A name : <<"embedding", name>> \in DOMAIN w => name = "default"
            /\ <<"embedding", "default">> \in DOMAIN w
            /\ <<"reranker", "default">> \notin DOMAIN w
            /\ <<"analytics", "default">> \notin DOMAIN w
        BY <3>2, <3>3 DEF HasStores, StoreKeys, SparseKeys
      <4>2. "reranker" \notin open[r]
        BY <1>0, <3>2
      <4>3. ClientsFound(r)'
        BY <1>0, <3>2, <3>5, <4>1, <4>2 DEF Clients
      <4> QED
        BY <1>0, <3>2, <3>5, <4>3
    <3> QED
      BY <3>1, <3>4, <3>5
  <2>5. CASE RegisterPipeline(r)
    <3>1. PICK k \in {None, "reranker"} :
             \/ pc'[r] = "exited" /\ cause'[r][1] = "traceback" /\ UNCHANGED <<registry, open>>
             \/ /\ pc'[r] = "registered"
                /\ registry'[r] = WithPipeline(registry[r], cfg[r], k)
                /\ open'[r] = open[r] \cup ({k} \ {None})
      BY <2>5 DEF RegisterPipeline, WithPipeline, Rerankers
    <3>2. pc[r] = "pipeline" /\ UNCHANGED unclosed
      BY <2>5 DEF RegisterPipeline
    <3> DEFINE w == WithPipeline(registry[r], cfg[r], k)
    <3>3. HasPipelineOf(w, registry[r], cfg[r], k)
      BY PipelineRegistered
    <3>4. CASE pc'[r] = "exited"
      BY <1>0, <3>1, <3>2, <3>4
    <3>5. CASE registry'[r] = w /\ pc'[r] = "registered" /\ open'[r] = open[r] \cup ({k} \ {None})
      <4> HIDE DEF w
      <4>1. <<"embedding", "default">> \notin PipelineKeys(cfg[r], k)
        BY DEF PipelineKeys
      <4>2. <<"reranker", "default">> \in PipelineKeys(cfg[r], k) <=> k # None
        BY DEF PipelineKeys
      <4> QED
        BY <1>0, <3>2, <3>3, <3>5, <4>1, <4>2 DEF HasPipelineOf, Clients
    <3> QED
      BY <3>1, <3>4, <3>5
  <2>6. CASE CheckRegistration(r) \/ WarmUp(r) \/ Validate(r)
    <3>1. /\ pc[r] \in {"registered", "warmup", "llm"} /\ UNCHANGED <<registry, open, unclosed>>
          /\ \/ pc'[r] \in {"warmup", "llm", "qdrant"}
             \/ pc'[r] = "exited" /\ cause'[r][1] = "structured"
      BY <2>6 DEF CheckRegistration, WarmUp, Validate
    <3> QED
      BY <1>0, <3>1
  <2>7. CASE ListCollections(r) \/ CompareSize(r) \/ CreateCollection(r) \/ Relist(r) \/ Serve(r)
    BY <1>0, <2>7 DEF ListCollections, CompareSize, CreateCollection, Relist, Serve
  <2> QED
    BY <1>2, <2>1, <2>2, <2>3, <2>4, <2>5, <2>6, <2>7 DEF Starting
<1>3. CASE Stop(r)
  BY <1>0, <1>3 DEF Stop
<1>4. CASE CloseEmbedding(r)
  <2> DEFINE p == IF <<"embedding", "default">> \in DOMAIN registry[r]
                  THEN registry[r][<<"embedding", "default">>] ELSE None
  <2>1. /\ pc[r] = "close embedding" /\ pc'[r] = "close reranker" /\ UNCHANGED registry
        /\ \/ open'[r] = open[r] \ {p} /\ UNCHANGED unclosed
           \/ p \in open[r] /\ unclosed'[r] = unclosed[r] \cup {p} /\ UNCHANGED open
    BY <1>4 DEF CloseEmbedding, CloseProvider, AfterClose
  <2>2. /\ p \in open[r] => p = "tei"
        /\ "tei" \in open[r] => p = "tei"
    BY <1>0, NoneAssumption DEF Clients
  <2> HIDE DEF p
  <2> QED
    BY <1>0, <2>1, <2>2
<1>5. CASE CloseReranker(r)
  <2> DEFINE p == IF <<"reranker", "default">> \in DOMAIN registry[r]
                  THEN registry[r][<<"reranker", "default">>] ELSE None
  <2>1. /\ pc[r] = "close reranker" /\ pc'[r] = "dispose" /\ UNCHANGED registry
        /\ \/ open'[r] = open[r] \ {p} /\ UNCHANGED unclosed
           \/ p \in open[r] /\ unclosed'[r] = unclosed[r] \cup {p} /\ UNCHANGED open
    BY <1>5 DEF CloseReranker, CloseProvider, AfterClose
  <2>2. /\ p \in open[r] => p = "reranker"
        /\ "reranker" \in open[r] => p = "reranker"
    BY <1>0, NoneAssumption DEF Clients
  <2>3. p \notin unclosed[r]
    BY <1>0, <2>1, <2>2
  <2> HIDE DEF p
  <2> QED
    BY <1>0, <2>1, <2>2, <2>3 DEF Clients
<1>6. CASE DisposeEngine(r)
  BY <1>0, <1>6 DEF DisposeEngine
<1>7. CASE Kill(r)
  BY <1>0, <1>7 DEF Kill
<1> QED
  BY <1>1, <1>2, <1>3, <1>4, <1>5, <1>6, <1>7 DEF Stopping

-----------------------------------------------------------------------------
(* The collection is never dropped, so what was relied on stays.           *)

LEMMA RelianceStays ==
    ASSUME Shape, LabelsTell, EnsuredIsThere, NEW r \in Replicas,
           Launch(r) \/ Starting(r) \/ Stop(r) \/ Stopping(r) \/ Kill(r)
    PROVE  EnsuredIsThere'
<1> USE DEF Shape, Goto, End, process, providers, EnsuredIsThere
<1>0. Elsewhere(r) /\ LabelTells(r)
  BY StepIsLocal DEF LabelsTell
<1>1. pc[r] # "off" => Size(r) # None
  BY <1>0, DimsAssumption DEF LabelTells, HasConfig, Size
<1>2. CASE Launch(r)
  <2>1. UNCHANGED collection /\ ensured'[r] = "no"
    BY <1>2 DEF Launch
  <2> QED
    BY <1>0, <2>1 DEF Elsewhere, Size
<1>3. CASE ListCollections(r) \/ CompareSize(r) \/ CreateCollection(r) \/ Relist(r)
  <2>1. cfg' = cfg /\ pc[r] # "off"
    BY <1>3 DEF ListCollections, CompareSize, CreateCollection, Relist
  <2>2. \/ UNCHANGED <<collection, ensured>>
        \/ UNCHANGED collection /\ collection = Size(r) /\ ensured'[r] = "checked"
        \/ UNCHANGED collection /\ collection # None /\ ensured'[r] = "raced"
        \/ collection = None /\ collection' = Size(r) /\ ensured'[r] = "created"
        \/ collection = None /\ collection' = Size(r) /\ UNCHANGED ensured
    BY <1>3 DEF ListCollections, CompareSize, CreateCollection, Relist, Ensured, Warn
  <2> QED
    BY <1>0, <1>1, <2>1, <2>2 DEF Elsewhere, Size
<1>4. CASE UNCHANGED <<cfg, collection, ensured>>
  BY <1>4 DEF Size
<1>5. \/ UNCHANGED <<cfg, collection, ensured>>
      \/ Launch(r) \/ ListCollections(r) \/ CompareSize(r) \/ CreateCollection(r) \/ Relist(r)
  BY DEF Starting, Step, Migrate, CheckDatabase, CheckSchema, CheckPgvector, LoadKeys,
         Configure, RegisterEmbedding, RegisterStores, RegisterPipeline, CheckRegistration,
         WarmUp, Validate, Serve, Stop, Stopping, Kill, CloseEmbedding, CloseReranker,
         CloseProvider, DisposeEngine
<1> QED
  BY <1>2, <1>3, <1>4, <1>5

-----------------------------------------------------------------------------
(* The invariant.                                                          *)

IInv == Shape /\ LabelsTell /\ ClosesAll /\ EnsuredIsThere

LEMMA InvInit == Init => IInv
BY DEF Init, IInv, Shape, LabelsTell, LabelTells, HasConfig, EmptyAtFirst, SettingsValid,
       EmbeddingStands, StoresStand, PipelineStands, ChecksHold, Registered, Checked,
       Validated, ClosesAll, ClientsFound, Closing, EnsuredIsThere, Nothing

LEMMA InvStep == IInv /\ [Next]_vars => IInv'
<1> SUFFICES ASSUME IInv, [Next]_vars PROVE IInv'
  OBVIOUS
<1>1. ASSUME NEW r \in Replicas,
             Launch(r) \/ Starting(r) \/ Stop(r) \/ Stopping(r) \/ Kill(r)
      PROVE  LabelsTell' /\ ClosesAll' /\ EnsuredIsThere'
  <2>1. Elsewhere(r)
    BY <1>1, StepIsLocal DEF IInv
  <2>2. LabelsTell'
    <3>1. LabelTells(r)'
      BY <1>1, LabelStays DEF IInv
    <3>2. ASSUME NEW q \in Replicas \ {r} PROVE LabelTells(q)'
      BY <2>1 DEF IInv, LabelsTell, Elsewhere, LabelTells, HasConfig, EmptyAtFirst,
                  SettingsValid, EmbeddingStands, StoresStand, PipelineStands,
                  ChecksHold, At
    <3> QED
      BY <3>1, <3>2 DEF LabelsTell
  <2>3. ClosesAll'
    <3>1. (ClientsFound(r) /\ Closing(r))'
      BY <1>1, ClosingStays DEF IInv
    <3>2. ASSUME NEW q \in Replicas \ {r} PROVE (ClientsFound(q) /\ Closing(q))'
      BY <2>1 DEF IInv, ClosesAll, Elsewhere, ClientsFound, Closing, At
    <3> QED
      BY <3>1, <3>2 DEF ClosesAll
  <2> QED
    BY <1>1, <2>2, <2>3, RelianceStays DEF IInv
<1>2. CASE UNCHANGED vars
  BY <1>2 DEF IInv, vars, Shape, LabelsTell, LabelTells, HasConfig, EmptyAtFirst,
              SettingsValid, EmbeddingStands, StoresStand, PipelineStands, ChecksHold,
              At, ClosesAll, ClientsFound, Closing, EnsuredIsThere, Size
<1> QED
  BY <1>1, <1>2, ShapeStep DEF Next, IInv

\* The invariant holds of every start, stop and kill of any replicas.
THEOREM Invariant == Spec => []IInv
BY InvInit, InvStep, PTL DEF Spec

LEMMA TypeStep ==
    ASSUME IInv, TypeOK, NEW r \in Replicas,
           Launch(r) \/ Starting(r) \/ Stop(r) \/ Stopping(r) \/ Kill(r)
    PROVE  TypeOK'
<1>0. Elsewhere(r) /\ LabelTells(r) /\ Closing(r) /\ Shape /\ Shape'
  BY StepIsLocal, ShapeStep DEF IInv, LabelsTell, ClosesAll, Next
<1>1. cfg'[r] \in Configs \cup {None}
  <2>1. CASE Launch(r)
    BY <1>0, <2>1 DEF Launch, Shape
  <2>2. CASE cfg' = cfg
    BY <2>2 DEF TypeOK
  <2> QED
    BY <2>1, <2>2 DEF Starting, Step, Migrate, CheckDatabase, CheckSchema, CheckPgvector,
         LoadKeys, Configure, RegisterEmbedding, RegisterStores, RegisterPipeline,
         CheckRegistration, WarmUp, Validate, ListCollections, CompareSize,
         CreateCollection, Relist, Serve, Stop, Stopping, Kill, CloseEmbedding,
         CloseReranker, CloseProvider, DisposeEngine, process
<1>2. DOMAIN registry'[r] \subseteq Keys
  <2>1. CASE Launch(r)
    BY <1>0, <2>1 DEF Launch, Shape, Nothing
  <2>2. CASE RegisterEmbedding(r)
    <3>1. registry'[r] = WithEmbedding(registry[r], cfg[r]) \/ registry' = registry
      BY <1>0, <2>2 DEF RegisterEmbedding, WithEmbedding, Shape
    <3>2. DOMAIN WithEmbedding(registry[r], cfg[r]) =
            DOMAIN registry[r] \cup {<<"llm", "default">>, <<"embedding", "default">>}
      BY EmbeddingRegistered
    <3>3. DOMAIN registry[r] \subseteq Keys
      BY DEF TypeOK
    <3> QED
      BY <3>1, <3>2, <3>3 DEF Keys
  <2>3. CASE RegisterStores(r)
    <3>1. registry'[r] = WithStores(registry[r], cfg[r]) \/ registry' = registry
      BY <1>0, <2>3 DEF RegisterStores, WithStores, Shape
    <3>2. DOMAIN registry[r] = {<<"llm", "default">>, <<"embedding", "default">>}
      BY <1>0, <2>3 DEF RegisterStores, LabelTells, EmbeddingStands
    <3>3. HasStores(WithStores(registry[r], cfg[r]), registry[r], cfg[r])
      BY <3>2, StoresRegistered
    <3> QED
      BY <3>1, <3>3 DEF TypeOK, Keys, HasStores, StoreKeys, SparseKeys
  <2>4. CASE RegisterPipeline(r)
    <3>1. PICK k : registry'[r] = WithPipeline(registry[r], cfg[r], k) \/ registry' = registry
      BY <1>0, <2>4 DEF RegisterPipeline, WithPipeline, Shape
    <3>2. HasPipelineOf(WithPipeline(registry[r], cfg[r], k), registry[r], cfg[r], k)
      BY PipelineRegistered
    <3> QED
      BY <3>1, <3>2 DEF TypeOK, Keys, HasPipelineOf, PipelineKeys
  <2>5. CASE registry' = registry
    BY <2>5 DEF TypeOK
  <2> QED
    BY <2>1, <2>2, <2>3, <2>4, <2>5 DEF Starting, Step, Migrate, CheckDatabase, CheckSchema,
         CheckPgvector, LoadKeys, Configure, CheckRegistration, WarmUp, Validate,
         ListCollections, CompareSize, CreateCollection, Relist, Serve, Stop, Stopping,
         Kill, CloseEmbedding, CloseReranker, CloseProvider, DisposeEngine, providers
<1>3. open'[r] \subseteq Clients /\ unclosed'[r] \subseteq open'[r]
  BY ClosingStays DEF IInv, ClientsFound, Closing
<1>4. ensured'[r] \in {"no", "checked", "created", "raced"}
  <2>1. CASE Launch(r)
    BY <1>0, <2>1 DEF Launch, Shape
  <2>2. CASE ListCollections(r) \/ CompareSize(r) \/ CreateCollection(r) \/ Relist(r)
    BY <1>0, <2>2 DEF ListCollections, CompareSize, CreateCollection, Relist, Ensured,
                      Warn, Shape, TypeOK
  <2>3. CASE ensured' = ensured
    BY <2>3 DEF TypeOK
  <2> QED
    BY <2>1, <2>2, <2>3 DEF Starting, Step, Migrate, CheckDatabase, CheckSchema,
         CheckPgvector, LoadKeys, Configure, RegisterEmbedding, RegisterStores,
         RegisterPipeline, CheckRegistration, WarmUp, Validate, Serve, Stop, Stopping,
         Kill, CloseEmbedding, CloseReranker, CloseProvider, DisposeEngine
<1>5. \A q \in Replicas : launches'[q] \in 0 .. MaxLaunches
  <2>1. CASE Launch(r)
    BY <2>1, BoundAssumption DEF Launch, TypeOK
  <2>2. CASE launches' = launches
    BY <2>2 DEF TypeOK
  <2> QED
    BY <2>1, <2>2 DEF Starting, Step, Migrate, CheckDatabase, CheckSchema, CheckPgvector,
         LoadKeys, Configure, RegisterEmbedding, RegisterStores, RegisterPipeline,
         CheckRegistration, WarmUp, Validate, ListCollections, CompareSize,
         CreateCollection, Relist, Serve, Stop, Stopping, Kill, CloseEmbedding,
         CloseReranker, CloseProvider, DisposeEngine, process
<1>6. (collection = None \/ \E e \in DOMAIN Dims : collection = Dims[e])'
  <2>1. CASE CreateCollection(r)
    <3>1. collection' = collection \/ collection' = Size(r)
      BY <2>1 DEF CreateCollection
    <3>2. ActiveEmbedding(cfg[r]) \in DOMAIN Dims
      BY <1>0, <2>1, DimsAssumption DEF CreateCollection, LabelTells, HasConfig
    <3> QED
      BY <3>1, <3>2 DEF Size, TypeOK
  <2>2. CASE collection' = collection
    BY <2>2 DEF TypeOK
  <2> QED
    BY <2>1, <2>2 DEF Starting, Step, Migrate, CheckDatabase, CheckSchema, CheckPgvector,
         LoadKeys, Configure, RegisterEmbedding, RegisterStores, RegisterPipeline,
         CheckRegistration, WarmUp, Validate, ListCollections, CompareSize, Relist, Serve,
         Stop, Stopping, Kill, CloseEmbedding, CloseReranker, CloseProvider,
         DisposeEngine, Launch
<1> QED
  BY <1>0, <1>1, <1>2, <1>3, <1>4, <1>5, <1>6 DEF TypeOK, Elsewhere

\* Reachable values have their types.
THEOREM TypeCorrect == Spec => []TypeOK
<1>1. Init => TypeOK
  BY BoundAssumption DEF Init, TypeOK, Nothing
<1>2. IInv /\ IInv' /\ TypeOK /\ [Next]_vars => TypeOK'
  <2>1. ASSUME IInv, TypeOK, UNCHANGED vars PROVE TypeOK'
    BY <2>1 DEF vars, TypeOK
  <2> QED
    BY <2>1, TypeStep DEF Next
<1> QED
  BY <1>1, <1>2, Invariant, PTL DEF Spec

\* A replica that serves does so with what it was configured with.
THEOREM ServedAsConfigured == Spec => []ServesConfigured
<1>1. IInv => ServesConfigured
  <2> SUFFICES ASSUME IInv, NEW r \in Replicas, Live(r)
               PROVE  LET c == cfg[r]
                          g == registry[r]
                      IN  /\ c.valid /\ c.extra /\ c.templates
                          /\ g[<<"vector_store", "default">>] = c.store
                          /\ g[<<"vector_store", c.store>>] = c.store
                          /\ g[<<"health", "vector_store">>] = c.store
                          /\ wired[r].store = c.store
                          /\ g[<<"embedding", "default">>] = wired[r].embedding
                          /\ c.sparse /\ c.pipeline = "advanced" =>
                                wired[r].sparse = g[<<"sparse_embedding", "default">>]
                          /\ (<<"learn", "default">> \in DOMAIN g) = (c.secret = "long")
    BY DEF ServesConfigured
  <2>1. LabelTells(r) /\ pc[r] \in Validated /\ cfg[r] \in Configs
    BY DEF IInv, LabelsTell, LabelTells, HasConfig, Live, Validated, Checked, Registered
  <2>2. pc[r] \in Registered /\ pc[r] \in Checked
    BY <2>1 DEF Validated, Checked
  <2>3. cfg[r].store \in {"pgvector", "qdrant"} /\ ActiveStore(cfg[r]) = cfg[r].store
    BY <2>1, <2>2, ConfigsAssumption DEF LabelTells, ChecksHold, StoresStand, ActiveStore
  <2>4. cfg[r].secret \in {"none", "long"}
    BY <2>1, ConfigsAssumption DEF LabelTells, ChecksHold
  <2> QED
    BY <2>1, <2>2, <2>3, <2>4 DEF LabelTells, SettingsValid, EmbeddingStands, StoresStand,
                                  PipelineStands, At
<1> QED
  BY <1>1, Invariant, PTL

\* A replica whose ensure_collection returned can rely on the collection.
THEOREM CollectionIsThere == Spec => []EnsuredIsThere
<1>1. IInv => EnsuredIsThere
  BY DEF IInv
<1> QED
  BY <1>1, Invariant, PTL

\* A stopped replica has closed what its teardown is responsible for.
THEOREM ShutdownCloses == Spec => []AllClosed
<1>1. IInv => AllClosed
  BY DEF IInv, ClosesAll, Closing, AllClosed
<1> QED
  BY <1>1, Invariant, PTL
=============================================================================
