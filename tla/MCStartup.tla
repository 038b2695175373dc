------------------------------ MODULE MCStartup ------------------------------
\* Startup for TLC: the configurations replicas are started with.
EXTENDS Startup

Shipped == [valid |-> TRUE, extra |-> TRUE, templates |-> TRUE, store |-> "pgvector",
            embedding |-> "sentence-transformers", sparse |-> FALSE,
            rerank |-> FALSE, pipeline |-> "advanced", secret |-> "none"]
Hybrid == [Shipped EXCEPT !.store = "qdrant", !.embedding = "tei", !.sparse = TRUE,
                          !.rerank = TRUE, !.secret = "long"]

\* The two Qdrant deployments differ in the size of their vectors.
Good == {Shipped, Hybrid, [Shipped EXCEPT !.store = "qdrant", !.pipeline = "simple"]}
Bad == {[Shipped EXCEPT !.valid = FALSE], [Shipped EXCEPT !.extra = FALSE],
        [Hybrid EXCEPT !.templates = FALSE], [Hybrid EXCEPT !.secret = "short"],
        [Shipped EXCEPT !.store = "milvus"]}
MCConfigs == Good \cup Bad
MCDims == [tei |-> 1024, local |-> 384]
=============================================================================
