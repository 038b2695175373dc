SPECIFICATION Spec
CONSTANTS
    None = None
    Tasks = {t1}
    Admins = {a1}
    Docs = {d1, d2, d3}
    Files = {f1}
    Hashes = {h1, h2}
    Backend = "qdrant"
    Retention = TRUE
    Faults = {"store", "crash"}
SYMMETRY Symmetry
INVARIANT PurgedLeavesNothing
PROPERTY NeverPurgeLive
