SPECIFICATION Spec
CONSTANTS
    None = None
    Tasks = {t1, t2}
    Admins = {a1}
    Docs = {d1, d2, d3}
    Files = {f1}
    Hashes = {h1, h2}
    Backend = "pgvector"
    Retention = FALSE
    Faults = {"db", "store"}
SYMMETRY Symmetry
INVARIANTS
    LiveUnique
    VersionChain
    
