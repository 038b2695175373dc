SPECIFICATION Spec
CONSTANTS
    Docs = {d1, d2}
    Jobs = {j1, j2}
    Versions = {1, 2, 3}
    First = 1
    Targets = {2, 3}
    Ingested = 0
    None = None
    Backend = "pgvector"
    Faults = {"store"}
INVARIANTS CompletedCovers  
PROPERTIES ServingUntouched
SYMMETRY Symmetry
CHECK_DEADLOCK FALSE
