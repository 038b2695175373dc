SPECIFICATION FairSpec
CONSTANTS
    Requests = {r1, r2}
    Jobs = {j1, j2, j3}
    Docs = {d1}
    None = None
    Faults = {"crash", "db", "request"}
INVARIANTS RowIsHonest
PROPERTIES TerminalFinal EveryJobEnds
CHECK_DEADLOCK FALSE
