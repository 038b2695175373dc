SPECIFICATION RetentionSpec
CONSTANTS
    Requests = {r1}
    Jobs = {j1, j2}
    Docs = {d1, d2}
    None = None
    Faults = {}
PROPERTIES DeletedIsPurged
CHECK_DEADLOCK FALSE
