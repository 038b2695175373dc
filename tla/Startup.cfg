SPECIFICATION Spec
CONSTANTS
    Replicas = {p, q}
    Configs <- MCConfigs
    Dims <- MCDims
    None = None
    MaxLaunches = 2
    Faults = {"db", "embedding", "qdrant", "reranker", "close", "kill"}
INVARIANTS ServesConfigured EnsuredIsThere AllClosed
PROPERTIES SoundServes
CHECK_DEADLOCK FALSE
