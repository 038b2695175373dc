SPECIFICATION Spec
CONSTANTS
    c1 = c1
    c2 = c2
    c3 = c3
    p1 = p1
    None = None
    Queries = {q1, q2, q3}
    Convs = {v1}
    Chunks = {c1, c2, c3}
    Parent <- MCParent
    Twins <- MCTwins
    Cost <- MCCost
    TurnCost = 1
    Fixed = 2
    Ratio = 60
    Configs <- MCConfigs
    MaxTurns = 2
    MaxTokens = 2
    Earlier = {q2, q3}
INVARIANTS RefusedIsSilent StrictIsGrounded WithinBudget  RememberedWasShown
CHECK_DEADLOCK FALSE
