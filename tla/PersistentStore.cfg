SPECIFICATION Spec
CONSTANTS
    Convs = {c1}
    Calls = {k1, k2, k3}
    Questions = {x1, x2}
    None = None
    MaxTurns = 2
    MaxCount = 4
INVARIANTS Window
PROPERTIES ImplementsLog
CHECK_DEADLOCK FALSE
