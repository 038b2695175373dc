SPECIFICATION Spec
CONSTANTS
    Requests = {r1, r2, r3}
    Boot = Boot
    None = None
    Faults = {"crash", "db", "external"}
INVARIANTS RevokedIsRejected IssuedWorks BootstrapOnce AuditIsTrue NoAuditForgotten
SYMMETRY Symmetry
CHECK_DEADLOCK FALSE
