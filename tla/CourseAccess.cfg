SPECIFICATION Spec
CONSTANTS
    a1 = a1
    n1 = n1
    n2 = n2
    Slots = {s1, s2}
    Seats = {a1}
    Namespaces = {n1, n2}
    Tokens = {t}
    Convs = {c}
    None = None
    CourseNs <- MCCourseNs
    Defaults <- MCDefaults
    Claims = {None, n2}
    Uploads = {n1}
    Patches <- MCPatches
    RequireEnrollment = TRUE
    Faults = {"db"}
SYMMETRY Symmetry
INVARIANTS QueriesSeeResolved 
PROPERTIES NamespaceHasReason 
