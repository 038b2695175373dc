SPECIFICATION FairSpec
CONSTANTS
    None = None
    Tasks = {t1}
    Admins = {}
    Docs = {d1, d2, d3}
    Files = {f1, f2, f3}
    Hashes = {h1, h2}
    Backend = "pgvector"
    Retention = FALSE
    Faults = {}
INVARIANT VersionHasNewContent
PROPERTY AtomicIngest
PROPERTY SupersededIsAnswered
