SPECIFICATION FairSpec
CONSTANTS
    p = p
    q = q
    f = f
    a = a
    b = b
    Folders = {p, f}
    Items = {a, b}
    Place <- Tree
    Units = {u1}
    Workers = {w1, w2}
    None = None
    Imports = {}
    MaxAttempts = 2
    MaxJobs = 4
    Contended = {f, a}
CHECK_DEADLOCK FALSE
INVARIANTS
    TypeOK
    RecordsAgree
PROPERTIES
    OnlyTombstonesPurged
    JobsFinish
