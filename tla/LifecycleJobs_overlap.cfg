SPECIFICATION Spec
CONSTANTS
    p = p
    q = q
    f = f
    a = a
    b = b
    Folders = {p, f}
    Items = {a}
    Place <- Tree
    Units = {u1, u2}
    Workers = {w1}
    None = None
    Imports = {i1}
    MaxAttempts = 1
    MaxJobs = 1
    Contended = {f, a}
SYMMETRY Symmetry
CHECK_DEADLOCK FALSE
INVARIANTS
    TombstonesOwned
    BinEntryExact
PROPERTIES
    Fence
    GateClosedToImports
