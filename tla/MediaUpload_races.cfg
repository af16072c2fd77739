SPECIFICATION Spec
CONSTANTS
    Assets = {a1}
    Uploads = {u1, u2}
    Clients = {c1, c2}
    Sweepers = {w1, w2}
    None = None
    MaxUploadBytes = 1
    Quota = 2
    CredentialTTL = 1
    SessionTTL = 2
    Quarantine = 1
    HardDeadline = 1
    Retention = 9
    ChecksumSupported = FALSE
    MaxTime = 3
CHECK_DEADLOCK FALSE
SYMMETRY Symmetry
INVARIANTS
    TypeOK
    LedgerExact
    AcceptedOriginalKept
    PurgedStaysEmpty
    
PROPERTY ClosedStaysClosed
