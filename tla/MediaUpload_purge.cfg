SPECIFICATION Spec
CONSTANTS
    Assets = {a1}
    Uploads = {u1, u2}
    Clients = {c1}
    Sweepers = {w1}
    None = None
    MaxUploadBytes = 2
    Quota = 3
    CredentialTTL = 1
    SessionTTL = 2
    Quarantine = 1
    HardDeadline = 1
    Retention = 1
    ChecksumSupported = TRUE
    MaxTime = 2
CHECK_DEADLOCK FALSE
SYMMETRY Symmetry
INVARIANTS
    
    QuotaRespected
PROPERTY ImplementsLedger
