SPECIFICATION Spec
CONSTANTS
    Assets = {a1}
    Uploads = {u1}
    Clients = {c1}
    Sweepers = {w1}
    None = None
    MaxUploadBytes = 1
    Quota = 2
    CredentialTTL = 1
    SessionTTL = 2
    Quarantine = 1
    HardDeadline = 1
    Retention = 1
    ChecksumSupported = TRUE
    MaxTime = 3
CHECK_DEADLOCK FALSE
INVARIANT CompletedOriginalKept
