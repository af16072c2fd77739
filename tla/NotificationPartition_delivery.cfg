SPECIFICATION FairSpec
CONSTANTS
    Job = {j1, j2}
    Worker = {w1, w2}
    None = None
    MaxDeliveryAttempts = 2
    MaxAttempts = 2
    MaxPoison = 1
    MaxFaults = 1
CHECK_DEADLOCK FALSE
INVARIANTS
    TypeOK
    WakeupKept
    QuarantineReported
PROPERTY PartitionDrains
