SPECIFICATION FairSpec
CONSTANTS
    Event = {e1, e2}
    Unsupported = {}
    Consumer = {c1, c2}
    MAX_DELIVERIES = 2
    READ_COUNT = 2
    MaxFailures = 2
    MaxExpiries = 1
CHECK_DEADLOCK FALSE
INVARIANTS
    AckedIsSettled
    RedeliveryAbsorbed
PROPERTY PublishedIsSettled
