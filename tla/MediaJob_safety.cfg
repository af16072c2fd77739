SPECIFICATION Spec
CONSTANTS
    Workers = {w1, w2}
    None = None
    Kinds = {thumbnail, web}
    MaxAttempts = 2
    MaxRenewals = 1
    MaxBacklog = 2
SYMMETRY Symmetry
INVARIANTS
    TypeOK
    
    NoLostWakeup
PROPERTIES
    OutcomeFinal
    GivenUpOnlyWhenExhausted
