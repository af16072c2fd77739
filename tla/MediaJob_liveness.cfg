SPECIFICATION FairSpec
CONSTANTS
    Workers = {w1}
    None = None
    Kinds = {web}
    MaxAttempts = 2
    MaxRenewals = 1
    MaxBacklog = 2
PROPERTY JobSettles
