SPECIFICATION Spec
CONSTANTS
    Request = {r1, r2}
    MaxChanges = 1
    MaxEpoch = 1
    Unreliable = {"user"}
    Restores = {FALSE}
    DecisionTTL = 1
    FactTTL = 2
    Jitter = 0
    MaxHold = 0
SYMMETRY Symmetry
INVARIANTS
    TypeOK
    GrantChangeSeen
    OwnRoleSet
    ExposureBounded
