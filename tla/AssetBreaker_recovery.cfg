SPECIFICATION FairSpec
CONSTANTS
    Call = {c1, c2, c3, c4}
    Capacity = 3
    Deadline = 3
    ResetTimeout = 4
INVARIANTS TypeOK OnlyProbeDecides OneProbe
PROPERTY AdmitsAgain
