SPECIFICATION Spec
CONSTANTS
    RbSize = 3
    Stale = 1
    Decim = 2
    LoopMax = 2
    MaxTime = 11
    Moves = {1}
    OpenMayFail = TRUE
    EncMayFail = TRUE
    IrqMayFail = TRUE
INVARIANTS
    WindowExact
    RpmAge
    LagIsTheRing
    DeadImuNoticed
