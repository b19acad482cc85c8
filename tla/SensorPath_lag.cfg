SPECIFICATION Spec
CONSTANTS
    RbSize = 64
    Stale = 50
    Decim = 4
    LoopMax = 2
    MaxTime = 70
    Moves = {1}
    OpenMayFail = FALSE
    EncMayFail = FALSE
    IrqMayFail = FALSE
INVARIANTS
    DriveOnRecentTilt
