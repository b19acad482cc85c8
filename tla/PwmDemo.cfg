SPECIFICATION Spec
CONSTANTS
    Writers = {w1, w2}
    ClkFreq = 9
    Default = 3
    Freqs = {1, 2, 600}
    Duties = {0, 40, 101}
    U32 = 600
INVARIANTS
    ShownIsProgrammed
    OnWhenIdle
CHECK_DEADLOCK FALSE
