SPECIFICATION Spec
CONSTANTS
    Full = 2
    PeriodNs = 5
    Values <- MCValues
    HasStby = TRUE
    MayFail = TRUE
INVARIANTS
    TypeOK
    BrakeStops
    DisabledIsUnpowered
    SetMeansBoth
