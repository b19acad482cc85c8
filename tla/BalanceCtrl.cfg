SPECIFICATION Spec
CONSTANTS
    Modes = {0, 1, 2}
    Period = 1
    Stale = 1
    RunTime = 3
    Grace = 0
    MaxLate = 0
    StartBy = 1
    MaxTime = 6
    Tilts = {FALSE, TRUE}
    Norms <- MCNorms
    Rpms <- MCRpms
    Umax = 5
    Bias <- MCBias
    DeltaMax <- MCDeltaMax
    KickPpm <- MCKickPpm
    KickMs = 8
    CoolMs = 14
    TickMs = 5
    OpenMayFail = TRUE
    AffinityMayFail = TRUE
    MaxSetFails = 1
INVARIANTS
    TypeOK
    SilenceStops
    StoppedAtEnd
    KickIsBrief
    EndsInTime
