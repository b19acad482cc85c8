SPECIFICATION Spec
CONSTANTS
    Modes = {1}
    Period = 1
    Stale = 1
    RunTime = 3
    Grace = 0
    MaxLate = 0
    StartBy = 1
    MaxTime = 6
    Tilts = {FALSE}
    Norms = {0}
    Rpms <- MCRpms
    Umax = 5
    Bias <- MCBias
    DeltaMax <- MCDeltaMax
    KickPpm <- MCKickPpm
    KickMs = 0
    CoolMs = 0
    TickMs = 5
    OpenMayFail = TRUE
    AffinityMayFail = FALSE
    MaxSetFails = 0
INVARIANTS
    DrivenOnlyOnData
