SPECIFICATION FairSpeedSpec
CONSTANTS
    Variants = {"step", "plain"}
    Refs <- MCRefs
    Speeds = {1, 2}
    Pre = 3
    Hold = 2
    MaxLate = 1
    MaxTime = 6
    MaxCount = 1
    Decim = 2
    Kp = 1
    Ki = 1
    Vmax = 2
    KickV = 0
    U0 = 2
    Gain = 1
    KickU = 4
    KickMs = 10
    TickMs = 5
    DuMax = 3
    Leftovers = {4}
    MotorMayFail = TRUE
INVARIANTS
    KickBounded
    ZeroRefStops
    WindupBounded
PROPERTIES
    SlewBounded
    Terminates
