SPECIFICATION FairSpec
CONSTANTS
    MaxMoves = 5
INVARIANTS
    CountExact
    SettledInSync
    ErrorIsEven
    ParityKept
PROPERTIES
    CatchesUp
CHECK_DEADLOCK FALSE
