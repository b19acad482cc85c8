SPECIFICATION FairSpec
CONSTANTS
    Threads = {t1, t2}
    RbSize = 2
    CtrMod = 4
    MaxSamples = 5
    NoSample = NoSample
INVARIANTS
    NoEIOAlone
    PollTruthful
    WakeupPending
PROPERTIES
    ImplementsFifo
    NoLostWakeup
