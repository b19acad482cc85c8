SPECIFICATION FairSpec
CONSTANTS
    Drivers = {"irqwait", "irqbtn", "irqbtn_debounce", "irqtasklet"}
    Readers = {r1, r2}
    Callers = {c1, c2}
    Debounce = 2
    MaxEvents = 3
    MaxSignals = 1
    MaxTime = 5
INVARIANTS
    ReportsPaid
    WakeupPending
    RateLimited
PROPERTIES
    NoLostWakeup
CHECK_DEADLOCK FALSE
