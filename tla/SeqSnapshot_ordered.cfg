SPECIFICATION FairSpec
CONSTANTS
    Fields = {rpm, ok, ts_ns}
    Readers = {ctrl}
    InOrder = TRUE
    SeqMod = 10
    MaxWrites = 4
INVARIANTS
    NoTornSnapshot
    AcceptedIsFresh
PROPERTIES
    SnapNeverOlder
    ReadReturns
    ImplementsRegister
