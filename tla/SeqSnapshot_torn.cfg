SPECIFICATION Spec
CONSTANTS
    Fields = {rpm, ts_ns}
    Readers = {ctrl}
    InOrder = FALSE
    SeqMod = 10
    MaxWrites = 2
INVARIANTS
    NoTornSnapshot
SYMMETRY Symmetry
