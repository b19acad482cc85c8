--------------------------- MODULE MCSeqSnapshot ---------------------------
(* Small instances of SeqSnapshot.  A reader changes nothing that the writer or *)
(* another reader looks at, so one reader shows what any number would.          *)
EXTENDS SeqSnapshot, TLC

\* No action tells one field from another.
Symmetry == Permutations(Fields)
=============================================================================
