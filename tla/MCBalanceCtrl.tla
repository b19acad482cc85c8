--------------------------- MODULE MCBalanceCtrl ---------------------------
(* Instances of BalanceCtrl: the per-wheel settings.  The right wheel saturates. *)
EXTENDS BalanceCtrl

MCBias == [w \in Wheels |-> IF w = "L" THEN 3 ELSE 4]
MCDeltaMax == [w \in Wheels |-> IF w = "L" THEN 1 ELSE 2]
MCNorms == {-1}
\* The initial records, and reads that fail, say that the wheels stand still; the left
\* one turns whenever it is measured.  The average of both decides on a kick.
MCRpms == [k \in {"encL", "encR"} |-> IF k = "encL" THEN {1} ELSE {0}]
MCKickPpm == [w \in Wheels |-> IF w = "L" THEN 4 ELSE 6]
=============================================================================
