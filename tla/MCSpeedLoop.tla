---------------------------- MODULE MCSpeedLoop ----------------------------
(* Values of the constants of SpeedLoop that a configuration cannot write. *)
EXTENDS SpeedLoop

MCRefs == {-2, 0, 1}
=============================================================================
