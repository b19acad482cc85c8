----------------------------- MODULE MCMotorPwm -----------------------------
(* An instance of MotorPwm with values in and out of the range of a command. *)
EXTENDS MotorPwm

MCValues == {-3, -1, 0, 2}
=============================================================================
