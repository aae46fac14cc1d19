---------------------------- MODULE MCAdmission ----------------------------
(* A small instance of Admission for TLC: the system clock is 2 behind     *)
(* real time, or not, and is set once; servers are right, a second ahead   *)
(* or 4 behind, which is too far for an offset if real time is not ahead.  *)
EXTENDS Admission

HonestErrors == {0, 1}
WrongErrors == {-4}
=============================================================================
