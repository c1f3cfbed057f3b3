----------------------------- MODULE MCValidator -----------------------------
(***************************************************************************)
(* Validator with delays of both signs, some of them not a whole number of *)
(* microseconds: -2 and 3 microseconds by the system clock, -1.5, 0 and 2  *)
(* by the monotonic clock, where 0 is also jitter's mark of none yet.      *)
(***************************************************************************)
EXTENDS Validator

MCSysDelays == {-4, 6}
MCStdDelays == {-3, 0, 4}
=============================================================================
