------------------------------ MODULE PipePool ------------------------------
(***************************************************************************)
(* What common_run (misc.cpp) promises its callers, generate and receive:  *)
(* connections are processed by pipes, never more at a time than           *)
(* --concurrent-streams, never more in total than --maxconns, and the call *)
(* is over only when no pipe is left.  How the pipes are launched, counted *)
(* and reaped is not visible here; module CommonRun implements this one.   *)
(***************************************************************************)
EXTENDS Integers, FiniteSets

CONSTANTS
  Ids,          \* socket ids a connection may have
  Limits,       \* the possible limits, [active : Nat, opened : Nat]
  OpenedCap     \* the count of opened connections saturates here

VARIABLES
  limits,       \* the limits of this call; opened = 0 means "no limit"
  active,       \* the connections being processed
  opened,       \* how many connections have been opened so far
  over          \* TRUE once the call is over

poolVars == <<limits, active, opened, over>>

PoolInit ==
  /\ limits \in Limits
  /\ active = {}
  /\ opened = 0
  /\ over = FALSE

\* A new connection starts being processed.
Open(id) ==
  /\ ~over
  /\ id \notin active
  /\ Cardinality(active) < limits.active
  /\ limits.opened > 0 => opened < limits.opened
  /\ active' = active \cup {id}
  /\ opened' = IF opened < OpenedCap THEN opened + 1 ELSE opened
  /\ UNCHANGED <<limits, over>>

\* The processing of a connection ends.
Finish(id) ==
  /\ id \in active
  /\ active' = active \ {id}
  /\ UNCHANGED <<limits, opened, over>>

\* The call is over.
Conclude ==
  /\ ~over
  /\ active = {}
  /\ over' = TRUE
  /\ UNCHANGED <<limits, active, opened>>

PoolNext == Conclude \/ \E id \in Ids : Open(id) \/ Finish(id)

PoolSpec == PoolInit /\ [][PoolNext]_poolVars
=============================================================================
