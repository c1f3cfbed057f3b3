-------------------------------- MODULE Timer --------------------------------
(***************************************************************************)
(* What the scheduler promises: a task handed to it runs at most once and  *)
(* not before its time, and none is handed over or run when the scheduler  *)
(* is gone.                                                                *)
(***************************************************************************)
EXTENDS Naturals

CONSTANTS
  Tasks,    \* what may be scheduled
  MaxDelay  \* the longest delay

VARIABLES
  asking,   \* the tasks whose scheduling has begun
  pending,  \* the tasks that have not run yet, with the time left
  closed    \* the scheduler is destroyed

timerVars == <<asking, pending, closed>>

Earlier(n) == IF n > 0 THEN n - 1 ELSE 0
Elapsed(entries) == {[task |-> e.task, left |-> Earlier(e.left)] : e \in entries}

TimerInit == asking = {} /\ pending = {} /\ closed = FALSE

\* A thread calls schedule_in ...
Ask ==
  /\ ~closed
  /\ \E t \in Tasks \ asking : asking' = asking \cup {t}
  /\ UNCHANGED <<pending, closed>>

\* ... and has its task accepted.
Schedule ==
  /\ \E t \in asking, left \in 0..MaxDelay :
       /\ asking' = asking \ {t}
       /\ pending' = pending \cup {[task |-> t, left |-> left]}
  /\ UNCHANGED closed

Fire ==
  /\ \E e \in pending : e.left = 0 /\ pending' = pending \ {e}
  /\ UNCHANGED <<asking, closed>>

Pass ==
  /\ pending' = Elapsed(pending)
  /\ UNCHANGED <<asking, closed>>

\* The tasks that have not run are dropped.
Close ==
  /\ ~closed /\ asking = {}
  /\ closed' = TRUE
  /\ pending' = {}
  /\ UNCHANGED asking

TimerSpec == TimerInit /\ [][Ask \/ Schedule \/ Fire \/ Pass \/ Close]_timerVars
=============================================================================
