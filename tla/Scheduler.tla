------------------------------ MODULE Scheduler ------------------------------
(***************************************************************************)
(* The scheduler: a thread that runs tasks at their time (scheduler.hpp).  *)
(* This module has its state and its steps; the module that uses the       *)
(* scheduler says what a task does and who schedules it.                   *)
(*                                                                         *)
(* A time point is kept as the time left until it, zero once it has        *)
(* passed, so that no clock has to be bounded; tasks that are due have     *)
(* lost their order among each other.  sync_.mtx is held for longer than a *)
(* step only by the thread that runs tasks, in "run"; nobody but that      *)
(* thread is ever asleep on sync_.cv.                                      *)
(***************************************************************************)
EXTENDS Naturals, FiniteSets

CONSTANTS
  Tasks,    \* the callables that may be scheduled
  MaxDelay  \* the longest delay a task is scheduled with

ASSUME MaxDelayAssumption == MaxDelay \in Nat

VARIABLES
  done_,    \* the scheduler is to end
  tasks_,   \* the multimap of tasks by time
  due,      \* manage_tasks: the tasks up to end_of_tasks_to_run
  todo,     \* manage_tasks: those of them not yet run
  first,    \* timer_loop: time_of_first_task
  thread_   \* where timer_loop is

schedulerVars == <<done_, tasks_, due, todo, first, thread_>>

Entry == [task : Tasks, left : 0..MaxDelay]

SchedulerType ==
  /\ done_ \in BOOLEAN
  /\ tasks_ \subseteq Entry
  /\ due \subseteq tasks_ /\ todo \subseteq due
  /\ \A e \in due : e.left = 0
  /\ first \in 0..MaxDelay
  /\ thread_ \in {"check", "manage", "run", "look", "wait", "asleep", "until",
                  "asleep_until", "ended"}
  /\ thread_ # "run" => due = {}

\* The constructor starts the thread.
SchedulerInit ==
  /\ done_ = FALSE
  /\ tasks_ = {} /\ due = {} /\ todo = {} /\ first = 0
  /\ thread_ = "check"

MutexFree == thread_ # "run"

\* cv.notify_one: it reaches the thread only if that sleeps already.
Notified == CASE thread_ = "asleep" -> "wait"
              [] thread_ = "asleep_until" -> "check"
              [] OTHER -> thread_

-----------------------------------------------------------------------------
(* The timer thread.                                                       *)

\* while (!done_)
Check ==
  /\ thread_ = "check"
  /\ thread_' = IF done_ THEN "ended" ELSE "manage"
  /\ UNCHANGED <<done_, tasks_, due, todo, first>>

\* tasks_.upper_bound(now)
Triggered == {e \in tasks_ : e.left = 0}

\* manage_tasks: take the lock and find the tasks that are due.
ManageTasks ==
  /\ thread_ = "manage"
  /\ due' = Triggered /\ todo' = Triggered
  /\ thread_' = IF Triggered = {} THEN "look" ELSE "run"
  /\ UNCHANGED <<done_, tasks_, first>>

\* task->f(), under the lock.
Run(e) ==
  /\ thread_ = "run" /\ e \in todo
  /\ todo' = todo \ {e}
  /\ UNCHANGED <<done_, tasks_, due, first, thread_>>

EraseTasks_Missing ==
  /\ thread_ = "run" /\ todo = {}
  /\ due' = {}
  /\ thread_' = "look"
  /\ UNCHANGED <<done_, tasks_, todo, first>>

\* manage_tasks: remove the completed tasks and release the lock.
EraseTasks ==
  /\ thread_ = "run" /\ todo = {}
  /\ tasks_' = tasks_ \ due
  /\ due' = {}
  /\ thread_' = "look"
  /\ UNCHANGED <<done_, todo, first>>

\* timer_loop looks at tasks_ without the lock.
Look ==
  /\ thread_ = "look"
  /\ IF tasks_ = {}
       THEN thread_' = "wait" /\ first' = first
       ELSE /\ thread_' = "until"
            /\ \E e \in tasks_ : (\A f \in tasks_ : e.left <= f.left) /\ first' = e.left
  /\ UNCHANGED <<done_, tasks_, due, todo>>

Wait_NoPredicate ==
  /\ thread_ = "wait"
  /\ thread_' = "asleep"
  /\ UNCHANGED <<done_, tasks_, due, todo, first>>

\* cv.wait, with its predicate.
Wait ==
  /\ thread_ = "wait"
  /\ thread_' = IF done_ \/ tasks_ # {} THEN "check" ELSE "asleep"
  /\ UNCHANGED <<done_, tasks_, due, todo, first>>

\* cv.wait_until(time_of_first_task), without a predicate ...
WaitUntil ==
  /\ thread_ = "until"
  /\ thread_' = "asleep_until"
  /\ UNCHANGED <<done_, tasks_, due, todo, first>>

\* ... ends at that time at the latest.
TimeOut ==
  /\ thread_ = "asleep_until" /\ first = 0
  /\ thread_' = "check"
  /\ UNCHANGED <<done_, tasks_, due, todo, first>>

\* A condition variable may wake up by itself.
SpuriousWakeUp ==
  /\ thread_ \in {"asleep", "asleep_until"}
  /\ thread_' = Notified
  /\ UNCHANGED <<done_, tasks_, due, todo, first>>

TimerStep == Check \/ ManageTasks \/ EraseTasks \/ Look \/ Wait \/ WaitUntil \/ TimeOut

-----------------------------------------------------------------------------
(* Its users, and time.                                                    *)

AddTask_NoNotify(task, left) ==
  /\ MutexFree
  /\ tasks_' = tasks_ \cup {[task |-> task, left |-> left]}
  /\ UNCHANGED <<done_, due, todo, first, thread_>>

\* add_task, for the time point that schedule_in computed before.
AddTask(task, left) ==
  /\ MutexFree
  /\ tasks_' = tasks_ \cup {[task |-> task, left |-> left]}
  /\ thread_' = Notified
  /\ UNCHANGED <<done_, due, todo, first>>

\* stop(), and the first statement of the destructor: nobody is notified.
StopScheduler ==
  /\ done_' = TRUE
  /\ UNCHANGED <<tasks_, due, todo, first, thread_>>

\* The destructor notifies under the lock.
NotifyScheduler ==
  /\ MutexFree
  /\ thread_' = Notified
  /\ UNCHANGED <<done_, tasks_, due, todo, first>>

\* The join of the destructor, and the end of the members.
JoinScheduler ==
  /\ thread_ = "ended"
  /\ tasks_' = {}
  /\ UNCHANGED <<done_, due, todo, first, thread_>>

Earlier(n) == IF n > 0 THEN n - 1 ELSE 0
Elapsed(entries) == {[task |-> e.task, left |-> Earlier(e.left)] : e \in entries}

\* Time passes.
PassTime ==
  /\ tasks_' = Elapsed(tasks_)
  /\ first' = Earlier(first)
  /\ UNCHANGED <<done_, due, todo, thread_>>
=============================================================================
