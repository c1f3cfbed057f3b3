---------------------------- MODULE MetricsWriter ----------------------------
(***************************************************************************)
(* metrics::metrics_writer: the receiving pipes register their validators  *)
(* with it, and the first to do so launches a thread that prints the       *)
(* metrics of all of them every m_interval (metrics_writer.cpp, and its    *)
(* use by run_pipe and run in receive.cpp).                                *)
(*                                                                         *)
(* The map of validators is protected by m_lock; the future of the writer  *)
(* thread is not.  Its move assignment in add_validator is modelled as the *)
(* load and the store of a swap, followed by the release of the shared     *)
(* state swapped out, which joins the thread launched with it.  A writer   *)
(* thread is named after the pipe that launched it, and the validator of a *)
(* pipe after the pipe.                                                    *)
(***************************************************************************)
EXTENDS FiniteSets, Naturals

CONSTANTS
  Pipes,        \* receiving pipes, each with its socket id
  StreamLimits, \* the values of cfg.concurrent_streams considered
  None          \* no thread

ASSUME PipesAssumption == IsFiniteSet(Pipes) /\ None \notin Pipes
ASSUME StreamsAssumption == StreamLimits \subseteq Nat \ {0}

VARIABLES
  streams,          \* cfg.concurrent_streams, fixed
  pc,               \* where each run_pipe is
  m_validators,     \* the pipes registered
  m_lock,           \* the writer printing under the lock, or None
  m_stop_token,     \* metrics_writer::m_stop_token
  m_metrics_future, \* the thread of m_metrics_future, None if not valid
  released,         \* what the assignment in add_validator swapped out
  writer,           \* where each metrics_func is
  pending,          \* validators still to be printed in this round
  fresh,            \* pipes with samples no report has shown yet
  force_break,      \* the application's break token
  main              \* the thread that owns the metrics_writer

pipeVars == <<pc, released>>
writerVars == <<writer, pending, m_lock>>
vars == <<streams, pc, released, writer, pending, m_lock, m_validators, m_stop_token,
          m_metrics_future, fresh, force_break, main>>

Active == {p \in Pipes : pc[p] \notin {"idle", "gone"}}
Live == {t \in Pipes : writer[t] \notin {"none", "done"}}

\* future::wait(), and the release of a future that std::async returned.
Joined(t) == t = None \/ (t \in Pipes /\ writer[t] = "done")

Init ==
  /\ streams \in StreamLimits
  /\ pc = [p \in Pipes |-> "idle"]
  /\ released = [p \in Pipes |-> None]
  /\ writer = [t \in Pipes |-> "none"]
  /\ pending = {} /\ m_lock = None
  /\ m_validators = {}
  /\ m_stop_token \in BOOLEAN   \* not initialised by the constructor
  /\ m_metrics_future = None
  /\ fresh = {}
  /\ force_break = FALSE
  /\ main = "running"

-----------------------------------------------------------------------------
(* A receiving pipe.                                                       *)

Goto(p, label) == pc' = [pc EXCEPT ![p] = label]

\* common_run has a new connection, and room for it.
StartPipe(p) ==
  /\ pc[p] = "idle" /\ main = "running"
  /\ Cardinality(Active) < streams
  /\ Goto(p, "insert")
  /\ UNCHANGED <<streams, released, writerVars, m_validators, m_stop_token, m_metrics_future,
                 fresh, force_break, main>>

\* add_validator, under m_lock.
Insert(p) ==
  /\ pc[p] = "insert" /\ m_lock = None
  /\ m_validators' = m_validators \cup {p}
  /\ Goto(p, "check")
  /\ UNCHANGED <<streams, released, writerVars, m_stop_token, m_metrics_future, fresh,
                 force_break, main>>

CheckFuture_Dropped(p) ==
  /\ pc[p] = "check"
  /\ Goto(p, "launch")
  /\ UNCHANGED <<streams, released, writerVars, m_validators, m_stop_token, m_metrics_future,
                 fresh, force_break, main>>

CheckFuture_Inverted(p) ==
  /\ pc[p] = "check"
  /\ Goto(p, IF m_metrics_future # None THEN "launch" ELSE "read")
  /\ UNCHANGED <<streams, released, writerVars, m_validators, m_stop_token, m_metrics_future,
                 fresh, force_break, main>>

\* add_validator: if m_metrics_future.valid() return, without the lock.
CheckFuture(p) ==
  /\ pc[p] = "check"
  /\ Goto(p, IF m_metrics_future = None THEN "launch" ELSE "read")
  /\ UNCHANGED <<streams, released, writerVars, m_validators, m_stop_token, m_metrics_future,
                 fresh, force_break, main>>

\* add_validator: m_stop_token = false, and launch().
Launch(p) ==
  /\ pc[p] = "launch"
  /\ m_stop_token' = FALSE
  /\ writer' = [writer EXCEPT ![p] = "check"]
  /\ Goto(p, "load")
  /\ UNCHANGED <<streams, released, pending, m_lock, m_validators, m_metrics_future, fresh,
                 force_break, main>>

\* The assignment to m_metrics_future reads what is there ...
SwapLoad(p) ==
  /\ pc[p] = "load"
  /\ released' = [released EXCEPT ![p] = m_metrics_future]
  /\ Goto(p, "store")
  /\ UNCHANGED <<streams, writerVars, m_validators, m_stop_token, m_metrics_future, fresh,
                 force_break, main>>

\* ... replaces it by the new future ...
SwapStore(p) ==
  /\ pc[p] = "store"
  /\ m_metrics_future' = p
  /\ Goto(p, "join")
  /\ UNCHANGED <<streams, released, writerVars, m_validators, m_stop_token, fresh,
                 force_break, main>>

\* ... and releases it, joining its thread.
Join(p) ==
  /\ pc[p] = "join"
  /\ Joined(released[p])
  /\ released' = [released EXCEPT ![p] = None]
  /\ Goto(p, "read")
  /\ UNCHANGED <<streams, writerVars, m_validators, m_stop_token, m_metrics_future, fresh,
                 force_break, main>>

\* run_pipe reads a packet and validates it.
Read(p) ==
  /\ pc[p] = "read"
  /\ fresh' = fresh \cup {p}
  /\ UNCHANGED <<streams, pipeVars, writerVars, m_validators, m_stop_token, m_metrics_future,
                 force_break, main>>

\* The connection ends with an exception, or the loop sees force_break.
EndStream(p) ==
  /\ pc[p] = "read"
  /\ Goto(p, "remove")
  /\ UNCHANGED <<streams, released, writerVars, m_validators, m_stop_token, m_metrics_future,
                 fresh, force_break, main>>

\* remove_validator, under m_lock; with run_pipe the validator goes too.
Remove(p) ==
  /\ pc[p] = "remove" /\ m_lock = None
  /\ m_validators' = m_validators \ {p}
  /\ fresh' = fresh \ {p}
  /\ Goto(p, "gone")
  /\ UNCHANGED <<streams, released, writerVars, m_stop_token, m_metrics_future, force_break, main>>

-----------------------------------------------------------------------------
(* A writer thread.                                                        *)

\* while (!stop_stats)
WriterCheck(t) ==
  /\ writer[t] = "check"
  /\ writer' = [writer EXCEPT ![t] = IF m_stop_token THEN "done" ELSE "lock"]
  /\ UNCHANGED <<streams, pipeVars, pending, m_lock, m_validators, m_stop_token,
                 m_metrics_future, fresh, force_break, main>>

\* print_metrics takes the lock and begins with the validators there are.
BeginPrint(t) ==
  /\ writer[t] = "lock" /\ m_lock = None
  /\ m_lock' = t
  /\ pending' = m_validators
  /\ writer' = [writer EXCEPT ![t] = "print"]
  /\ UNCHANGED <<streams, pipeVars, m_validators, m_stop_token, m_metrics_future, fresh,
                 force_break, main>>

\* stats() or stats_csv() of one validator.
PrintOne(t) ==
  /\ writer[t] = "print"
  /\ \E v \in pending :
       /\ pending' = pending \ {v}
       /\ fresh' = fresh \ {v}
  /\ UNCHANGED <<streams, pipeVars, writer, m_lock, m_validators, m_stop_token,
                 m_metrics_future, force_break, main>>

\* print_metrics returns; no validator is empty, so none is erased.
EndPrint(t) ==
  /\ writer[t] = "print" /\ pending = {}
  /\ m_lock' = None
  /\ writer' = [writer EXCEPT ![t] = "sleep"]
  /\ UNCHANGED <<streams, pipeVars, pending, m_validators, m_stop_token, m_metrics_future,
                 fresh, force_break, main>>

WakeUp_PrintsOnce(t) ==
  /\ writer[t] = "sleep"
  /\ writer' = [writer EXCEPT ![t] = "done"]
  /\ UNCHANGED <<streams, pipeVars, pending, m_lock, m_validators, m_stop_token,
                 m_metrics_future, fresh, force_break, main>>

\* sleep_for(interval) is over.
WakeUp(t) ==
  /\ writer[t] = "sleep"
  /\ writer' = [writer EXCEPT ![t] = "check"]
  /\ UNCHANGED <<streams, pipeVars, pending, m_lock, m_validators, m_stop_token,
                 m_metrics_future, fresh, force_break, main>>

-----------------------------------------------------------------------------
(* The thread that runs receive::run.                                      *)

\* OnINT_ForceExit.
Interrupt ==
  /\ main = "running" /\ ~force_break
  /\ force_break' = TRUE
  /\ UNCHANGED <<streams, pipeVars, writerVars, m_validators, m_stop_token, m_metrics_future,
                 fresh, main>>

Stop_NoToken ==
  /\ main = "running"
  /\ Active = {}
  /\ force_break \/ \A p \in Pipes : pc[p] = "gone"
  /\ main' = "stopping"
  /\ UNCHANGED <<streams, pipeVars, writerVars, m_validators, m_stop_token, m_metrics_future, fresh,
                 force_break>>

\* common_run has returned, every pipe having ended: ~metrics_writer, stop().
Stop ==
  /\ main = "running"
  /\ Active = {}
  /\ force_break \/ \A p \in Pipes : pc[p] = "gone"
  /\ m_stop_token' = TRUE
  /\ main' = "stopping"
  /\ UNCHANGED <<streams, pipeVars, writerVars, m_validators, m_metrics_future, fresh,
                 force_break>>

Destroy_NoWait ==
  /\ main = "stopping"
  /\ main' = "destroyed"
  /\ UNCHANGED <<streams, pipeVars, writerVars, m_validators, m_stop_token, m_metrics_future,
                 fresh, force_break>>

\* stop() has waited for the writer; the members are destroyed.
Destroy ==
  /\ main = "stopping"
  /\ Joined(m_metrics_future)
  /\ main' = "destroyed"
  /\ UNCHANGED <<streams, pipeVars, writerVars, m_validators, m_stop_token, m_metrics_future,
                 fresh, force_break>>

Terminated == main = "destroyed" /\ UNCHANGED vars

AddValidator(p) ==
  Insert(p) \/ CheckFuture(p) \/ Launch(p) \/ SwapLoad(p) \/ SwapStore(p) \/ Join(p)
PipeStep(p) == StartPipe(p) \/ AddValidator(p) \/ Read(p) \/ EndStream(p) \/ Remove(p)
WriterStep(t) ==
  WriterCheck(t) \/ BeginPrint(t) \/ PrintOne(t) \/ EndPrint(t) \/ WakeUp(t)

Next ==
  \/ \E p \in Pipes : PipeStep(p) \/ WriterStep(p)
  \/ Interrupt \/ Stop \/ Destroy \/ Terminated

(***************************************************************************)
(* Every thread goes on computing, and m_lock is eventually obtained by a  *)
(* thread that keeps asking for it.  Nothing forces a connection to come,  *)
(* to carry data or to end, or the user to interrupt; and nothing forces   *)
(* common_run to return, for a read of an idle socket need not, and the    *)
(* wait for the pipes may miss its notification.                           *)
(***************************************************************************)
Fairness ==
  /\ \A p \in Pipes : /\ WF_vars(AddValidator(p)) /\ SF_vars(Insert(p)) /\ SF_vars(Remove(p))
                      /\ WF_vars(WriterStep(p)) /\ SF_vars(BeginPrint(p))
  /\ WF_vars(Destroy)

Spec == Init /\ [][Next]_vars
FairSpec == Spec /\ Fairness

\* The best case for an interrupt: every read returns, and so does common_run
\* when the pipes have ended.
BestCaseSpec ==
  FairSpec /\ WF_vars(Stop) /\ \A p \in Pipes : WF_vars(force_break /\ EndStream(p))

-----------------------------------------------------------------------------
(* Properties.                                                             *)

PipeLabels == {"idle", "insert", "check", "launch", "load", "store", "join",
               "read", "remove", "gone"}
WriterLabels == {"none", "check", "lock", "print", "sleep", "done"}

(***************************************************************************)
(* The variables have their types, and m_lock is held exactly by a writer  *)
(* that is printing.                                                       *)
(***************************************************************************)
TypeOK ==
  /\ streams \in StreamLimits
  /\ pc \in [Pipes -> PipeLabels]
  /\ released \in [Pipes -> Pipes \cup {None}]
  /\ writer \in [Pipes -> WriterLabels]
  /\ pending \subseteq Pipes /\ m_validators \subseteq Pipes /\ fresh \subseteq Pipes
  /\ m_lock \in Pipes \cup {None}
  /\ \A t \in Pipes : writer[t] = "print" <=> m_lock = t
  /\ m_stop_token \in BOOLEAN /\ force_break \in BOOLEAN
  /\ m_metrics_future \in Pipes \cup {None}
  /\ main \in {"running", "stopping", "destroyed"}

(***************************************************************************)
(* A pipe that receives is served: there is a writer thread that has not   *)
(* ended, and m_metrics_future belongs to one.  However the registrations  *)
(* of several pipes interleave, the thread is not told to stop under them. *)
(***************************************************************************)
ReceivingIsServed ==
  \A p \in Pipes : pc[p] \in {"read", "remove"} =>
    m_metrics_future \in Live

(***************************************************************************)
(* --metricsfreq: when streams are received one at a time the metrics are  *)
(* retrieved, and the measurement period is closed, once per interval:     *)
(* there are never two writer threads.                                     *)
(***************************************************************************)
AtMostOneWriter == streams = 1 => \A t, u \in Live : t = u

(***************************************************************************)
(* Then also, when the metrics_writer is destroyed no thread is left that  *)
(* refers to its map, its file, its mutex or its stop token.               *)
(***************************************************************************)
NoWriterAfterDestroy == streams = 1 /\ main = "destroyed" => Live = {}

(***************************************************************************)
(* What a pipe receives is reported, unless the pipe ends first: the       *)
(* writer is never kept from printing.                                     *)
(***************************************************************************)
SamplesReported == \A p \in Pipes : p \in fresh ~> p \notin fresh

(***************************************************************************)
(* With one stream at a time the metrics_writer keeps nobody waiting: a    *)
(* pipe that registers or removes its validator goes on, although it       *)
(* assigns a future that joins and competes for m_lock, and the destructor *)
(* ends, although it waits for the writer thread.                          *)
(***************************************************************************)
OneStreamNeverBlocks ==
  /\ \A p \in Pipes :
       (streams = 1 /\ pc[p] \notin {"idle", "read", "gone"}) ~> pc[p] \in {"read", "gone"}
  /\ (streams = 1 /\ main = "stopping") ~> main = "destroyed"

(***************************************************************************)
(* xtransmit-app.cpp:143, "Handle Ctrl+C interrupt", whatever the number   *)
(* of streams: receive::run returns.                                       *)
(***************************************************************************)
InterruptCompletes == force_break ~> main = "destroyed"
=============================================================================
