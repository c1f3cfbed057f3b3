------------------------------ MODULE CommonRun ------------------------------
(***************************************************************************)
(* The connection manager shared by the generate and receive subcommands:  *)
(* create_connection, class concurrent_pipes and common_run of misc.cpp.   *)
(*                                                                         *)
(* The main thread establishes connections one after another and gives     *)
(* each of them to a pipe, a thread started with std::async.  A pipe that  *)
(* ends reports itself with on_pipe_exit; the main thread, waiting on the  *)
(* condition variable m_cv_active, then erases its future.  Every section  *)
(* under m_mtx is one step, except the erasing in wait(), which joins      *)
(* threads while it holds the mutex.                                       *)
(*                                                                         *)
(* Time is left out: the pause of one second between reconnections         *)
(* (next_reconnect) only delays a step.                                    *)
(***************************************************************************)
EXTENDS Integers, FiniteSets

CONSTANTS
  Ids,           \* the socket ids the system may hand out
  Configs,       \* the command lines considered, a set of Config records
  ConnCap,       \* conns_cnt saturates here; above every max_conns
  NoConn         \* main holds no connection

Kinds == {"udp", "tcp_listener", "tcp_caller", "srt_listener", "srt_caller",
          "group_listener", "group_caller"}

(***************************************************************************)
(* conn_config, with the parts of stats_config and of the pipe's own       *)
(* configuration that matter: stats is write_stats, playback says that the *)
(* pipe paces itself with a csv_pacer.  max_conns = 0 stands for every     *)
(* value that is not positive (no limit).                                  *)
(***************************************************************************)
Config == [kind : Kinds, reconnect : BOOLEAN, max_conns : 0..ConnCap,
           concurrent_streams : Nat \ {0}, close_listener : BOOLEAN,
           stats : BOOLEAN, playback : BOOLEAN]

ASSUME IdsAssumption == IsFiniteSet(Ids) /\ NoConn \notin Ids
ASSUME CapAssumption == ConnCap \in Nat \ {0}
ASSUME ConfigAssumption == Configs \subseteq Config

VARIABLES
  cfg,            \* the command line, fixed
  main,           \* where the main thread is
  draining,       \* main has left the do-while loop of common_run
  conn,           \* the local conn of common_run
  listening_sock, \* the local listening_sock of common_run
  conns_cnt,      \* connections given to a pipe, saturating at ConnCap
  m_pipes,        \* keys of concurrent_pipes::m_pipes
  m_to_close,     \* concurrent_pipes::m_to_close
  notified,       \* a notify_all has reached main inside m_cv_active.wait
  break_token,    \* force_break
  pipe,           \* where the thread of each connection is
  m_sock          \* connections the stats_writer holds

vars == <<cfg, main, draining, conn, listening_sock, conns_cnt, m_pipes,
          m_to_close, notified, break_token, pipe, m_sock>>

MainStates == {"start", "open", "establish", "add", "launch", "emplace",
               "check", "full", "towait", "waiting", "reap", "drain",
               "destroy", "returned"}

ListeningStates == {"none", "fresh", "listening", "connected", "closed"}

\* A pipe is processing its connection until its exit is registered.
Processing == {"run", "exit", "exit_lock"}

\* The thread function is over: its future is ready, its conn released.
Ended == {"ended", "failed"}

PipeStates == Processing \cup Ended \cup {"none", "returning"}

Live == {id \in Ids : pipe[id] \in Processing}

\* A socket is open while main, its pipe or the stats_writer holds a pointer.
OpenIds == m_sock \cup {conn} \cup {id \in Ids : pipe[id] \in Processing \cup {"returning"}}

Accepts == cfg.kind \in {"tcp_listener", "srt_listener", "group_listener"}

\* concurrent_pipes::size
size == Cardinality(m_pipes) - Cardinality(m_to_close)

\* Faulty variants of the definitions below, named after the definition and
\* the fault, are used only to see the properties fail.
HasRoom_OffByOne == size <= cfg.concurrent_streams

\* Another stream fits.
HasRoom == size < cfg.concurrent_streams

MaxReached_OffByOne(n) == cfg.max_conns > 0 /\ n > cfg.max_conns

\* n connections are as many as --maxconns allows.
MaxReached(n) == cfg.max_conns > 0 /\ n >= cfg.max_conns

Found_NotChecked(id) == TRUE

\* on_pipe_exit looks its pipe up.
Found(id) == id \in m_pipes

\* stats_writer::remove_socket
Removed(id) == m_sock \ {id}

Closing_Every == m_pipes

\* The futures wait() erases, and so joins.
Closing == m_to_close

-----------------------------------------------------------------------------
Init ==
  /\ cfg \in Configs
  /\ main = "start"
  /\ draining = FALSE
  /\ conn = NoConn
  /\ listening_sock = "none"
  /\ conns_cnt = 0
  /\ m_pipes = {}
  /\ m_to_close = {}
  /\ notified = FALSE
  /\ break_token = FALSE
  /\ pipe = [id \in Ids |-> "none"]
  /\ m_sock = {}

poolState == <<m_pipes, m_to_close, notified, pipe>>

-----------------------------------------------------------------------------
(* The main thread.                                                        *)

\* Leave the do-while loop of common_run for the final wait.
LeaveLoop == main' = "drain" /\ draining' = TRUE

\* The condition of the do-while loop.
NextIteration ==
  IF break_token THEN LeaveLoop ELSE main' = "open" /\ UNCHANGED draining

\* The stats file is opened; on failure common_run is over at once.
CreateStatsWriter ==
  /\ main = "start"
  /\ \/ main' = "open"
     \/ cfg.stats /\ main' = "returned"
  /\ UNCHANGED <<cfg, draining, conn, listening_sock, conns_cnt, break_token, m_sock>>
  /\ UNCHANGED poolState

\* create_connection up to accept() or connect(): the socket is created, and
\* put into the listening state, unless listening_sock already exists.
OpenSocket ==
  /\ main = "open"
  /\ main' = "establish"
  /\ listening_sock' = IF cfg.kind = "udp" \/ listening_sock # "none"
                         THEN listening_sock
                         ELSE IF Accepts THEN "listening" ELSE "fresh"
  /\ UNCHANGED <<cfg, draining, conn, conns_cnt, break_token, m_sock>>
  /\ UNCHANGED poolState

\* The constructor throws, or listen() closes its socket and throws; neither
\* is inside the try of create_connection.
OpenSocketThrows ==
  /\ main = "open"
  /\ listening_sock = "none"
  /\ LeaveLoop
  /\ \/ UNCHANGED listening_sock
     \/ Accepts /\ listening_sock' = "closed"
  /\ UNCHANGED <<cfg, conn, conns_cnt, break_token, m_sock>>
  /\ UNCHANGED poolState

\* What create_connection leaves in listening_sock after a success.
SavedSocket ==
  CASE cfg.kind = "tcp_listener"                   -> "none"
    [] cfg.kind = "tcp_caller"                     -> "connected"
    [] cfg.kind \in {"srt_caller", "group_caller"} -> "none"
    [] OTHER                                       -> listening_sock

\* accept() or connect() succeeds.  The id is that of no other open socket,
\* but may be that of a closed one.  A TCP socket that is already connected
\* cannot be connected again.
Establish ==
  /\ main = "establish"
  /\ listening_sock # "connected"
  /\ main' = "add"
  /\ \E id \in Ids \ OpenIds : conn' = id
  /\ listening_sock' = SavedSocket
  /\ UNCHANGED <<cfg, draining, conns_cnt, break_token, m_sock>>
  /\ UNCHANGED poolState

\* accept() or connect() throws: common_run leaves its loop.
EstablishThrows ==
  /\ main = "establish"
  /\ LeaveLoop
  /\ listening_sock' = IF cfg.kind \in {"udp", "group_listener", "group_caller"}
                         THEN listening_sock ELSE "none"
  /\ UNCHANGED <<cfg, conn, conns_cnt, break_token, m_sock>>
  /\ UNCHANGED poolState

\* The listener is closed if asked for, and the connection given to the
\* stats_writer (UDP sockets have no statistics).
AddSocket ==
  /\ main = "add"
  /\ main' = "launch"
  /\ listening_sock' = IF cfg.close_listener THEN "none" ELSE listening_sock
  /\ m_sock' = IF cfg.stats /\ cfg.kind # "udp" THEN m_sock \cup {conn} ELSE m_sock
  /\ UNCHANGED <<cfg, draining, conn, conns_cnt, break_token>>
  /\ UNCHANGED poolState

\* add_pipe, the argument of emplace: std::async starts the thread ...
LaunchPipe ==
  /\ main = "launch"
  /\ main' = "emplace"
  /\ pipe' = [pipe EXCEPT ![conn] = "run"]
  /\ UNCHANGED <<cfg, draining, conn, listening_sock, conns_cnt, break_token,
                 m_sock, m_pipes, m_to_close, notified>>

\* ... and its future enters m_pipes, without m_mtx.  When the id is still
\* there from a connection closed but not reaped, the new future is dropped,
\* and its destructor joins the new thread.  Then the connection is counted.
EmplacePipe ==
  /\ main = "emplace"
  /\ conn \in m_pipes => pipe[conn] \in Ended
  /\ m_pipes' = m_pipes \cup {conn}
  /\ conns_cnt' = IF conns_cnt < ConnCap THEN conns_cnt + 1 ELSE conns_cnt
  /\ conn' = NoConn
  /\ IF MaxReached(conns_cnt')
       THEN LeaveLoop
       ELSE main' = "check" /\ UNCHANGED draining
  /\ UNCHANGED <<cfg, listening_sock, break_token, m_sock, m_to_close, notified, pipe>>

\* Room for another stream: continue.  Otherwise go on only to reconnect.
CheckSize ==
  /\ main = "check"
  /\ IF HasRoom
       THEN NextIteration
       ELSE IF ~cfg.reconnect \/ break_token
         THEN LeaveLoop
         ELSE main' = "full" /\ UNCHANGED draining
  /\ UNCHANGED <<cfg, conn, listening_sock, conns_cnt, break_token, m_sock>>
  /\ UNCHANGED poolState

\* The inner loop that waits for a stream to end.
WhileFull ==
  /\ main = "full"
  /\ IF ~break_token /\ ~HasRoom
       THEN main' = "towait" /\ UNCHANGED draining
       ELSE NextIteration
  /\ UNCHANGED <<cfg, conn, listening_sock, conns_cnt, break_token, m_sock>>
  /\ UNCHANGED poolState

\* wait(): the mutex is taken and released by m_cv_active.wait.
BeginWait ==
  /\ main = "towait"
  /\ main' = "waiting"
  /\ notified' = FALSE
  /\ UNCHANGED <<cfg, draining, conn, listening_sock, conns_cnt, break_token,
                 m_sock, m_pipes, m_to_close, pipe>>

\* m_cv_active.wait returns after a notification, with the mutex taken.
WakeUp ==
  /\ main = "waiting"
  /\ notified
  /\ main' = "reap"
  /\ UNCHANGED <<cfg, draining, conn, listening_sock, conns_cnt, break_token, m_sock>>
  /\ UNCHANGED poolState

\* The wait has no predicate, so main also goes on after a spurious wake-up.
SpuriousWakeUp ==
  /\ main = "waiting"
  /\ ~notified
  /\ main' = "reap"
  /\ UNCHANGED <<cfg, draining, conn, listening_sock, conns_cnt, break_token, m_sock>>
  /\ UNCHANGED poolState

\* The rest of wait(): erasing a future joins its thread.
Reap ==
  /\ main = "reap"
  /\ \A id \in Closing : pipe[id] \in Ended
  /\ main' = IF draining THEN "drain" ELSE "full"
  /\ m_pipes' = m_pipes \ Closing
  /\ m_to_close' = {}
  /\ UNCHANGED <<cfg, draining, conn, listening_sock, conns_cnt, break_token,
                 m_sock, notified, pipe>>

WhileDraining_Missing ==
  /\ main = "drain"
  /\ main' = "destroy"
  /\ UNCHANGED <<cfg, draining, conn, listening_sock, conns_cnt, break_token, m_sock>>
  /\ UNCHANGED poolState

\* The last loop of common_run.
WhileDraining ==
  /\ main = "drain"
  /\ main' = IF size # 0 THEN "towait" ELSE "destroy"
  /\ UNCHANGED <<cfg, draining, conn, listening_sock, conns_cnt, break_token, m_sock>>
  /\ UNCHANGED poolState

\* The destructors: concurrent_pipes (its mutex first, then the futures,
\* which join), listening_sock, stats_writer.
Destroy ==
  /\ main = "destroy"
  /\ \A id \in m_pipes : pipe[id] \in Ended
  /\ main' = "returned"
  /\ m_pipes' = {}
  /\ m_to_close' = {}
  /\ listening_sock' = "none"
  /\ m_sock' = {}
  /\ UNCHANGED <<cfg, draining, conn, conns_cnt, break_token, notified, pipe>>

-----------------------------------------------------------------------------
(* The pipes: run_pipe of generate.cpp and receive.cpp.                    *)

pipeUnchanged == <<cfg, main, draining, conn, listening_sock, conns_cnt, break_token>>

\* The loop of run_pipe ends: the work is done, break_token is seen, or a
\* socket::exception is caught.  on_done is called.
PipeEnds(id) ==
  /\ pipe[id] = "run"
  /\ pipe' = [pipe EXCEPT ![id] = "exit"]
  /\ UNCHANGED pipeUnchanged
  /\ UNCHANGED <<m_pipes, m_to_close, notified, m_sock>>

\* The csv_pacer is created outside the try of run_pipe, and a line that is
\* no number raises what the try does not catch: on_done is never called.
PipeThrows(id) ==
  /\ cfg.playback
  /\ pipe[id] = "run"
  /\ pipe' = [pipe EXCEPT ![id] = "failed"]
  /\ UNCHANGED pipeUnchanged
  /\ UNCHANGED <<m_pipes, m_to_close, notified, m_sock>>

\* on_pipe_exit, before the lock: m_stats->remove_socket.
RemoveSocket(id) ==
  /\ pipe[id] = "exit"
  /\ pipe' = [pipe EXCEPT ![id] = "exit_lock"]
  /\ m_sock' = Removed(id)
  /\ UNCHANGED pipeUnchanged
  /\ UNCHANGED <<m_pipes, m_to_close, notified>>

\* on_pipe_exit, under the lock, which main holds while it reaps: the pipe is
\* found in m_pipes, registered, and main is notified.
RegisterExit(id) ==
  /\ pipe[id] = "exit_lock"
  /\ main # "reap"
  /\ Found(id)
  /\ pipe' = [pipe EXCEPT ![id] = "returning"]
  /\ m_to_close' = m_to_close \cup {id}
  /\ notified' = (notified \/ main = "waiting")
  /\ UNCHANGED pipeUnchanged
  /\ UNCHANGED <<m_pipes, m_sock>>

\* on_pipe_exit does not find the pipe.  That is so when main has not yet
\* emplaced it; and while main inserts any pipe, the search, which races with
\* the insertion, may miss one that is there.
MissExit(id) ==
  /\ pipe[id] = "exit_lock"
  /\ main # "reap"
  /\ ~Found(id) \/ (main = "emplace" /\ conn \notin m_pipes)
  /\ pipe' = [pipe EXCEPT ![id] = "returning"]
  /\ UNCHANGED pipeUnchanged
  /\ UNCHANGED <<m_pipes, m_to_close, notified, m_sock>>

\* run_pipe returns, which releases its pointer to the connection.
PipeReturns(id) ==
  /\ pipe[id] = "returning"
  /\ pipe' = [pipe EXCEPT ![id] = "ended"]
  /\ UNCHANGED pipeUnchanged
  /\ UNCHANGED <<m_pipes, m_to_close, notified, m_sock>>

-----------------------------------------------------------------------------
\* SIGINT or SIGTERM with --handle-sigint.
OnINT_ForceExit ==
  /\ ~break_token
  /\ break_token' = TRUE
  /\ UNCHANGED <<cfg, main, draining, conn, listening_sock, conns_cnt, m_sock>>
  /\ UNCHANGED poolState

\* The process has left common_run.
Returned == main = "returned" /\ UNCHANGED vars

MainStep ==
  \/ CreateStatsWriter \/ OpenSocket \/ OpenSocketThrows \/ Establish \/ EstablishThrows
  \/ AddSocket \/ LaunchPipe \/ EmplacePipe \/ CheckSize \/ WhileFull
  \/ BeginWait \/ WakeUp \/ SpuriousWakeUp \/ Reap \/ WhileDraining \/ Destroy

PipeStep(id) ==
  \/ PipeEnds(id) \/ PipeThrows(id) \/ RemoveSocket(id)
  \/ RegisterExit(id) \/ MissExit(id) \/ PipeReturns(id)

Next ==
  \/ MainStep
  \/ \E id \in Ids : PipeStep(id)
  \/ OnINT_ForceExit
  \/ Returned

Spec == Init /\ [][Next]_vars

(***************************************************************************)
(* Fairness.  Both threads keep running, so every step that only computes  *)
(* or takes the mutex is weakly fair.  accept() and connect() may wait for *)
(* a peer for ever, a stream may last for ever, nobody has to press Ctrl+C *)
(* and no system owes a spurious wake-up: those steps are not fair.  The   *)
(* lock of m_mtx is strongly fair: a thread that waits for a mutex which   *)
(* is released again and again obtains it.                                 *)
(***************************************************************************)
Fairness ==
  /\ WF_vars(CreateStatsWriter \/ OpenSocket \/ AddSocket \/ LaunchPipe \/ EmplacePipe
             \/ CheckSize \/ WhileFull \/ BeginWait \/ WakeUp \/ Reap \/ WhileDraining
             \/ Destroy)
  /\ \A id \in Ids : /\ WF_vars(RemoveSocket(id) \/ PipeReturns(id))
                     /\ SF_vars(RegisterExit(id) \/ MissExit(id))

FairSpec == Spec /\ Fairness

-----------------------------------------------------------------------------
(* Properties.                                                             *)

(***************************************************************************)
(* The variables of common_run and concurrent_pipes have their types; main *)
(* holds a connection from accept() or connect() until it is emplaced.     *)
(***************************************************************************)
TypeOK ==
  /\ cfg \in Configs
  /\ main \in MainStates
  /\ draining \in BOOLEAN
  /\ conn \in IF main \in {"add", "launch", "emplace"} THEN Ids ELSE {NoConn}
  /\ listening_sock \in ListeningStates
  /\ conns_cnt \in 0..ConnCap
  /\ m_pipes \subseteq Ids
  /\ m_to_close \subseteq Ids
  /\ notified \in BOOLEAN
  /\ break_token \in BOOLEAN
  /\ pipe \in [Ids -> PipeStates]
  /\ m_sock \subseteq Ids

(***************************************************************************)
(* --concurrent-streams is a limit: although size() is read before the     *)
(* next connection is waited for and the threads race with the bookkeeping *)
(* of m_pipes, never more pipes process a connection at the same time.     *)
(***************************************************************************)
StreamLimit == Cardinality(Live) <= cfg.concurrent_streams

(***************************************************************************)
(* concurrent_pipes::size subtracts two size_t: every id in m_to_close is  *)
(* in m_pipes, so that it does not wrap.  And the threads wait() joins     *)
(* while it holds m_mtx are past their own need of m_mtx.                  *)
(***************************************************************************)
ToCloseIsClosable ==
  /\ m_to_close \subseteq m_pipes
  /\ main = "reap" => \A id \in m_to_close : pipe[id] \in Ended \cup {"returning"}

(***************************************************************************)
(* The members of concurrent_pipes are destroyed mutex first, futures      *)
(* last: when the destructor runs, no thread is still to lock m_mtx, and   *)
(* after common_run has returned no thread is left that uses its locals.   *)
(***************************************************************************)
NoUseAfterDestroy ==
  /\ main = "destroy" => \A id \in Ids : pipe[id] \notin Processing
  /\ main = "returned" => \A id \in Ids : pipe[id] \in Ended \cup {"none"}

(***************************************************************************)
(* `conn` is closed after its processing is done: the stats_writer holds   *)
(* no pointer to a connection whose pipe has reported its exit, unless     *)
(* main already holds a new connection with the same id.                   *)
(***************************************************************************)
ClosedAfterProcessing ==
  \A id \in m_sock \ {conn} : pipe[id] \notin {"exit_lock", "returning", "ended"}

(***************************************************************************)
(* A pipe that calls on_done always ends: the lock it needs is not kept by *)
(* a main thread that waits for this very pipe.                            *)
(***************************************************************************)
ExitCompletes == \A id \in Ids : (pipe[id] = "exit") ~> (pipe[id] \in Ended)

(***************************************************************************)
(* common_run implements the pool of pipes its callers rely on.  A         *)
(* connection counts as opened when its thread is launched.                *)
(***************************************************************************)
Launched ==
  IF main = "emplace" /\ conns_cnt < ConnCap THEN conns_cnt + 1 ELSE conns_cnt

Pool == INSTANCE PipePool WITH
  Limits    <- [active : Nat \ {0}, opened : 0..ConnCap],
  OpenedCap <- ConnCap,
  limits    <- [active |-> cfg.concurrent_streams, opened |-> cfg.max_conns],
  active    <- Live,
  opened    <- Launched,
  over      <- main \in {"destroy", "returned"}

ImplementsPool == Pool!PoolSpec

(***************************************************************************)
(* What the code's own words promise, and a run refutes.                   *)
(***************************************************************************)

\* misc.cpp:154, "Wait for changes in the number of active pipes.": an exit
\* registered while main waits, or is about to, ends the wait.
WaitSeesExit == (main = "waiting" /\ m_to_close # {}) ~> (main # "waiting")
=============================================================================
