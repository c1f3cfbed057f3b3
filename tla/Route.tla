------------------------------- MODULE Route -------------------------------
(***************************************************************************)
(* The route subcommand: messages read from a source socket are written to *)
(* a destination socket by the main thread and, with --bidir, the other    *)
(* way round by a second thread; a stats_writer may watch both sockets.    *)
(* When a direction throws or an interrupt arrives, run() unwinds: the     *)
(* future of the second thread, the sockets and the writer are destroyed   *)
(* in this order, each waiting for what it stands for.                     *)
(*                                                                         *)
(* How create_connection makes a socket is the subject of Sockets.  For    *)
(* TCP a message is what one read returns.                                 *)
(***************************************************************************)
EXTENDS StatsWriter

CONSTANTS
  MaxMsgs,   \* messages that arrive at each socket (a bound)
  Configs    \* the command lines considered

Kinds == {"srt", "tcp", "udp"}
Dirs == {"fwd", "bkwd"}
Config == [kind : [Socks -> Kinds], order : [Socks -> {1, 2}],
           bidir : BOOLEAN, stats : BOOLEAN, json : BOOLEAN]

ASSUME RouteAssumption ==
  /\ Socks = {"src", "dst"}
  /\ MaxMsgs \in [Socks -> Nat]
  /\ Configs \subseteq Config

VARIABLES
  cfg,           \* the command line, fixed; order is that of the socket ids
  main,          \* where the main thread is
  dir,           \* where each direction is
  sock,          \* the connections
  arrived,       \* the number of messages that have come in from each peer
  taken,         \* how many of them were read
  buffer,        \* the message in the buffer of each direction
  written,       \* the messages written to each socket
  dropped,       \* those a direction gave up after a short write
  force_break

routeVars == <<cfg, main, dir, sock, arrived, taken, buffer, written, dropped, force_break>>
vars == <<statsVars, routeVars>>
data == <<arrived, taken, buffer, written, dropped>>

From(d) == IF d = "fwd" THEN "src" ELSE "dst"
To(d)   == IF d = "fwd" THEN "dst" ELSE "src"
Over(d) == dir[d] \in {"off", "ended", "threw"}
Running == main \notin {"returned", "terminated", "killed"}

\* get_statistics throws on a connection that is lost or closed.
Working ==
  {s \in Socks : sock[s] = "open" \/ (cfg.kind[s] = "tcp" /\ sock[s] = "broken")}
Json == {s \in Socks : cfg.json /\ cfg.kind[s] = "srt"}
SupportsStatistics(s) == cfg.kind[s] # "udp"

Init ==
  /\ StatsInit
  /\ cfg \in Configs
  /\ main = "create_dst"
  /\ dir = [d \in Dirs |-> "off"]
  /\ sock = [s \in Socks |-> "none"]
  /\ arrived = [s \in Socks |-> 0]
  /\ taken = [s \in Socks |-> 0]
  /\ buffer = [d \in Dirs |-> 0]
  /\ written = [s \in Socks |-> <<>>]
  /\ dropped = [d \in Dirs |-> 0]
  /\ force_break = FALSE

-----------------------------------------------------------------------------
(* run()                                                                   *)

\* The destination is connected first.
CreateConnection(s, from, to) ==
  /\ main = from
  /\ \/ sock' = [sock EXCEPT ![s] = "open"] /\ main' = to
     \/ sock' = sock /\ main' = "unwind"
  /\ UNCHANGED <<statsVars, cfg, dir, data, force_break>>

AddToStats(s, from, to) ==
  /\ main = from
  /\ main' = to
  /\ IF cfg.stats /\ SupportsStatistics(s) THEN add_socket(s) ELSE UNCHANGED statsVars
  /\ UNCHANGED <<cfg, dir, sock, data, force_break>>

StartDirections ==
  /\ main = "start"
  /\ main' = "route"
  /\ dir' = [d \in Dirs |-> IF d = "fwd" \/ cfg.bidir THEN "loop" ELSE "off"]
  /\ UNCHANGED <<statsVars, cfg, sock, data, force_break>>

\* After a return of route() the main thread waits for the other direction.
\* Without one the future is not valid: wait() throws what nobody catches.
ForwardReturned ==
  /\ main = "route"
  /\ dir["fwd"] = "ended"
  /\ \/ cfg.bidir /\ Over("bkwd") /\ main' = "unwind"
     \/ ~cfg.bidir /\ main' = "terminated"
  /\ UNCHANGED <<statsVars, cfg, dir, sock, data, force_break>>

ForwardThrew ==
  /\ main = "route"
  /\ dir["fwd"] = "threw"
  /\ main' = "unwind"
  /\ UNCHANGED <<statsVars, cfg, dir, sock, data, force_break>>

Unwind_NoJoin ==
  /\ main = "unwind"
  /\ main' = "stop_stats"
  /\ UNCHANGED <<statsVars, cfg, dir, sock, data, force_break>>

\* The destructor of the future waits.  Sockets that the writer does not hold
\* are closed here.
Unwind ==
  /\ main = "unwind"
  /\ Over("bkwd")
  /\ main' = "stop_stats"
  /\ sock' = [s \in Socks |-> IF s \in m_sock THEN sock[s] ELSE "none"]
  /\ UNCHANGED <<statsVars, cfg, dir, data, force_break>>

StopStats ==
  /\ main = "stop_stats"
  /\ \/ StopRequested /\ UNCHANGED <<main, sock>>
     \/ /\ Destroyed
        /\ main' = "returned"
        /\ sock' = [s \in Socks |-> "none"]
  /\ UNCHANGED <<cfg, dir, data, force_break>>

-----------------------------------------------------------------------------
(* route(), in each direction                                              *)

DirectionLoop(d) ==
  /\ Running
  /\ dir[d] = "loop"
  /\ dir' = [dir EXCEPT ![d] = IF force_break THEN "ended" ELSE "reading"]
  /\ UNCHANGED <<statsVars, cfg, main, sock, data, force_break>>

ReadMessage(d) ==
  /\ Running
  /\ dir[d] = "reading"
  /\ sock[From(d)] # "closed"
  /\ taken[From(d)] < arrived[From(d)]
  /\ taken' = [taken EXCEPT ![From(d)] = @ + 1]
  /\ buffer' = [buffer EXCEPT ![d] = taken[From(d)] + 1]
  /\ dir' = [dir EXCEPT ![d] = "writing"]
  /\ UNCHANGED <<statsVars, cfg, main, sock, arrived, written, dropped, force_break>>

ReadNothing_Writes(d) ==
  /\ Running
  /\ dir[d] = "reading"
  /\ sock[From(d)] = "open"
  /\ taken[From(d)] < arrived[From(d)]
  /\ dir' = [dir EXCEPT ![d] = "writing"]
  /\ UNCHANGED <<statsVars, cfg, main, sock, data, force_break>>

\* read() may find nothing although it was told there is something.
ReadNothing(d) ==
  /\ Running
  /\ dir[d] = "reading"
  /\ sock[From(d)] = "open"
  /\ taken[From(d)] < arrived[From(d)]
  /\ dir' = [dir EXCEPT ![d] = "loop"]
  /\ UNCHANGED <<statsVars, cfg, main, sock, data, force_break>>

ReadThrows_Retries(d) ==
  /\ Running
  /\ dir[d] = "reading"
  /\ sock[From(d)] \in {"broken", "closed"}
  /\ dir' = [dir EXCEPT ![d] = "loop"]
  /\ UNCHANGED <<statsVars, cfg, main, sock, data, force_break>>

ReadThrows(d) ==
  /\ Running
  /\ dir[d] = "reading"
  /\ sock[From(d)] \in {"broken", "closed"}
  /\ dir' = [dir EXCEPT ![d] = "threw"]
  /\ UNCHANGED <<statsVars, cfg, main, sock, data, force_break>>

WriteMessage(d) ==
  /\ Running
  /\ dir[d] = "writing"
  /\ sock[To(d)] = "open"
  /\ dir' = [dir EXCEPT ![d] = "loop"]
  /\ written' = [written EXCEPT ![To(d)] = Append(@, buffer[d])]
  /\ UNCHANGED <<statsVars, cfg, main, sock, arrived, taken, buffer, dropped, force_break>>

\* A short write (an SRT socket that is not blocking may write nothing) is
\* reported, and the message given up.
WriteShort(d) ==
  /\ Running
  /\ dir[d] = "writing"
  /\ sock[To(d)] = "open"
  /\ dir' = [dir EXCEPT ![d] = "loop"]
  /\ dropped' = [dropped EXCEPT ![d] = @ + 1]
  /\ UNCHANGED <<statsVars, cfg, main, sock, arrived, taken, buffer, written, force_break>>

WriteThrows(d) ==
  /\ Running
  /\ dir[d] = "writing"
  /\ sock[To(d)] \in {"broken", "closed"} \/ cfg.kind[To(d)] = "udp"
  /\ dir' = [dir EXCEPT ![d] = "threw"]
  /\ UNCHANGED <<statsVars, cfg, main, sock, data, force_break>>

\* sendto without MSG_NOSIGNAL to a TCP peer that is gone: unless the error is
\* one of the connection, SIGPIPE ends the process.
KilledBySignal(d) ==
  /\ Running
  /\ dir[d] = "writing"
  /\ sock[To(d)] = "broken" /\ cfg.kind[To(d)] = "tcp"
  /\ main' = "killed"
  /\ UNCHANGED <<statsVars, cfg, dir, sock, data, force_break>>

Direction(d) ==
  \/ DirectionLoop(d) \/ ReadMessage(d) \/ ReadNothing(d) \/ ReadThrows(d)
  \/ WriteMessage(d) \/ WriteShort(d) \/ WriteThrows(d)

-----------------------------------------------------------------------------
(* The peers and the user                                                  *)

MessageArrives(s) ==
  /\ Running
  /\ sock[s] = "open"
  /\ arrived[s] < MaxMsgs[s]
  /\ arrived' = [arrived EXCEPT ![s] = @ + 1]
  /\ UNCHANGED <<statsVars, cfg, main, dir, sock, taken, buffer, written, dropped, force_break>>

ConnectionLost(s) ==
  /\ Running
  /\ sock[s] = "open" /\ cfg.kind[s] # "udp"
  /\ sock' = [sock EXCEPT ![s] = "broken"]
  /\ UNCHANGED <<statsVars, cfg, main, dir, data, force_break>>

Interrupt_NoCleanup ==
  /\ Running
  /\ ~force_break
  /\ force_break' = TRUE
  /\ UNCHANGED <<statsVars, cfg, main, dir, sock, data>>

\* srt_cleanup closes the sockets of libsrt.
Interrupt ==
  /\ Running
  /\ ~force_break
  /\ force_break' = TRUE
  /\ sock' = [s \in Socks |-> IF cfg.kind[s] = "srt" /\ sock[s] \in {"open", "broken"}
                                THEN "closed" ELSE sock[s]]
  /\ UNCHANGED <<statsVars, cfg, main, dir, data>>

\* A socket the writer drops when main has released it is closed.
StatsStep ==
  /\ Running
  /\ StatsThread(cfg.order, Json, Working)
  /\ sock' = [s \in Socks |-> IF main = "stop_stats" /\ s \notin m_sock' THEN "none" ELSE sock[s]]
  /\ UNCHANGED <<cfg, main, dir, data, force_break>>

Main ==
  \/ CreateConnection("dst", "create_dst", "create_src")
  \/ CreateConnection("src", "create_src", "add_src")
  \/ AddToStats("src", "add_src", "add_dst")
  \/ AddToStats("dst", "add_dst", "start")
  \/ StartDirections \/ ForwardReturned \/ ForwardThrew \/ Unwind \/ StopStats

Next ==
  \/ Main
  \/ StatsStep
  \/ \E d \in Dirs : Direction(d) \/ KilledBySignal(d)
  \/ \E s \in Socks : MessageArrives(s) \/ ConnectionLost(s)
  \/ Interrupt

\* The threads run, and calls that have a result return; in particular the
\* peers go on reading, so that a write is over at some time.  A read that
\* finds nothing is not repeated for ever while there is a message.
Fairness ==
  /\ WF_vars(Main)
  /\ WF_vars(StatsStep)
  /\ \A d \in Dirs : WF_vars(Direction(d)) /\ SF_vars(ReadMessage(d))

Spec == Init /\ [][Next]_vars
FairSpec == Spec /\ Fairness

-----------------------------------------------------------------------------
\* Types of the state of run(), of its two directions and of the writer, which
\* never visits a socket it has dropped; no message is read that did not come.
TypeOK ==
  /\ StatsTypeOK
  /\ cfg \in Config
  /\ main \in {"create_dst", "create_src", "add_src", "add_dst", "start", "route",
               "unwind", "stop_stats", "returned", "terminated", "killed"}
  /\ dir \in [Dirs -> {"off", "loop", "reading", "writing", "ended", "threw"}]
  /\ sock \in [Socks -> {"none", "open", "broken", "closed"}]
  /\ arrived \in [Socks -> Nat]
  /\ taken \in [Socks -> Nat]
  /\ buffer \in [Dirs -> Nat]
  /\ \A s \in Socks : arrived[s] <= MaxMsgs[s] /\ taken[s] <= arrived[s]
  /\ written \in [Socks -> Seq(Nat)]
  /\ dropped \in [Dirs -> Nat]
  /\ force_break \in BOOLEAN

\* With CSV, the header of the statistics comes before every row and never
\* among the rows, whichever sockets fail at whichever call, and it is repeated
\* only for a socket that was removed (socket_stats.cpp:102).
CsvHeaderFirst == ~cfg.json => HeaderFirst

\* Each direction passes messages on in order and without duplicates, and
\* every message it has read was written, is about to be, was reported as not
\* fully written, or is the one the exception was about (route.cpp:53).
Forwarded ==
  /\ TypeOK
  /\ \A d \in Dirs :
       /\ \A i, j \in 1..Len(written[To(d)]) : i < j => written[To(d)][i] < written[To(d)][j]
       /\ taken[From(d)] - Len(written[To(d)]) - dropped[d]
            \in (IF dir[d] = "writing" THEN {1} ELSE IF dir[d] = "threw" THEN {0, 1} ELSE {0})

\* run() does not return before both of its threads have ended, whichever
\* exception it returns by: they refer to the configuration, to force_break
\* and to the writer (route.cpp:117, socket_stats.cpp:69).
ThreadsEndFirst ==
  main = "returned" =>
    /\ \A d \in Dirs : Over(d)
    /\ thread \in {"none", "done"}
    /\ m_sock = {}

\* With --bidir an interrupt makes run() return once the connections are made,
\* for SRT: both directions are in a read that srt_cleanup makes fail, and the
\* thread of the writer wakes up to see m_stop (xtransmit-app.cpp:37).
InterruptEnds ==
  (/\ main = "route" /\ force_break /\ cfg.bidir
   /\ \A s \in Socks : cfg.kind[s] = "srt") ~> main = "returned"

\* xtransmit-app.cpp:143, "Handle Ctrl+C interrupt", for a one-way route: run()
\* returns.  It does not when the loop sees force_break first (route.cpp:119).
OneWayInterruptReturns ==
  (/\ main = "route" /\ force_break /\ ~cfg.bidir
   /\ \A s \in Socks : cfg.kind[s] = "srt") ~> main = "returned"

\* When the source is lost, the program ends if the other direction gets a message
\* that makes it notice; with an idle destination it would wait on in the
\* destructor of the future (route.cpp:117).
LostSourceEnds ==
  (/\ main = "route"
   /\ sock["src"] = "broken" /\ cfg.kind["src"] # "udp"
   /\ cfg.bidir => taken["dst"] < arrived["dst"]) ~> ~Running
=============================================================================
