------------------------------ MODULE Forward ------------------------------
(***************************************************************************)
(* The file forward subcommand and its SrtNodes.  In every round a node    *)
(* connects to the destination, another one listens and accepts one        *)
(* source, and two threads pass messages on, one in each direction.  As    *)
(* soon as one of them fails both nodes are told to stop, what is still to *)
(* be delivered is waited for, and the next round begins.                  *)
(*                                                                         *)
(* The interrupt handler only sets force_break here: its srt_cleanup ends  *)
(* libsrt no more once the first node has called srt_startup again.        *)
(***************************************************************************)
EXTENDS Naturals

CONSTANTS
  SndBuf,     \* messages the send buffer of a connection holds
  WaitLimit,  \* turns of the loop in WaitUndelivered (3000 in the code)
  MaxEpolls   \* epoll ids the system grants the process

ASSUME ForwardAssumption ==
  SndBuf \in Nat \ {0} /\ WaitLimit \in Nat \ {0} /\ MaxEpolls \in Nat

Nodes == {"src", "dst"}
Dirs == {"src_to_dst", "dst_to_src"}

VARIABLES
  pc,          \* where the main thread is in run() and start_forwarding()
  listener,    \* m_bindsock of the source node
  conn,        \* the connections: accepted from the source, made to the destination
  m_stop_accept,
  dir,         \* where the two threads are
  inbox,       \* connections that have a message to read
  sndbuffer,   \* messages not yet delivered to the peer, per connection
  ms_passed,
  epolls,      \* epoll ids created; none is ever released
  force_break

vars == <<pc, listener, conn, m_stop_accept, dir, inbox, sndbuffer, ms_passed,
          epolls, force_break>>
network == <<listener, conn, inbox, sndbuffer>>
threads == <<m_stop_accept, dir>>
counts == <<ms_passed, epolls>>

From(d) == IF d = "src_to_dst" THEN "src" ELSE "dst"
To(d)   == IF d = "src_to_dst" THEN "dst" ELSE "src"

Init ==
  /\ pc = "loop"
  /\ listener = "none"
  /\ conn = [n \in Nodes |-> "none"]
  /\ m_stop_accept = [n \in Nodes |-> FALSE]
  /\ dir = [d \in Dirs |-> "off"]
  /\ inbox = {}
  /\ sndbuffer = [n \in Nodes |-> 0]
  /\ ms_passed = 0
  /\ epolls = 0
  /\ force_break = FALSE

-----------------------------------------------------------------------------
(* run() and start_forwarding()                                            *)

NextRound ==
  /\ pc = "loop"
  /\ pc' = IF force_break THEN "returned" ELSE "create"
  /\ UNCHANGED <<network, threads, counts, force_break>>

\* Two nodes, with two epolls each.
CreateNodes ==
  /\ pc = "create"
  /\ epolls + 4 <= MaxEpolls
  /\ pc' = "connect"
  /\ epolls' = epolls + 4
  /\ m_stop_accept' = [n \in Nodes |-> FALSE]
  /\ UNCHANGED <<network, dir, ms_passed, force_break>>

\* The constructor of SrtNode throws a runtime_error, which nobody catches.
CreateNodesThrows ==
  /\ pc = "create"
  /\ epolls + 4 > MaxEpolls
  /\ pc' = "terminated"
  /\ epolls' = MaxEpolls
  /\ UNCHANGED <<network, threads, ms_passed, force_break>>

\* The nodes are destroyed and close their bind sockets.  The one of the
\* source node is the listener: the accepted connection is forgotten here, but
\* not closed unless it was lost.
EndRound ==
  /\ pc' = "loop"
  /\ listener' = "none"
  /\ conn' = [n \in Nodes |-> "none"]
  /\ dir' = [d \in Dirs |-> "off"]
  /\ inbox' = {}
  /\ sndbuffer' = [n \in Nodes |-> 0]
  /\ ms_passed' = 0
  /\ UNCHANGED <<m_stop_accept, epolls, force_break>>

Connect ==
  /\ pc = "connect"
  /\ \/ /\ pc' = "listen"
        /\ conn' = [conn EXCEPT !["dst"] = "connected"]
        /\ UNCHANGED <<listener, inbox, sndbuffer, threads, counts, force_break>>
     \/ EndRound

Listen ==
  /\ pc = "listen"
  /\ \/ /\ pc' = "accept"
        /\ listener' = "listening"
        /\ UNCHANGED <<conn, inbox, sndbuffer, threads, counts, force_break>>
     \/ EndRound

\* AcceptingThread looks at force_break every 500 ms.
AcceptConnection ==
  /\ pc = "accept"
  /\ conn' = [conn EXCEPT !["src"] = "connected"]
  /\ pc' = "forward"
  /\ dir' = [d \in Dirs |-> "loop"]
  /\ UNCHANGED <<listener, inbox, sndbuffer, m_stop_accept, counts, force_break>>

AcceptCanceled_WhenAccepted ==
  /\ pc = "accept"
  /\ force_break
  /\ conn["src"] = "connected"
  /\ EndRound

AcceptCanceled ==
  /\ pc = "accept"
  /\ force_break
  /\ EndRound

Join_First ==
  /\ pc = "forward"
  /\ \E d \in Dirs : dir[d] = "ended"
  /\ pc' = "wait_undelivered"
  /\ UNCHANGED <<network, threads, counts, force_break>>

Join ==
  /\ pc = "forward"
  /\ \A d \in Dirs : dir[d] = "ended"
  /\ pc' = "wait_undelivered"
  /\ UNCHANGED <<network, threads, counts, force_break>>

\* For the source node there is nothing to wait for: its bind socket is the
\* listener.  The sleeps of 1 ms are the turns counted.
WaitUndelivered ==
  /\ pc = "wait_undelivered"
  /\ conn["dst"] = "connected" /\ sndbuffer["dst"] > 0 /\ ms_passed < WaitLimit
  /\ ms_passed' = ms_passed + 1
  /\ UNCHANGED <<pc, network, threads, epolls, force_break>>

DeliveredOrTimeout ==
  /\ pc = "wait_undelivered"
  /\ conn["dst"] # "connected" \/ sndbuffer["dst"] = 0 \/ ms_passed >= WaitLimit
  /\ EndRound

-----------------------------------------------------------------------------
(* fwd_route() and Receive() in the two threads                            *)

Finish_OwnNode(d) ==
  /\ dir' = [dir EXCEPT ![d] = "ended"]
  /\ m_stop_accept' = [m_stop_accept EXCEPT ![From(d)] = TRUE]

\* Close() of both nodes.
Finish(d) ==
  /\ dir' = [dir EXCEPT ![d] = "ended"]
  /\ m_stop_accept' = [n \in Nodes |-> TRUE]

RouteLoop(d) ==
  /\ dir[d] = "loop"
  /\ IF force_break
       THEN Finish(d)
       ELSE dir' = [dir EXCEPT ![d] = "receiving"] /\ UNCHANGED m_stop_accept
  /\ UNCHANGED <<pc, network, counts, force_break>>

\* The top of the loop in Receive().
ReceiveTestsStop(d) ==
  /\ dir[d] = "receiving"
  /\ IF m_stop_accept[From(d)]
       THEN Finish(d)
       ELSE dir' = [dir EXCEPT ![d] = "waiting"] /\ UNCHANGED m_stop_accept
  /\ UNCHANGED <<pc, network, counts, force_break>>

\* With nothing to report the wait ends after 3 s.
ReceiveTimeout(d) ==
  /\ dir[d] = "waiting"
  /\ From(d) \notin inbox /\ conn[From(d)] = "connected"
  /\ dir' = [dir EXCEPT ![d] = "receiving"]
  /\ UNCHANGED <<pc, network, m_stop_accept, counts, force_break>>

ReceiveMessage(d) ==
  /\ dir[d] = "waiting"
  /\ From(d) \in inbox
  /\ inbox' = inbox \ {From(d)}
  /\ dir' = [dir EXCEPT ![d] = "sending"]
  /\ UNCHANGED <<pc, listener, conn, sndbuffer, m_stop_accept, counts, force_break>>

\* SRT_ECONNLOST: the socket is closed at once.
ReceiveLost(d) ==
  /\ dir[d] = "waiting"
  /\ conn[From(d)] = "broken"
  /\ conn' = [conn EXCEPT ![From(d)] = "closed"]
  /\ Finish(d)
  /\ UNCHANGED <<pc, listener, inbox, sndbuffer, counts, force_break>>

\* Any other error, a read that finds nothing included, ends the direction.
ReceiveError(d) ==
  /\ dir[d] = "waiting"
  /\ conn[From(d)] = "connected"
  /\ From(d) \in inbox
  /\ Finish(d)
  /\ UNCHANGED <<pc, network, counts, force_break>>

\* Sending is blocking.
Send(d) ==
  /\ dir[d] = "sending"
  /\ conn[To(d)] = "connected"
  /\ sndbuffer[To(d)] < SndBuf
  /\ sndbuffer' = [sndbuffer EXCEPT ![To(d)] = @ + 1]
  /\ dir' = [dir EXCEPT ![d] = "loop"]
  /\ UNCHANGED <<pc, listener, conn, inbox, m_stop_accept, counts, force_break>>

SendFails(d) ==
  /\ dir[d] = "sending"
  /\ conn[To(d)] # "connected"
  /\ Finish(d)
  /\ UNCHANGED <<pc, network, counts, force_break>>

Route(d) ==
  \/ RouteLoop(d) \/ ReceiveTestsStop(d) \/ ReceiveTimeout(d) \/ ReceiveMessage(d)
  \/ ReceiveLost(d) \/ ReceiveError(d) \/ Send(d) \/ SendFails(d)

-----------------------------------------------------------------------------
(* The peers and the user                                                  *)

MessageArrives(n) ==
  /\ conn[n] = "connected"
  /\ inbox' = inbox \cup {n}
  /\ UNCHANGED <<pc, listener, conn, sndbuffer, threads, counts, force_break>>

Deliver(n) ==
  /\ conn[n] = "connected"
  /\ sndbuffer[n] > 0
  /\ sndbuffer' = [sndbuffer EXCEPT ![n] = @ - 1]
  /\ UNCHANGED <<pc, listener, conn, inbox, threads, counts, force_break>>

ConnectionLost(n) ==
  /\ conn[n] = "connected"
  /\ conn' = [conn EXCEPT ![n] = "broken"]
  /\ UNCHANGED <<pc, listener, inbox, sndbuffer, threads, counts, force_break>>

Interrupt ==
  /\ ~force_break
  /\ force_break' = TRUE
  /\ UNCHANGED <<pc, network, threads, counts>>

Main ==
  \/ NextRound \/ CreateNodes \/ CreateNodesThrows \/ Connect \/ Listen
  \/ AcceptCanceled \/ Join \/ WaitUndelivered \/ DeliveredOrTimeout

Next ==
  \/ Main \/ AcceptConnection
  \/ \E d \in Dirs : Route(d)
  \/ \E n \in Nodes : MessageArrives(n) \/ Deliver(n) \/ ConnectionLost(n)
  \/ Interrupt

\* The threads run, connecting times out, and waits of the nodes end after
\* their time.  Nothing is assumed of the peers: no source need come, no
\* message arrive, nothing be delivered.
Fairness == WF_vars(Main) /\ \A d \in Dirs : WF_vars(Route(d))

Spec == Init /\ [][Next]_vars
FairSpec == Spec /\ Fairness

-----------------------------------------------------------------------------
Ended == pc \in {"returned", "terminated"}

\* A direction is in srt_sendmsg and its peer does not read.
BlockedInSend(d) ==
  dir[d] = "sending" /\ conn[To(d)] = "connected" /\ sndbuffer[To(d)] = SndBuf

\* Types; WaitUndelivered never takes more turns than it was given, and no
\* send buffer holds more than it can.
TypeOK ==
  /\ pc \in {"loop", "create", "connect", "listen", "accept", "forward",
             "wait_undelivered", "returned", "terminated"}
  /\ listener \in {"none", "listening"}
  /\ conn \in [Nodes -> {"none", "connected", "broken", "closed"}]
  /\ m_stop_accept \in [Nodes -> BOOLEAN]
  /\ dir \in [Dirs -> {"off", "loop", "receiving", "waiting", "sending", "ended"}]
  /\ inbox \subseteq Nodes
  /\ sndbuffer \in [Nodes -> 0..SndBuf]
  /\ ms_passed \in 0..WaitLimit
  /\ epolls \in 0..MaxEpolls
  /\ force_break \in BOOLEAN

\* A forwarding thread holds plain references to the nodes of its round.  As
\* long as it works, whatever the other direction, the peers and an interrupt
\* do, main has not gone on to destroy them, and nobody but the thread itself
\* has closed the connection it reads from: Close() of the other direction only
\* tells it to stop (file-forward.cpp:90 and 141, srt_node.cpp:348).
ThreadsHaveTheirNodes ==
  \A d \in Dirs :
    dir[d] \notin {"off", "ended"} =>
      /\ pc = "forward"
      /\ listener = "listening"
      /\ conn[From(d)] \in {"connected", "broken"}

\* One direction that ends, and a connection that is lost, end the round for
\* both directions, although the other one may be waiting for data; except
\* when that one is blocked sending to a peer that does not read
\* (file-forward.cpp:90, srt_node.cpp:293).
RoundEnds ==
  \A d \in Dirs :
    (pc = "forward" /\ (dir[d] = "ended" \/ conn[From(d)] = "broken"))
      ~> (pc # "forward" \/ \E e \in Dirs : BlockedInSend(e))

\* An interrupt ends the program when no round is under way, also while it
\* waits for a source; during a round it does so when a direction gets back
\* to its loop (file-forward.cpp:39, srt_node.cpp:80).
InterruptEnds ==
  (force_break /\ (pc # "forward" \/ \E d \in Dirs : dir[d] = "loop"))
    ~> (Ended \/ \E e \in Dirs : BlockedInSend(e))
=============================================================================
