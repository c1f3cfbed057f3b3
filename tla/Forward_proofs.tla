--------------------------- MODULE Forward_proofs ---------------------------
(***************************************************************************)
(* Safety of forwarding, for all sizes of buffers, limits of waiting and   *)
(* numbers of epolls, and so for any number of rounds.                     *)
(***************************************************************************)
EXTENDS Forward, TLAPS

\* Before the threads start, the connection to the destination has been made,
\* and then the listener.
SetUpInv ==
  /\ pc \in {"listen", "accept"} => conn["dst"] \in {"connected", "broken"}
  /\ pc \in {"accept", "forward"} => listener = "listening"

IInv == TypeOK /\ SetUpInv /\ ThreadsHaveTheirNodes

LEMMA InitInv == Init => IInv
<1> SUFFICES ASSUME Init PROVE IInv
  OBVIOUS
<1>1. /\ sndbuffer \in [Nodes -> 0..SndBuf] /\ ms_passed \in 0..WaitLimit
      /\ epolls \in 0..MaxEpolls
  BY ForwardAssumption DEF Init
<1>2. TypeOK
  BY <1>1 DEF Init, TypeOK
<1>3. SetUpInv /\ ThreadsHaveTheirNodes
  BY DEF Init, SetUpInv, ThreadsHaveTheirNodes
<1> QED
  BY <1>2, <1>3 DEF IInv

\* No thread is at work unless main waits for it.
LEMMA NoThreads ==
  ASSUME IInv, pc # "forward"
  PROVE  \A d \in Dirs : dir[d] \in {"off", "ended"}
BY DEF IInv, ThreadsHaveTheirNodes

\* A step of main that leaves the threads alone.
LEMMA ThreadsIdle ==
  ASSUME IInv, pc # "forward" \/ \A d \in Dirs : dir[d] = "ended", UNCHANGED dir
  PROVE  ThreadsHaveTheirNodes'
BY NoThreads DEF ThreadsHaveTheirNodes

LEMMA EndRoundInv == IInv /\ EndRound => IInv'
<1> SUFFICES ASSUME IInv, EndRound PROVE IInv'
  OBVIOUS
<1>1. TypeOK'
  BY ForwardAssumption DEF IInv, TypeOK, EndRound, Nodes, Dirs
<1>2. SetUpInv'
  BY DEF SetUpInv, EndRound
<1>3. ThreadsHaveTheirNodes'
  BY DEF ThreadsHaveTheirNodes, EndRound
<1> QED
  BY <1>1, <1>2, <1>3 DEF IInv

LEMMA MainInv == IInv /\ Main => IInv'
<1> SUFFICES ASSUME IInv, Main PROVE IInv'
  OBVIOUS
<1>1. CASE NextRound
  <2>1. TypeOK' /\ SetUpInv'
    BY <1>1 DEF IInv, TypeOK, SetUpInv, NextRound, network, threads, counts
  <2> QED
    BY <1>1, <2>1, ThreadsIdle DEF IInv, NextRound, threads
<1>2. CASE CreateNodes
  <2>1. TypeOK' /\ SetUpInv'
    BY <1>2, ForwardAssumption DEF IInv, TypeOK, SetUpInv, CreateNodes, network
  <2> QED
    BY <1>2, <2>1, ThreadsIdle DEF IInv, CreateNodes
<1>3. CASE CreateNodesThrows
  <2>1. TypeOK' /\ SetUpInv'
    BY <1>3, ForwardAssumption DEF IInv, TypeOK, SetUpInv, CreateNodesThrows, network, threads
  <2> QED
    BY <1>3, <2>1, ThreadsIdle DEF IInv, CreateNodesThrows, threads
<1>4. CASE Connect
  <2>1. CASE EndRound
    BY <2>1, EndRoundInv
  <2>2. CASE ~EndRound
    <3>1. TypeOK' /\ SetUpInv'
      BY <1>4, <2>2 DEF IInv, TypeOK, SetUpInv, Connect, threads, counts, Nodes
    <3> QED
      BY <1>4, <2>2, <3>1, ThreadsIdle DEF IInv, Connect, threads
  <2> QED
    BY <2>1, <2>2
<1>5. CASE Listen
  <2>1. CASE EndRound
    BY <2>1, EndRoundInv
  <2>2. CASE ~EndRound
    <3>1. TypeOK' /\ SetUpInv'
      BY <1>5, <2>2 DEF IInv, TypeOK, SetUpInv, Listen, threads, counts
    <3> QED
      BY <1>5, <2>2, <3>1, ThreadsIdle DEF IInv, Listen, threads
  <2> QED
    BY <2>1, <2>2
<1>6. CASE AcceptCanceled
  BY <1>6, EndRoundInv DEF AcceptCanceled
<1>7. CASE Join
  <2>1. TypeOK' /\ SetUpInv'
    BY <1>7 DEF IInv, TypeOK, SetUpInv, Join, network, threads, counts
  <2> QED
    BY <1>7, <2>1, ThreadsIdle DEF IInv, Join, threads
<1>8. CASE WaitUndelivered
  <2>1. TypeOK' /\ SetUpInv'
    BY <1>8, ForwardAssumption DEF IInv, TypeOK, SetUpInv, WaitUndelivered, network, threads
  <2> QED
    BY <1>8, <2>1, ThreadsIdle DEF IInv, WaitUndelivered, threads
<1>9. CASE DeliveredOrTimeout
  BY <1>9, EndRoundInv DEF DeliveredOrTimeout
<1> QED
  BY <1>1, <1>2, <1>3, <1>4, <1>5, <1>6, <1>7, <1>8, <1>9 DEF Main

\* Both threads start with everything they use.
LEMMA AcceptInv == IInv /\ AcceptConnection => IInv'
<1> SUFFICES ASSUME IInv, AcceptConnection PROVE IInv'
  OBVIOUS
<1>1. TypeOK'
  BY DEF IInv, TypeOK, AcceptConnection, counts, Nodes, Dirs
<1>2. SetUpInv'
  BY DEF IInv, SetUpInv, AcceptConnection
<1>3. conn'["src"] = "connected" /\ conn'["dst"] \in {"connected", "broken"}
  BY DEF IInv, TypeOK, SetUpInv, AcceptConnection, Nodes
<1>4. ThreadsHaveTheirNodes'
  BY <1>3 DEF IInv, SetUpInv, ThreadsHaveTheirNodes, AcceptConnection, From, Dirs
<1> QED
  BY <1>1, <1>2, <1>4 DEF IInv

\* The two directions read from different connections.
LEMMA OwnConnection ==
  ASSUME NEW d \in Dirs, NEW e \in Dirs, e # d
  PROVE  From(e) # From(d)
BY DEF From, Dirs

LEMMA RouteInv == ASSUME NEW d \in Dirs PROVE IInv /\ Route(d) => IInv'
<1> SUFFICES ASSUME IInv, Route(d) PROVE IInv'
  OBVIOUS
<1>0. From(d) \in Nodes /\ To(d) \in Nodes
  BY DEF From, To, Nodes
<1>1. CASE ReceiveLost(d)
  <2>1. TypeOK'
    BY <1>0, <1>1 DEF IInv, TypeOK, ReceiveLost, Finish, counts
  <2>2. pc = "forward" /\ pc' = pc /\ listener' = listener
    BY <1>1 DEF IInv, ThreadsHaveTheirNodes, ReceiveLost
  <2>3. SetUpInv'
    BY <2>2 DEF IInv, SetUpInv
  <2>4. ASSUME NEW e \in Dirs, dir'[e] \notin {"off", "ended"}
        PROVE  conn'[From(e)] \in {"connected", "broken"}
    <3>1. e # d /\ dir'[e] = dir[e]
      BY <1>1, <2>4 DEF IInv, TypeOK, ReceiveLost, Finish
    <3>2. conn'[From(e)] = conn[From(e)]
      BY <1>1, <3>1, OwnConnection DEF IInv, TypeOK, ReceiveLost, From, Nodes
    <3> QED
      BY <2>4, <3>1, <3>2 DEF IInv, ThreadsHaveTheirNodes
  <2> QED
    BY <2>1, <2>2, <2>3, <2>4 DEF IInv, SetUpInv, ThreadsHaveTheirNodes
<1>2. CASE ~ReceiveLost(d)
  <2>1. pc = "forward" /\ dir[d] \notin {"off", "ended"}
    BY <1>2 DEF IInv, ThreadsHaveTheirNodes, Route, RouteLoop, ReceiveTestsStop, ReceiveTimeout,
                ReceiveMessage, ReceiveError, Send, SendFails
  <2>2. UNCHANGED <<pc, listener, conn, counts, force_break>>
    BY <1>2 DEF Route, RouteLoop, ReceiveTestsStop, ReceiveTimeout, ReceiveMessage, ReceiveError,
                Send, SendFails, network
  <2>3. /\ m_stop_accept' \in [Nodes -> BOOLEAN]
        /\ \E v \in {"loop", "receiving", "waiting", "sending", "ended"} : dir' = [dir EXCEPT ![d] = v]
    BY <1>2 DEF IInv, TypeOK, Route, RouteLoop, ReceiveTestsStop, ReceiveTimeout, ReceiveMessage,
                ReceiveError, Send, SendFails, Finish
  <2>4. inbox' \subseteq Nodes /\ sndbuffer' \in [Nodes -> 0..SndBuf]
    <3>1. CASE Send(d)
      <4>1. sndbuffer[To(d)] + 1 \in 0..SndBuf
        BY <1>0, <3>1, ForwardAssumption DEF IInv, TypeOK, Send
      <4> QED
        BY <1>0, <3>1, <4>1 DEF IInv, TypeOK, Send
    <3>2. CASE ~Send(d)
      BY <1>2, <3>2 DEF IInv, TypeOK, Route, RouteLoop, ReceiveTestsStop, ReceiveTimeout,
                        ReceiveMessage, ReceiveError, SendFails, network
    <3> QED
      BY <3>1, <3>2
  <2>5. TypeOK'
    BY <2>2, <2>3, <2>4 DEF IInv, TypeOK, counts
  <2>6. SetUpInv'
    BY <2>2 DEF IInv, SetUpInv
  <2>7. ASSUME NEW e \in Dirs, dir'[e] \notin {"off", "ended"}
        PROVE  dir[e] \notin {"off", "ended"}
    BY <2>1, <2>3, <2>7 DEF IInv, TypeOK
  <2> QED
    BY <2>2, <2>5, <2>6, <2>7 DEF IInv, ThreadsHaveTheirNodes
<1> QED
  BY <1>1, <1>2

LEMMA PeersInv ==
  ASSUME NEW n \in Nodes
  PROVE  IInv /\ (MessageArrives(n) \/ Deliver(n) \/ ConnectionLost(n)) => IInv'
<1> SUFFICES ASSUME IInv, MessageArrives(n) \/ Deliver(n) \/ ConnectionLost(n) PROVE IInv'
  OBVIOUS
<1>1. UNCHANGED <<pc, listener, threads, counts, force_break>>
  BY DEF MessageArrives, Deliver, ConnectionLost
<1>2. conn' \in [Nodes -> {"none", "connected", "broken", "closed"}] /\ inbox' \subseteq Nodes
  BY DEF IInv, TypeOK, MessageArrives, Deliver, ConnectionLost
<1>3. sndbuffer' \in [Nodes -> 0..SndBuf]
  BY ForwardAssumption DEF IInv, TypeOK, MessageArrives, Deliver, ConnectionLost
<1>4. \A m \in Nodes : conn[m] \in {"connected", "broken"} => conn'[m] \in {"connected", "broken"}
  BY DEF IInv, TypeOK, MessageArrives, Deliver, ConnectionLost
<1>5. TypeOK'
  BY <1>1, <1>2, <1>3 DEF IInv, TypeOK, threads, counts
<1>6. SetUpInv'
  BY <1>1, <1>4 DEF IInv, SetUpInv, Nodes
<1>7. ThreadsHaveTheirNodes'
  BY <1>1, <1>4 DEF IInv, ThreadsHaveTheirNodes, threads, From, Nodes
<1> QED
  BY <1>5, <1>6, <1>7 DEF IInv

LEMMA NextInv == IInv /\ [Next]_vars => IInv'
<1> SUFFICES ASSUME IInv, [Next]_vars PROVE IInv'
  OBVIOUS
<1>1. CASE Interrupt
  BY <1>1 DEF Interrupt, IInv, TypeOK, SetUpInv, ThreadsHaveTheirNodes, network, threads, counts
<1>2. CASE UNCHANGED vars
  BY <1>2 DEF vars, IInv, TypeOK, SetUpInv, ThreadsHaveTheirNodes
<1> QED
  BY <1>1, <1>2, MainInv, AcceptInv, RouteInv, PeersInv DEF Next

THEOREM ForwardInvariant == Spec => []IInv
BY InitInv, NextInv, PTL DEF Spec

\* Types: WaitUndelivered keeps to its limit, buffers to their size, and the
\* process never has more epolls than it is granted, in all rounds.
THEOREM TypeCorrect == Spec => []TypeOK
<1>1. IInv => TypeOK
  BY DEF IInv
<1> QED
  BY <1>1, ForwardInvariant, PTL

\* While a forwarding thread is at work main waits for it, the listener is
\* open, and nobody else has closed the connection the thread reads from.
THEOREM ThreadsHaveTheirNodesHolds == Spec => []ThreadsHaveTheirNodes
<1>1. IInv => ThreadsHaveTheirNodes
  BY DEF IInv
<1> QED
  BY <1>1, ForwardInvariant, PTL
=============================================================================
