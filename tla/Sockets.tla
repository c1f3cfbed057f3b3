------------------------------ MODULE Sockets ------------------------------
(***************************************************************************)
(* The socket objects (socket::srt, socket::tcp, socket::udp) and the      *)
(* descriptors they own, from the constructor through listen, accept,      *)
(* connect, read and write to the destructor, with every way each of them  *)
(* can throw.  The main thread uses them the way create_connection and     *)
(* common_run do; each connection is read or written by a pipe.            *)
(*                                                                         *)
(* Objects are shared: one is destroyed, and its descriptor closed, in the *)
(* very step that drops the last pointer to it (see Settle).  The system   *)
(* gives a TCP or UDP socket the lowest descriptor that is free, so that   *)
(* numbers are reused at once; libsrt does not reuse its ids.              *)
(***************************************************************************)
EXTENDS Naturals, FiniteSets

CONSTANTS
  Objs,      \* identities of socket objects
  Descs,     \* descriptors, or SRT socket ids
  NoObj,     \* a null pointer
  NoDesc,    \* the object does not exist
  Streams,   \* pipes main allows at once
  Configs    \* the command lines considered

Config == [kind : {"srt", "tcp", "udp"}, caller : BOOLEAN, blocking : BOOLEAN,
           sends : BOOLEAN, close_listener : BOOLEAN]

ASSUME SocketsAssumption ==
  /\ IsFiniteSet(Objs) /\ Objs \subseteq Nat /\ NoObj \notin Objs
  /\ IsFiniteSet(Descs) /\ Descs \subseteq Nat /\ NoDesc \notin Descs
  /\ Streams \in Nat
  /\ Configs \subseteq Config

VARIABLES
  cfg,            \* the command line, fixed
  main,           \* where the main thread is
  listening_sock, \* the pointers main holds ...
  conn,
  pipes,          \* ... and those held by the threads of the pipes
  reading,        \* the pipes inside read() or write()
  m_bind_socket,  \* the descriptor each object refers to
  table,          \* what the system, or libsrt, has under each descriptor
  epolls,         \* the number of epoll ids libsrt has handed out
  inbox,          \* descriptors with data to read
  clogged,        \* descriptors whose send buffer is full
  force_break

vars == <<cfg, main, listening_sock, conn, pipes, reading, m_bind_socket,
          table, epolls, inbox, clogged, force_break>>
pointers == <<listening_sock, conn, pipes>>
descriptors == <<m_bind_socket, table, epolls, inbox, clogged>>

MainStates == {"create", "listen", "establish", "handover", "waiting",
               "draining", "returned", "killed"}
DescStates == {"free", "open", "listening", "connected", "broken", "gone"}

Srt == cfg.kind = "srt"
InUse == {"open", "listening", "connected", "broken"}

\* What a closed descriptor becomes.
Closed == IF Srt THEN "gone" ELSE "free"

Live == {o \in Objs : m_bind_socket[o] # NoDesc}
Unused == {d \in Descs : table[d] = "free"}

\* The descriptor the next socket() or accept() returns, if there is one, and
\* the identity of the next object.
Free == {d \in Unused : \A e \in Unused : d <= e}
NewObj == {o \in Objs \ Live : \A p \in Objs \ Live : o <= p}
OwnedDescs == {m_bind_socket[o] : o \in Live}

\* Accepted SRT sockets have m_epoll_io only, the others m_epoll_connect too.
\* (An accepted object is never listening_sock.)
EpollsOf(accepted) ==
  IF ~Srt \/ cfg.blocking THEN 0 ELSE IF accepted THEN 1 ELSE 2

\* The objects that accept() made: of a listener's objects all but itself.
Accepted(o) == ~cfg.caller /\ o # listening_sock

EpollsOwned(objs) ==
  EpollsOf(TRUE) * Cardinality({o \in objs : Accepted(o)})
    + EpollsOf(FALSE) * Cardinality({o \in objs : ~Accepted(o)})

-----------------------------------------------------------------------------
(* Pointers and destructors.                                               *)

\* New pointers, with the objects, the descriptors and the number of epoll
\* ids as the step leaves them before destructors run.  An object without a
\* pointer is destroyed: its epolls are released and its descriptor closed,
\* whatever that number stands for by now.
Settle(ls, c, ps, objs, t, e) ==
  LET dead == {o \in Objs : objs[o] # NoDesc /\ o \notin ps \cup {ls, c}}
  IN  /\ listening_sock' = ls
      /\ conn' = c
      /\ pipes' = ps
      /\ reading' = reading \cap ps
      /\ m_bind_socket' = [o \in Objs |-> IF o \in dead THEN NoDesc ELSE objs[o]]
      /\ table' = [d \in Descs |-> IF \E o \in dead : objs[o] = d THEN Closed ELSE t[d]]
      /\ epolls' = IF force_break THEN 0 ELSE e - EpollsOwned(dead)
      /\ inbox' = {d \in inbox : table'[d] \in InUse}
      /\ clogged' = {d \in clogged : table'[d] \in InUse}
      /\ UNCHANGED <<cfg, force_break>>

-----------------------------------------------------------------------------
Init ==
  /\ cfg \in Configs
  /\ main = "create"
  /\ listening_sock = NoObj
  /\ conn = NoObj
  /\ pipes = {}
  /\ reading = {}
  /\ m_bind_socket = [o \in Objs |-> NoDesc]
  /\ table = [d \in Descs |-> "free"]
  /\ epolls = 0
  /\ inbox = {}
  /\ clogged = {}
  /\ force_break = FALSE

(* The constructors.  create_connection makes a new UDP socket for every   *)
(* connection, an SRT or TCP one only when listening_sock is empty.        *)

MustConstruct == main = "create" /\ (cfg.kind = "udp" \/ listening_sock = NoObj)

ConstructSrtOrTcp(o, d) ==
  /\ cfg.kind # "udp"
  /\ main' = IF cfg.caller THEN "establish" ELSE "listen"
  /\ Settle(o, conn, pipes, [m_bind_socket EXCEPT ![o] = d],
            [table EXCEPT ![d] = "open"], epolls + EpollsOf(FALSE))

\* A UDP socket can be used as soon as it is bound.
ConstructUdp(o, d) ==
  /\ cfg.kind = "udp"
  /\ main' = "handover"
  /\ Settle(listening_sock, o, pipes, [m_bind_socket EXCEPT ![o] = d],
            [table EXCEPT ![d] = "connected"], epolls)

Construct ==
  /\ MustConstruct
  /\ \E o \in NewObj, d \in Free : ConstructSrtOrTcp(o, d) \/ ConstructUdp(o, d)

ConstructThrows_GoesOn ==
  /\ MustConstruct
  /\ main' = "create"
  /\ \E d \in Free : Settle(listening_sock, conn, pipes, m_bind_socket,
                            [table EXCEPT ![d] = "open"], epolls)

\* An option is not recognised or cannot be set (assert_options_valid,
\* configure_pre, set_blocking_flags), or an epoll cannot be made: the
\* descriptor and the epolls so far are kept.
ConfigureThrows ==
  \E d \in Free, e \in 0..EpollsOf(FALSE) :
    Settle(listening_sock, conn, pipes, m_bind_socket,
           [table EXCEPT ![d] = "open"], epolls + e)

\* An address that is not valid keeps the descriptor too; an SRT socket that
\* cannot be bound is closed (handle_hosts).
BindThrows ==
  \E d \in Free, left \in {"open"} \cup (IF Srt THEN {Closed} ELSE {}) :
    Settle(listening_sock, conn, pipes, m_bind_socket,
           [table EXCEPT ![d] = left], epolls + EpollsOf(FALSE))

\* A constructor that throws has no destructor run for it.
ConstructThrows ==
  /\ MustConstruct
  /\ main' = "draining"
  /\ \/ Settle(listening_sock, conn, pipes, m_bind_socket, table, epolls)
     \/ ConfigureThrows
     \/ BindThrows

-----------------------------------------------------------------------------
(* listen(), accept() and connect().                                       *)

Own == m_bind_socket[listening_sock]

Listen ==
  /\ main = "listen"
  /\ table[Own] = "open"
  /\ main' = "establish"
  /\ Settle(listening_sock, conn, pipes, m_bind_socket,
            [table EXCEPT ![Own] = "listening"], epolls)

\* listen() closes its socket when the call fails, but not when the options
\* of a listening SRT socket cannot be set.  create_connection does not catch
\* this: listening_sock keeps the object.
ListenThrows ==
  /\ main = "listen"
  /\ main' = "draining"
  /\ \/ Settle(listening_sock, conn, pipes, m_bind_socket,
               [table EXCEPT ![Own] = Closed], epolls)
     \/ /\ Srt /\ table[Own] = "open"
        /\ Settle(listening_sock, conn, pipes, m_bind_socket,
                  [table EXCEPT ![Own] = "listening"], epolls)

Establishing ==
  /\ main = "establish" \/ (main = "create" /\ ~MustConstruct)

\* create_connection drops the listening socket of TCP after every accept.
Accept ==
  /\ Establishing
  /\ ~cfg.caller
  /\ table[Own] = "listening"
  /\ main' = "handover"
  /\ \E o \in NewObj, d \in Free :
       Settle(IF Srt THEN listening_sock ELSE NoObj, o, pipes,
              [m_bind_socket EXCEPT ![o] = d],
              [table EXCEPT ![d] = "connected"], epolls + EpollsOf(TRUE))

\* The accepted socket cannot be configured (configure_post of SRT) or wrapped
\* into an object, and is left behind.
AcceptedThrows ==
  /\ table[Own] = "listening"
  /\ \E d \in Free, e \in 0..EpollsOf(TRUE) :
       Settle(NoObj, conn, pipes, m_bind_socket,
              [table EXCEPT ![d] = "connected"], epolls + e)

\* accept() fails or, not blocking, finds no connection after a time.
AcceptThrows ==
  /\ Establishing
  /\ ~cfg.caller
  /\ main' = "draining"
  /\ \/ Settle(NoObj, conn, pipes, m_bind_socket, table, epolls)
     \/ AcceptedThrows

\* create_connection drops its pointer to an SRT caller, not to a TCP one.
Connect ==
  /\ Establishing
  /\ cfg.caller
  /\ table[Own] = "open"
  /\ main' = "handover"
  /\ Settle(IF Srt THEN NoObj ELSE listening_sock, listening_sock, pipes,
            m_bind_socket, [table EXCEPT ![Own] = "connected"], epolls)

ConnectThrows_Closes ==
  /\ Establishing
  /\ cfg.caller
  /\ main' = "draining"
  /\ Settle(NoObj, conn, pipes, m_bind_socket,
            [table EXCEPT ![Own] = Closed], epolls)

\* srt::connect closes the socket when it is rejected at once; tcp::connect
\* leaves that to the destructor.
ConnectThrows ==
  /\ Establishing
  /\ cfg.caller
  /\ main' = "draining"
  /\ Settle(NoObj, conn, pipes, m_bind_socket,
            IF Srt THEN [table EXCEPT ![Own] = Closed] ELSE table, epolls)

-----------------------------------------------------------------------------
(* common_run.                                                             *)

\* The connection is given to a pipe.
Handover ==
  /\ main = "handover"
  /\ main' = "waiting"
  /\ Settle(IF cfg.close_listener THEN NoObj ELSE listening_sock, NoObj,
            pipes \cup {conn}, m_bind_socket, table, epolls)

NextConnection ==
  /\ main = "waiting"
  /\ ~force_break
  /\ Cardinality(pipes) < Streams
  /\ main' = "create"
  /\ UNCHANGED <<cfg, reading, force_break, pointers, descriptors>>

\* No reconnection, --maxconns reached, or an interrupt.
LeaveLoop ==
  /\ main = "waiting"
  /\ main' = "draining"
  /\ UNCHANGED <<cfg, reading, force_break, pointers, descriptors>>

\* Once the pipes are over common_run returns; its listening_sock is
\* destroyed.
Return ==
  /\ main = "draining"
  /\ pipes = {}
  /\ main' = "returned"
  /\ Settle(NoObj, NoObj, pipes, m_bind_socket, table, epolls)

-----------------------------------------------------------------------------
(* The pipes: read() of receive, write() of generate, without a time limit.*)
(* Each is given by its possible results; with none the call blocks.       *)

When(cond, results) == IF cond THEN results ELSE {}

Connected(d) == table[d] = "connected"
Lost(d) == table[d] \in {"broken", Closed}

srt_read(d) ==
  When(d \in inbox, {"bytes"})
    \cup When(d \in inbox /\ Connected(d), {"zero"})
    \cup When(Lost(d), {"throw"})

tcp_read_ZeroAgain(d) ==
  When(d \in inbox, {"bytes"}) \cup When(Lost(d), {"zero"})

\* recv() returns 0 bytes at the end of the stream, which is an exception.
tcp_read(d) ==
  When(d \in inbox, {"bytes"})
    \cup When(d \in inbox /\ Connected(d), {"zero"})
    \cup When(Lost(d), {"throw"})

udp_read(d) == When(d \in inbox, {"bytes", "zero", "throw"})

\* Not blocking, srt::write waits until it can send or read, and sends
\* nothing in the second case.
srt_write(d) ==
  When(Connected(d) /\ d \notin clogged, {"bytes"})
    \cup When(~cfg.blocking /\ Connected(d) /\ d \in clogged \cap inbox, {"zero"})
    \cup When(Lost(d), {"throw"})

tcp_write(d) ==
  When(Connected(d) /\ d \notin clogged, {"bytes", "zero"})
    \cup When(Lost(d), {"throw"})

udp_write(d) == When(d \notin clogged, {"bytes", "zero", "throw"})

Results(d) ==
  CASE cfg.kind = "srt" -> IF cfg.sends THEN srt_write(d) ELSE srt_read(d)
    [] cfg.kind = "tcp" -> IF cfg.sends THEN tcp_write(d) ELSE tcp_read(d)
    [] OTHER            -> IF cfg.sends THEN udp_write(d) ELSE udp_read(d)

\* A pipe looks at force_break before every call, and ends by it.
PipeLoop(o) ==
  /\ o \in pipes \ reading
  /\ IF force_break
       THEN Settle(listening_sock, conn, pipes \ {o}, m_bind_socket, table, epolls)
       ELSE reading' = reading \cup {o}
            /\ UNCHANGED <<cfg, force_break, pointers, descriptors>>
  /\ UNCHANGED main

CallReturns(o) ==
  /\ o \in reading
  /\ \/ /\ "throw" \in Results(m_bind_socket[o])
        /\ Settle(listening_sock, conn, pipes \ {o}, m_bind_socket, table, epolls)
     \/ /\ "zero" \in Results(m_bind_socket[o])
        /\ reading' = reading \ {o}
        /\ UNCHANGED <<cfg, force_break, pointers, descriptors>>
     \/ /\ "bytes" \in Results(m_bind_socket[o])
        /\ reading' = reading \ {o}
        /\ inbox' = IF cfg.sends THEN inbox ELSE inbox \ {m_bind_socket[o]}
        /\ UNCHANGED <<cfg, pointers, m_bind_socket, table, epolls, clogged, force_break>>
  /\ UNCHANGED main

\* tcp::write sends without MSG_NOSIGNAL and nothing handles SIGPIPE: on a
\* connection that the peer has closed the call throws only if it reports a
\* reset; otherwise the signal ends the process, and the system takes all its
\* descriptors back.
KilledBySignal(o) ==
  /\ o \in reading
  /\ cfg.kind = "tcp" /\ cfg.sends
  /\ Lost(m_bind_socket[o])
  /\ main' = "killed"
  /\ Settle(NoObj, NoObj, {}, m_bind_socket, [d \in Descs |-> "free"], epolls)

-----------------------------------------------------------------------------
(* The network and the user.                                               *)

others == <<cfg, main, reading, pointers, m_bind_socket, epolls, force_break>>

Arrive(d) ==
  /\ table[d] = "connected"
  /\ inbox' = inbox \cup {d}
  /\ UNCHANGED <<others, table, clogged>>

\* The peer stops reading, or goes on.
Backpressure(d) ==
  /\ cfg.sends
  /\ table[d] = "connected"
  /\ clogged' = IF d \in clogged THEN clogged \ {d} ELSE clogged \cup {d}
  /\ UNCHANGED <<others, table, inbox>>

\* The connection is lost or closed by the peer (UDP has none).
PeerCloses(d) ==
  /\ cfg.kind # "udp"
  /\ table[d] = "connected"
  /\ table' = [table EXCEPT ![d] = "broken"]
  /\ UNCHANGED <<others, inbox, clogged>>

OnINT_ForceExit_NoCleanup ==
  /\ ~force_break
  /\ main # "killed"
  /\ force_break' = TRUE
  /\ UNCHANGED <<cfg, main, reading, pointers, m_bind_socket, table, epolls, inbox, clogged>>

\* srt_cleanup closes every socket and epoll of libsrt, which makes calls
\* blocked in it return.  (Used again, libsrt starts itself again.)  It is one
\* step that succeeds, although it runs in a signal handler.
OnINT_ForceExit ==
  /\ ~force_break
  /\ main # "killed"
  /\ force_break' = TRUE
  /\ table' = [d \in Descs |-> IF Srt /\ table[d] \in InUse THEN "gone" ELSE table[d]]
  /\ epolls' = IF Srt THEN 0 ELSE epolls
  /\ inbox' = IF Srt THEN {} ELSE inbox
  /\ clogged' = IF Srt THEN {} ELSE clogged
  /\ UNCHANGED <<cfg, main, reading, pointers, m_bind_socket>>

Main ==
  \/ Construct \/ ConstructThrows \/ Listen \/ ListenThrows
  \/ Accept \/ AcceptThrows \/ Connect \/ ConnectThrows
  \/ Handover \/ NextConnection \/ LeaveLoop \/ Return

Next ==
  \/ Main
  \/ \E o \in Objs : PipeLoop(o) \/ CallReturns(o) \/ KilledBySignal(o)
  \/ \E d \in Descs : Arrive(d) \/ Backpressure(d) \/ PeerCloses(d)
  \/ OnINT_ForceExit

\* A thread that can take a step does so; a call with a result returns.
\* Nothing is assumed of main, the network and the user.
Fairness == \A o \in Objs : WF_vars(PipeLoop(o)) /\ WF_vars(CallReturns(o))

Spec == Init /\ [][Next]_vars
FairSpec == Spec /\ Fairness

-----------------------------------------------------------------------------
\* Types; every pipe holds a live object, and only a pipe is inside a call:
\* no destructor has run under it.  No epoll is released twice.
TypeOK ==
  /\ cfg \in Config
  /\ main \in MainStates
  /\ listening_sock \in Objs \cup {NoObj}
  /\ conn \in Objs \cup {NoObj}
  /\ pipes \subseteq Live
  /\ reading \subseteq pipes
  /\ m_bind_socket \in [Objs -> Descs \cup {NoDesc}]
  /\ table \in [Descs -> DescStates]
  /\ epolls \in Nat
  /\ inbox \subseteq Descs
  /\ clogged \subseteq Descs

\* Nobody closes a socket under the pipe that uses it, and no other object
\* refers to its descriptor: not the listener that has closed its own one,
\* not a second connect() on a socket that is connected (tcp_socket.cpp:112,
\* misc.cpp:74).  Only the signal handler takes SRT sockets away.
PipeOwnsDescriptor ==
  /\ TypeOK
  /\ \A o \in pipes :
       /\ table[m_bind_socket[o]] \in {"connected", "broken"}
            \cup (IF Srt /\ force_break THEN {"gone"} ELSE {})
       /\ \A p \in Live \ {o} : m_bind_socket[p] # m_bind_socket[o]

\* Whatever fails, in whatever order, at most one descriptor and the epolls
\* made for it are left without an owner: an exception that leaves one behind
\* ends the loop of common_run (srt_socket.cpp:46, :147, tcp_socket.cpp:55).
\* No epoll is released that an object still uses (srt_socket.cpp:88).
AtMostOneLeft ==
  /\ Cardinality({d \in Descs : table[d] \in InUse /\ d \notin OwnedDescs}) <= 1
  /\ ~force_break => epolls - EpollsOwned(Live) \in 0..EpollsOf(FALSE)

\* An interrupt ends every pipe over SRT, also one that waits for data: that
\* is what srt_cleanup in the signal handler is for (xtransmit-app.cpp:37).
InterruptEndsPipe ==
  \A o \in Objs : (Srt /\ force_break /\ o \in pipes) ~> o \notin pipes

\* A lost connection ends its pipe, for SRT and TCP: read() makes an exception
\* of the end of the stream (tcp_socket.cpp:286).  A TCP sender may end by the
\* signal, and every other pipe of the process with it (tcp_socket.cpp:328).
LossEndsPipe ==
  \A o \in Objs :
    (o \in pipes /\ table[m_bind_socket[o]] = "broken") ~> o \notin pipes
=============================================================================
