---------------------------- MODULE StatsWriter ----------------------------
(***************************************************************************)
(* socket::stats_writer: a thread that writes the statistics of the        *)
(* sockets it was given to a file, once every interval, until stop().      *)
(*                                                                         *)
(* m_lock is held for a whole pass over the sockets, but a socket can fail *)
(* between any two calls of get_statistics, so each call is a step.  The   *)
(* parameter working holds the sockets for which get_statistics does not   *)
(* throw now, json those for which it writes JSON.                         *)
(***************************************************************************)
EXTENDS Naturals, Sequences

CONSTANT Socks   \* the sockets that may be added

VARIABLES
  m_sock,        \* the sockets the writer holds a pointer to
  m_stop,
  thread,        \* where the thread is ("none": not launched)
  todo,          \* the sockets left in this pass
  print_header,
  m_logfile,     \* the kinds of output lines in order, consecutive rows merged
  removals       \* warnings that a socket is removed (history)

statsVars == <<m_sock, m_stop, thread, todo, print_header, m_logfile, removals>>

StatsInit ==
  /\ m_sock = {}
  /\ m_stop = FALSE
  /\ thread = "none"
  /\ todo = {}
  /\ print_header = TRUE
  /\ m_logfile = <<>>
  /\ removals = 0

Locked == thread \in {"header", "row"}

HasRows == m_logfile # <<>> /\ m_logfile[Len(m_logfile)] = "row"

LogRow == IF HasRows THEN m_logfile ELSE Append(m_logfile, "row")

\* The header of get_statistics: JSON has none.
LogHeader(is_json) == IF is_json THEN m_logfile ELSE Append(m_logfile, "header")

-----------------------------------------------------------------------------
\* The thread is launched with the first socket, and never again.
add_socket(s) ==
  /\ ~Locked
  /\ m_sock' = m_sock \cup {s}
  /\ m_stop' = IF thread = "none" THEN FALSE ELSE m_stop
  /\ thread' = IF thread = "none" THEN "test" ELSE thread
  /\ UNCHANGED <<todo, print_header, m_logfile, removals>>

\* What comes first for the next socket of the pass.
NextOf(sockets, header) ==
  IF sockets = {} THEN "sleep" ELSE IF header THEN "header" ELSE "row"

TestStop ==
  /\ thread = "test"
  /\ todo' = IF m_stop THEN {} ELSE m_sock
  /\ thread' = IF m_stop THEN "done" ELSE NextOf(m_sock, print_header)
  /\ UNCHANGED <<m_sock, m_stop, print_header, m_logfile, removals>>

\* A socket whose statistics cannot be had is dropped.
DropSocket(s) ==
  /\ m_sock' = m_sock \ {s}
  /\ todo' = todo \ {s}
  /\ thread' = NextOf(todo \ {s}, print_header)
  /\ removals' = removals + 1
  /\ UNCHANGED <<m_stop, print_header, m_logfile>>

\* Between its header and its row a socket is the one being worked on.
PrintHeader(s, json, working) ==
  /\ thread = "header"
  /\ IF s \in working
       THEN /\ thread' = "row"
            /\ todo' = todo
            /\ m_logfile' = LogHeader(s \in json)
            /\ UNCHANGED <<m_sock, m_stop, print_header, removals>>
       ELSE DropSocket(s)

PrintRow_HeaderAgain(s, working) ==
  /\ thread = "row"
  /\ IF s \in working
       THEN /\ m_logfile' = LogRow
            /\ todo' = todo \ {s}
            /\ thread' = NextOf(todo \ {s}, print_header)
            /\ UNCHANGED <<m_sock, m_stop, print_header, removals>>
       ELSE DropSocket(s)

PrintRow(s, working) ==
  /\ thread = "row"
  /\ IF s \in working
       THEN /\ m_logfile' = LogRow
            /\ print_header' = FALSE
            /\ todo' = todo \ {s}
            /\ thread' = NextOf(todo \ {s}, FALSE)
            /\ UNCHANGED <<m_sock, m_stop, removals>>
       ELSE DropSocket(s)

WakeUp ==
  /\ thread = "sleep"
  /\ thread' = "test"
  /\ UNCHANGED <<m_sock, m_stop, todo, print_header, m_logfile, removals>>

\* Sockets are visited in the order of the map, which is that of their ids.
StatsThread(order, json, working) ==
  \/ TestStop
  \/ WakeUp
  \/ \E s \in todo :
       /\ \A t \in todo : order[s] <= order[t]
       /\ PrintHeader(s, json, working) \/ PrintRow(s, working)

-----------------------------------------------------------------------------
(* stop() sets m_stop, then waits for the thread.                          *)

StopRequested ==
  /\ ~m_stop
  /\ m_stop' = TRUE
  /\ UNCHANGED <<m_sock, thread, todo, print_header, m_logfile, removals>>

Stopped == m_stop /\ thread \in {"none", "done"}

\* The writer is destroyed, and with it its pointers.
Destroyed ==
  /\ Stopped
  /\ m_sock' = {}
  /\ UNCHANGED <<m_stop, thread, todo, print_header, m_logfile, removals>>

\* Types; the sockets still to be visited in a pass are held by the writer.
StatsTypeOK ==
  /\ m_sock \subseteq Socks
  /\ m_stop \in BOOLEAN
  /\ thread \in {"none", "test", "header", "row", "sleep", "done"}
  /\ todo \subseteq m_sock
  /\ print_header \in BOOLEAN
  /\ removals \in Nat
  /\ \A i \in 1..Len(m_logfile) : m_logfile[i] \in {"header", "row"}

Headers == IF HasRows THEN Len(m_logfile) - 1 ELSE Len(m_logfile)

\* In the file no row stands before a header, and no header after a row.  A
\* socket that fails between the two lets the next one print a header again;
\* nothing else does, so that there are more headers than one only if as many
\* sockets were removed (socket_stats.cpp:102).
HeaderFirst ==
  /\ \A i \in 1..Len(m_logfile) : m_logfile[i] = "row" => i > 1 /\ i = Len(m_logfile)
  /\ Headers <= 1 + removals
=============================================================================
