---------------------------- MODULE Route_proofs ----------------------------
(***************************************************************************)
(* Safety of the route subcommand and of the stats writer it runs, for any *)
(* number of messages and every set of command lines.                      *)
(***************************************************************************)
EXTENDS Integers, Route, TLAPS

\* As long as print_header is set there are only headers, one for each socket
\* removed at most, and one more for the socket being worked on; afterwards the
\* rows follow.
FileInv ==
  /\ print_header =>
       /\ \A i \in 1..Len(m_logfile) : m_logfile[i] = "header"
       /\ thread # "row" => Len(m_logfile) <= removals
       /\ thread = "row" => Len(m_logfile) > 0 /\ Len(m_logfile) <= removals + 1
  /\ ~print_header =>
       /\ Len(m_logfile) > 1 /\ Len(m_logfile) <= removals + 2
       /\ m_logfile[Len(m_logfile)] = "row"
       /\ \A i \in 1..(Len(m_logfile) - 1) : m_logfile[i] = "header"

\* Outside a pass the writer has no sockets left to visit.
WriterInv ==
  /\ m_logfile \in Seq({"header", "row"})
  /\ ~Locked => todo = {}
  /\ thread = "header" => print_header
  /\ ~cfg.json => FileInv

\* run() passes a place in its code only when what it waited for there is over.
MainInv ==
  /\ main \in {"create_dst", "create_src", "add_src", "add_dst", "start"} =>
       \A d \in Dirs : dir[d] = "off"
  /\ main \in {"unwind", "stop_stats", "returned"} => Over("fwd")
  /\ main \in {"stop_stats", "returned"} => Over("bkwd")
  /\ main = "returned" => thread \in {"none", "done"} /\ m_sock = {}

\* The messages written are older than the one in the buffer.
DirInv(d) ==
  /\ \A i, j \in 1..Len(written[To(d)]) : i < j => written[To(d)][i] < written[To(d)][j]
  /\ \A i \in 1..Len(written[To(d)]) : written[To(d)][i] <= taken[From(d)]
  /\ dir[d] = "writing" =>
       /\ buffer[d] = taken[From(d)]
       /\ \A i \in 1..Len(written[To(d)]) : written[To(d)][i] < taken[From(d)]
  /\ taken[From(d)] - Len(written[To(d)]) - dropped[d]
       \in (IF dir[d] = "writing" THEN {1} ELSE IF dir[d] = "threw" THEN {0, 1} ELSE {0})

IInv == TypeOK /\ WriterInv /\ MainInv /\ \A d \in Dirs : DirInv(d)
-----------------------------------------------------------------------------
LEMMA Ends ==
  /\ \A d \in Dirs : From(d) \in Socks /\ To(d) \in Socks
  /\ \A d, e \in Dirs : d # e => From(d) # From(e) /\ To(d) # To(e)
BY RouteAssumption DEF Dirs, From, To

LEMMA InitInv == Init => IInv
<1> SUFFICES ASSUME Init PROVE IInv
  OBVIOUS
<1>0. m_logfile \in Seq({"header", "row"}) /\ 1..Len(m_logfile) = {}
  BY DEF Init, StatsInit
<1>a. Len(m_logfile) = 0 /\ removals = 0 /\ print_header /\ thread = "none"
  BY DEF Init, StatsInit
<1>b. FileInv
  BY <1>0, <1>a DEF FileInv
<1>1. StatsTypeOK /\ WriterInv
  BY <1>0, <1>b DEF Init, StatsInit, StatsTypeOK, WriterInv, Locked
<1>2. /\ arrived \in [Socks -> Nat] /\ taken \in [Socks -> Nat]
      /\ buffer \in [Dirs -> Nat] /\ dropped \in [Dirs -> Nat]
      /\ \A s \in Socks : arrived[s] <= MaxMsgs[s] /\ taken[s] <= arrived[s]
  BY RouteAssumption DEF Init
<1>3. cfg \in Config /\ written \in [Socks -> Seq(Nat)]
  BY RouteAssumption DEF Init
<1>4. TypeOK
  BY <1>1, <1>2, <1>3 DEF Init, TypeOK
<1>5. MainInv
  BY DEF Init, MainInv, Over
<1>6. ASSUME NEW d \in Dirs PROVE DirInv(d)
  <2>1. taken[From(d)] = 0 /\ dropped[d] = 0 /\ dir[d] = "off"
    BY Ends DEF Init
  <2>2. Len(written[To(d)]) = 0
    BY Ends DEF Init
  <2>3. taken[From(d)] - Len(written[To(d)]) - dropped[d] = 0
    BY <2>1, <2>2
  <2>4. 1..Len(written[To(d)]) = {}
    BY <2>2
  <2> QED
    BY <2>1, <2>3, <2>4 DEF DirInv
<1> QED
  BY <1>1, <1>4, <1>5, <1>6 DEF IInv

-----------------------------------------------------------------------------
(* What leaves a part of the invariant alone.                              *)

LEMMA DirUnchanged ==
  ASSUME NEW d \in Dirs, DirInv(d), dir'[d] = dir[d], buffer'[d] = buffer[d],
         taken'[From(d)] = taken[From(d)], written'[To(d)] = written[To(d)],
         dropped'[d] = dropped[d]
  PROVE  DirInv(d)'
BY DEF DirInv

LEMMA DataUnchanged ==
  ASSUME IInv, UNCHANGED <<dir, taken, buffer, written, dropped>>
  PROVE  \A d \in Dirs : DirInv(d)'
BY DirUnchanged DEF IInv

LEMMA StatsUnchanged ==
  ASSUME IInv, UNCHANGED <<statsVars, cfg>>
  PROVE  StatsTypeOK' /\ WriterInv'
BY DEF IInv, TypeOK, statsVars, StatsTypeOK, WriterInv, FileInv, Locked

-----------------------------------------------------------------------------
(* The stats writer.                                                       *)

LEMMA AddSocketInv ==
  ASSUME IInv, NEW s \in Socks, add_socket(s), UNCHANGED cfg
  PROVE  StatsTypeOK' /\ WriterInv'
BY DEF IInv, TypeOK, add_socket, StatsTypeOK, WriterInv, FileInv, Locked

\* With CSV each new line comes where it belongs.
LEMMA HeaderLogged ==
  ASSUME m_logfile \in Seq({"header", "row"}), removals \in Nat, FileInv,
         print_header, thread = "header", thread' = "row",
         m_logfile' = Append(m_logfile, "header"), UNCHANGED <<print_header, removals>>
  PROVE  FileInv'
<1>1. /\ Len(m_logfile) \in Nat /\ Len(m_logfile') = Len(m_logfile) + 1
      /\ m_logfile'[Len(m_logfile) + 1] = "header"
      /\ \A i \in 1..Len(m_logfile) : m_logfile'[i] = m_logfile[i]
  OBVIOUS
<1>2. /\ \A i \in 1..Len(m_logfile) : m_logfile[i] = "header"
      /\ Len(m_logfile) <= removals
  BY DEF FileInv
<1>3. \A i \in 1..Len(m_logfile') : m_logfile'[i] = "header"
  BY <1>1, <1>2
<1>4. Len(m_logfile') > 0 /\ Len(m_logfile') <= removals + 1
  BY <1>1, <1>2
<1> QED
  BY <1>3, <1>4 DEF FileInv

LEMMA RowLogged ==
  ASSUME m_logfile \in Seq({"header", "row"}), removals \in Nat, FileInv,
         print_header \in BOOLEAN, thread = "row",
         m_logfile' = LogRow, print_header' = FALSE, UNCHANGED removals
  PROVE  FileInv'
<1>0. Len(m_logfile) \in Nat
  OBVIOUS
<1>1. CASE print_header
  <2>1. /\ \A i \in 1..Len(m_logfile) : m_logfile[i] = "header"
        /\ Len(m_logfile) > 0 /\ Len(m_logfile) <= removals + 1
    BY <1>1 DEF FileInv
  <2>2. m_logfile[Len(m_logfile)] = "header"
    BY <1>0, <2>1
  <2>3. m_logfile' = Append(m_logfile, "row")
    BY <2>2, "header" # "row" DEF LogRow, HasRows
  <2>4. /\ Len(m_logfile') = Len(m_logfile) + 1
        /\ m_logfile'[Len(m_logfile) + 1] = "row"
        /\ \A i \in 1..Len(m_logfile) : m_logfile'[i] = m_logfile[i]
    BY <2>3
  <2>5. \A i \in 1..(Len(m_logfile') - 1) : m_logfile'[i] = "header"
    BY <1>0, <2>1, <2>4
  <2>6. Len(m_logfile') > 1 /\ Len(m_logfile') <= removals + 2
    BY <1>0, <2>1, <2>4
  <2> QED
    BY <2>4, <2>5, <2>6 DEF FileInv
<1>2. CASE ~print_header
  <2>1. m_logfile' = m_logfile
    BY <1>0, <1>2 DEF FileInv, LogRow, HasRows
  <2> QED
    BY <1>2, <2>1 DEF FileInv
<1> QED
  BY <1>1, <1>2

LEMMA DropSocketInv ==
  ASSUME IInv, Locked, NEW s \in todo, DropSocket(s), UNCHANGED cfg
  PROVE  StatsTypeOK' /\ WriterInv'
<1>1. StatsTypeOK'
  BY DEF IInv, TypeOK, DropSocket, StatsTypeOK, NextOf
<1>2. WriterInv'
  <2>1. ASSUME FileInv PROVE FileInv'
    <3>1. /\ UNCHANGED <<m_logfile, print_header>> /\ removals' = removals + 1
          /\ thread' \in {"header", "row", "sleep"} /\ removals \in Nat
          /\ thread' = "row" => ~print_header
      BY DEF DropSocket, NextOf, IInv, TypeOK, StatsTypeOK
    <3>2. Len(m_logfile) \in Nat
      BY DEF IInv, WriterInv
    <3>3. CASE print_header
      BY <2>1, <3>1, <3>2, <3>3 DEF FileInv
    <3>4. CASE ~print_header
      BY <2>1, <3>1, <3>2, <3>4 DEF FileInv
    <3> QED
      BY <3>3, <3>4
  <2>2. /\ m_logfile' \in Seq({"header", "row"})
        /\ ~Locked' => todo' = {}
        /\ (thread' = "header" => print_header')
    BY DEF IInv, DropSocket, WriterInv, NextOf, Locked
  <2> QED
    BY <2>1, <2>2 DEF IInv, WriterInv
<1> QED
  BY <1>1, <1>2

LEMMA StatsThreadInv ==
  ASSUME IInv, StatsThread(cfg.order, Json, Working), UNCHANGED cfg
  PROVE  StatsTypeOK' /\ WriterInv'
<1>1. CASE TestStop
  BY <1>1 DEF IInv, TypeOK, TestStop, NextOf, StatsTypeOK, WriterInv, FileInv, Locked
<1>2. CASE WakeUp
  BY <1>2 DEF IInv, TypeOK, WakeUp, StatsTypeOK, WriterInv, FileInv, Locked
<1>3. ASSUME NEW s \in todo, PrintHeader(s, Json, Working)
      PROVE  StatsTypeOK' /\ WriterInv'
  <2>1. CASE s \in Working
    <3>1. /\ thread = "header" /\ thread' = "row" /\ m_logfile' = LogHeader(s \in Json)
          /\ UNCHANGED <<todo, m_sock, m_stop, print_header, removals>>
      BY <1>3, <2>1 DEF PrintHeader
    <3>2. m_logfile' \in Seq({"header", "row"})
      BY <3>1 DEF LogHeader, IInv, WriterInv
    <3>3. ~cfg.json => s \notin Json
      BY DEF Json
    <3>4. ~cfg'.json => FileInv'
      <4> SUFFICES ASSUME ~cfg.json PROVE FileInv'
        OBVIOUS
      <4>1. m_logfile' = Append(m_logfile, "header")
        BY <3>1, <3>3 DEF LogHeader
      <4>2. /\ m_logfile \in Seq({"header", "row"}) /\ removals \in Nat /\ FileInv
            /\ print_header
        BY <3>1 DEF IInv, TypeOK, StatsTypeOK, WriterInv
      <4> QED
        BY <3>1, <4>1, <4>2, HeaderLogged
    <3>5. StatsTypeOK'
      <4>1. \A i \in 1..Len(m_logfile') : m_logfile'[i] \in {"header", "row"}
        BY <3>2
      <4> QED
        BY <3>1, <4>1 DEF IInv, TypeOK, StatsTypeOK
    <3> QED
      BY <3>1, <3>2, <3>4, <3>5 DEF IInv, WriterInv, Locked
  <2>2. CASE s \notin Working
    BY <1>3, <2>2, DropSocketInv DEF PrintHeader, Locked
  <2> QED
    BY <2>1, <2>2
<1>4. ASSUME NEW s \in todo, PrintRow(s, Working)
      PROVE  StatsTypeOK' /\ WriterInv'
  <2>1. CASE s \in Working
    <3>1. /\ thread = "row" /\ m_logfile' = LogRow /\ print_header' = FALSE
          /\ todo' = todo \ {s} /\ thread' = NextOf(todo \ {s}, FALSE)
          /\ UNCHANGED <<m_sock, m_stop, removals>>
      BY <1>4, <2>1 DEF PrintRow
    <3>2. m_logfile' \in Seq({"header", "row"})
      BY <3>1 DEF IInv, WriterInv, LogRow
    <3>3. ~cfg'.json => FileInv'
      <4> SUFFICES ASSUME ~cfg.json PROVE FileInv'
        OBVIOUS
      <4>1. /\ m_logfile \in Seq({"header", "row"}) /\ removals \in Nat /\ FileInv
            /\ print_header \in BOOLEAN
        BY DEF IInv, TypeOK, StatsTypeOK, WriterInv
      <4> QED
        BY <3>1, <4>1, RowLogged
    <3>4. StatsTypeOK'
      <4>1. \A i \in 1..Len(m_logfile') : m_logfile'[i] \in {"header", "row"}
        BY <3>2
      <4>2. thread' \in {"header", "row", "sleep"}
        BY <3>1 DEF NextOf
      <4> QED
        BY <3>1, <4>1, <4>2 DEF IInv, TypeOK, StatsTypeOK
    <3> QED
      BY <3>1, <3>2, <3>3, <3>4 DEF WriterInv, Locked, NextOf
  <2>2. CASE s \notin Working
    BY <1>4, <2>2, DropSocketInv DEF PrintRow, Locked
  <2> QED
    BY <2>1, <2>2
<1> QED
  BY <1>1, <1>2, <1>3, <1>4 DEF StatsThread

LEMMA StopInv ==
  ASSUME IInv, StopRequested \/ Destroyed, UNCHANGED cfg
  PROVE  StatsTypeOK' /\ WriterInv'
<1>1. CASE StopRequested
  BY <1>1 DEF IInv, TypeOK, StopRequested, StatsTypeOK, WriterInv, FileInv, Locked
<1>2. CASE Destroyed
  BY <1>2 DEF IInv, TypeOK, Destroyed, Stopped, StatsTypeOK, WriterInv, FileInv, Locked
<1> QED
  BY <1>1, <1>2
-----------------------------------------------------------------------------
(* run().                                                                  *)

LEMMA CreateInv ==
  ASSUME IInv, NEW s \in Socks, NEW from, NEW to, CreateConnection(s, from, to),
         <<from, to>> \in {<<"create_dst", "create_src">>, <<"create_src", "add_src">>}
  PROVE  IInv'
<1>1. StatsTypeOK' /\ WriterInv'
  BY StatsUnchanged DEF CreateConnection
<1>2. TypeOK'
  BY <1>1 DEF IInv, TypeOK, CreateConnection, data
<1>3. MainInv'
  BY DEF IInv, MainInv, CreateConnection, Over, Dirs
<1> QED
  BY <1>1, <1>2, <1>3, DataUnchanged DEF IInv, CreateConnection, data

LEMMA AddToStatsInv ==
  ASSUME IInv, NEW s \in Socks, NEW from, NEW to, AddToStats(s, from, to),
         <<from, to>> \in {<<"add_src", "add_dst">>, <<"add_dst", "start">>}
  PROVE  IInv'
<1>1. StatsTypeOK' /\ WriterInv'
  BY StatsUnchanged, AddSocketInv DEF AddToStats
<1>2. TypeOK'
  BY <1>1 DEF IInv, TypeOK, AddToStats, data
<1>3. MainInv'
  BY DEF IInv, MainInv, AddToStats, Over, Dirs
<1> QED
  BY <1>1, <1>2, <1>3, DataUnchanged DEF IInv, AddToStats, data

\* A direction starts with nothing read.
LEMMA StartDirectionsInv == IInv /\ StartDirections => IInv'
<1> SUFFICES ASSUME IInv, StartDirections PROVE IInv'
  OBVIOUS
<1>1. StatsTypeOK' /\ WriterInv'
  BY StatsUnchanged DEF StartDirections
<1>2. TypeOK'
  BY <1>1 DEF IInv, TypeOK, StartDirections, data
<1>3. MainInv'
  BY DEF MainInv, StartDirections
<1>4. ASSUME NEW d \in Dirs PROVE DirInv(d)'
  <2>1. dir[d] = "off" /\ dir'[d] \in {"loop", "off"} /\ UNCHANGED data
    BY DEF IInv, MainInv, StartDirections
  <2> QED
    BY <2>1 DEF IInv, DirInv, data
<1> QED
  BY <1>1, <1>2, <1>3, <1>4 DEF IInv

LEMMA EndingInv ==
  ASSUME IInv, ForwardReturned \/ ForwardThrew \/ Unwind
  PROVE  IInv'
<1>1. UNCHANGED <<statsVars, cfg, dir, data, force_break>>
  BY DEF ForwardReturned, ForwardThrew, Unwind
<1>2. StatsTypeOK' /\ WriterInv'
  BY <1>1, StatsUnchanged
<1>3. /\ main' \in {"unwind", "terminated", "stop_stats"}
      /\ sock' \in [Socks -> {"none", "open", "broken", "closed"}]
  BY DEF IInv, TypeOK, ForwardReturned, ForwardThrew, Unwind
<1>4. TypeOK'
  BY <1>1, <1>2, <1>3 DEF IInv, TypeOK, data
<1>5. MainInv'
  BY DEF IInv, MainInv, ForwardReturned, ForwardThrew, Unwind, Over
<1> QED
  BY <1>1, <1>2, <1>4, <1>5, DataUnchanged DEF IInv, data

LEMMA StopStatsInv == IInv /\ StopStats => IInv'
<1> SUFFICES ASSUME IInv, StopStats PROVE IInv'
  OBVIOUS
<1>1. UNCHANGED <<cfg, dir, data, force_break>>
  BY DEF StopStats
<1>2. StatsTypeOK' /\ WriterInv'
  BY <1>1, StopInv DEF StopStats
<1>3. /\ main' \in {"stop_stats", "returned"}
      /\ sock' \in [Socks -> {"none", "open", "broken", "closed"}]
  BY DEF IInv, TypeOK, StopStats
<1>4. TypeOK'
  BY <1>1, <1>2, <1>3 DEF IInv, TypeOK, data
<1>5. MainInv'
  BY <1>1 DEF IInv, MainInv, StopStats, Destroyed, Stopped, Over
<1> QED
  BY <1>1, <1>2, <1>4, <1>5, DataUnchanged DEF IInv, data

LEMMA MainStepInv == IInv /\ Main => IInv'
<1> SUFFICES ASSUME IInv, Main PROVE IInv'
  OBVIOUS
<1>1. "src" \in Socks /\ "dst" \in Socks
  BY RouteAssumption
<1>2. CASE CreateConnection("dst", "create_dst", "create_src")
  BY <1>1, <1>2, CreateInv
<1>3. CASE CreateConnection("src", "create_src", "add_src")
  BY <1>1, <1>3, CreateInv
<1>4. CASE AddToStats("src", "add_src", "add_dst")
  BY <1>1, <1>4, AddToStatsInv
<1>5. CASE AddToStats("dst", "add_dst", "start")
  BY <1>1, <1>5, AddToStatsInv
<1> QED
  BY <1>2, <1>3, <1>4, <1>5, StartDirectionsInv, EndingInv, StopStatsInv DEF Main

-----------------------------------------------------------------------------
(* The directions.                                                         *)

Increasing(w) == \A i, j \in 1..Len(w) : i < j => w[i] < w[j]

LEMMA AppendIncreasing ==
  ASSUME NEW w \in Seq(Nat), NEW b \in Nat, Increasing(w), \A i \in 1..Len(w) : w[i] < b
  PROVE  /\ Increasing(Append(w, b))
         /\ \A i \in 1..Len(Append(w, b)) : Append(w, b)[i] <= b
         /\ Len(Append(w, b)) = Len(w) + 1
<1> DEFINE v == Append(w, b)
<1>1. /\ Len(w) \in Nat /\ Len(v) = Len(w) + 1 /\ v[Len(w) + 1] = b
      /\ \A i \in 1..Len(w) : v[i] = w[i] /\ w[i] \in Nat
  OBVIOUS
<1> HIDE DEF v
<1>2. \A i \in 1..Len(v) : i = Len(w) + 1 \/ i \in 1..Len(w)
  BY <1>1
<1>3. Increasing(v)
  <2> SUFFICES ASSUME NEW i \in 1..Len(v), NEW j \in 1..Len(v), i < j PROVE v[i] < v[j]
    BY DEF Increasing
  <2>1. i \in 1..Len(w)
    BY <1>1
  <2>2. CASE j = Len(w) + 1
    BY <1>1, <2>1, <2>2
  <2>3. CASE j \in 1..Len(w)
    BY <1>1, <2>1, <2>3 DEF Increasing
  <2> QED
    BY <1>2, <2>2, <2>3
<1>4. ASSUME NEW i \in 1..Len(v) PROVE v[i] <= b
  <2>1. CASE i = Len(w) + 1
    BY <1>1, <2>1
  <2>2. CASE i \in 1..Len(w)
    BY <1>1, <2>2
  <2> QED
    BY <1>2, <2>1, <2>2
<1> QED
  BY <1>1, <1>3, <1>4 DEF v

\* One more message read, written or given up.
LEMMA Balance ==
  \A t, l, g \in Nat :
    /\ t - l - g = 0 => (t + 1) - l - g = 1
    /\ t - l - g = 1 => t - (l + 1) - g = 0 /\ t - l - (g + 1) = 0
OBVIOUS

\* A step of one direction leaves the messages of the other alone.
LEMMA OtherDirection ==
  ASSUME IInv, NEW d \in Dirs, NEW e \in Dirs, e # d, Direction(d)
  PROVE  DirInv(e)'
<1>1. /\ dir'[e] = dir[e] /\ buffer'[e] = buffer[e] /\ dropped'[e] = dropped[e]
      /\ taken'[From(e)] = taken[From(e)] /\ written'[To(e)] = written[To(e)]
  <2>1. From(e) # From(d) /\ To(e) # To(d)
    BY Ends
  <2>2. CASE DirectionLoop(d) \/ ReadNothing(d) \/ ReadThrows(d) \/ WriteThrows(d)
    BY <2>2 DEF IInv, TypeOK, DirectionLoop, ReadNothing, ReadThrows, WriteThrows, data
  <2>3. CASE ReadMessage(d)
    BY <2>1, <2>3 DEF IInv, TypeOK, ReadMessage, data
  <2>4. CASE WriteMessage(d)
    BY <2>1, <2>4 DEF IInv, TypeOK, WriteMessage, data
  <2>5. CASE WriteShort(d)
    BY <2>5 DEF IInv, TypeOK, WriteShort, data
  <2> QED
    BY <2>2, <2>3, <2>4, <2>5 DEF Direction
<1> QED
  BY <1>1, DirUnchanged DEF IInv

LEMMA DirectionInv == ASSUME NEW d \in Dirs PROVE IInv /\ Direction(d) => IInv'
<1> SUFFICES ASSUME IInv, Direction(d) PROVE IInv'
  OBVIOUS
<1>0. From(d) \in Socks /\ To(d) \in Socks
  BY Ends
<1>1. /\ UNCHANGED <<statsVars, cfg, main, sock, arrived, force_break>>
      /\ Running /\ ~Over(d)
  BY DEF Direction, DirectionLoop, ReadMessage, ReadNothing, ReadThrows,
         WriteMessage, WriteShort, WriteThrows, data, Over
<1>2. StatsTypeOK' /\ WriterInv'
  BY <1>1, StatsUnchanged
<1>3. MainInv'
  <2>1. main \notin {"create_dst", "create_src", "add_src", "add_dst", "start", "returned"}
    BY <1>1 DEF IInv, MainInv, Running, Over
  <2>2. ASSUME NEW e \in Dirs, Over(e) PROVE Over(e)'
    BY <1>1, <2>2 DEF IInv, TypeOK, Over, Direction, DirectionLoop, ReadMessage, ReadNothing,
                      ReadThrows, WriteMessage, WriteShort, WriteThrows
  <2> QED
    BY <1>1, <2>1, <2>2 DEF IInv, MainInv, Dirs
<1>4. ASSUME TypeOK', DirInv(d)' PROVE IInv'
  BY <1>2, <1>3, <1>4, OtherDirection DEF IInv
<1>5. CASE DirectionLoop(d) \/ ReadNothing(d) \/ ReadThrows(d)
  <2>1. /\ UNCHANGED data
        /\ dir[d] \in {"loop", "reading"}
        /\ \E v \in {"ended", "reading", "loop", "threw"} : dir' = [dir EXCEPT ![d] = v]
    BY <1>5 DEF DirectionLoop, ReadNothing, ReadThrows, data
  <2>2. TypeOK'
    BY <1>1, <1>2, <2>1 DEF IInv, TypeOK, data
  <2>3. dir'[d] \in {"ended", "reading", "loop", "threw"}
    BY <2>1 DEF IInv, TypeOK
  <2>4. DirInv(d)'
    BY <2>1, <2>3 DEF IInv, DirInv, data
  <2> QED
    BY <2>2, <2>4, <1>4
<1>6. CASE ReadMessage(d)
  <2>1. /\ taken' = [taken EXCEPT ![From(d)] = taken[From(d)] + 1]
        /\ buffer' = [buffer EXCEPT ![d] = taken[From(d)] + 1]
        /\ dir' = [dir EXCEPT ![d] = "writing"]
        /\ taken[From(d)] < arrived[From(d)] /\ dir[d] = "reading"
        /\ UNCHANGED <<written, dropped>>
    BY <1>6 DEF ReadMessage
  <2>2. /\ taken'[From(d)] = taken[From(d)] + 1 /\ buffer'[d] = taken[From(d)] + 1
        /\ dir'[d] = "writing"
        /\ taken' \in [Socks -> Nat] /\ buffer' \in [Dirs -> Nat]
    BY <1>0, <2>1 DEF IInv, TypeOK
  <2>3. TypeOK'
    <3>1. \A s \in Socks : arrived'[s] <= MaxMsgs[s] /\ taken'[s] <= arrived'[s]
      BY <1>0, <1>1, <2>1, RouteAssumption DEF IInv, TypeOK
    <3>2. dir' \in [Dirs -> {"off", "loop", "reading", "writing", "ended", "threw"}]
      BY <2>1 DEF IInv, TypeOK
    <3> QED
      BY <1>1, <1>2, <2>1, <2>2, <3>1, <3>2 DEF IInv, TypeOK
  <2>4. taken[From(d)] - Len(written[To(d)]) - dropped[d] = 0
    BY <2>1 DEF IInv, DirInv
  <2>5. taken[From(d)] \in Nat /\ Len(written[To(d)]) \in Nat /\ dropped[d] \in Nat
    BY <1>0 DEF IInv, TypeOK
  <2>6. taken'[From(d)] - Len(written'[To(d)]) - dropped'[d] = 1
    <3>1. Len(written'[To(d)]) = Len(written[To(d)]) /\ dropped'[d] = dropped[d]
      BY <2>1
    <3>2. (taken[From(d)] + 1) - Len(written[To(d)]) - dropped[d] = 1
      BY <2>4, <2>5, Balance
    <3> QED
      BY <2>2, <3>1, <3>2
  <2>7. \A i \in 1..Len(written'[To(d)]) : written'[To(d)][i] < taken'[From(d)]
    <3>1. \A i \in 1..Len(written[To(d)]) : written[To(d)][i] \in Nat
      BY <1>0 DEF IInv, TypeOK
    <3> QED
      BY <2>1, <2>2, <2>5, <3>1 DEF IInv, DirInv
  <2>8. \A i \in 1..Len(written'[To(d)]) : written'[To(d)][i] <= taken'[From(d)]
    <3>1. \A i \in 1..Len(written[To(d)]) : written[To(d)][i] \in Nat
      BY <1>0 DEF IInv, TypeOK
    <3> QED
      BY <2>1, <2>2, <2>5, <3>1 DEF IInv, DirInv
  <2>9. \A i, j \in 1..Len(written'[To(d)]) : i < j => written'[To(d)][i] < written'[To(d)][j]
    BY <2>1 DEF IInv, DirInv
  <2>10. DirInv(d)'
    BY <2>2, <2>6, <2>7, <2>8, <2>9 DEF DirInv
  <2> QED
    BY <2>3, <2>10, <1>4
<1>7. CASE WriteMessage(d)
  <2> DEFINE w == written[To(d)]
  <2>1. /\ written' = [written EXCEPT ![To(d)] = Append(w, buffer[d])]
        /\ dir' = [dir EXCEPT ![d] = "loop"] /\ dir[d] = "writing"
        /\ UNCHANGED <<taken, buffer, dropped>>
    BY <1>7 DEF WriteMessage
  <2>2. /\ w \in Seq(Nat) /\ Len(w) \in Nat /\ buffer[d] \in Nat
        /\ taken[From(d)] \in Nat /\ dropped[d] \in Nat
    BY <1>0 DEF IInv, TypeOK
  <2>3. /\ written'[To(d)] = Append(w, buffer[d]) /\ dir'[d] = "loop"
        /\ written' \in [Socks -> Seq(Nat)]
    BY <1>0, <2>1, <2>2 DEF IInv, TypeOK
  <2>4. TypeOK'
    <3>1. dir' \in [Dirs -> {"off", "loop", "reading", "writing", "ended", "threw"}]
      BY <2>1 DEF IInv, TypeOK
    <3> QED
      BY <1>1, <1>2, <2>1, <2>3, <3>1 DEF IInv, TypeOK
  <2>5. /\ buffer[d] = taken[From(d)]
        /\ \A i \in 1..Len(w) : w[i] < buffer[d]
        /\ \A i, j \in 1..Len(w) : i < j => w[i] < w[j]
        /\ taken[From(d)] - Len(w) - dropped[d] = 1
    BY <2>1 DEF IInv, DirInv
  <2>6. /\ Increasing(written'[To(d)])
        /\ \A i \in 1..Len(written'[To(d)]) : written'[To(d)][i] <= buffer[d]
        /\ Len(written'[To(d)]) = Len(w) + 1
    BY <2>2, <2>3, <2>5, AppendIncreasing DEF Increasing
  <2>7. taken'[From(d)] = taken[From(d)] /\ dropped'[d] = dropped[d]
    BY <2>1
  <2>8. taken'[From(d)] - Len(written'[To(d)]) - dropped'[d] = 0
    BY <2>2, <2>5, <2>6, <2>7, Balance
  <2> HIDE DEF w
  <2>9. DirInv(d)'
    BY <2>3, <2>5, <2>6, <2>7, <2>8 DEF DirInv, Increasing
  <2> QED
    BY <2>4, <2>9, <1>4
<1>8. CASE WriteShort(d)
  <2>1. /\ dropped' = [dropped EXCEPT ![d] = dropped[d] + 1]
        /\ dir' = [dir EXCEPT ![d] = "loop"] /\ dir[d] = "writing"
        /\ UNCHANGED <<taken, buffer, written>>
    BY <1>8 DEF WriteShort
  <2>2. dropped'[d] = dropped[d] + 1 /\ dropped' \in [Dirs -> Nat] /\ dir'[d] = "loop"
    BY <2>1 DEF IInv, TypeOK
  <2>3. TypeOK'
    <3>1. dir' \in [Dirs -> {"off", "loop", "reading", "writing", "ended", "threw"}]
      BY <2>1 DEF IInv, TypeOK
    <3> QED
      BY <1>1, <1>2, <2>1, <2>2, <3>1 DEF IInv, TypeOK
  <2>4. taken[From(d)] - Len(written[To(d)]) - dropped[d] = 1
    BY <2>1 DEF IInv, DirInv
  <2>5. taken[From(d)] \in Nat /\ written[To(d)] \in Seq(Nat) /\ dropped[d] \in Nat
    BY <1>0 DEF IInv, TypeOK
  <2>6. taken'[From(d)] - Len(written'[To(d)]) - dropped'[d] = 0
    BY <2>1, <2>2, <2>4, <2>5
  <2>7. DirInv(d)'
    BY <2>1, <2>2, <2>6 DEF IInv, DirInv
  <2> QED
    BY <2>3, <2>7, <1>4
<1>9. CASE WriteThrows(d)
  <2>1. UNCHANGED data /\ dir' = [dir EXCEPT ![d] = "threw"] /\ dir[d] = "writing"
    BY <1>9 DEF WriteThrows, data
  <2>2. TypeOK'
    BY <1>1, <1>2, <2>1 DEF IInv, TypeOK, data
  <2>3. dir'[d] = "threw"
    BY <2>1 DEF IInv, TypeOK
  <2>4. DirInv(d)'
    BY <2>1, <2>3 DEF IInv, DirInv, data
  <2> QED
    BY <2>2, <2>4, <1>4
<1> QED
  BY <1>5, <1>6, <1>7, <1>8, <1>9 DEF Direction

-----------------------------------------------------------------------------
(* The peers, the user and the writer's thread.                            *)

LEMMA StatsStepInv == IInv /\ StatsStep => IInv'
<1> SUFFICES ASSUME IInv, StatsStep PROVE IInv'
  OBVIOUS
<1>1. UNCHANGED <<cfg, main, dir, data, force_break>> /\ main # "returned"
  BY DEF StatsStep, Running
<1>2. StatsTypeOK' /\ WriterInv'
  BY <1>1, StatsThreadInv DEF StatsStep
<1>3. sock' \in [Socks -> {"none", "open", "broken", "closed"}]
  BY DEF IInv, TypeOK, StatsStep
<1>4. TypeOK'
  BY <1>1, <1>2, <1>3 DEF IInv, TypeOK, data
<1>5. MainInv'
  BY <1>1 DEF IInv, MainInv, Over
<1> QED
  BY <1>1, <1>2, <1>4, <1>5, DataUnchanged DEF IInv, data

LEMMA KilledInv == ASSUME NEW d \in Dirs, IInv, KilledBySignal(d) PROVE IInv'
<1>1. UNCHANGED <<statsVars, cfg, dir, sock, data, force_break>> /\ main' = "killed"
  BY DEF KilledBySignal
<1>2. StatsTypeOK' /\ WriterInv'
  BY <1>1, StatsUnchanged
<1>3. TypeOK' /\ MainInv'
  BY <1>1, <1>2 DEF IInv, TypeOK, MainInv, data
<1> QED
  BY <1>1, <1>2, <1>3, DataUnchanged DEF IInv, data

LEMMA PeersInv ==
  ASSUME IInv, (\E s \in Socks : MessageArrives(s) \/ ConnectionLost(s)) \/ Interrupt
  PROVE  IInv'
<1>1. UNCHANGED <<statsVars, cfg, main, dir, taken, buffer, written, dropped>>
  BY DEF MessageArrives, ConnectionLost, Interrupt, data
<1>2. StatsTypeOK' /\ WriterInv'
  BY <1>1, StatsUnchanged
<1>3. sock' \in [Socks -> {"none", "open", "broken", "closed"}] /\ force_break' \in BOOLEAN
  BY DEF IInv, TypeOK, MessageArrives, ConnectionLost, Interrupt
<1>4. /\ arrived' \in [Socks -> Nat]
      /\ \A s \in Socks : arrived'[s] <= MaxMsgs[s] /\ taken[s] <= arrived'[s]
  <2>1. CASE UNCHANGED arrived
    BY <2>1 DEF IInv, TypeOK
  <2>2. ASSUME NEW s \in Socks, MessageArrives(s)
        PROVE  <1>4!1 /\ <1>4!2
    BY <2>2, RouteAssumption DEF IInv, TypeOK, MessageArrives
  <2> QED
    BY <2>1, <2>2 DEF ConnectionLost, Interrupt, data
<1>5. TypeOK'
  BY <1>1, <1>2, <1>3, <1>4 DEF IInv, TypeOK
<1>6. MainInv'
  BY <1>1 DEF IInv, MainInv, Over, statsVars
<1> QED
  BY <1>1, <1>2, <1>5, <1>6, DataUnchanged DEF IInv

LEMMA NextInv == IInv /\ [Next]_vars => IInv'
<1> SUFFICES ASSUME IInv, [Next]_vars PROVE IInv'
  OBVIOUS
<1>1. CASE UNCHANGED vars
  <2>1. UNCHANGED <<statsVars, cfg>> /\ UNCHANGED <<dir, taken, buffer, written, dropped>>
    BY <1>1 DEF vars, routeVars
  <2>2. StatsTypeOK' /\ WriterInv'
    BY <2>1, StatsUnchanged
  <2>3. TypeOK'
    BY <1>1, <2>2 DEF IInv, TypeOK, vars, routeVars
  <2>4. MainInv'
    BY <1>1 DEF IInv, MainInv, Over, vars, routeVars, statsVars
  <2> QED
    BY <2>1, <2>2, <2>3, <2>4, DataUnchanged DEF IInv
<1> QED
  BY <1>1, MainStepInv, StatsStepInv, DirectionInv, KilledInv, PeersInv DEF Next

LEMMA Invariance == Spec => []IInv
BY InitInv, NextInv, PTL DEF Spec

-----------------------------------------------------------------------------
\* Every message a direction has read is written, in order and once, or
\* accounted for (route.cpp:53), and the state keeps its types.
THEOREM ForwardedHolds == Spec => []Forwarded
<1>1. IInv => Forwarded
  BY DEF IInv, DirInv, Forwarded
<1> QED
  BY <1>1, Invariance, PTL

\* With CSV no row comes before a header and no header after a row, whichever
\* sockets fail at whichever call, and a header is repeated only for a socket
\* that was removed (socket_stats.cpp:102).
THEOREM CsvHeaderFirstHolds == Spec => []CsvHeaderFirst
<1>1. ASSUME IInv PROVE CsvHeaderFirst
  <2> SUFFICES ASSUME ~cfg.json PROVE HeaderFirst
    BY DEF CsvHeaderFirst
  <2>1. FileInv /\ removals \in Nat /\ Len(m_logfile) \in Nat /\ print_header \in BOOLEAN
    BY <1>1 DEF IInv, TypeOK, StatsTypeOK, WriterInv
  <2>2. CASE print_header
    <3>1. \A i \in 1..Len(m_logfile) : m_logfile[i] = "header"
      BY <2>1, <2>2 DEF FileInv
    <3>2. Len(m_logfile) <= removals + 1
      BY <2>1, <2>2 DEF FileInv
    <3>3. Headers <= 1 + removals
      BY <2>1, <3>2 DEF Headers
    <3> QED
      BY <3>1, <3>3, "header" # "row" DEF HeaderFirst
  <2>3. CASE ~print_header
    <3>1. /\ Len(m_logfile) > 1 /\ Len(m_logfile) <= removals + 2
          /\ m_logfile[Len(m_logfile)] = "row"
          /\ \A i \in 1..(Len(m_logfile) - 1) : m_logfile[i] = "header"
      BY <2>3, <2>1 DEF FileInv
    <3>2. m_logfile # <<>>
      BY <3>1
    <3>3. Headers <= 1 + removals
      BY <2>1, <3>1, <3>2 DEF Headers, HasRows
    <3>4. ASSUME NEW i \in 1..Len(m_logfile), m_logfile[i] = "row"
          PROVE  i > 1 /\ i = Len(m_logfile)
      <4>1. i \notin 1..(Len(m_logfile) - 1)
        BY <3>1, <3>4, "header" # "row"
      <4> QED
        BY <2>1, <3>1, <4>1
    <3> QED
      BY <3>3, <3>4 DEF HeaderFirst
  <2> QED
    BY <2>2, <2>3
<1> QED
  BY <1>1, Invariance, PTL

\* run() returns only when the thread of the other direction and the thread
\* of the writer have ended (route.cpp:117, socket_stats.cpp:69).
THEOREM ThreadsEndFirstHolds == Spec => []ThreadsEndFirst
<1>1. IInv => ThreadsEndFirst
  BY DEF IInv, MainInv, ThreadsEndFirst, Dirs
<1> QED
  BY <1>1, Invariance, PTL
=============================================================================
