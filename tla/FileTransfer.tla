---------------------------- MODULE FileTransfer ----------------------------
(***************************************************************************)
(* The file send and file receive subcommands, each in a process of its    *)
(* own, joined by an SRT connection in file mode.  The sender lists the    *)
(* files of a folder and sends each as a sequence of segments; the first   *)
(* one carries the name, the last one a flag.  The receiver writes what it *)
(* reads to the file that is open.  Both may log statistics in a thread,   *)
(* lose the connection, fail on a file, or be interrupted.                 *)
(*                                                                         *)
(* Each process has a --segment option of its own: the receiver reads into *)
(* a buffer of rcv_segment bytes, and what a message has beyond that is    *)
(* lost.                                                                   *)
(*                                                                         *)
(* A path is the sequence of its names; a byte is known by its file and    *)
(* its place in it.  Names have NameSize characters after relative_path.   *)
(***************************************************************************)
EXTENDS Naturals, FiniteSets, Sequences, SequencesExt

CONSTANTS
  Roots,        \* the paths that may be sent
  Folders,      \* the folders of the file system ...
  Files,        \* ... and the files
  SizeChoices,  \* the sizes the files may have: a set of functions
  SegmentSize,  \* --segment of the sender ...
  RcvSegments,  \* ... and those the receiver may be given, with room for a name
  NameSize,
  SndBuf,       \* segments the send buffer holds (10 in the code)
  RcvBuf        \* segments the receiver's buffer holds

ASSUME FileTransferAssumption ==
  /\ Roots \subseteq Folders \cup Files
  /\ SizeChoices \subseteq [Files -> Nat]
  /\ SegmentSize \in Nat /\ NameSize \in Nat /\ SegmentSize > NameSize + 2
  /\ RcvSegments \subseteq Nat /\ \A n \in RcvSegments : n >= NameSize + 2
  /\ SndBuf \in Nat \ {0} /\ RcvBuf \in Nat \ {0}

\* The file system: a file contains nothing, and what lies between a folder
\* and a path below it is there as well.
ASSUME FileSystemAssumption ==
  /\ Folders \cup Files \subseteq Seq(STRING) \ {<<>>}
  /\ IsFiniteSet(Folders \cup Files) /\ Folders \cap Files = {}
  /\ \A f \in Files, e \in Folders \cup Files : IsPrefix(f, e) => e = f
  /\ \A d \in Folders, e \in Folders \cup Files :
       IsPrefix(d, e) /\ e # d => SubSeq(e, 1, Len(d) + 1) \in Folders \cup Files

Procs == {"sender", "receiver"}

VARIABLES
  src_path,     \* the path to send, fixed
  size,         \* the size of each file, fixed
  rcv_segment,  \* --segment of the receiver, fixed
  pc,           \* where the main thread of each process is
  stats,        \* where its stats_logger is
  local_break, force_break,
  sock,         \* the SRT socket of each process
  link,         \* the connection between them
  sndbuf, rcvbuf,
  subdirs, filenames,
  current,      \* sender: the index of the file in filenames ...
  pos,          \* ... how much of it was read ...
  is_start,     \* ... whether the next segment is its first (hdr_size > 1)
  segment,      \* ... and the segment in buf
  ofile,        \* receiver: the path that is open, <<>> if none or if the
                \* stream has failed
  content,      \* what was written, by the path relative to dst_path
  finished,     \* the files reported as done
  write_failed, \* (history) the files a write to which has failed
  outcome       \* how the sender fared

vars == <<src_path, size, rcv_segment, pc, stats, local_break, force_break, sock, link, sndbuf, rcvbuf,
          subdirs, filenames, current, pos, is_start, segment, ofile, content, finished,
          write_failed, outcome>>
fixed == <<src_path, size, rcv_segment>>
process == <<stats, local_break, force_break>>
network == <<sock, link, sndbuf, rcvbuf>>
sending == <<subdirs, filenames, current, pos, is_start, segment, outcome>>
receiving == <<ofile, content, finished, write_failed>>

\* The name under which a file is sent.
relative_path(file, dir) ==
  IF file = dir THEN <<Last(file)>> ELSE SubSeq(file, Len(dir) + 1, Len(file))

Upload(f) == relative_path(f, src_path)
ToSend == {f \in Files : IsPrefix(src_path, f)}
Names == {Upload(f) : f \in ToSend}

Init ==
  /\ src_path \in Roots
  /\ size \in SizeChoices
  /\ rcv_segment \in RcvSegments
  /\ pc = [p \in Procs |-> IF p = "sender" THEN "scan" ELSE "connect"]
  /\ stats \in [Procs -> {"off", "idle"}]
  /\ local_break = [p \in Procs |-> FALSE]
  /\ force_break = [p \in Procs |-> FALSE]
  /\ sock = [p \in Procs |-> "open"]
  /\ link = "none"
  /\ sndbuf = <<>>
  /\ rcvbuf = <<>>
  /\ subdirs = <<src_path>>
  /\ filenames = <<>>
  /\ current = 1
  /\ pos = 0
  /\ is_start = TRUE
  /\ segment = <<>>
  /\ ofile = <<>>
  /\ content = [n \in Names |-> <<>>]
  /\ finished = {}
  /\ write_failed = {}
  /\ outcome = "none"

-----------------------------------------------------------------------------
(* read_directory                                                          *)

Entries(dir) == {e \in Folders \cup Files : Len(e) = Len(dir) + 1 /\ IsPrefix(dir, e)}

\* The order of a folder's entries is up to the system.
ScanFolder ==
  /\ pc["sender"] = "scan"
  /\ subdirs # <<>> /\ Head(subdirs) \in Folders
  /\ \E dirs \in SetToSeqs(Entries(Head(subdirs)) \cap Folders),
        files \in SetToSeqs(Entries(Head(subdirs)) \cap Files) :
       /\ subdirs' = Tail(subdirs) \o dirs
       /\ filenames' = filenames \o files
  /\ UNCHANGED <<fixed, pc, process, network, receiving, current, pos, is_start, segment, outcome>>

\* The path to send is itself a file.
ScanFile ==
  /\ pc["sender"] = "scan"
  /\ subdirs # <<>> /\ Head(subdirs) \in Files
  /\ subdirs' = Tail(subdirs)
  /\ filenames' = Append(filenames, Head(subdirs))
  /\ UNCHANGED <<fixed, pc, process, network, receiving, current, pos, is_start, segment, outcome>>

\* is_directory or directory_iterator throws a filesystem_error, which nobody
\* catches: the process ends.
ScanThrows ==
  /\ pc["sender"] = "scan"
  /\ subdirs # <<>>
  /\ pc' = [pc EXCEPT !["sender"] = "terminated"]
  /\ UNCHANGED <<fixed, process, network, sending, receiving>>

ScanDone ==
  /\ pc["sender"] = "scan"
  /\ subdirs = <<>>
  /\ pc' = [pc EXCEPT !["sender"] = IF filenames = <<>> THEN "returned" ELSE "connect"]
  /\ UNCHANGED <<fixed, process, network, sending, receiving>>

-----------------------------------------------------------------------------
(* The connection, and what happens to it                                  *)

Connect ==
  /\ \A p \in Procs : pc[p] = "connect" /\ sock[p] = "open"
  /\ link' = "up"
  /\ pc' = [p \in Procs |-> IF p = "sender" THEN "open" ELSE "read"]
  /\ stats' = [p \in Procs |-> IF stats[p] = "idle" THEN "test" ELSE "off"]
  /\ UNCHANGED <<fixed, local_break, force_break, sock, sndbuf, rcvbuf, sending, receiving>>

ConnectFails(p) ==
  /\ pc[p] = "connect"
  /\ pc' = [pc EXCEPT ![p] = "returned"]
  /\ sock' = [sock EXCEPT ![p] = "closed"]
  /\ UNCHANGED <<fixed, process, link, sndbuf, rcvbuf, sending, receiving>>

\* Closing discards what is not sent; the other side sees a broken connection
\* but can still read what it has.
Close(p) ==
  /\ sock' = [sock EXCEPT ![p] = "closed"]
  /\ link' = IF link = "up" THEN "broken" ELSE link
  /\ sndbuf' = <<>>

Fails(p) == sock[p] = "closed" \/ link = "broken"

Deliver ==
  /\ link = "up"
  /\ sndbuf # <<>> /\ Len(rcvbuf) < RcvBuf
  /\ rcvbuf' = Append(rcvbuf, Head(sndbuf))
  /\ sndbuf' = Tail(sndbuf)
  /\ UNCHANGED <<fixed, pc, process, sock, link, sending, receiving>>

ConnectionLost ==
  /\ link = "up"
  /\ link' = "broken"
  /\ sndbuf' = <<>>
  /\ UNCHANGED <<fixed, pc, process, sock, rcvbuf, sending, receiving>>

\* srt_cleanup closes the socket, if there is one yet.
Interrupt(p) ==
  /\ ~force_break[p] /\ pc[p] \notin {"returned", "terminated"}
  /\ force_break' = [force_break EXCEPT ![p] = TRUE]
  /\ IF pc[p] = "scan" THEN UNCHANGED <<sock, link, sndbuf>> ELSE Close(p)
  /\ rcvbuf' = IF p = "receiver" THEN <<>> ELSE rcvbuf
  /\ UNCHANGED <<fixed, pc, stats, local_break, sending, receiving>>

-----------------------------------------------------------------------------
(* start_filesender and send_file                                          *)

Goto(p, l) == pc' = [pc EXCEPT ![p] = l]

HeaderSize(first) == IF first THEN NameSize + 2 ELSE 1

\* What a segment of the current file can hold.
Capacity(first) == SegmentSize - HeaderSize(first)

NextFile ==
  /\ pc["sender"] = "open"
  /\ \/ /\ current > Len(filenames) \/ force_break["sender"]
        /\ Goto("sender", "drain")
        /\ UNCHANGED sending
     \/ /\ current <= Len(filenames) /\ ~force_break["sender"]
        /\ Goto("sender", "segment")
        /\ pos' = 0
        /\ is_start' = TRUE
        /\ UNCHANGED <<subdirs, filenames, current, segment, outcome>>
  /\ UNCHANGED <<fixed, process, network, receiving>>

\* The file cannot be opened or read: the files after it are not sent.
SendFileFails ==
  /\ pc["sender"] = "segment"
  /\ Goto("sender", "drain")
  /\ outcome' = "failed"
  /\ UNCHANGED <<fixed, process, network, subdirs, filenames, current, pos, is_start, segment, receiving>>

IsEof_AtOnce(n, capacity) == n <= capacity

\* read() sets eof when it gets less than it asked for, not when it gets the
\* last byte.
IsEof(n, capacity) == n < capacity

\* An empty rest is not sent; it comes with eof.
ReadSegment ==
  LET f == filenames[current]
      n == IF size[f] - pos < Capacity(is_start) THEN size[f] - pos ELSE Capacity(is_start)
      is_eof == IsEof(n, Capacity(is_start))
  IN  /\ pc["sender"] = "segment"
      /\ ~force_break["sender"]
      /\ pos' = pos + n
      /\ segment' = [first |-> is_start, eof |-> is_eof,
                     name |-> IF is_start THEN Upload(f) ELSE <<>>,
                     bytes |-> [i \in 1..n |-> <<f, pos + i>>]]
      /\ Goto("sender", IF n > 0 THEN "write" ELSE "open")
      /\ current' = IF n > 0 THEN current ELSE current + 1
      /\ UNCHANGED <<fixed, process, network, subdirs, filenames, is_start, outcome, receiving>>

\* send_file returns true on an interrupt.
SendFileInterrupted ==
  /\ pc["sender"] = "segment"
  /\ force_break["sender"]
  /\ Goto("sender", "drain")
  /\ UNCHANGED <<fixed, process, network, sending, receiving>>

WriteSegment_KeepsHeader ==
  /\ pc["sender"] = "write"
  /\ ~Fails("sender") /\ Len(sndbuf) < SndBuf
  /\ sndbuf' = Append(sndbuf, segment)
  /\ Goto("sender", IF segment.eof THEN "open" ELSE "segment")
  /\ current' = IF segment.eof THEN current + 1 ELSE current
  /\ UNCHANGED <<fixed, process, sock, link, rcvbuf, subdirs, filenames, pos, is_start, segment,
                 outcome, receiving>>

\* write() blocks until there is room.
WriteSegment ==
  /\ pc["sender"] = "write"
  /\ ~Fails("sender") /\ Len(sndbuf) < SndBuf
  /\ sndbuf' = Append(sndbuf, segment)
  /\ is_start' = FALSE
  /\ Goto("sender", IF segment.eof THEN "open" ELSE "segment")
  /\ current' = IF segment.eof THEN current + 1 ELSE current
  /\ UNCHANGED <<fixed, process, sock, link, rcvbuf, subdirs, filenames, pos, segment,
                 outcome, receiving>>

\* The exception destroys dst_sock, a copy that closes the socket, and then
\* the future of the logger, which waits without setting local_break.
WriteThrows ==
  /\ pc["sender"] = "write"
  /\ Fails("sender")
  /\ Goto("sender", "join")
  /\ outcome' = "failed"
  /\ Close("sender")
  /\ UNCHANGED <<fixed, process, rcvbuf, subdirs, filenames, current, pos, is_start, segment, receiving>>

Drained_NoWait ==
  /\ pc["sender"] = "drain"
  /\ Goto("sender", "join")
  /\ local_break' = [local_break EXCEPT !["sender"] = TRUE]
  /\ outcome' = IF outcome = "none" /\ ~Fails("sender") /\ ~force_break["sender"]
                  THEN "complete" ELSE "failed"
  /\ UNCHANGED <<fixed, stats, force_break, network, subdirs, filenames, current, pos, is_start,
                 segment, receiving>>

\* The send buffer is empty, or srt_getsndbuffer returns an error.
Drained ==
  /\ pc["sender"] = "drain"
  /\ Fails("sender") \/ sndbuf = <<>>
  /\ Goto("sender", "join")
  /\ local_break' = [local_break EXCEPT !["sender"] = TRUE]
  /\ outcome' = IF outcome = "none" /\ ~Fails("sender") /\ ~force_break["sender"]
                  THEN "complete" ELSE "failed"
  /\ UNCHANGED <<fixed, stats, force_break, network, subdirs, filenames, current, pos, is_start,
                 segment, receiving>>

-----------------------------------------------------------------------------
(* start_filereceiver and receive_files                                    *)

ReceiverStops ==
  /\ pc["receiver"] = "read"
  /\ force_break["receiver"]
  /\ Goto("receiver", "join")
  /\ local_break' = [local_break EXCEPT !["receiver"] = TRUE]
  /\ UNCHANGED <<fixed, stats, force_break, network, sending, receiving>>

\* A message of the connection, cut to the buffer.
Cut(s) ==
  LET room == rcv_segment - HeaderSize(s.first)
  IN  SubSeq(s.bytes, 1, IF Len(s.bytes) < room THEN Len(s.bytes) ELSE room)

TakeSegment ==
  /\ pc["receiver"] = "read"
  /\ ~force_break["receiver"] /\ rcvbuf # <<>>
  /\ rcvbuf' = Tail(rcvbuf)

\* open() truncates the file.  write() may fail and leave less of what the
\* stream was given (a failure that shows only when the file is closed is taken
\* with the last write).  Nothing looks at that before the next segment: with
\* eof the file is reported as done.
ReadAndStore ==
  LET s == Head(rcvbuf)
      path == IF s.first THEN s.name ELSE ofile
      new == (IF s.first THEN <<>> ELSE content[path]) \o Cut(s)
  IN  /\ TakeSegment
      /\ path # <<>>
      /\ \/ /\ content' = [content EXCEPT ![path] = new]
            /\ ofile' = IF s.eof THEN <<>> ELSE path
            /\ UNCHANGED write_failed
         \/ /\ \E n \in 0..Len(new) : content' = [content EXCEPT ![path] = SubSeq(new, 1, n)]
            /\ ofile' = <<>>
            /\ write_failed' = write_failed \cup {path}
      /\ finished' = IF s.eof THEN finished \cup {path} ELSE finished
      /\ UNCHANGED <<fixed, pc, process, sock, link, sndbuf, sending>>

\* The stream has failed: the rest of the file is dropped, its end included.
DropSegment ==
  /\ TakeSegment
  /\ ~Head(rcvbuf).first /\ ofile = <<>>
  /\ UNCHANGED <<fixed, pc, process, sock, link, sndbuf, sending, receiving>>

\* A folder cannot be made or a file not be opened.
OpenFails ==
  /\ pc["receiver"] = "read"
  /\ ~force_break["receiver"] /\ rcvbuf # <<>> /\ Head(rcvbuf).first
  /\ rcvbuf' = Tail(rcvbuf)
  /\ ofile' = <<>>
  /\ Goto("receiver", "join")
  /\ local_break' = [local_break EXCEPT !["receiver"] = TRUE]
  /\ UNCHANGED <<fixed, stats, force_break, sock, link, sndbuf, sending, content, finished,
                 write_failed>>

\* The exception leaves local_break as it is.
ReadThrows ==
  /\ pc["receiver"] = "read"
  /\ ~force_break["receiver"] /\ rcvbuf = <<>> /\ Fails("receiver")
  /\ Goto("receiver", "join")
  /\ UNCHANGED <<fixed, process, network, sending, receiving>>

-----------------------------------------------------------------------------
(* stats_logger, and the end of both                                       *)

LoggerTests_NoLocalBreak(p) ==
  /\ stats[p] = "test"
  /\ stats' = [stats EXCEPT ![p] = IF force_break[p] THEN "ended" ELSE "sleep"]
  /\ UNCHANGED <<fixed, pc, local_break, force_break, network, sending, receiving>>

LoggerTests(p) ==
  /\ stats[p] = "test"
  /\ stats' = [stats EXCEPT ![p] =
                 IF force_break[p] \/ local_break[p] THEN "ended" ELSE "sleep"]
  /\ UNCHANGED <<fixed, pc, local_break, force_break, network, sending, receiving>>

\* get_statistics throws on a broken or closed socket.
LoggerPrints(p) ==
  /\ stats[p] = "sleep"
  /\ stats' = [stats EXCEPT ![p] = IF Fails(p) THEN "ended" ELSE "test"]
  /\ UNCHANGED <<fixed, pc, local_break, force_break, network, sending, receiving>>

Return(p) ==
  /\ pc[p] = "join"
  /\ stats[p] \in {"off", "ended"}
  /\ Goto(p, "returned")
  /\ Close(p)
  /\ UNCHANGED <<fixed, process, rcvbuf, sending, receiving>>

Sender ==
  \/ ScanFolder \/ ScanFile \/ ScanDone
  \/ NextFile \/ ReadSegment \/ SendFileInterrupted
  \/ WriteSegment \/ WriteThrows \/ Drained

Receiver == ReceiverStops \/ ReadAndStore \/ DropSegment \/ ReadThrows

Logger(p) == LoggerTests(p) \/ LoggerPrints(p)

Next ==
  \/ Sender \/ ScanThrows \/ SendFileFails
  \/ Receiver \/ OpenFails
  \/ Connect \/ Deliver \/ ConnectionLost
  \/ \E p \in Procs : ConnectFails(p) \/ Interrupt(p) \/ Logger(p) \/ Return(p)

\* The threads of both processes run.  SRT delivers or, when the peer is
\* gone, breaks the connection.
Fairness ==
  /\ WF_vars(Sender) /\ WF_vars(Receiver) /\ WF_vars(Deliver)
  /\ \A p \in Procs : WF_vars(Logger(p)) /\ WF_vars(Return(p))

Spec == Init /\ [][Next]_vars
FairSpec == Spec /\ Fairness

-----------------------------------------------------------------------------
Bytes == UNION {{f} \X (1..size[f]) : f \in Files}
Segments == [first : BOOLEAN, eof : BOOLEAN, name : Names \cup {<<>>}, bytes : Seq(Bytes)]

\* Types; the send buffer never holds more segments than it has room for, and
\* data is written to, and reported for, the files that are sent only.
TypeOK ==
  /\ src_path \in Folders \cup Files
  /\ size \in [Files -> Nat]
  /\ rcv_segment \in RcvSegments
  /\ pc \in [Procs -> {"scan", "connect", "open", "segment", "write", "drain", "read",
                       "join", "returned", "terminated"}]
  /\ stats \in [Procs -> {"off", "idle", "test", "sleep", "ended"}]
  /\ local_break \in [Procs -> BOOLEAN] /\ force_break \in [Procs -> BOOLEAN]
  /\ sock \in [Procs -> {"open", "closed"}]
  /\ link \in {"none", "up", "broken"}
  /\ sndbuf \in Seq(Segments) /\ Len(sndbuf) <= SndBuf
  /\ rcvbuf \in Seq(Segments) /\ Len(rcvbuf) <= RcvBuf
  /\ subdirs \in Seq(Folders \cup Files)
  /\ filenames \in Seq(Files)
  /\ current \in 1..(Cardinality(Files) + 1)
  /\ pos \in Nat
  /\ is_start \in BOOLEAN
  /\ segment \in Segments \cup {<<>>}
  /\ ofile \in Names \cup {<<>>}
  /\ content \in [Names -> Seq(Bytes)]
  /\ finished \subseteq Names
  /\ write_failed \subseteq Names
  /\ outcome \in {"none", "complete", "failed"}

\* The receiver's buffer takes the sender's segments: --segment is not smaller
\* there than here.  Otherwise every full segment loses its end, and the file
\* gets holes that neither side notices (file-receive.cpp:91, :207).
WholeSegments == rcv_segment >= SegmentSize

\* Every write to the file has succeeded as well.
Sound(n) == WholeSegments /\ n \notin write_failed

\* If segments are taken whole, what is in a received file is always a beginning
\* of the file that was sent, byte by byte, across segments, files and failures,
\* failed writes included: after one the stream takes nothing more
\* (file-receive.cpp:126, :132, file-send.cpp:82).
ReceivedIsPrefix ==
  /\ TypeOK
  /\ WholeSegments =>
       \A f \in ToSend :
         LET c == content[Upload(f)]
         IN  Len(c) <= size[f] /\ c = [i \in 1..Len(c) |-> <<f, i>>]

\* The last segment of a file of this size is full, so that read() does not see
\* the end with it.
FillsSegments(n) == \E k \in 0..n : n = Capacity(TRUE) + k * Capacity(FALSE)

\* A file the receiver reports as done has all its bytes, and a file that has
\* them was reported, but for the empty ones and those that fill their last
\* segment, whose end is never announced (file-receive.cpp:149, file-send.cpp:57).
\* A failed write, too, is reported as done with the last segment.
DoneIsComplete ==
  \A f \in ToSend : Sound(Upload(f)) =>
    /\ Upload(f) \in finished => Len(content[Upload(f)]) = size[f]
    /\ Len(content[Upload(f)]) = size[f] /\ size[f] > 0 /\ ~FillsSegments(size[f])
         => Upload(f) \in finished

\* The bytes of a file in the receiver's buffer.
Arriving(f) ==
  {b \in UNION {ToSet(rcvbuf[i].bytes) : i \in 1..Len(rcvbuf)} : b[1] = f}

\* If the sender ends without a failure or an interrupt then the scan has
\* missed no file, in whatever order the system lists the entries, and nothing
\* was lost when the socket was closed: each file that is not empty has been
\* received, but for what is in the receiver's buffer (file-send.cpp:127, :228),
\* and for what the receiver cuts off or cannot write.
CompleteMeansDelivered ==
  outcome = "complete" /\ pc["receiver"] = "read" /\ ~force_break["receiver"] =>
    \A f \in ToSend : Sound(Upload(f)) =>
      Len(content[Upload(f)]) + Cardinality(Arriving(f)) = size[f]

\* Once connected both processes come to an end: the receiver when the sender
\* has closed, and each when the other fails or is interrupted, its logger
\* included (file-send.cpp:239, file-receive.cpp:211).
BothEnd == (link = "up") ~> (\A p \in Procs : pc[p] = "returned")
=============================================================================
