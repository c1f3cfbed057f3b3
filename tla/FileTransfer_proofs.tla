------------------------ MODULE FileTransfer_proofs ------------------------
(***************************************************************************)
(* Safety of file transfer, for every file system, size of the files, of   *)
(* the segments on either side and of the buffers.                         *)
(*                                                                         *)
(* The argument: the scan lists each file below the path once, because the *)
(* folders it has still to read never lie one below the other.  So every   *)
(* file is sent once, and the segments under way, the receiver's buffer    *)
(* followed by the sender's, are in the order of the files and without     *)
(* gaps: each continues the one before it, or starts a file.  What the     *)
(* receiver has, what is under way and what the sender has still to read   *)
(* then make up each file.  And since of a file whose beginning is still   *)
(* to come nothing was received, opening it never discards anything.       *)
(***************************************************************************)
EXTENDS FileTransfer, FiniteSetTheorems, SequenceTheorems, TLAPS

-----------------------------------------------------------------------------
(* Segments.                                                               *)

File(s)  == s.bytes[1][1]
Start(s) == s.bytes[1][2] - 1
End(s)   == Start(s) + Len(s.bytes)

\* A segment as send_file makes it.
WellFormed(s) ==
  /\ s \in Segments
  /\ Len(s.bytes) > 0
  /\ File(s) \in ToSend
  /\ Start(s) \in Nat
  /\ \A i \in 1..Len(s.bytes) : s.bytes[i] = <<File(s), Start(s) + i>>
  /\ End(s) <= size[File(s)]
  /\ s.first <=> Start(s) = 0
  /\ s.first => s.name = Upload(File(s))
  /\ s.eof => End(s) = size[File(s)]
  /\ s.eof \/ FillsSegments(End(s))
  /\ Len(s.bytes) <= Capacity(s.first)

Queue == rcvbuf \o sndbuf
Reading == pc["receiver"] = "read" /\ ~force_break["receiver"]
Sending == pc["sender"] \in {"open", "segment", "write"}

\* What was handed to the connection of the current file.
SentPos == IF pc["sender"] = "segment" THEN pos ELSE Start(segment)

-----------------------------------------------------------------------------
(* The parts of the invariant.                                             *)

\* read_directory: no path is found twice, and none is missed.
ScanInv ==
  /\ pc["sender"] \notin {"scan", "terminated"} => subdirs = <<>>
  /\ \A j \in 1..Len(filenames) : filenames[j] \in ToSend
  /\ \A i, j \in 1..Len(filenames) : i # j => filenames[i] # filenames[j]
  /\ \A i \in 1..Len(subdirs) : IsPrefix(src_path, subdirs[i])
  /\ \A i, j \in 1..Len(subdirs) : i # j => ~IsPrefix(subdirs[i], subdirs[j])
  /\ \A i \in 1..Len(subdirs), j \in 1..Len(filenames) : ~IsPrefix(subdirs[i], filenames[j])
  /\ \A f \in ToSend : \/ \E j \in 1..Len(filenames) : filenames[j] = f
                       \/ \E i \in 1..Len(subdirs) : IsPrefix(subdirs[i], f)

\* Nothing happens before the connection, and nothing is sent after it.
LinkInv ==
  /\ sndbuf # <<>> => link = "up"
  /\ link = "none" =>
       /\ pc["sender"] \in {"scan", "connect", "returned", "terminated"}
       /\ pc["receiver"] \in {"connect", "returned"}
       /\ rcvbuf = <<>> /\ ofile = <<>> /\ finished = {}
       /\ content = [n \in Names |-> <<>>]
       /\ outcome = "none"
  /\ pc["sender"] \in {"scan", "connect"} => link = "none" /\ current = 1
  /\ pc["receiver"] = "connect" => link = "none"
  /\ pc["receiver"] \in {"connect", "read", "join", "returned"}

\* Where the sender is in the current file.
SenderInv ==
  /\ current <= Len(filenames) + 1
  /\ pc["sender"] \in {"segment", "write"} =>
       current <= Len(filenames) /\ pos <= size[filenames[current]]
  /\ pc["sender"] = "segment" => (is_start <=> pos = 0) /\ (pos = 0 \/ FillsSegments(pos))
  /\ pc["sender"] = "write" =>
       /\ WellFormed(segment)
       /\ File(segment) = filenames[current]
       /\ End(segment) = pos
  /\ Sending => outcome = "none"
  /\ pc["sender"] = "drain" /\ outcome = "none" /\ ~force_break["sender"] =>
       current = Len(filenames) + 1
  /\ outcome = "complete" =>
       /\ pc["sender"] \in {"join", "returned"}
       /\ current = Len(filenames) + 1
       /\ sndbuf = <<>>

\* The files come in their order, the segments of a file in theirs.
Before(s, t) ==
  \E k, l \in 1..Len(filenames) :
    /\ File(s) = filenames[k] /\ File(t) = filenames[l]
    /\ k < l \/ (k = l /\ End(s) <= Start(t))

Continues(t, s) == File(t) = File(s) /\ Start(t) = End(s) /\ ~s.eof

Chain(q) ==
  /\ \A j \in 1..Len(q) : WellFormed(q[j])
  /\ \A i, j \in 1..Len(q) : i < j => Before(q[i], q[j])
  /\ \A j \in 2..Len(q) : q[j].first \/ Continues(q[j], q[j - 1])

\* What is under way was read before what the sender is about to send.
SentBefore(s) ==
  \E k \in 1..Len(filenames) :
    /\ File(s) = filenames[k]
    /\ \/ k < current
       \/ k = current /\ pc["sender"] # "open" /\ ~s.eof /\ End(s) <= SentPos

SentInv ==
  Sending =>
    /\ \A j \in 1..Len(Queue) : SentBefore(Queue[j])
    /\ finished \subseteq {Upload(filenames[k]) : k \in 1..(current - 1)}

\* The receiver has f open and, if it takes segments whole, has n bytes of it;
\* or it could not write f.
HasOpen(f, n) ==
  \/ ofile = Upload(f) /\ (WholeSegments => Len(content[Upload(f)]) = n)
  \/ ofile = <<>> /\ Upload(f) \in write_failed

\* The receiver goes on where it is, and no file is sent twice.
HeadInv ==
  Reading =>
    /\ Queue # <<>> /\ ~Queue[1].first => HasOpen(File(Queue[1]), Start(Queue[1]))
    /\ \A j \in 1..Len(Queue) : Upload(File(Queue[j])) \notin finished

\* The sender goes on where it is.
TailInv ==
  link = "up" /\ pc["sender"] \in {"segment", "write"} /\ SentPos > 0 =>
    /\ Queue = <<>> /\ Reading => HasOpen(filenames[current], SentPos)
    /\ Queue # <<>> =>
         /\ File(Queue[Len(Queue)]) = filenames[current]
         /\ End(Queue[Len(Queue)]) = SentPos
         /\ ~Queue[Len(Queue)].eof

PrefixInv ==
  WholeSegments => \A f \in ToSend :
    /\ Len(content[Upload(f)]) <= size[f]
    /\ \A i \in 1..Len(content[Upload(f)]) : content[Upload(f)][i] = <<f, i>>

\* How much of a file the sender has handed over.
SentOf(k) ==
  IF k < current THEN size[filenames[k]]
  ELSE IF k = current /\ pc["sender"] \in {"segment", "write"} THEN SentPos ELSE 0

Has(s, f, i) == File(s) = f /\ Start(s) < i /\ i <= End(s)

\* As long as nothing was lost: what is under way is what the receiver does
\* not have of what the sender has handed over, if it could store the rest.
Intact ==
  /\ Reading
  /\ \/ outcome = "complete"
     \/ /\ link = "up"
        /\ Sending \/ (pc["sender"] = "drain" /\ outcome = "none" /\ ~force_break["sender"])

DeliveryInv ==
  Intact =>
    \A k \in 1..Len(filenames) :
      LET f == filenames[k]
      IN  Sound(Upload(f)) =>
          /\ Len(content[Upload(f)]) <= SentOf(k)
          /\ \A i \in Nat : i \in (Len(content[Upload(f)]) + 1)..SentOf(k)
                              <=> \E j \in 1..Len(Queue) : Has(Queue[j], f, i)

\* What was sent, is under way and was received.
Data ==
  /\ Chain(Queue) /\ SentInv /\ HeadInv /\ TailInv
  /\ PrefixInv /\ DoneIsComplete /\ DeliveryInv

IInv == TypeOK /\ ScanInv /\ LinkInv /\ SenderInv /\ Data

-----------------------------------------------------------------------------
(* Paths.                                                                  *)

Paths == Folders \cup Files

LEMMA PathType == \A p \in Paths : p \in Seq(STRING) /\ Len(p) \in Nat /\ Len(p) > 0
<1> SUFFICES ASSUME NEW p \in Paths PROVE p \in Seq(STRING) /\ Len(p) \in Nat /\ Len(p) > 0
  OBVIOUS
<1>1. p \in Seq(STRING) /\ p # <<>>
  BY FileSystemAssumption DEF Paths
<1> QED
  BY <1>1, EmptySeq

LEMMA PrefixIff ==
  ASSUME NEW s \in Seq(STRING), NEW t \in Seq(STRING)
  PROVE  IsPrefix(s, t) <=> Len(s) <= Len(t) /\ \A i \in 1..Len(s) : s[i] = t[i]
<1>1. Len(s) \in Nat /\ Len(t) \in Nat
  BY LenProperties
<1> SUFFICES ASSUME Len(s) <= Len(t)
             PROVE  SubSeq(s, 1, Len(s)) = SubSeq(t, 1, Len(s))
                      <=> \A i \in 1..Len(s) : s[i] = t[i]
  BY DEF IsPrefix
<1> DEFINE u == SubSeq(t, 1, Len(s))
<1>2. SubSeq(s, 1, Len(s)) = s
  BY SubSeqFull
<1>3. \A i \in 1..Len(s) : t[i] \in STRING
  BY <1>1, ElementOfSeq
<1>4. /\ u \in Seq(STRING)
      /\ Len(u) = IF 1 <= Len(s) THEN Len(s) - 1 + 1 ELSE 0
      /\ \A i \in 1..(Len(s) - 1 + 1) : u[i] = t[1 + i - 1]
  BY <1>1, <1>3, SubSeqProperties
<1> HIDE DEF u
<1>5. Len(u) = Len(s) /\ \A i \in 1..Len(s) : u[i] = t[i]
  BY <1>1, <1>4
<1>6. s = u <=> \A i \in 1..Len(s) : s[i] = u[i]
  BY <1>4, <1>5, SeqEqual
<1> QED
  BY <1>2, <1>5, <1>6 DEF u

LEMMA PrefixRefl == ASSUME NEW s \in Paths PROVE IsPrefix(s, s)
BY PathType, PrefixIff

LEMMA PrefixTrans ==
  ASSUME NEW s \in Paths, NEW t \in Paths, NEW u \in Paths, IsPrefix(s, t), IsPrefix(t, u)
  PROVE  IsPrefix(s, u)
<1>1. /\ Len(s) \in Nat /\ Len(t) \in Nat /\ Len(u) \in Nat /\ Len(s) <= Len(t) /\ Len(t) <= Len(u)
      /\ \A i \in 1..Len(s) : s[i] = t[i]
      /\ \A i \in 1..Len(t) : t[i] = u[i]
  BY PathType, PrefixIff
<1>2. Len(s) <= Len(u) /\ \A i \in 1..Len(s) : s[i] = u[i]
  BY <1>1
<1> QED
  BY <1>2, PathType, PrefixIff

\* Of two prefixes of a path the shorter one is a prefix of the longer one.
LEMMA PrefixesOfOne ==
  ASSUME NEW s \in Paths, NEW t \in Paths, NEW u \in Paths, IsPrefix(s, u), IsPrefix(t, u),
         Len(s) <= Len(t)
  PROVE  IsPrefix(s, t)
<1>1. /\ Len(s) \in Nat /\ Len(t) \in Nat
      /\ \A i \in 1..Len(s) : s[i] = u[i]
      /\ \A i \in 1..Len(t) : t[i] = u[i]
  BY PathType, PrefixIff
<1>2. \A i \in 1..Len(s) : s[i] = t[i]
  BY <1>1
<1> QED
  BY <1>2, PathType, PrefixIff

LEMMA PrefixSameLen ==
  ASSUME NEW s \in Paths, NEW t \in Paths, IsPrefix(s, t), Len(s) >= Len(t)
  PROVE  s = t
<1>1. /\ Len(s) \in Nat /\ Len(t) \in Nat /\ Len(s) <= Len(t)
      /\ \A i \in 1..Len(s) : s[i] = t[i]
      /\ s \in Seq(STRING) /\ t \in Seq(STRING)
  BY PathType, PrefixIff
<1>2. Len(s) = Len(t)
  BY <1>1
<1> QED
  BY <1>1, <1>2, SeqEqual

LEMMA EntryOf ==
  ASSUME NEW d \in Paths, NEW e \in Entries(d)
  PROVE  e \in Paths /\ IsPrefix(d, e) /\ Len(e) = Len(d) + 1
BY DEF Entries, Paths

\* The entry of a folder that leads to a path below it.
LEMMA EntryAbove ==
  ASSUME NEW d \in Folders, NEW f \in Paths, IsPrefix(d, f), f # d
  PROVE  \E e \in Entries(d) : IsPrefix(e, f)
<1> DEFINE e == SubSeq(f, 1, Len(d) + 1)
<1>0. d \in Paths
  BY DEF Paths
<1>1. /\ d \in Seq(STRING) /\ f \in Seq(STRING) /\ Len(d) \in Nat /\ Len(f) \in Nat
      /\ Len(d) <= Len(f) /\ \A i \in 1..Len(d) : d[i] = f[i]
  BY <1>0, PathType, PrefixIff
<1>2. Len(d) < Len(f)
  BY <1>0, <1>1, PrefixSameLen
<1>3. e \in Paths
  BY FileSystemAssumption DEF Paths
<1>4. \A i \in 1..(Len(d) + 1) : f[i] \in STRING
  BY <1>1, <1>2, ElementOfSeq
<1>5. /\ e \in Seq(STRING)
      /\ Len(e) = IF 1 <= Len(d) + 1 THEN (Len(d) + 1) - 1 + 1 ELSE 0
      /\ \A i \in 1..((Len(d) + 1) - 1 + 1) : e[i] = f[1 + i - 1]
  BY <1>1, <1>4, SubSeqProperties
<1> HIDE DEF e
<1>6. Len(e) = Len(d) + 1 /\ \A i \in 1..(Len(d) + 1) : e[i] = f[i]
  BY <1>1, <1>5
<1>7. IsPrefix(e, f)
  BY <1>1, <1>2, <1>5, <1>6, PrefixIff
<1>8. IsPrefix(d, e)
  BY <1>1, <1>5, <1>6, PrefixIff
<1> QED
  BY <1>3, <1>6, <1>7, <1>8 DEF Entries, Paths

\* The orders in which the system may list the entries of a folder.
LEMMA Listing ==
  ASSUME NEW S, IsFiniteSet(S), NEW q \in SetToSeqs(S)
  PROVE  /\ q \in Seq(S)
         /\ \A i, j \in 1..Len(q) : i # j => q[i] # q[j]
         /\ \A e \in S : \E i \in 1..Len(q) : q[i] = e
<1> DEFINE n == Cardinality(S)
<1>1. n \in Nat
  BY FS_CardinalityType
<1>2. q \in [1..n -> S] /\ \A i, j \in 1..n : i # j => q[i] # q[j]
  BY DEF SetToSeqs
<1>3. q \in Injection(1..n, S)
  BY <1>2 DEF Injection, IsInjective
<1>4. IsFiniteSet(1..n) /\ Cardinality(1..n) = n
  BY <1>1, FS_Interval
<1>5. q \in Surjection(1..n, S)
  BY <1>3, <1>4, FS_Injection
<1>6. \A e \in S : \E i \in 1..n : q[i] = e
  BY <1>5 DEF Surjection
<1>7. q \in Seq(S) /\ Len(q) = n
  BY <1>1, <1>2
<1> QED
  BY <1>2, <1>6, <1>7

-----------------------------------------------------------------------------
(* The names under which files are sent.                                   *)

LEMMA ToSendPaths ==
  ASSUME NEW f \in ToSend
  PROVE  f \in Files /\ f \in Paths /\ IsPrefix(src_path, f) /\ Upload(f) \in Names
BY DEF ToSend, Paths, Names

\* What relative_path leaves of a file below src_path.
LEMMA UploadBelow ==
  ASSUME src_path \in Paths, NEW f \in ToSend, f # src_path
  PROVE  /\ Len(f) > Len(src_path)
         /\ Len(Upload(f)) = Len(f) - Len(src_path)
         /\ \A i \in 1..(Len(f) - Len(src_path)) : Upload(f)[i] = f[Len(src_path) + i]
<1>1. /\ f \in Seq(STRING) /\ Len(f) \in Nat /\ Len(src_path) \in Nat
      /\ src_path \in Seq(STRING)
  BY ToSendPaths, PathType
<1>2. Len(src_path) <= Len(f)
  BY <1>1, ToSendPaths, PrefixIff
<1>3. Len(f) > Len(src_path)
  BY <1>1, <1>2, ToSendPaths, PrefixSameLen
<1> DEFINE m == Len(src_path) + 1
           u == SubSeq(f, m, Len(f))
<1>4. Upload(f) = u
  BY DEF Upload, relative_path
<1>5. m \in Int /\ Len(f) \in Int /\ \A i \in m..Len(f) : f[i] \in STRING
  BY <1>1, ElementOfSeq
<1> HIDE DEF m
<1>6. /\ Len(u) = IF m <= Len(f) THEN Len(f) - m + 1 ELSE 0
      /\ \A i \in 1..(Len(f) - m + 1) : u[i] = f[m + i - 1]
  BY <1>5, SubSeqProperties
<1> HIDE DEF u
<1>7. Len(u) = Len(f) - Len(src_path)
  BY <1>1, <1>3, <1>6 DEF m
<1>8. ASSUME NEW i \in 1..(Len(f) - Len(src_path)) PROVE u[i] = f[Len(src_path) + i]
  <2>1. i \in 1..(Len(f) - m + 1) /\ m + i - 1 = Len(src_path) + i
    BY <1>1 DEF m
  <2> QED
    BY <1>6, <2>1
<1> QED
  BY <1>3, <1>4, <1>7, <1>8

LEMMA UploadNotEmpty == ASSUME src_path \in Paths, NEW f \in ToSend PROVE Upload(f) # <<>>
<1>1. CASE f = src_path
  <2>1. Upload(f) = <<Last(f)>>
    BY <1>1 DEF Upload, relative_path
  <2> QED
    BY <2>1
<1>2. CASE f # src_path
  <2>1. Len(Upload(f)) > 0
    BY <1>2, UploadBelow, ToSendPaths, PathType
  <2> QED
    BY <2>1
<1> QED
  BY <1>1, <1>2

LEMMA UploadInjective ==
  ASSUME src_path \in Paths, NEW f \in ToSend, NEW g \in ToSend, Upload(f) = Upload(g)
  PROVE  f = g
<1>1. CASE f = src_path \/ g = src_path
  <2>1. src_path \in Files /\ IsPrefix(src_path, f) /\ IsPrefix(src_path, g)
    BY <1>1, ToSendPaths
  <2> QED
    BY <2>1, ToSendPaths, FileSystemAssumption DEF Paths
<1>2. CASE f # src_path /\ g # src_path
  <2> DEFINE k == Len(src_path)
  <2>1. /\ f \in Seq(STRING) /\ g \in Seq(STRING) /\ src_path \in Seq(STRING)
        /\ Len(f) \in Nat /\ Len(g) \in Nat /\ k \in Nat
    BY ToSendPaths, PathType
  <2>2. /\ \A i \in 1..k : src_path[i] = f[i]
        /\ \A i \in 1..k : src_path[i] = g[i]
    BY <2>1, ToSendPaths, PrefixIff
  <2>3. /\ Len(f) > k /\ Len(Upload(f)) = Len(f) - k
        /\ \A i \in 1..(Len(f) - k) : Upload(f)[i] = f[k + i]
    BY <1>2, UploadBelow
  <2>4. /\ Len(g) > k /\ Len(Upload(g)) = Len(g) - k
        /\ \A i \in 1..(Len(g) - k) : Upload(g)[i] = g[k + i]
    BY <1>2, UploadBelow
  <2> HIDE DEF k
  <2>5. Len(f) = Len(g)
    BY <2>1, <2>3, <2>4
  <2>6. ASSUME NEW i \in 1..Len(f) PROVE f[i] = g[i]
    <3>1. CASE i <= k
      BY <2>1, <2>2, <3>1
    <3>2. CASE i > k
      <4>1. i - k \in 1..(Len(f) - k) /\ k + (i - k) = i
        BY <2>1, <3>2
      <4> QED
        BY <2>3, <2>4, <2>5, <4>1
    <3> QED
      BY <2>1, <3>1, <3>2
  <2> QED
    BY <2>1, <2>5, <2>6, SeqEqual
<1> QED
  BY <1>1, <1>2

-----------------------------------------------------------------------------
(* read_directory.                                                         *)

\* There are not more names in the list than files.
LEMMA FewFiles ==
  ASSUME filenames \in Seq(Files), ScanInv
  PROVE  Cardinality(Files) \in Nat /\ Len(filenames) \in Nat /\ Len(filenames) <= Cardinality(Files)
<1>1. IsFiniteSet(Files)
  BY FileSystemAssumption, FS_Subset
<1>2. Len(filenames) \in Nat /\ filenames \in [1..Len(filenames) -> Files]
  BY LenProperties
<1>3. filenames \in Injection(1..Len(filenames), Files)
  BY <1>2 DEF ScanInv, Injection, IsInjective
<1>4. Cardinality(1..Len(filenames)) = Len(filenames)
  BY <1>2, FS_Interval
<1> QED
  BY <1>1, <1>2, <1>3, <1>4, FS_Injection, FS_CardinalityType

LEMMA ScanFolderInv ==
  ASSUME TypeOK, ScanInv, ScanFolder
  PROVE  ScanInv' /\ subdirs' \in Seq(Paths) /\ filenames' \in Seq(Files)
<1> DEFINE d == subdirs[1]
           n == Len(subdirs)
           m == Len(filenames)
<1>1. /\ pc["sender"] = "scan" /\ pc' = pc /\ UNCHANGED fixed
      /\ subdirs # <<>> /\ Head(subdirs) \in Folders
  BY DEF ScanFolder
<1>2. /\ subdirs \in Seq(Paths) /\ n \in Nat /\ n > 0 /\ d = Head(subdirs)
      /\ \A i \in 1..n : subdirs[i] \in Paths
      /\ filenames \in Seq(Files) /\ m \in Nat
      /\ \A j \in 1..m : filenames[j] \in Files /\ filenames[j] \in Paths
      /\ src_path \in Paths
  <2>1. subdirs \in Seq(Paths) /\ filenames \in Seq(Files) /\ src_path \in Paths
    BY DEF TypeOK, Paths
  <2>2. n \in Nat /\ n > 0 /\ d = Head(subdirs) /\ \A i \in 1..n : subdirs[i] \in Paths
    BY <1>1, <2>1, EmptySeq, ElementOfSeq
  <2>3. m \in Nat /\ \A j \in 1..m : filenames[j] \in Files /\ filenames[j] \in Paths
    BY <2>1, ElementOfSeq, LenProperties DEF Paths
  <2> QED
    BY <2>1, <2>2, <2>3
<1>3. d \in Folders /\ d \in Paths /\ 1 \in 1..n
  BY <1>1, <1>2
<1>4. PICK dirs \in SetToSeqs(Entries(d) \cap Folders), files \in SetToSeqs(Entries(d) \cap Files) :
        subdirs' = Tail(subdirs) \o dirs /\ filenames' = filenames \o files
  BY <1>2 DEF ScanFolder
<1>5. IsFiniteSet(Entries(d) \cap Folders) /\ IsFiniteSet(Entries(d) \cap Files)
  <2>1. (Entries(d) \cap Folders) \in SUBSET (Folders \cup Files)
        /\ (Entries(d) \cap Files) \in SUBSET (Folders \cup Files)
    OBVIOUS
  <2> QED
    BY <2>1, FileSystemAssumption, FS_Subset
<1>6. /\ dirs \in Seq(Entries(d) \cap Folders)
      /\ \A i, j \in 1..Len(dirs) : i # j => dirs[i] # dirs[j]
      /\ \A e \in Entries(d) \cap Folders : \E i \in 1..Len(dirs) : dirs[i] = e
  <2> DEFINE S == Entries(d) \cap Folders
  <2>1. IsFiniteSet(S) /\ dirs \in SetToSeqs(S)
    BY <1>4, <1>5
  <2> HIDE DEF S
  <2>2. /\ dirs \in Seq(S)
        /\ \A i, j \in 1..Len(dirs) : i # j => dirs[i] # dirs[j]
        /\ \A e \in S : \E i \in 1..Len(dirs) : dirs[i] = e
    BY <2>1, Listing
  <2> QED
    BY <2>2 DEF S
<1>7. /\ files \in Seq(Entries(d) \cap Files)
      /\ \A i, j \in 1..Len(files) : i # j => files[i] # files[j]
      /\ \A e \in Entries(d) \cap Files : \E i \in 1..Len(files) : files[i] = e
  <2> DEFINE S == Entries(d) \cap Files
  <2>1. IsFiniteSet(S) /\ files \in SetToSeqs(S)
    BY <1>4, <1>5
  <2> HIDE DEF S
  <2>2. /\ files \in Seq(S)
        /\ \A i, j \in 1..Len(files) : i # j => files[i] # files[j]
        /\ \A e \in S : \E i \in 1..Len(files) : files[i] = e
    BY <2>1, Listing
  <2> QED
    BY <2>2 DEF S
<1>8. /\ Len(dirs) \in Nat /\ \A i \in 1..Len(dirs) : dirs[i] \in Entries(d) \cap Folders
      /\ Len(files) \in Nat /\ \A i \in 1..Len(files) : files[i] \in Entries(d) \cap Files
  BY <1>6, <1>7, ElementOfSeq, LenProperties
\* The entries are below d and at the same depth.
<1>9. /\ \A i \in 1..Len(dirs) : /\ dirs[i] \in Paths /\ dirs[i] \in Folders
                                 /\ IsPrefix(d, dirs[i]) /\ Len(dirs[i]) = Len(d) + 1
      /\ \A i \in 1..Len(files) : /\ files[i] \in Paths /\ files[i] \in Files
                                  /\ IsPrefix(d, files[i]) /\ Len(files[i]) = Len(d) + 1
  BY <1>3, <1>8, EntryOf
<1>10. dirs \in Seq(Paths) /\ files \in Seq(Files) /\ Tail(subdirs) \in Seq(Paths)
  <2>1. Entries(d) \cap Folders \subseteq Paths /\ Entries(d) \cap Files \subseteq Files
    BY DEF Paths
  <2>2. dirs \in Seq(Paths) /\ files \in Seq(Files)
    BY <1>6, <1>7, <2>1, SeqMonotonic
  <2> QED
    BY <1>1, <1>2, <2>2, HeadTailProperties
<1>11. /\ Len(Tail(subdirs)) = n - 1
       /\ \A i \in 1..(n - 1) : Tail(subdirs)[i] = subdirs[i + 1]
  BY <1>1, <1>2, HeadTailProperties
<1>12. /\ subdirs' \in Seq(Paths)
       /\ Len(subdirs') = (n - 1) + Len(dirs)
       /\ \A i \in 1..((n - 1) + Len(dirs)) :
            subdirs'[i] = IF i <= n - 1 THEN Tail(subdirs)[i] ELSE dirs[i - (n - 1)]
  BY <1>4, <1>10, <1>11, ConcatProperties
<1>13. /\ filenames' \in Seq(Files)
       /\ Len(filenames') = m + Len(files)
       /\ \A i \in 1..(m + Len(files)) :
            filenames'[i] = IF i <= m THEN filenames[i] ELSE files[i - m]
  BY <1>2, <1>4, <1>10, ConcatProperties
<1> HIDE DEF d, n, m
\* Where an element of the new lists comes from.
<1>14. ASSUME NEW i \in 1..Len(subdirs')
       PROVE  \/ i + 1 \in 2..n /\ subdirs'[i] = subdirs[i + 1] /\ i <= n - 1
              \/ i - (n - 1) \in 1..Len(dirs) /\ subdirs'[i] = dirs[i - (n - 1)] /\ i > n - 1
  <2>1. CASE i <= n - 1
    BY <1>2, <1>8, <1>11, <1>12, <2>1
  <2>2. CASE i > n - 1
    BY <1>2, <1>8, <1>12, <2>2
  <2> QED
    BY <1>2, <1>8, <1>12, <2>1, <2>2
<1>15. ASSUME NEW i \in 1..Len(filenames')
       PROVE  \/ i \in 1..m /\ filenames'[i] = filenames[i]
              \/ i - m \in 1..Len(files) /\ filenames'[i] = files[i - m] /\ i > m
  <2>1. CASE i <= m
    BY <1>2, <1>8, <1>13, <2>1
  <2>2. CASE i > m
    BY <1>2, <1>8, <1>13, <2>2
  <2> QED
    BY <1>2, <1>8, <1>13, <2>1, <2>2
<1>16. /\ \A k \in 2..n : \E i \in 1..Len(subdirs') : subdirs'[i] = subdirs[k]
       /\ \A k \in 1..Len(dirs) : \E i \in 1..Len(subdirs') : subdirs'[i] = dirs[k]
  <2>1. ASSUME NEW k \in 2..n PROVE \E i \in 1..Len(subdirs') : subdirs'[i] = subdirs[k]
    <3>0. n \in Nat /\ Len(dirs) \in Nat /\ Len(subdirs') = (n - 1) + Len(dirs)
      BY <1>2, <1>8, <1>12
    <3>1. k - 1 \in 1..Len(subdirs') /\ k - 1 <= n - 1 /\ k - 1 \in 1..(n - 1) /\ (k - 1) + 1 = k
      BY <3>0
    <3>2. subdirs'[k - 1] = subdirs[k]
      BY <1>11, <1>12, <3>1
    <3> QED
      BY <3>1, <3>2
  <2>2. ASSUME NEW k \in 1..Len(dirs) PROVE \E i \in 1..Len(subdirs') : subdirs'[i] = dirs[k]
    <3>1. /\ (n - 1) + k \in 1..Len(subdirs') /\ ~((n - 1) + k <= n - 1)
          /\ ((n - 1) + k) - (n - 1) = k
      BY <1>2, <1>8, <1>12
    <3>2. subdirs'[(n - 1) + k] = dirs[k]
      BY <1>12, <3>1
    <3> QED
      BY <3>1, <3>2
  <2> QED
    BY <2>1, <2>2
<1>17. /\ \A k \in 1..m : \E j \in 1..Len(filenames') : filenames'[j] = filenames[k]
       /\ \A k \in 1..Len(files) : \E j \in 1..Len(filenames') : filenames'[j] = files[k]
  <2>1. ASSUME NEW k \in 1..m PROVE \E i \in 1..Len(filenames') : filenames'[i] = filenames[k]
    <3>1. k \in 1..Len(filenames') /\ filenames'[k] = filenames[k]
      BY <1>2, <1>8, <1>13
    <3> QED
      BY <3>1
  <2>2. ASSUME NEW k \in 1..Len(files) PROVE \E i \in 1..Len(filenames') : filenames'[i] = files[k]
    <3>1. m + k \in 1..Len(filenames') /\ ~(m + k <= m) /\ (m + k) - m = k
      BY <1>2, <1>8, <1>13
    <3>2. filenames'[m + k] = files[k]
      BY <1>13, <3>1
    <3> QED
      BY <3>1, <3>2
  <2> QED
    BY <2>1, <2>2
<1>18. /\ \A j \in 1..m : filenames[j] \in ToSend
       /\ \A i, j \in 1..m : i # j => filenames[i] # filenames[j]
       /\ \A i \in 1..n : IsPrefix(src_path, subdirs[i])
       /\ \A i, j \in 1..n : i # j => ~IsPrefix(subdirs[i], subdirs[j])
       /\ \A i \in 1..n, j \in 1..m : ~IsPrefix(subdirs[i], filenames[j])
       /\ \A f \in ToSend : \/ \E j \in 1..m : filenames[j] = f
                            \/ \E i \in 1..n : IsPrefix(subdirs[i], f)
       /\ d = subdirs[1]
  BY DEF ScanInv, d, n, m
<1>19. ToSend' = ToSend /\ src_path' = src_path
  BY <1>1 DEF ToSend, fixed
<1>20. IsPrefix(src_path, d)
  BY <1>3, <1>18
\* No folder left is above or below d.
<1>21. \A k \in 2..n : k \in 1..n /\ subdirs[k] \in Paths
                       /\ ~IsPrefix(subdirs[k], d) /\ ~IsPrefix(d, subdirs[k])
  <2> SUFFICES ASSUME NEW k \in 2..n
               PROVE  k \in 1..n /\ subdirs[k] \in Paths
                      /\ ~IsPrefix(subdirs[k], d) /\ ~IsPrefix(d, subdirs[k])
    OBVIOUS
  <2>1. k \in 1..n /\ k # 1 /\ 1 \in 1..n
    BY <1>2, <1>3
  <2> QED
    BY <1>2, <1>18, <2>1
\* A folder left is not above an entry of d, and no entry is above it.
<1>22. ASSUME NEW k \in 2..n, NEW e \in Paths, IsPrefix(d, e), Len(e) = Len(d) + 1
       PROVE  ~IsPrefix(subdirs[k], e) /\ ~IsPrefix(e, subdirs[k])
  <2>1. subdirs[k] \in Paths /\ ~IsPrefix(subdirs[k], d) /\ ~IsPrefix(d, subdirs[k])
    BY <1>21
  <2>2. ~IsPrefix(e, subdirs[k])
    BY <1>3, <1>22, <2>1, PrefixTrans
  <2>3. ASSUME IsPrefix(subdirs[k], e) PROVE FALSE
    <3>1. Len(subdirs[k]) \in Nat /\ Len(d) \in Nat /\ Len(e) \in Nat
      BY <1>3, <2>1, PathType
    <3>2. CASE Len(subdirs[k]) <= Len(d)
      BY <1>3, <1>22, <2>1, <2>3, <3>2, PrefixesOfOne
    <3>3. CASE Len(d) <= Len(subdirs[k])
      BY <1>3, <1>22, <2>1, <2>3, <3>3, PrefixesOfOne
    <3> QED
      BY <3>1, <3>2, <3>3
  <2> QED
    BY <2>2, <2>3
\* Two entries of d are not above each other.
<1>23. ASSUME NEW e \in Paths, NEW g \in Paths, Len(e) = Len(g), IsPrefix(e, g)
       PROVE  e = g
  <2>1. Len(e) \in Nat /\ Len(e) >= Len(g)
    BY <1>23, PathType
  <2> QED
    BY <1>23, <2>1, PrefixSameLen
<1>24. \A j \in 1..Len(filenames') : filenames'[j] \in ToSend
  <2> SUFFICES ASSUME NEW j \in 1..Len(filenames') PROVE filenames'[j] \in ToSend
    OBVIOUS
  <2>1. CASE j \in 1..m /\ filenames'[j] = filenames[j]
    BY <1>18, <2>1
  <2>2. CASE j - m \in 1..Len(files) /\ filenames'[j] = files[j - m]
    <3>1. files[j - m] \in Paths /\ files[j - m] \in Files /\ IsPrefix(d, files[j - m])
      BY <1>9, <2>2
    <3>2. IsPrefix(src_path, files[j - m])
      BY <1>2, <1>3, <1>20, <3>1, PrefixTrans
    <3> QED
      BY <2>2, <3>1, <3>2 DEF ToSend
  <2> QED
    BY <1>15, <2>1, <2>2
<1>25. \A i, j \in 1..Len(filenames') : i # j => filenames'[i] # filenames'[j]
  <2>1. ASSUME NEW i \in 1..m, NEW k \in 1..Len(files) PROVE filenames[i] # files[k]
    BY <1>3, <1>9, <1>18
  <2> SUFFICES ASSUME NEW i \in 1..Len(filenames'), NEW j \in 1..Len(filenames'), i # j
               PROVE  filenames'[i] # filenames'[j]
    OBVIOUS
  <2>2. CASE i \in 1..m /\ j \in 1..m
    BY <1>2, <1>15, <1>18, <2>2
  <2>3. CASE i \in 1..m /\ j > m
    BY <1>2, <1>15, <2>1, <2>3
  <2>4. CASE i > m /\ j \in 1..m
    BY <1>2, <1>15, <2>1, <2>4
  <2>5. CASE i > m /\ j > m
    <3>1. i - m # j - m /\ i - m \in 1..Len(files) /\ j - m \in 1..Len(files)
          /\ filenames'[i] = files[i - m] /\ filenames'[j] = files[j - m]
      BY <1>2, <1>15, <2>5
    <3> QED
      BY <1>7, <3>1
  <2> QED
    BY <1>2, <1>15, <2>2, <2>3, <2>4, <2>5
<1>26. \A i \in 1..Len(subdirs') : IsPrefix(src_path, subdirs'[i])
  <2> SUFFICES ASSUME NEW i \in 1..Len(subdirs') PROVE IsPrefix(src_path, subdirs'[i])
    OBVIOUS
  <2>1. CASE i + 1 \in 2..n /\ subdirs'[i] = subdirs[i + 1]
    BY <1>18, <1>21, <2>1
  <2>2. CASE i - (n - 1) \in 1..Len(dirs) /\ subdirs'[i] = dirs[i - (n - 1)]
    BY <1>2, <1>3, <1>9, <1>20, <2>2, PrefixTrans
  <2> QED
    BY <1>14, <2>1, <2>2
<1>27. \A i, j \in 1..Len(subdirs') : i # j => ~IsPrefix(subdirs'[i], subdirs'[j])
  <2> SUFFICES ASSUME NEW i \in 1..Len(subdirs'), NEW j \in 1..Len(subdirs'), i # j
               PROVE  ~IsPrefix(subdirs'[i], subdirs'[j])
    OBVIOUS
  <2>1. CASE i <= n - 1 /\ j <= n - 1
    <3>1. /\ i + 1 \in 2..n /\ subdirs'[i] = subdirs[i + 1]
          /\ j + 1 \in 2..n /\ subdirs'[j] = subdirs[j + 1]
          /\ i + 1 # j + 1
      BY <1>2, <1>14, <2>1
    <3> QED
      BY <1>18, <1>21, <3>1
  <2>2. CASE i <= n - 1 /\ j > n - 1
    <3>1. /\ i + 1 \in 2..n /\ subdirs'[i] = subdirs[i + 1]
          /\ j - (n - 1) \in 1..Len(dirs) /\ subdirs'[j] = dirs[j - (n - 1)]
      BY <1>2, <1>14, <2>2
    <3> QED
      BY <1>9, <1>22, <3>1
  <2>3. CASE i > n - 1 /\ j <= n - 1
    <3>1. /\ j + 1 \in 2..n /\ subdirs'[j] = subdirs[j + 1]
          /\ i - (n - 1) \in 1..Len(dirs) /\ subdirs'[i] = dirs[i - (n - 1)]
      BY <1>2, <1>14, <2>3
    <3> QED
      BY <1>9, <1>22, <3>1
  <2>4. CASE i > n - 1 /\ j > n - 1
    <3>1. /\ i - (n - 1) \in 1..Len(dirs) /\ subdirs'[i] = dirs[i - (n - 1)]
          /\ j - (n - 1) \in 1..Len(dirs) /\ subdirs'[j] = dirs[j - (n - 1)]
          /\ i - (n - 1) # j - (n - 1)
      BY <1>2, <1>14, <2>4
    <3>2. /\ dirs[i - (n - 1)] # dirs[j - (n - 1)]
          /\ Len(dirs[i - (n - 1)]) = Len(dirs[j - (n - 1)])
      BY <1>6, <1>9, <3>1
    <3> QED
      BY <1>9, <1>23, <3>1, <3>2
  <2> QED
    BY <1>2, <2>1, <2>2, <2>3, <2>4
<1>28. \A i \in 1..Len(subdirs'), j \in 1..Len(filenames') : ~IsPrefix(subdirs'[i], filenames'[j])
  <2> SUFFICES ASSUME NEW i \in 1..Len(subdirs'), NEW j \in 1..Len(filenames')
               PROVE  ~IsPrefix(subdirs'[i], filenames'[j])
    OBVIOUS
  <2>1. CASE i + 1 \in 2..n /\ subdirs'[i] = subdirs[i + 1]
    <3>1. CASE j \in 1..m /\ filenames'[j] = filenames[j]
      BY <1>18, <1>21, <2>1, <3>1
    <3>2. CASE j - m \in 1..Len(files) /\ filenames'[j] = files[j - m]
      BY <1>9, <1>22, <2>1, <3>2
    <3> QED
      BY <1>15, <3>1, <3>2
  <2>2. CASE i - (n - 1) \in 1..Len(dirs) /\ subdirs'[i] = dirs[i - (n - 1)]
    <3>0. /\ subdirs'[i] \in Paths /\ subdirs'[i] \in Folders /\ IsPrefix(d, subdirs'[i])
          /\ Len(subdirs'[i]) = Len(d) + 1
      BY <1>9, <2>2
    <3>1. CASE j \in 1..m /\ filenames'[j] = filenames[j]
      BY <1>2, <1>3, <1>18, <3>0, <3>1, PrefixTrans
    <3>2. CASE j - m \in 1..Len(files) /\ filenames'[j] = files[j - m]
      <4>1. /\ filenames'[j] \in Paths /\ filenames'[j] \in Files
            /\ Len(filenames'[j]) = Len(d) + 1
        BY <1>9, <3>2
      <4>2. subdirs'[i] # filenames'[j]
        BY <3>0, <4>1, FileSystemAssumption
      <4> QED
        BY <1>23, <3>0, <4>1, <4>2
    <3> QED
      BY <1>15, <3>1, <3>2
  <2> QED
    BY <1>14, <2>1, <2>2
<1>29. \A f \in ToSend : \/ \E j \in 1..Len(filenames') : filenames'[j] = f
                         \/ \E i \in 1..Len(subdirs') : IsPrefix(subdirs'[i], f)
  <2> SUFFICES ASSUME NEW f \in ToSend,
                      ~ \E j \in 1..Len(filenames') : filenames'[j] = f
               PROVE  \E i \in 1..Len(subdirs') : IsPrefix(subdirs'[i], f)
    OBVIOUS
  <2>0. f \in Paths /\ f \in Files
    BY ToSendPaths
  <2>1. PICK k \in 1..n : IsPrefix(subdirs[k], f)
    BY <1>17, <1>18
  <2>2. CASE k \in 2..n
    BY <1>16, <2>1, <2>2
  <2>3. CASE k = 1
    <3>1. IsPrefix(d, f) /\ f # d
      BY <1>3, <1>18, <2>0, <2>1, <2>3, FileSystemAssumption
    <3>2. PICK e \in Entries(d) : IsPrefix(e, f)
      BY <1>3, <2>0, <3>1, EntryAbove
    <3>3. e \in Paths
      BY <1>3, EntryOf
    <3>4. e \notin Files
      <4> SUFFICES ASSUME e \in Files PROVE FALSE
        OBVIOUS
      <4>1. f = e
        BY <2>0, <3>2, FileSystemAssumption
      <4>2. PICK k2 \in 1..Len(files) : files[k2] = e
        BY <1>7
      <4>3. PICK j \in 1..Len(filenames') : filenames'[j] = files[k2]
        BY <1>17, <4>2
      <4>4. filenames'[j] = f
        BY <4>1, <4>2, <4>3
      <4> QED
        BY <4>3, <4>4
    <3>5. e \in Entries(d) \cap Folders
      BY <3>3, <3>4 DEF Paths
    <3>6. PICK k2 \in 1..Len(dirs) : dirs[k2] = e
      BY <1>6, <3>5
    <3>7. PICK i \in 1..Len(subdirs') : subdirs'[i] = dirs[k2]
      BY <1>16
    <3> QED
      BY <3>2, <3>6, <3>7
  <2> QED
    BY <1>2, <2>2, <2>3
<1>30. pc'["sender"] = "scan"
  BY <1>1
<1> QED
  BY <1>12, <1>13, <1>19, <1>24, <1>25, <1>26, <1>27, <1>28, <1>29, <1>30 DEF ScanInv

LEMMA ScanFileInv ==
  ASSUME TypeOK, ScanInv, ScanFile
  PROVE  ScanInv' /\ subdirs' \in Seq(Paths) /\ filenames' \in Seq(Files)
<1> DEFINE d == subdirs[1]
           n == Len(subdirs)
           m == Len(filenames)
<1>1. /\ pc["sender"] = "scan" /\ pc' = pc /\ UNCHANGED fixed
      /\ subdirs # <<>> /\ Head(subdirs) \in Files
      /\ subdirs' = Tail(subdirs) /\ filenames' = Append(filenames, Head(subdirs))
  BY DEF ScanFile
<1>2. subdirs \in Seq(Paths) /\ filenames \in Seq(Files) /\ src_path \in Paths
  BY DEF TypeOK, Paths
<1>3. /\ n \in Nat /\ n > 0 /\ d = Head(subdirs) /\ m \in Nat
      /\ \A i \in 1..n : subdirs[i] \in Paths
  BY <1>1, <1>2, EmptySeq, ElementOfSeq, LenProperties
<1>4. d \in Files /\ d \in Paths /\ 1 \in 1..n /\ IsPrefix(d, d)
  <2>1. d \in Files /\ d \in Paths /\ 1 \in 1..n
    BY <1>1, <1>3 DEF Paths
  <2> QED
    BY <2>1, PrefixRefl
<1>5. /\ subdirs' \in Seq(Paths) /\ Len(subdirs') = n - 1
      /\ \A i \in 1..(n - 1) : subdirs'[i] = subdirs[i + 1]
  BY <1>1, <1>2, HeadTailProperties
<1>6. /\ filenames' \in Seq(Files) /\ Len(filenames') = m + 1
      /\ \A j \in 1..m : filenames'[j] = filenames[j]
      /\ filenames'[m + 1] = d
  BY <1>1, <1>2, <1>3, <1>4
<1>7. /\ \A j \in 1..m : filenames[j] \in ToSend
      /\ \A i, j \in 1..m : i # j => filenames[i] # filenames[j]
      /\ \A i \in 1..n : IsPrefix(src_path, subdirs[i])
      /\ \A i, j \in 1..n : i # j => ~IsPrefix(subdirs[i], subdirs[j])
      /\ \A i \in 1..n, j \in 1..m : ~IsPrefix(subdirs[i], filenames[j])
      /\ \A f \in ToSend : \/ \E j \in 1..m : filenames[j] = f
                           \/ \E i \in 1..n : IsPrefix(subdirs[i], f)
      /\ d = subdirs[1]
  BY DEF ScanInv
<1> HIDE DEF d, n, m
<1>8. \A i \in 1..Len(subdirs') : i + 1 \in 1..n /\ i + 1 # 1 /\ subdirs'[i] = subdirs[i + 1]
  BY <1>3, <1>5
<1>9. \A j \in 1..Len(filenames') : \/ j \in 1..m /\ filenames'[j] = filenames[j]
                                    \/ j = m + 1 /\ filenames'[j] = d
  BY <1>3, <1>6
<1>10. ToSend' = ToSend /\ src_path' = src_path
  BY <1>1 DEF ToSend, fixed
<1>11. \A j \in 1..Len(filenames') : filenames'[j] \in ToSend
  <2>1. d \in ToSend
    BY <1>4, <1>7 DEF ToSend
  <2> QED
    BY <1>7, <1>9, <2>1
<1>12. \A i, j \in 1..Len(filenames') : i # j => filenames'[i] # filenames'[j]
  <2>1. \A j \in 1..m : filenames[j] # d
    BY <1>4, <1>7
  <2> QED
    BY <1>7, <1>9, <2>1
<1>13. \A i \in 1..Len(subdirs') : IsPrefix(src_path, subdirs'[i])
  BY <1>7, <1>8
<1>14. \A i, j \in 1..Len(subdirs') : i # j => ~IsPrefix(subdirs'[i], subdirs'[j])
  <2> SUFFICES ASSUME NEW i \in 1..Len(subdirs'), NEW j \in 1..Len(subdirs'), i # j
               PROVE  ~IsPrefix(subdirs'[i], subdirs'[j])
    OBVIOUS
  <2>1. i + 1 # j + 1
    OBVIOUS
  <2> QED
    BY <1>7, <1>8, <2>1
<1>15. \A i \in 1..Len(subdirs'), j \in 1..Len(filenames') : ~IsPrefix(subdirs'[i], filenames'[j])
  <2> SUFFICES ASSUME NEW i \in 1..Len(subdirs'), NEW j \in 1..Len(filenames')
               PROVE  ~IsPrefix(subdirs'[i], filenames'[j])
    OBVIOUS
  <2>1. i + 1 \in 1..n /\ i + 1 # 1 /\ subdirs'[i] = subdirs[i + 1]
    BY <1>8
  <2>2. CASE j \in 1..m /\ filenames'[j] = filenames[j]
    BY <1>7, <2>1, <2>2
  <2>3. CASE filenames'[j] = d
    BY <1>4, <1>7, <2>1, <2>3
  <2> QED
    BY <1>9, <2>2, <2>3
<1>16. \A f \in ToSend : \/ \E j \in 1..Len(filenames') : filenames'[j] = f
                         \/ \E i \in 1..Len(subdirs') : IsPrefix(subdirs'[i], f)
  <2> SUFFICES ASSUME NEW f \in ToSend,
                      ~ \E j \in 1..Len(filenames') : filenames'[j] = f
               PROVE  \E i \in 1..Len(subdirs') : IsPrefix(subdirs'[i], f)
    OBVIOUS
  <2>1. f # d /\ ~ \E j \in 1..m : filenames[j] = f
    BY <1>3, <1>6
  <2>2. PICK k \in 1..n : IsPrefix(subdirs[k], f)
    BY <1>7, <2>1
  <2>3. k # 1
    BY <1>4, <1>7, <2>1, <2>2, ToSendPaths, FileSystemAssumption
  <2>4. k - 1 \in 1..Len(subdirs') /\ subdirs'[k - 1] = subdirs[k]
    <3>1. k - 1 \in 1..(n - 1) /\ (k - 1) + 1 = k
      BY <1>3, <2>3
    <3> QED
      BY <1>5, <3>1
  <2> QED
    BY <2>2, <2>4
<1>17. pc'["sender"] = "scan"
  BY <1>1
<1> QED
  BY <1>5, <1>6, <1>10, <1>11, <1>12, <1>13, <1>14, <1>15, <1>16, <1>17 DEF ScanInv

LEMMA ScanStays ==
  ASSUME ScanInv, UNCHANGED <<fixed, subdirs, filenames>>,
         subdirs = <<>> \/ pc'["sender"] \in {"scan", "terminated"}
  PROVE  ScanInv'
BY DEF ScanInv, ToSend, fixed

-----------------------------------------------------------------------------
(* What the path and the sizes determine stays.                            *)

LEMMA FixedSets ==
  ASSUME UNCHANGED fixed
  PROVE  /\ ToSend' = ToSend /\ Names' = Names /\ Bytes' = Bytes /\ Segments' = Segments
         /\ src_path' = src_path /\ size' = size /\ rcv_segment' = rcv_segment
         /\ (WholeSegments' <=> WholeSegments)
<1>1. src_path' = src_path /\ size' = size /\ rcv_segment' = rcv_segment
  BY DEF fixed
<1>2. ToSend' = ToSend /\ Bytes' = Bytes
  BY <1>1 DEF ToSend, Bytes
<1>3. Names' = Names
  BY <1>1, <1>2 DEF Names, Upload
<1>4. Segments' = Segments
  BY <1>2, <1>3 DEF Segments
<1>5. WholeSegments' <=> WholeSegments
  BY <1>1 DEF WholeSegments
<1> QED
  BY <1>1, <1>2, <1>3, <1>4, <1>5

-----------------------------------------------------------------------------
(* The segments under way.                                                 *)

\* p is a stretch of q.
Part(p, q) == \E a \in Nat : \A i \in 1..Len(p) : a + i \in 1..Len(q) /\ p[i] = q[a + i]

LEMMA ChainPart ==
  ASSUME NEW p, NEW q, Len(p) \in Nat, Len(q) \in Nat, Chain(q), Part(p, q)
  PROVE  Chain(p)
<1>1. PICK a \in Nat : \A i \in 1..Len(p) : a + i \in 1..Len(q) /\ p[i] = q[a + i]
  BY DEF Part
<1>2. \A j \in 1..Len(p) : WellFormed(p[j])
  BY <1>1 DEF Chain
<1>3. ASSUME NEW i \in 1..Len(p), NEW j \in 1..Len(p), i < j PROVE Before(p[i], p[j])
  <2>1. a + i < a + j
    BY <1>3
  <2> QED
    BY <1>1, <2>1 DEF Chain
<1>4. ASSUME NEW j \in 2..Len(p) PROVE p[j].first \/ Continues(p[j], p[j - 1])
  <2>1. j \in 1..Len(p) /\ j - 1 \in 1..Len(p) /\ a + (j - 1) = (a + j) - 1
    OBVIOUS
  <2>2. a + j \in 2..Len(q) /\ p[j] = q[a + j] /\ p[j - 1] = q[(a + j) - 1]
    BY <1>1, <2>1
  <2> QED
    BY <2>2 DEF Chain
<1> QED
  BY <1>2, <1>3, <1>4 DEF Chain

LEMMA ChainStays ==
  ASSUME UNCHANGED <<fixed, filenames>>, Chain(Queue')
  PROVE  Chain(Queue)'
BY FixedSets DEF Chain, WellFormed, Before, Continues, File, Start, End, Upload

\* The numbers of a segment, as arithmetic needs them.
LEMMA SegmentNumbers ==
  ASSUME TypeOK, NEW s, WellFormed(s)
  PROVE  /\ Start(s) \in Nat /\ End(s) \in Nat /\ Len(s.bytes) \in Nat /\ Start(s) < End(s)
         /\ File(s) \in ToSend /\ size[File(s)] \in Nat /\ End(s) <= size[File(s)]
<1>1. s.bytes \in Seq(Bytes)
  BY DEF WellFormed, Segments
<1>2. Len(s.bytes) \in Nat /\ Len(s.bytes) > 0 /\ Start(s) \in Nat
  BY <1>1, LenProperties DEF WellFormed
<1>3. File(s) \in ToSend /\ size[File(s)] \in Nat
  BY ToSendPaths DEF TypeOK, WellFormed
<1>4. End(s) = Start(s) + Len(s.bytes) /\ End(s) <= size[File(s)]
  BY DEF End, WellFormed
<1> QED
  BY <1>2, <1>3, <1>4

QueueFacts ==
  /\ Queue \in Seq(Segments) /\ Len(Queue) \in Nat
  /\ Len(Queue) = Len(rcvbuf) + Len(sndbuf)
  /\ Len(rcvbuf) \in Nat /\ Len(sndbuf) \in Nat
  /\ \A i \in 1..Len(Queue) :
       Queue[i] = IF i <= Len(rcvbuf) THEN rcvbuf[i] ELSE sndbuf[i - Len(rcvbuf)]
  /\ (Queue = <<>> <=> Len(Queue) = 0)

LEMMA QueueType == TypeOK => QueueFacts
<1> SUFFICES ASSUME TypeOK PROVE QueueFacts
  OBVIOUS
<1>1. rcvbuf \in Seq(Segments) /\ sndbuf \in Seq(Segments)
  BY DEF TypeOK
<1>2. /\ Queue \in Seq(Segments)
      /\ Len(Queue) = Len(rcvbuf) + Len(sndbuf)
      /\ \A i \in 1..(Len(rcvbuf) + Len(sndbuf)) :
           Queue[i] = IF i <= Len(rcvbuf) THEN rcvbuf[i] ELSE sndbuf[i - Len(rcvbuf)]
  BY <1>1, ConcatProperties DEF Queue
<1>3. Len(rcvbuf) \in Nat /\ Len(sndbuf) \in Nat /\ Len(Queue) \in Nat
  BY <1>1, <1>2, LenProperties
<1>4. Queue = <<>> <=> Len(Queue) = 0
  BY <1>2, EmptySeq
<1> QED
  BY <1>2, <1>3, <1>4 DEF QueueFacts

LEMMA QueueTypeNext == TypeOK' => QueueFacts'
BY QueueType, PTL

-----------------------------------------------------------------------------
(* Before the connection.                                                  *)

\* Nothing was sent or received yet.
Idle ==
  /\ rcvbuf = <<>> /\ sndbuf = <<>> /\ finished = {}
  /\ content = [n \in Names |-> <<>>]
  /\ pc["sender"] \notin {"segment", "write"}
  /\ current = 1 \/ ~Intact

LEMMA IdleData == TypeOK /\ ScanInv /\ Idle => Data
<1> SUFFICES ASSUME TypeOK, ScanInv, Idle PROVE Data
  OBVIOUS
<1>1. Queue = <<>> /\ Len(Queue) = 0
  BY QueueType DEF Idle, QueueFacts
<1>2. \A f \in ToSend : content[Upload(f)] = <<>> /\ Len(content[Upload(f)]) = 0 /\ size[f] \in Nat
  BY ToSendPaths DEF Idle, TypeOK
<1>3. Chain(Queue)
  BY <1>1 DEF Chain
<1>4. SentInv
  BY <1>1 DEF SentInv, Idle
<1>5. HeadInv
  BY <1>1 DEF HeadInv
<1>6. TailInv
  BY DEF TailInv, Idle
<1>7. PrefixInv
  BY <1>2 DEF PrefixInv
<1>8. DoneIsComplete
  BY <1>2 DEF DoneIsComplete, Idle
<1>9. DeliveryInv
  <2> SUFFICES ASSUME Intact, NEW k \in 1..Len(filenames)
               PROVE  /\ Len(content[Upload(filenames[k])]) <= SentOf(k)
                      /\ \A i \in Nat :
                           i \in (Len(content[Upload(filenames[k])]) + 1)..SentOf(k)
                             <=> \E j \in 1..Len(Queue) : Has(Queue[j], filenames[k], i)
    BY DEF DeliveryInv
  <2>1. filenames[k] \in ToSend /\ Len(content[Upload(filenames[k])]) = 0
    BY <1>2 DEF ScanInv
  <2>2. SentOf(k) = 0
    BY DEF SentOf, Idle
  <2> QED
    BY <1>1, <2>1, <2>2
<1> QED
  BY <1>3, <1>4, <1>5, <1>6, <1>7, <1>8, <1>9 DEF Data

LEMMA IdleDataNext == TypeOK' /\ ScanInv' /\ Idle' => Data'
BY IdleData, PTL

-----------------------------------------------------------------------------
(* Steps that hand over nothing: they may lose what is under way.          *)

Quiet ==
  /\ UNCHANGED <<fixed, filenames, content, finished, write_failed>>
  /\ Part(Queue', Queue)
  /\ Reading' =>
       /\ Reading /\ ofile' = ofile
       /\ Queue' # <<>> => Queue # <<>> /\ Queue'[1] = Queue[1]
  /\ link' = "up" =>
       /\ link = "up"
       /\ Reading' => Queue' = Queue
       /\ Queue' # <<>> => Queue # <<>> /\ Queue'[Len(Queue')] = Queue[Len(Queue)]
  /\ Sending' =>
       /\ Sending
       /\ \/ current' > current
          \/ /\ current' = current
             /\ pc["sender"] = "open" \/ (pc'["sender"] # "open" /\ SentPos' = SentPos)
  /\ pc'["sender"] \in {"segment", "write"} /\ SentPos' > 0 =>
       pc["sender"] \in {"segment", "write"} /\ SentPos' = SentPos /\ current' = current
  /\ Intact' =>
       /\ Intact /\ Queue' = Queue
       /\ \A k \in 1..Len(filenames) : SentOf(k)' = SentOf(k)

LEMMA LongerInterval ==
  \A c, d \in Nat : d >= c => \A k \in 1..(c - 1) : k \in 1..(d - 1)
OBVIOUS

LEMMA QuietData ==
  ASSUME TypeOK, TypeOK', Data, Quiet
  PROVE  Data'
<1>1. /\ UNCHANGED <<fixed, filenames, content, finished, write_failed>>
      /\ src_path' = src_path /\ size' = size
  BY DEF Quiet, fixed
<1>2. ToSend' = ToSend /\ (WholeSegments' <=> WholeSegments)
  BY <1>1, FixedSets
<1>3. Len(Queue) \in Nat /\ Len(Queue') \in Nat /\ (Queue = <<>> <=> Len(Queue) = 0)
      /\ (Queue' = <<>> <=> Len(Queue') = 0)
  BY QueueType, QueueTypeNext DEF QueueFacts
<1>4. Chain(Queue)'
  <2>1. Chain(Queue')
    BY <1>3, ChainPart DEF Data, Quiet
  <2> QED
    BY <1>1, <2>1, ChainStays
<1>5. \A j \in 1..Len(Queue') : \E i \in 1..Len(Queue) : Queue'[j] = Queue[i]
  BY DEF Quiet, Part
<1>6. SentInv'
  <2> SUFFICES ASSUME Sending'
               PROVE  /\ \A j \in 1..Len(Queue') : SentBefore(Queue[j])'
                      /\ finished' \subseteq {Upload(filenames[k])' : k \in 1..(current' - 1)}
    BY DEF SentInv
  <2>1. /\ Sending /\ current \in Nat /\ current' \in Nat
        /\ \/ current' > current
           \/ /\ current' = current
              /\ pc["sender"] = "open" \/ (pc'["sender"] # "open" /\ SentPos' = SentPos)
    BY DEF Quiet, TypeOK
  <2>2. /\ \A j \in 1..Len(Queue) : SentBefore(Queue[j])
        /\ finished \subseteq {Upload(filenames[k]) : k \in 1..(current - 1)}
    BY <2>1 DEF Data, SentInv
  <2>3. ASSUME NEW j \in 1..Len(Queue') PROVE SentBefore(Queue[j])'
    <3>1. PICK i \in 1..Len(Queue) : Queue'[j] = Queue[i]
      BY <1>5
    <3>2. PICK k \in 1..Len(filenames) :
            /\ File(Queue[i]) = filenames[k]
            /\ \/ k < current
               \/ k = current /\ pc["sender"] # "open" /\ ~Queue[i].eof /\ End(Queue[i]) <= SentPos
      BY <2>2 DEF SentBefore
    <3>3. /\ File(Queue'[j]) = filenames'[k] /\ k \in 1..Len(filenames') /\ k \in Nat
          /\ \/ k < current'
             \/ /\ k = current' /\ pc'["sender"] # "open"
                /\ ~Queue'[j].eof /\ End(Queue'[j]) <= SentPos'
      BY <1>1, <2>1, <3>1, <3>2
    <3> QED
      BY <3>3 DEF SentBefore, File, End, Start
  <2>4. {Upload(filenames[k]) : k \in 1..(current - 1)}
          \subseteq {Upload(filenames[k])' : k \in 1..(current' - 1)}
    <3>0. current \in Nat /\ current' \in Nat /\ current' >= current
      BY <2>1
    <3>1. \A k \in 1..(current - 1) : k \in 1..(current' - 1)
      BY <3>0, LongerInterval
    <3>2. \A k : Upload(filenames[k])' = Upload(filenames[k])
      BY <1>1 DEF Upload
    <3> QED
      BY <3>1, <3>2
  <2> QED
    BY <1>1, <2>2, <2>3, <2>4
<1>7. HeadInv'
  <2> SUFFICES ASSUME Reading'
               PROVE  /\ Queue' # <<>> /\ ~Queue'[1].first =>
                           HasOpen(File(Queue[1]), Start(Queue[1]))'
                      /\ \A j \in 1..Len(Queue') : Upload(File(Queue[j]))' \notin finished'
    BY DEF HeadInv
  <2>1. /\ Reading /\ ofile' = ofile
        /\ Queue' # <<>> => Queue # <<>> /\ Queue'[1] = Queue[1]
    BY DEF Quiet
  <2>2. /\ Queue # <<>> /\ ~Queue[1].first => HasOpen(File(Queue[1]), Start(Queue[1]))
        /\ \A j \in 1..Len(Queue) : Upload(File(Queue[j])) \notin finished
    BY <2>1 DEF Data, HeadInv
  <2>3. Queue' # <<>> /\ ~Queue'[1].first => HasOpen(File(Queue[1]), Start(Queue[1]))'
    BY <1>1, <1>2, <2>1, <2>2 DEF HasOpen, Upload, File, Start
  <2> QED
    BY <1>1, <1>5, <2>2, <2>3 DEF Upload, File
<1>8. TailInv'
  <2> SUFFICES ASSUME link' = "up", pc'["sender"] \in {"segment", "write"}, SentPos' > 0
               PROVE  /\ Queue' = <<>> /\ Reading' => HasOpen(filenames[current], SentPos)'
                      /\ Queue' # <<>> =>
                           /\ File(Queue[Len(Queue)])' = filenames'[current']
                           /\ End(Queue[Len(Queue)])' = SentPos'
                           /\ ~Queue'[Len(Queue')].eof
    BY DEF TailInv
  <2>1. /\ link = "up" /\ pc["sender"] \in {"segment", "write"}
        /\ SentPos' = SentPos /\ SentPos > 0 /\ current' = current
    BY DEF Quiet
  <2>2. /\ Queue = <<>> /\ Reading => HasOpen(filenames[current], SentPos)
        /\ Queue # <<>> =>
             /\ File(Queue[Len(Queue)]) = filenames[current]
             /\ End(Queue[Len(Queue)]) = SentPos
             /\ ~Queue[Len(Queue)].eof
    BY <2>1 DEF Data, TailInv
  <2>3. ASSUME Queue' = <<>>, Reading'
        PROVE  HasOpen(filenames[current], SentPos)'
    <3>1. Queue = <<>> /\ Reading /\ ofile' = ofile
      BY <2>3 DEF Quiet
    <3> QED
      BY <1>1, <1>2, <2>1, <2>2, <3>1 DEF HasOpen, Upload
  <2>4. ASSUME Queue' # <<>>
        PROVE  /\ File(Queue[Len(Queue)])' = filenames'[current']
               /\ End(Queue[Len(Queue)])' = SentPos'
               /\ ~Queue'[Len(Queue')].eof
    <3>1. Queue # <<>> /\ Queue'[Len(Queue')] = Queue[Len(Queue)]
      BY <2>4 DEF Quiet
    <3> QED
      BY <1>1, <2>1, <2>2, <3>1 DEF File, End, Start
  <2> QED
    BY <2>3, <2>4
<1>9. PrefixInv' /\ DoneIsComplete'
  BY <1>1, <1>2 DEF Data, PrefixInv, DoneIsComplete, Sound, Upload
<1>10. DeliveryInv'
  <2> SUFFICES ASSUME Intact', NEW k \in 1..Len(filenames'), Sound(Upload(filenames[k]))'
               PROVE  /\ Len(content'[Upload(filenames[k])']) <= SentOf(k)'
                      /\ \A i \in Nat :
                           i \in (Len(content'[Upload(filenames[k])']) + 1)..SentOf(k)'
                             <=> \E j \in 1..Len(Queue') : Has(Queue[j], filenames[k], i)'
    BY DEF DeliveryInv
  <2>1. Intact /\ Queue' = Queue /\ SentOf(k)' = SentOf(k)
    BY <1>1 DEF Quiet
  <2>3. Upload(filenames[k])' = Upload(filenames[k]) /\ Sound(Upload(filenames[k]))
    BY <1>1, <1>2 DEF Upload, Sound
  <2>2. /\ Len(content[Upload(filenames[k])]) <= SentOf(k)
        /\ \A i \in Nat :
             i \in (Len(content[Upload(filenames[k])]) + 1)..SentOf(k)
               <=> \E j \in 1..Len(Queue) : Has(Queue[j], filenames[k], i)
    BY <1>1, <2>1, <2>3 DEF Data, DeliveryInv
  <2>4. \A j, i : Has(Queue[j], filenames[k], i)' <=> Has(Queue[j], filenames[k], i)
    BY <1>1, <2>1 DEF Has, File, Start, End
  <2> QED
    BY <1>1, <2>1, <2>2, <2>3, <2>4
<1> QED
  BY <1>4, <1>6, <1>7, <1>8, <1>9, <1>10 DEF Data

-----------------------------------------------------------------------------
(* write(): the segment in buf is handed over.                             *)

LEMMA ConcatAppend ==
  ASSUME NEW S, NEW p \in Seq(S), NEW q \in Seq(S), NEW e \in S
  PROVE  p \o Append(q, e) = Append(p \o q, e)
<1>1. Append(q, e) = q \o <<e>> /\ Append(p \o q, e) = (p \o q) \o <<e>> /\ <<e>> \in Seq(S)
  BY AppendIsConcat, ConcatProperties
<1> QED
  BY <1>1, ConcatAssociative

\* No two entries of the list are sent under the same name.
LEMMA OneName ==
  ASSUME TypeOK, ScanInv, NEW k \in 1..Len(filenames), NEW l \in 1..Len(filenames),
         Upload(filenames[k]) = Upload(filenames[l])
  PROVE  k = l
<1>1. filenames[k] \in ToSend /\ filenames[l] \in ToSend /\ src_path \in Paths
  BY DEF ScanInv, TypeOK, Paths
<1>2. filenames[k] = filenames[l]
  BY <1>1, UploadInjective
<1> QED
  BY <1>2 DEF ScanInv

LEMMA WriteData ==
  ASSUME TypeOK, TypeOK', ScanInv, LinkInv, SenderInv, Data, WriteSegment
  PROVE  Data'
<1> DEFINE n == Len(Queue)
           c == current
<1>1. /\ UNCHANGED <<fixed, filenames, content, finished, write_failed, ofile, pos, segment,
                     link, rcvbuf, outcome, force_break>>
      /\ src_path' = src_path /\ size' = size
      /\ sndbuf' = Append(sndbuf, segment)
      /\ pc["sender"] = "write" /\ link = "up"
      /\ pc'["sender"] = IF segment.eof THEN "open" ELSE "segment"
      /\ pc'["receiver"] = pc["receiver"]
      /\ current' = IF segment.eof THEN current + 1 ELSE current
  BY DEF WriteSegment, Goto, Fails, LinkInv, TypeOK, Procs, fixed, process, receiving
<1>2. ToSend' = ToSend /\ src_path \in Paths /\ (WholeSegments' <=> WholeSegments)
  BY <1>1, FixedSets DEF TypeOK, Paths
<1>3. /\ WellFormed(segment) /\ File(segment) = filenames[c] /\ End(segment) = pos
      /\ c \in 1..Len(filenames) /\ c \in Nat /\ Len(filenames) \in Nat
      /\ filenames[c] \in ToSend
  BY <1>1, LenProperties DEF SenderInv, TypeOK, ScanInv
<1>4. /\ Start(segment) \in Nat /\ End(segment) \in Nat /\ Start(segment) < End(segment)
      /\ size[filenames[c]] \in Nat /\ End(segment) <= size[filenames[c]]
  BY <1>3, SegmentNumbers
<1>5. /\ SentPos = Start(segment)
      /\ ~segment.eof => SentPos' = End(segment)
      /\ segment.eof => End(segment) = size[filenames[c]]
      /\ segment.first <=> Start(segment) = 0
  BY <1>1, <1>3 DEF SentPos, WellFormed
<1>6. /\ Queue' = Append(Queue, segment) /\ Queue \in Seq(Segments) /\ segment \in Segments
      /\ n \in Nat /\ (Queue = <<>> <=> n = 0)
  <2>1. rcvbuf \in Seq(Segments) /\ sndbuf \in Seq(Segments) /\ segment \in Segments
    BY <1>3 DEF TypeOK, WellFormed
  <2> QED
    BY <1>1, <2>1, ConcatAppend, QueueType DEF Queue, QueueFacts
<1>7. /\ Len(Queue') = n + 1 /\ Queue'[n + 1] = segment /\ Queue' # <<>>
      /\ \A i \in 1..n : Queue'[i] = Queue[i]
  BY <1>6, AppendProperties
<1> HIDE DEF n, c
<1>8. \A j \in 1..Len(Queue') : \/ j \in 1..n /\ Queue'[j] = Queue[j]
                                \/ j = n + 1 /\ Queue'[j] = segment
  BY <1>6, <1>7
<1>9. \A j \in 1..n : WellFormed(Queue[j]) /\ SentBefore(Queue[j])
  BY <1>1 DEF n, Data, Chain, SentInv, Sending
<1>10. Chain(Queue)'
  <2>1. \A j \in 1..Len(Queue') : WellFormed(Queue'[j])
    BY <1>3, <1>8, <1>9
  <2>2. ASSUME NEW i \in 1..Len(Queue'), NEW j \in 1..Len(Queue'), i < j
        PROVE  Before(Queue'[i], Queue'[j])
    <3>1. CASE j \in 1..n
      <4>1. i \in 1..n
        BY <1>6, <2>2, <3>1
      <4> QED
        BY <1>7, <2>2, <3>1, <4>1 DEF Data, Chain, n
    <3>2. CASE j = n + 1
      <4>1. i \in 1..n /\ Queue'[i] = Queue[i] /\ Queue'[j] = segment
        BY <1>6, <1>7, <2>2, <3>2
      <4>2. PICK k \in 1..Len(filenames) :
              /\ File(Queue[i]) = filenames[k]
              /\ k < current \/ (k = current /\ End(Queue[i]) <= SentPos)
        BY <1>9, <4>1 DEF SentBefore
      <4> QED
        BY <1>3, <1>5, <4>1, <4>2 DEF Before, c
    <3> QED
      BY <1>8, <3>1, <3>2
  <2>3. ASSUME NEW j \in 2..Len(Queue') PROVE Queue'[j].first \/ Continues(Queue'[j], Queue'[j - 1])
    <3>1. CASE j \in 2..n
      <4>1. j \in 1..n /\ j - 1 \in 1..n
        BY <1>6, <3>1
      <4>2. Queue'[j] = Queue[j] /\ Queue'[j - 1] = Queue[j - 1]
        BY <1>7, <4>1
      <4> QED
        BY <3>1, <4>2 DEF Data, Chain, n
    <3>2. CASE j = n + 1
      <4>1. n > 0 /\ Queue'[j] = segment /\ Queue'[j - 1] = Queue[n]
        BY <1>6, <1>7, <3>2
      <4>2. CASE Start(segment) > 0
        BY <1>1, <1>3, <1>5, <1>6, <4>1, <4>2 DEF Data, TailInv, Continues, n, c
      <4>3. CASE Start(segment) = 0
        BY <1>5, <4>1, <4>3
      <4> QED
        BY <1>4, <4>2, <4>3
    <3> QED
      BY <1>6, <1>7, <3>1, <3>2
  <2> QED
    BY <1>1, <2>1, <2>2, <2>3, ChainStays DEF Chain
<1>11. SentInv'
  <2>1. ASSUME NEW j \in 1..Len(Queue') PROVE SentBefore(Queue[j])'
    <3>1. CASE j \in 1..n
      <4>1. PICK k \in 1..Len(filenames) :
              /\ File(Queue[j]) = filenames[k]
              /\ \/ k < current
                 \/ k = current /\ ~Queue[j].eof /\ End(Queue[j]) <= SentPos
        BY <1>9, <3>1 DEF SentBefore
      <4>2. End(Queue[j]) \in Nat /\ k \in Nat
        BY <1>9, <3>1, SegmentNumbers
      <4>3. \/ k < current'
            \/ k = current' /\ pc'["sender"] # "open" /\ ~Queue[j].eof /\ End(Queue[j]) <= SentPos'
        BY <1>1, <1>3, <1>4, <1>5, <4>1, <4>2 DEF c
      <4> QED
        BY <1>1, <1>7, <3>1, <4>1, <4>3 DEF SentBefore, File, End, Start
    <3>2. CASE Queue'[j] = segment
      <4>1. /\ c \in 1..Len(filenames) /\ File(segment) = filenames[c]
            /\ \/ c < current'
               \/ c = current' /\ pc'["sender"] # "open" /\ ~segment.eof /\ End(segment) <= SentPos'
        BY <1>1, <1>3, <1>4, <1>5 DEF c
      <4> QED
        BY <1>1, <3>2, <4>1 DEF SentBefore, File, End, Start
    <3> QED
      BY <1>8, <3>1, <3>2
  <2>2. finished' \subseteq {Upload(filenames[k])' : k \in 1..(current' - 1)}
    <3>1. finished \subseteq {Upload(filenames[k]) : k \in 1..(current - 1)}
      BY <1>1 DEF Data, SentInv, Sending
    <3>2. current \in Nat /\ current' \in Nat /\ current' >= current
      BY <1>1, <1>3 DEF c
    <3>3. \A k \in 1..(current - 1) : k \in 1..(current' - 1)
      BY <3>2, LongerInterval
    <3>4. \A k : Upload(filenames[k])' = Upload(filenames[k])
      BY <1>1 DEF Upload
    <3> QED
      BY <1>1, <3>1, <3>3, <3>4
  <2> QED
    BY <2>1, <2>2 DEF SentInv
<1>12. HeadInv'
  <2> SUFFICES ASSUME Reading'
               PROVE  /\ ~Queue'[1].first => HasOpen(File(Queue[1]), Start(Queue[1]))'
                      /\ \A j \in 1..Len(Queue') : Upload(File(Queue[j]))' \notin finished'
    BY DEF HeadInv
  <2>0. Reading
    BY <1>1 DEF Reading
  <2>3. ~Queue'[1].first => HasOpen(File(Queue[1]), Start(Queue[1]))'
    <3>1. CASE n > 0
      <4>1. Queue'[1] = Queue[1] /\ Queue # <<>>
        BY <1>6, <1>7, <3>1
      <4>2. ~Queue[1].first => HasOpen(File(Queue[1]), Start(Queue[1]))
        BY <2>0, <4>1 DEF Data, HeadInv
      <4> QED
        BY <1>1, <1>2, <4>1, <4>2 DEF HasOpen, Upload, File, Start
    <3>2. CASE n = 0
      <4>1. Queue'[1] = segment /\ Queue = <<>>
        BY <1>6, <1>7, <3>2
      <4>2. Start(segment) > 0 => HasOpen(filenames[c], Start(segment))
        BY <1>1, <1>5, <2>0, <4>1 DEF Data, TailInv, c
      <4>3. ~segment.first => Start(segment) > 0
        BY <1>4, <1>5
      <4> QED
        BY <1>1, <1>2, <1>3, <4>1, <4>2, <4>3 DEF HasOpen, Upload, File, Start
    <3> QED
      BY <1>6, <3>1, <3>2
  <2>4. ASSUME NEW j \in 1..Len(Queue') PROVE Upload(File(Queue[j]))' \notin finished'
    <3>1. CASE j \in 1..n
      <4>1. Upload(File(Queue[j])) \notin finished
        BY <2>0, <3>1 DEF Data, HeadInv, n
      <4> QED
        BY <1>1, <1>7, <3>1, <4>1 DEF Upload, File
    <3>2. CASE Queue'[j] = segment
      <4>1. Upload(filenames[c]) \notin finished
        <5> SUFFICES ASSUME Upload(filenames[c]) \in finished PROVE FALSE
          OBVIOUS
        <5>1. PICK k \in 1..(current - 1) : Upload(filenames[c]) = Upload(filenames[k])
          BY <1>1 DEF Data, SentInv, Sending
        <5>2. k \in 1..Len(filenames) /\ k # c
          BY <1>3, <5>1 DEF c
        <5> QED
          BY <1>3, <5>1, <5>2, OneName
      <4> QED
        BY <1>1, <1>3, <3>2, <4>1 DEF Upload, File
    <3> QED
      BY <1>8, <3>1, <3>2
  <2> QED
    BY <2>3, <2>4
<1>13. TailInv'
  <2> SUFFICES ASSUME pc'["sender"] \in {"segment", "write"}
               PROVE  /\ File(Queue[Len(Queue)])' = filenames'[current']
                      /\ End(Queue[Len(Queue)])' = SentPos'
                      /\ ~Queue'[Len(Queue')].eof
    BY <1>7 DEF TailInv
  <2>1. ~segment.eof /\ Queue'[Len(Queue')] = segment /\ current' = c
    BY <1>1, <1>7 DEF c
  <2> QED
    BY <1>1, <1>3, <1>5, <2>1 DEF File, End, Start
<1>14. PrefixInv' /\ DoneIsComplete'
  BY <1>1, <1>2 DEF Data, PrefixInv, DoneIsComplete, Sound, Upload
<1>15. DeliveryInv'
  <2> SUFFICES ASSUME Intact', NEW k \in 1..Len(filenames'), Sound(Upload(filenames[k]))'
               PROVE  /\ Len(content'[Upload(filenames[k])']) <= SentOf(k)'
                      /\ \A i \in Nat :
                           i \in (Len(content'[Upload(filenames[k])']) + 1)..SentOf(k)'
                             <=> \E j \in 1..Len(Queue') : Has(Queue[j], filenames[k], i)'
    BY DEF DeliveryInv
  <2> DEFINE l == Len(content[Upload(filenames[k])])
  <2>1. Intact
    BY <1>1 DEF Intact, Reading, Sending
  <2>3. /\ Upload(filenames[k])' = Upload(filenames[k]) /\ content' = content /\ k \in Nat
        /\ Sound(Upload(filenames[k]))
    BY <1>1, <1>2 DEF Upload, Sound
  <2>2. /\ l <= SentOf(k)
        /\ \A i \in Nat :
             i \in (l + 1)..SentOf(k) <=> \E j \in 1..n : Has(Queue[j], filenames[k], i)
    BY <1>1, <2>1, <2>3 DEF Data, DeliveryInv, n
  <2>4. l \in Nat /\ k \in 1..Len(filenames) /\ filenames[k] \in ToSend
    <3>1. k \in 1..Len(filenames) /\ filenames[k] \in ToSend
      BY <1>1 DEF ScanInv
    <3>2. content[Upload(filenames[k])] \in Seq(Bytes)
      BY <3>1, ToSendPaths DEF TypeOK
    <3> QED
      BY <3>1, <3>2, LenProperties
  <2>5. \A i \in Nat : (\E j \in 1..Len(Queue') : Has(Queue[j], filenames[k], i)')
                   <=> \/ \E j \in 1..n : Has(Queue[j], filenames[k], i)
                       \/ Has(segment, filenames[k], i)
    <3>1. \A j \in 1..n, i \in Nat :
            Has(Queue[j], filenames[k], i)' <=> Has(Queue[j], filenames[k], i)
      BY <1>1, <1>7 DEF Has, File, Start, End
    <3>2. \A j \in 1..Len(Queue'), i \in Nat : Queue'[j] = segment =>
            (Has(Queue[j], filenames[k], i)' <=> Has(segment, filenames[k], i))
      BY <1>1 DEF Has, File, Start, End
    <3>3. n + 1 \in 1..Len(Queue') /\ \A j \in 1..n : j \in 1..Len(Queue')
      BY <1>6, <1>7
    <3> QED
      BY <1>7, <1>8, <3>1, <3>2, <3>3
  <2> HIDE DEF l
  <2>6. CASE k = c
    <3>1. SentOf(k) = Start(segment)
      BY <1>1, <1>3, <1>5, <2>6 DEF SentOf, c
    <3>2. SentOf(k)' = End(segment)
      <4>1. CASE segment.eof
        BY <1>1, <1>3, <1>5, <2>6, <4>1 DEF SentOf, c
      <4>2. CASE ~segment.eof
        BY <1>1, <1>3, <1>5, <2>6, <4>2 DEF SentOf, c
      <4> QED
        BY <4>1, <4>2
    <3>3. \A i \in Nat : Has(segment, filenames[k], i) <=> Start(segment) < i /\ i <= End(segment)
      BY <1>3, <2>6 DEF Has
    <3>4. l <= End(segment)
      BY <1>4, <2>2, <2>4, <3>1
    <3>5. \A i \in Nat : i \in (l + 1)..End(segment)
                           <=> \/ i \in (l + 1)..Start(segment)
                               \/ Start(segment) < i /\ i <= End(segment)
      BY <1>4, <2>2, <2>4, <3>1
    <3> QED
      BY <2>2, <2>3, <2>5, <3>1, <3>2, <3>3, <3>4, <3>5 DEF l
  <2>7. CASE k # c
    <3>1. SentOf(k)' = SentOf(k)
      BY <1>1, <1>3, <2>3, <2>7 DEF SentOf, c
    <3>2. \A i \in Nat : ~Has(segment, filenames[k], i)
      BY <1>1, <1>3, <2>4, <2>7 DEF Has, ScanInv
    <3> QED
      BY <2>2, <2>3, <2>5, <3>1, <3>2 DEF l
  <2> QED
    BY <2>6, <2>7
<1> QED
  BY <1>10, <1>11, <1>12, <1>13, <1>14, <1>15 DEF Data

-----------------------------------------------------------------------------
(* The receiver reads a segment and writes it to the file that is open.    *)

Takes == ReadAndStore \/ DropSegment

\* The segment that is taken.
LEMMA TakenSegment ==
  ASSUME TypeOK, Data, Takes
  PROVE  /\ WellFormed(Queue[1]) /\ Upload(File(Queue[1])) \in Names
         /\ Upload(File(Queue[1])) # <<>>
         /\ Reading /\ Len(Queue) \in Nat /\ Len(Queue) > 0 /\ Queue # <<>>
         /\ Queue[1] = Head(rcvbuf) /\ rcvbuf # <<>> /\ rcvbuf' = Tail(rcvbuf)
<1>1. Reading /\ rcvbuf # <<>> /\ rcvbuf' = Tail(rcvbuf)
  BY DEF Takes, ReadAndStore, DropSegment, TakeSegment, Reading
<1>2. rcvbuf \in Seq(Segments) /\ Len(rcvbuf) \in Nat /\ Len(rcvbuf) > 0
      /\ Head(rcvbuf) = rcvbuf[1]
  BY <1>1, EmptySeq, LenProperties DEF TypeOK
<1>3. Len(Queue) \in Nat /\ Len(Queue) > 0 /\ Queue[1] = rcvbuf[1] /\ Queue # <<>>
  BY <1>2, QueueType DEF QueueFacts
<1>4. WellFormed(Queue[1])
  BY <1>3 DEF Data, Chain
<1>5. File(Queue[1]) \in ToSend /\ src_path \in Paths
  BY <1>4 DEF WellFormed, TypeOK, Paths
<1> QED
  BY <1>1, <1>2, <1>3, <1>4, <1>5, ToSendPaths, UploadNotEmpty

\* What the buffer holds of it.
LEMMA CutSegment ==
  ASSUME TypeOK, NEW s, WellFormed(s)
  PROVE  Cut(s) \in Seq(Bytes) /\ (WholeSegments => Cut(s) = s.bytes)
<1> DEFINE b == s.bytes
           room == rcv_segment - HeaderSize(s.first)
           m == IF Len(b) < room THEN Len(b) ELSE room
<1>1. b \in Seq(Bytes) /\ Len(b) \in Nat /\ s.first \in BOOLEAN
  BY LenProperties DEF WellFormed, Segments
<1>2. HeaderSize(s.first) \in Nat /\ room \in Nat
  BY <1>1, FileTransferAssumption DEF TypeOK, HeaderSize
<1>3. m \in Nat /\ m <= Len(b)
  BY <1>1, <1>2
<1>4. Cut(s) = SubSeq(b, 1, m)
  BY DEF Cut
<1>5. WholeSegments => m = Len(b)
  <2>1. Len(b) <= SegmentSize - HeaderSize(s.first)
    BY DEF WellFormed, Capacity
  <2>2. WholeSegments => rcv_segment >= SegmentSize
    BY DEF WholeSegments
  <2>3. SegmentSize \in Nat /\ rcv_segment \in Nat
    BY FileTransferAssumption DEF TypeOK
  <2>4. WholeSegments => Len(b) <= room
    BY <1>1, <1>2, <2>1, <2>2, <2>3
  <2> HIDE DEF room, b
  <2> QED
    BY <1>1, <1>2, <2>4
<1> HIDE DEF m, b
<1>6. \A i \in 1..m : b[i] \in Bytes
  BY <1>1, <1>3, ElementOfSeq
<1>7. SubSeq(b, 1, m) \in Seq(Bytes)
  BY <1>3, <1>6, SubSeqProperties
<1>8. SubSeq(b, 1, Len(b)) = b
  BY <1>1, SubSeqFull
<1> QED
  BY <1>4, <1>5, <1>7, <1>8 DEF b

\* What the stream is given of the file so far.
Given(s) == (IF s.first THEN <<>> ELSE content[Upload(File(s))]) \o Cut(s)

LEMMA GivenIsPrefix ==
  ASSUME TypeOK, Data, NEW s, WellFormed(s),
         s.first \/ (WholeSegments => Len(content[Upload(File(s))]) = Start(s))
  PROVE  /\ Given(s) \in Seq(Bytes) /\ Len(Given(s)) \in Nat
         /\ WholeSegments =>
              /\ Len(Given(s)) = End(s)
              /\ \A i \in 1..End(s) : Given(s)[i] = <<File(s), i>>
<1> DEFINE f == File(s)
           old == IF s.first THEN <<>> ELSE content[Upload(f)]
           new == old \o Cut(s)
<1>1. Cut(s) \in Seq(Bytes) /\ (WholeSegments => Cut(s) = s.bytes)
  BY CutSegment
<1>2. /\ f \in ToSend /\ s.bytes \in Seq(Bytes) /\ End(s) = Start(s) + Len(s.bytes)
      /\ Start(s) \in Nat /\ Len(s.bytes) \in Nat
      /\ \A i \in 1..Len(s.bytes) : s.bytes[i] = <<f, Start(s) + i>>
      /\ s.first => Start(s) = 0
  BY LenProperties DEF WellFormed, Segments, End
<1>3. old \in Seq(Bytes)
  <2>1. content[Upload(f)] \in Seq(Bytes)
    BY <1>2, ToSendPaths DEF TypeOK
  <2>2. <<>> \in Seq(Bytes)
    OBVIOUS
  <2> QED
    BY <2>1, <2>2
<1>4. WholeSegments => Len(old) = Start(s)
  BY <1>2
<1>5. ASSUME WholeSegments PROVE \A i \in 1..Start(s) : old[i] = <<f, i>>
  <2>1. CASE s.first
    BY <1>2, <2>1
  <2>2. CASE ~s.first
    BY <1>2, <1>5, <2>2 DEF Data, PrefixInv
  <2> QED
    BY <2>1, <2>2
<1>6. Given(s) = new
  BY DEF Given
<1> DEFINE c == Cut(s)
<1>7. c \in Seq(Bytes) /\ new = old \o c
  BY <1>1
<1> HIDE DEF f, old, c, new
<1>8. /\ new \in Seq(Bytes) /\ Len(new) = Len(old) + Len(c)
      /\ \A i \in 1..(Len(old) + Len(c)) : new[i] = IF i <= Len(old) THEN old[i] ELSE c[i - Len(old)]
  BY <1>3, <1>7, ConcatProperties
<1>9. Len(new) \in Nat
  BY <1>8, LenProperties
<1>10. ASSUME WholeSegments
       PROVE  Len(new) = End(s) /\ \A i \in 1..End(s) : new[i] = <<f, i>>
  <2> DEFINE a == Start(s)
             b == s.bytes
  <2>1. c = b /\ Len(old) = a /\ End(s) = a + Len(b)
    BY <1>1, <1>2, <1>4, <1>10 DEF c
  <2>2. a \in Nat /\ Len(b) \in Nat /\ \A i \in 1..Len(b) : b[i] = <<f, a + i>>
    BY <1>2
  <2>3. \A i \in 1..a : old[i] = <<f, i>>
    BY <1>5, <1>10
  <2> HIDE DEF a, b
  <2>4. /\ Len(new) = a + Len(b)
        /\ \A i \in 1..(a + Len(b)) : new[i] = IF i <= a THEN old[i] ELSE b[i - a]
    BY <1>8, <2>1
  <2>5. ASSUME NEW i \in 1..(a + Len(b)) PROVE new[i] = <<f, i>>
    <3>1. CASE i <= a
      <4>1. i \in 1..a
        BY <2>2, <3>1
      <4> QED
        BY <2>3, <2>4, <3>1, <4>1
    <3>2. CASE i > a
      <4>1. i - a \in 1..Len(b) /\ a + (i - a) = i /\ ~(i <= a)
        BY <2>2, <3>2
      <4>2. b[i - a] = <<f, a + (i - a)>>
        BY <2>2, <4>1
      <4> QED
        BY <2>4, <4>1, <4>2
    <3> QED
      BY <2>2, <3>1, <3>2
  <2> QED
    BY <2>1, <2>4, <2>5
<1> QED
  BY <1>6, <1>8, <1>9, <1>10 DEF f

\* What becomes of a segment s that is taken: it is stored, or a write to its
\* file has failed.
Stored(s) ==
  LET path == Upload(File(s))
  IN  /\ content' \in [Names -> Seq(Bytes)]
      /\ \A n \in Names : n # path => content'[n] = content[n]
      /\ WholeSegments =>
           /\ Len(content'[path]) <= size[File(s)]
           /\ \A i \in 1..Len(content'[path]) : content'[path][i] = <<File(s), i>>
      /\ \/ /\ write_failed' = write_failed
            /\ content'[path] = Given(s)
            /\ WholeSegments => Len(content'[path]) = End(s)
            /\ ofile' = IF s.eof THEN <<>> ELSE path
            /\ finished' = IF s.eof THEN finished \cup {path} ELSE finished
         \/ /\ write_failed' = write_failed \cup {path}
            /\ ofile' = <<>>
            /\ finished' = finished \/ (s.eof /\ finished' = finished \cup {path})

LEMMA TakeEffect ==
  ASSUME TypeOK, Data, Takes
  PROVE  Stored(Queue[1])
<1> DEFINE s == Queue[1]
           f == File(s)
           path == Upload(f)
<1>1. /\ WellFormed(s) /\ path \in Names /\ path # <<>> /\ Reading /\ Queue # <<>>
      /\ s = Head(rcvbuf) /\ f \in ToSend
  BY TakenSegment DEF WellFormed
<1>2. /\ Start(s) \in Nat /\ End(s) \in Nat /\ size[f] \in Nat /\ End(s) <= size[f]
  BY <1>1, SegmentNumbers
<1>3. ~s.first => HasOpen(f, Start(s))
  BY <1>1 DEF Data, HeadInv
<1>4. CASE DropSegment
  <2>1. /\ content' = content /\ finished' = finished /\ write_failed' = write_failed
        /\ ofile' = <<>> /\ ofile = <<>> /\ ~s.first
    BY <1>1, <1>4 DEF DropSegment, receiving
  <2>2. path \in write_failed
    BY <1>1, <1>3, <2>1 DEF HasOpen
  <2>3. write_failed' = write_failed \cup {path}
    BY <2>1, <2>2
  <2>4. WholeSegments => /\ Len(content'[path]) <= size[f]
                         /\ \A i \in 1..Len(content'[path]) : content'[path][i] = <<f, i>>
    BY <1>1, <2>1 DEF Data, PrefixInv
  <2>5. content' \in [Names -> Seq(Bytes)]
    BY <2>1 DEF TypeOK
  <2> QED
    BY <2>1, <2>3, <2>4, <2>5 DEF Stored
<1>5. CASE ReadAndStore
  <2> DEFINE new == Given(s)
  <2>1. s.first \/ (ofile = path /\ (WholeSegments => Len(content[path]) = Start(s)))
    BY <1>1, <1>3, <1>5 DEF HasOpen, ReadAndStore
  <2>2. (IF s.first THEN s.name ELSE ofile) = path
    BY <1>1, <2>1 DEF WellFormed
  <2>3. /\ \/ /\ content' = [content EXCEPT ![path] = new]
              /\ ofile' = IF s.eof THEN <<>> ELSE path
              /\ write_failed' = write_failed
           \/ /\ \E n \in 0..Len(new) : content' = [content EXCEPT ![path] = SubSeq(new, 1, n)]
              /\ ofile' = <<>>
              /\ write_failed' = write_failed \cup {path}
        /\ finished' = IF s.eof THEN finished \cup {path} ELSE finished
    <3> DEFINE to == IF s.first THEN s.name ELSE ofile
               got == (IF s.first THEN <<>> ELSE content[to]) \o Cut(s)
    <3>1. /\ \/ /\ content' = [content EXCEPT ![to] = got]
                /\ ofile' = IF s.eof THEN <<>> ELSE to
                /\ write_failed' = write_failed
             \/ /\ \E n \in 0..Len(got) : content' = [content EXCEPT ![to] = SubSeq(got, 1, n)]
                /\ ofile' = <<>>
                /\ write_failed' = write_failed \cup {to}
          /\ finished' = IF s.eof THEN finished \cup {to} ELSE finished
      BY <1>1, <1>5 DEF ReadAndStore
    <3>2. to = path /\ got = new
      BY <2>2 DEF Given
    <3> HIDE DEF to, got, new, path
    <3> QED
      BY <3>1, <3>2
  <2>4. /\ new \in Seq(Bytes) /\ Len(new) \in Nat
        /\ WholeSegments => Len(new) = End(s) /\ \A i \in 1..End(s) : new[i] = <<f, i>>
    BY <1>1, <2>1, GivenIsPrefix
  <2>5. content \in [Names -> Seq(Bytes)]
    BY DEF TypeOK
  <2> HIDE DEF s, f, path, new
  <2>6. CASE /\ content' = [content EXCEPT ![path] = new]
             /\ ofile' = IF s.eof THEN <<>> ELSE path
             /\ write_failed' = write_failed
    <3>1. /\ content'[path] = new /\ content' \in [Names -> Seq(Bytes)]
          /\ \A n \in Names : n # path => content'[n] = content[n]
      BY <1>1, <2>4, <2>5, <2>6
    <3>2. WholeSegments => /\ Len(content'[path]) = End(s) /\ Len(content'[path]) <= size[f]
                           /\ \A i \in 1..Len(content'[path]) : content'[path][i] = <<f, i>>
      BY <1>2, <2>4, <3>1
    <3> QED
      BY <2>3, <2>6, <3>1, <3>2 DEF Stored, s, f, path, new
  <2>7. CASE /\ \E n \in 0..Len(new) : content' = [content EXCEPT ![path] = SubSeq(new, 1, n)]
             /\ ofile' = <<>>
             /\ write_failed' = write_failed \cup {path}
    <3>1. PICK n \in 0..Len(new) : content' = [content EXCEPT ![path] = SubSeq(new, 1, n)]
      BY <2>7
    <3> DEFINE u == SubSeq(new, 1, n)
    <3>2. n \in Nat /\ n <= Len(new) /\ \A i \in 1..n : new[i] \in Bytes
      BY <2>4, ElementOfSeq
    <3>3. /\ u \in Seq(Bytes)
          /\ Len(u) = IF 1 <= n THEN n - 1 + 1 ELSE 0
          /\ \A i \in 1..(n - 1 + 1) : u[i] = new[1 + i - 1]
      BY <3>2, SubSeqProperties
    <3>4. content' = [content EXCEPT ![path] = u]
      BY <3>1
    <3> HIDE DEF u
    <3>5. Len(u) = n /\ \A i \in 1..n : u[i] = new[i]
      BY <3>2, <3>3
    <3>6. /\ content'[path] = u /\ content' \in [Names -> Seq(Bytes)]
          /\ \A m \in Names : m # path => content'[m] = content[m]
      BY <1>1, <2>5, <3>3, <3>4
    <3>7. ASSUME WholeSegments
          PROVE  /\ Len(content'[path]) <= size[f]
                 /\ \A i \in 1..Len(content'[path]) : content'[path][i] = <<f, i>>
      <4>1. n <= End(s) /\ \A i \in 1..End(s) : new[i] = <<f, i>>
        BY <2>4, <3>2, <3>7
      <4>2. \A i \in 1..n : i \in 1..End(s)
        BY <1>2, <3>2, <4>1
      <4> QED
        BY <1>2, <3>2, <3>5, <3>6, <4>1, <4>2
    <3> QED
      BY <2>3, <2>7, <3>6, <3>7 DEF Stored, s, f, path
  <2> QED
    BY <2>3, <2>6, <2>7
<1> QED
  BY <1>4, <1>5 DEF Takes

\* Taking the first segment from the receiver's buffer.
LEMMA QueueTail ==
  ASSUME TypeOK, TypeOK', rcvbuf # <<>>, rcvbuf' = Tail(rcvbuf), sndbuf' = sndbuf
  PROVE  /\ Len(Queue) \in Nat /\ Len(Queue) > 0 /\ Len(Queue') = Len(Queue) - 1
         /\ \A i \in 1..(Len(Queue) - 1) : i + 1 \in 1..Len(Queue) /\ Queue'[i] = Queue[i + 1]
         /\ Part(Queue', Queue)
<1> DEFINE r == Len(rcvbuf)
           n == Len(Queue)
<1>1. rcvbuf \in Seq(Segments)
  BY DEF TypeOK
<1>2. /\ r \in Nat /\ r > 0 /\ Len(rcvbuf') = r - 1
      /\ \A i \in 1..(r - 1) : rcvbuf'[i] = rcvbuf[i + 1]
  BY <1>1, EmptySeq, LenProperties, HeadTailProperties
<1>3. /\ n = r + Len(sndbuf) /\ n \in Nat /\ Len(sndbuf) \in Nat
      /\ \A i \in 1..n : Queue[i] = IF i <= r THEN rcvbuf[i] ELSE sndbuf[i - r]
  BY QueueType DEF QueueFacts
<1>4. /\ Len(Queue') = (r - 1) + Len(sndbuf)
      /\ \A i \in 1..Len(Queue') : Queue'[i] = IF i <= r - 1 THEN rcvbuf'[i] ELSE sndbuf[i - (r - 1)]
  BY <1>2, QueueTypeNext DEF QueueFacts
<1> HIDE DEF r, n
<1>5. Len(Queue') = n - 1 /\ n > 0
  BY <1>2, <1>3, <1>4
<1>6. ASSUME NEW i \in 1..(n - 1) PROVE i + 1 \in 1..n /\ Queue'[i] = Queue[i + 1]
  <2>1. i + 1 \in 1..n /\ i \in 1..Len(Queue')
    BY <1>3, <1>5
  <2>2. CASE i <= r - 1
    BY <1>2, <1>3, <1>4, <2>1, <2>2
  <2>3. CASE i > r - 1
    <3>1. i - (r - 1) = (i + 1) - r /\ ~(i <= r - 1) /\ ~(i + 1 <= r)
      BY <1>2, <2>3
    <3> QED
      BY <1>3, <1>4, <2>1, <3>1
  <2> QED
    BY <1>2, <2>1, <2>2, <2>3
<1>7. Part(Queue', Queue)
  <2>1. \A i \in 1..Len(Queue') : 1 + i \in 1..n /\ Queue'[i] = Queue[1 + i]
    <3> SUFFICES ASSUME NEW i \in 1..Len(Queue') PROVE 1 + i \in 1..n /\ Queue'[i] = Queue[1 + i]
      OBVIOUS
    <3>1. i \in 1..(n - 1) /\ 1 + i = i + 1
      BY <1>5
    <3> QED
      BY <1>6, <3>1
  <2> QED
    BY <2>1 DEF Part, n
<1> QED
  BY <1>3, <1>5, <1>6, <1>7 DEF n

LEMMA ReadData ==
  ASSUME TypeOK, TypeOK', ScanInv, Data, Takes
  PROVE  Data'
<1> DEFINE s == Queue[1]
           f == File(s)
           n == Len(Queue)
<1>1. /\ UNCHANGED <<fixed, filenames, pc, force_break, link, sndbuf, current, pos, segment, outcome>>
      /\ src_path' = src_path /\ size' = size
  BY DEF Takes, ReadAndStore, DropSegment, fixed, process, sending, receiving
<1>2. /\ WellFormed(s) /\ Reading /\ rcvbuf # <<>> /\ rcvbuf' = Tail(rcvbuf)
      /\ finished' = finished \/ (s.eof /\ finished' = finished \cup {Upload(f)})
      /\ write_failed' = write_failed \/ write_failed' = write_failed \cup {Upload(f)}
      /\ Stored(s)
  BY TakenSegment, TakeEffect DEF Stored
<1>3. /\ WholeSegments =>
           /\ Len(content'[Upload(f)]) <= size[f]
           /\ \A i \in 1..Len(content'[Upload(f)]) : content'[Upload(f)][i] = <<f, i>>
      /\ WholeSegments /\ Upload(f) \notin write_failed' =>
           /\ Len(content'[Upload(f)]) = End(s)
           /\ s.eof => Upload(f) \in finished'
      /\ \/ /\ ofile' = Upload(f) /\ ~s.eof
            /\ WholeSegments => Len(content'[Upload(f)]) = End(s)
         \/ ofile' = <<>> /\ (s.eof \/ Upload(f) \in write_failed')
      /\ \A g \in ToSend : g # f =>
           content'[Upload(g)] = content[Upload(g)] /\ Upload(g) # Upload(f)
  <2>1. ASSUME NEW g \in ToSend, g # f
        PROVE  content'[Upload(g)] = content[Upload(g)] /\ Upload(g) # Upload(f)
    <3>1. f \in ToSend /\ src_path \in Paths
      BY <1>2 DEF WellFormed, TypeOK, Paths
    <3>2. Upload(g) # Upload(f) /\ Upload(g) \in Names
      BY <2>1, <3>1, UploadInjective, ToSendPaths
    <3> QED
      BY <1>2, <3>2 DEF Stored
  <2> QED
    BY <1>2, <2>1 DEF Stored
<1>4. /\ n \in Nat /\ n > 0 /\ Len(Queue') = n - 1
      /\ \A i \in 1..(n - 1) : i + 1 \in 1..n /\ Queue'[i] = Queue[i + 1]
      /\ Part(Queue', Queue)
  BY <1>1, <1>2, QueueTail
<1>5. /\ Start(s) \in Nat /\ End(s) \in Nat /\ f \in ToSend /\ size[f] \in Nat
      /\ Start(s) < End(s) /\ End(s) <= size[f] /\ (s.eof => End(s) = size[f])
      /\ src_path \in Paths
  BY <1>2, SegmentNumbers DEF WellFormed, TypeOK, Paths
<1>6. /\ ToSend' = ToSend /\ SentPos' = SentPos /\ (Sending' <=> Sending) /\ (Reading' <=> Reading)
      /\ (Intact' <=> Intact) /\ (WholeSegments' <=> WholeSegments)
      /\ \A k : SentOf(k)' = SentOf(k)
      /\ \A g : Upload(g)' = Upload(g)
  BY <1>1, FixedSets DEF SentPos, Sending, Reading, Intact, SentOf, Upload, Start
<1>7. /\ \A j \in 1..n : WellFormed(Queue[j])
      /\ \A i, j \in 1..n : i < j => Before(Queue[i], Queue[j])
      /\ \A j \in 2..n : Queue[j].first \/ Continues(Queue[j], Queue[j - 1])
      /\ s = Queue[1]
      /\ (Queue' = <<>> <=> n = 1) /\ Queue # <<>>
  BY <1>4, QueueType, QueueTypeNext DEF Data, Chain, QueueFacts
<1>8. Upload(f) \notin finished /\ \A j \in 1..n : Upload(File(Queue[j])) \notin finished
  BY <1>2, <1>4 DEF Data, HeadInv
<1> HIDE DEF s, f, n
\* The rest of the file comes after s.
<1>9. ASSUME NEW j \in 2..n, File(Queue[j]) = f
      PROVE  ~s.eof /\ End(s) <= Start(Queue[j])
  <2>1. j \in 1..n /\ 1 \in 1..n /\ 1 < j
    BY <1>4
  <2>2. PICK k, l \in 1..Len(filenames) :
          /\ f = filenames[k] /\ File(Queue[j]) = filenames[l]
          /\ k < l \/ (k = l /\ End(s) <= Start(Queue[j]))
    BY <1>7, <2>1 DEF Before, f, s
  <2>3. k = l
    BY <1>9, <2>2 DEF ScanInv
  <2>4. /\ Start(Queue[j]) \in Nat /\ End(Queue[j]) \in Nat /\ Start(Queue[j]) < End(Queue[j])
        /\ End(Queue[j]) <= size[f]
    BY <1>7, <1>9, <2>1, SegmentNumbers
  <2> QED
    BY <1>5, <2>2, <2>3, <2>4
<1>10. Chain(Queue)'
  <2>1. Chain(Queue')
    BY <1>4, ChainPart DEF Data, n
  <2> QED
    BY <1>1, <2>1, ChainStays
<1>11. SentInv'
  <2> SUFFICES ASSUME Sending
               PROVE  /\ \A j \in 1..Len(Queue') : SentBefore(Queue[j])'
                      /\ finished' \subseteq {Upload(filenames[k])' : k \in 1..(current' - 1)}
    BY <1>6 DEF SentInv
  <2>1. /\ \A j \in 1..n : SentBefore(Queue[j])
        /\ finished \subseteq {Upload(filenames[k]) : k \in 1..(current - 1)}
    BY DEF Data, SentInv, n
  <2>2. ASSUME NEW j \in 1..Len(Queue') PROVE SentBefore(Queue[j])'
    <3>1. PICK i \in 1..n : Queue'[j] = Queue[i]
      BY <1>4
    <3>2. SentBefore(Queue[i])
      BY <2>1
    <3> QED
      BY <1>1, <1>6, <3>1, <3>2 DEF SentBefore, File, End, Start
  <2>3. s.eof => Upload(f) \in {Upload(filenames[k]) : k \in 1..(current - 1)}
    <3> SUFFICES ASSUME s.eof PROVE \E k \in 1..(current - 1) : Upload(f) = Upload(filenames[k])
      OBVIOUS
    <3>1. PICK k \in 1..Len(filenames) : f = filenames[k] /\ k < current
      <4>1. SentBefore(s)
        BY <1>4, <1>7, <2>1
      <4> QED
        BY <4>1 DEF SentBefore, f
    <3>2. k \in 1..(current - 1)
      BY <3>1 DEF TypeOK
    <3> QED
      BY <3>1, <3>2
  <2>4. {Upload(filenames[k]) : k \in 1..(current - 1)}
          = {Upload(filenames[k])' : k \in 1..(current' - 1)}
    BY <1>1, <1>6
  <2> QED
    BY <1>2, <2>1, <2>2, <2>3, <2>4 DEF s, f
<1>12. HeadInv'
  <2>1. ASSUME Queue' # <<>>, ~Queue'[1].first
        PROVE  HasOpen(File(Queue[1]), Start(Queue[1]))'
    <3>1. 2 \in 2..n /\ Queue'[1] = Queue[2] /\ 2 - 1 = 1
      BY <1>4, <1>7, <2>1
    <3>2. File(Queue[2]) = f /\ Start(Queue[2]) = End(s) /\ ~s.eof
      BY <1>7, <2>1, <3>1 DEF Continues, f
    <3>3. \/ ofile' = Upload(f) /\ (WholeSegments => Len(content'[Upload(f)]) = End(s))
          \/ ofile' = <<>> /\ Upload(f) \in write_failed'
      BY <1>3, <3>2
    <3>4. File(Queue[1])' = f /\ Start(Queue[1])' = End(s) /\ Upload(File(Queue[1]))' = Upload(f)
      BY <1>1, <3>1, <3>2 DEF File, Start, Upload
    <3> QED
      BY <1>6, <3>3, <3>4 DEF HasOpen
  <2>2. ASSUME NEW j \in 1..Len(Queue') PROVE Upload(File(Queue[j]))' \notin finished'
    <3>1. j + 1 \in 2..n /\ j + 1 \in 1..n /\ Queue'[j] = Queue[j + 1]
      BY <1>4
    <3>2. Upload(File(Queue[j]))' = Upload(File(Queue[j + 1]))
      BY <1>1, <3>1 DEF Upload, File
    <3>3. ASSUME s.eof PROVE Upload(File(Queue[j + 1])) # Upload(f)
      <4>1. File(Queue[j + 1]) # f
        BY <1>9, <3>1, <3>3
      <4>2. File(Queue[j + 1]) \in ToSend
        BY <1>7, <3>1 DEF WellFormed
      <4> QED
        BY <1>5, <4>1, <4>2, UploadInjective
    <3> QED
      BY <1>2, <1>8, <3>1, <3>2, <3>3 DEF s, f
  <2> QED
    BY <2>1, <2>2 DEF HeadInv
<1>13. TailInv'
  <2> SUFFICES ASSUME link = "up", pc["sender"] \in {"segment", "write"}, SentPos > 0
               PROVE  /\ Queue' = <<>> => HasOpen(filenames[current], SentPos)'
                      /\ Queue' # <<>> =>
                           /\ File(Queue[Len(Queue)])' = filenames'[current']
                           /\ End(Queue[Len(Queue)])' = SentPos'
                           /\ ~Queue'[Len(Queue')].eof
    BY <1>1, <1>6 DEF TailInv
  <2>1. File(Queue[n]) = filenames[current] /\ End(Queue[n]) = SentPos /\ ~Queue[n].eof
    BY <1>7 DEF Data, TailInv, n
  <2>2. ASSUME Queue' = <<>>
        PROVE  HasOpen(filenames[current], SentPos)'
    <3>1. s = Queue[n] /\ f = filenames[current] /\ End(s) = SentPos /\ ~s.eof
      BY <1>7, <2>1, <2>2 DEF f
    <3>2. \/ ofile' = Upload(f) /\ (WholeSegments => Len(content'[Upload(f)]) = End(s))
          \/ ofile' = <<>> /\ Upload(f) \in write_failed'
      BY <1>3, <3>1
    <3>3. Upload(filenames[current])' = Upload(f) /\ SentPos' = End(s)
      BY <1>1, <1>6, <3>1 DEF Upload
    <3> QED
      BY <1>6, <3>2, <3>3 DEF HasOpen
  <2>3. ASSUME Queue' # <<>>
        PROVE  /\ File(Queue[Len(Queue)])' = filenames'[current']
               /\ End(Queue[Len(Queue)])' = SentPos'
               /\ ~Queue'[Len(Queue')].eof
    <3>1. n - 1 \in 1..(n - 1) /\ (n - 1) + 1 = n
      BY <1>4, <1>7, <2>3
    <3>2. Queue'[Len(Queue')] = Queue[n]
      BY <1>4, <3>1
    <3> QED
      BY <1>1, <1>6, <2>1, <3>2 DEF File, End, Start
  <2> QED
    BY <2>2, <2>3
<1>14. PrefixInv'
  <2> SUFFICES ASSUME WholeSegments, NEW g \in ToSend
               PROVE  /\ Len(content'[Upload(g)]) <= size[g]
                      /\ \A i \in 1..Len(content'[Upload(g)]) : content'[Upload(g)][i] = <<g, i>>
    BY <1>1, <1>6 DEF PrefixInv, Upload
  <2>1. CASE g = f
    BY <1>3, <2>1
  <2>2. CASE g # f
    <3>1. content'[Upload(g)] = content[Upload(g)]
      BY <1>3, <2>2
    <3> QED
      BY <3>1 DEF Data, PrefixInv
  <2> QED
    BY <2>1, <2>2
<1>15. DoneIsComplete'
  <2> SUFFICES ASSUME NEW g \in ToSend, Sound(Upload(g))'
               PROVE  /\ Upload(g) \in finished' => Len(content'[Upload(g)]) = size[g]
                      /\ Len(content'[Upload(g)]) = size[g] /\ size[g] > 0 /\ ~FillsSegments(size[g])
                           => Upload(g) \in finished'
    BY <1>1, <1>6 DEF DoneIsComplete, Upload
  <2>1. CASE g = f
    <3>1. Len(content'[Upload(f)]) = End(s) /\ (s.eof => Upload(f) \in finished')
      <4>1. WholeSegments /\ Upload(f) \notin write_failed'
        BY <1>6, <2>1 DEF Sound
      <4> QED
        BY <1>3, <4>1
    <3>2. Upload(f) \in finished' => s.eof
      BY <1>2, <1>8 DEF s, f
    <3>3. End(s) = size[f] /\ ~FillsSegments(size[f]) => s.eof
      BY <1>2 DEF WellFormed
    <3> QED
      BY <1>5, <2>1, <3>1, <3>2, <3>3
  <2>2. CASE g # f
    <3>1. content'[Upload(g)] = content[Upload(g)] /\ Upload(g) # Upload(f)
      BY <1>3, <2>2
    <3>2. Upload(g) \in finished' <=> Upload(g) \in finished
      BY <1>2, <3>1 DEF s, f
    <3>3. Sound(Upload(g))
      BY <1>1, <1>2, <1>6, <3>1 DEF Sound, Upload, s, f
    <3> QED
      BY <3>1, <3>2, <3>3 DEF Data, DoneIsComplete
  <2> QED
    BY <2>1, <2>2
<1>16. DeliveryInv'
  <2> SUFFICES ASSUME Intact, NEW k \in 1..Len(filenames), Sound(Upload(filenames[k]))'
               PROVE  /\ Len(content'[Upload(filenames[k])']) <= SentOf(k)'
                      /\ \A i \in Nat :
                           i \in (Len(content'[Upload(filenames[k])']) + 1)..SentOf(k)'
                             <=> \E j \in 1..Len(Queue') : Has(Queue[j], filenames[k], i)'
    BY <1>1, <1>6 DEF DeliveryInv
  <2> DEFINE g == filenames[k]
             l == Len(content[Upload(g)])
  <2>0. Sound(Upload(g))
    BY <1>1, <1>2, <1>6 DEF Sound
  <2>1. /\ l <= SentOf(k)
        /\ \A i \in Nat : i \in (l + 1)..SentOf(k) <=> \E j \in 1..n : Has(Queue[j], g, i)
    BY <2>0 DEF Data, DeliveryInv, n
  <2>2. Upload(filenames[k])' = Upload(g) /\ SentOf(k)' = SentOf(k) /\ g \in ToSend
    BY <1>1, <1>6 DEF ScanInv, Upload
  <2>3. l \in Nat
    <3>1. content[Upload(g)] \in Seq(Bytes)
      BY <2>2, ToSendPaths DEF TypeOK
    <3> QED
      BY <3>1, LenProperties
  <2>4. \A i \in Nat : (\E j \in 1..Len(Queue') : Has(Queue[j], filenames[k], i)')
                         <=> \E j \in 2..n : Has(Queue[j], g, i)
    <3>1. \A j \in 1..(n - 1), i \in Nat :
            Has(Queue[j], filenames[k], i)' <=> Has(Queue[j + 1], g, i)
      BY <1>1, <1>4 DEF Has, File, Start, End
    <3>2. \A j \in 2..n : j - 1 \in 1..(n - 1) /\ (j - 1) + 1 = j
      BY <1>4
    <3>3. \A j \in 1..(n - 1) : j + 1 \in 2..n
      BY <1>4
    <3> QED
      BY <1>4, <3>1, <3>2, <3>3
  <2> HIDE DEF g, l
  <2>5. CASE g = f
    <3>1. Len(content'[Upload(g)]) = End(s)
      <4>1. WholeSegments /\ Upload(f) \notin write_failed'
        BY <1>6, <2>2, <2>5 DEF Sound, g
      <4> QED
        BY <1>3, <2>5, <4>1
    <3>2. \A i \in Nat : Has(s, g, i) <=> Start(s) < i /\ i <= End(s)
      BY <2>5 DEF Has, f
    <3>3. End(s) \in (l + 1)..SentOf(k)
      BY <1>4, <1>5, <1>7, <2>1, <3>2
    <3>4. ASSUME NEW i \in Nat
          PROVE  i \in (End(s) + 1)..SentOf(k) <=> \E j \in 2..n : Has(Queue[j], g, i)
      <4>1. ASSUME i \in (End(s) + 1)..SentOf(k) PROVE \E j \in 2..n : Has(Queue[j], g, i)
        <5>1. i \in (l + 1)..SentOf(k) /\ ~Has(s, g, i)
          BY <1>5, <2>3, <3>2, <3>3, <4>1
        <5>2. PICK j \in 1..n : Has(Queue[j], g, i)
          BY <2>1, <5>1
        <5>3. j \in 2..n
          BY <1>4, <1>7, <5>1, <5>2
        <5> QED
          BY <5>2, <5>3
      <4>2. ASSUME NEW j \in 2..n, Has(Queue[j], g, i) PROVE i \in (End(s) + 1)..SentOf(k)
        <5>1. j \in 1..n
          BY <1>4
        <5>2. i \in (l + 1)..SentOf(k)
          BY <2>1, <4>2, <5>1
        <5>3. End(s) <= Start(Queue[j]) /\ Start(Queue[j]) < i /\ Start(Queue[j]) \in Nat
          BY <1>7, <1>9, <2>5, <4>2, <5>1, SegmentNumbers DEF Has
        <5> QED
          BY <1>5, <3>3, <5>2, <5>3
      <4> QED
        BY <4>1, <4>2
    <3>5. End(s) <= SentOf(k)
      BY <3>3
    <3> QED
      BY <2>2, <2>4, <3>1, <3>4, <3>5
  <2>6. CASE g # f
    <3>1. content'[Upload(g)] = content[Upload(g)]
      BY <1>3, <2>2, <2>6
    <3>2. \A i \in Nat : ~Has(s, g, i)
      BY <2>6 DEF Has, f
    <3>3. \A i \in Nat : (\E j \in 1..n : Has(Queue[j], g, i)) <=> \E j \in 2..n : Has(Queue[j], g, i)
      BY <1>4, <1>7, <3>2
    <3> QED
      BY <2>1, <2>2, <2>4, <3>1, <3>3 DEF l
  <2> QED
    BY <2>5, <2>6
<1> QED
  BY <1>10, <1>11, <1>12, <1>13, <1>14, <1>15, <1>16 DEF Data

-----------------------------------------------------------------------------
(* What steps that hand over nothing have in common.                       *)

\* As long as there is no connection there is no data.
LEMMA IdleStep ==
  ASSUME TypeOK', ScanInv', LinkInv', link' = "none"
  PROVE  Data'
<1>1. Idle'
  BY DEF LinkInv, Idle, Intact, Reading
<1> QED
  BY <1>1, IdleDataNext

\* The sender stays where it is, or goes to its end.
SenderStays ==
  /\ UNCHANGED <<fixed, filenames, current, pos, is_start, segment>>
  /\ Sending' => pc'["sender"] = pc["sender"] /\ outcome' = outcome
  /\ pc'["sender"] = "drain" /\ outcome' = "none" /\ ~force_break'["sender"] =>
       current = Len(filenames) + 1
  /\ outcome' = "complete" =>
       /\ pc'["sender"] \in {"join", "returned"}
       /\ current = Len(filenames) + 1
       /\ sndbuf' = <<>>

LEMMA SenderStaysInv ==
  ASSUME SenderInv, SenderStays
  PROVE  SenderInv'
<1>1. UNCHANGED <<fixed, filenames, current, pos, is_start, segment>> /\ size' = size
  BY DEF SenderStays, fixed
<1>2. Sending' <=> pc'["sender"] \in {"open", "segment", "write"}
  BY DEF Sending
<1>3. Sending <=> pc["sender"] \in {"open", "segment", "write"}
  BY DEF Sending
<1>4. current' <= Len(filenames') + 1
  BY <1>1 DEF SenderInv
<1>5. /\ pc'["sender"] \in {"segment", "write"} =>
           current' <= Len(filenames') /\ pos' <= size'[filenames'[current']]
      /\ pc'["sender"] = "segment" => (is_start' <=> pos' = 0) /\ (pos' = 0 \/ FillsSegments(pos'))
      /\ Sending' => outcome' = "none"
  BY <1>1, <1>2, <1>3 DEF SenderInv, SenderStays
<1>6. ASSUME pc'["sender"] = "write"
      PROVE  WellFormed(segment)' /\ File(segment)' = filenames'[current'] /\ End(segment)' = pos'
  <2>1. WellFormed(segment) /\ File(segment) = filenames[current] /\ End(segment) = pos
    BY <1>2, <1>6 DEF SenderInv, SenderStays
  <2> QED
    BY <1>1, <2>1, FixedSets DEF WellFormed, File, Start, End, Upload
<1> QED
  BY <1>1, <1>4, <1>5, <1>6 DEF SenderInv, SenderStays

LEMMA StaysQuiet ==
  ASSUME SenderStays, UNCHANGED <<content, finished, write_failed>>,
         Part(Queue', Queue),
         Reading' => /\ Reading /\ ofile' = ofile
                     /\ Queue' # <<>> => Queue # <<>> /\ Queue'[1] = Queue[1],
         link' = "up" =>
           /\ link = "up"
           /\ Reading' => Queue' = Queue
           /\ Queue' # <<>> => Queue # <<>> /\ Queue'[Len(Queue')] = Queue[Len(Queue)],
         Intact' => /\ Intact /\ Queue' = Queue
                    /\ pc'["sender"] = pc["sender"] \/ pc["sender"] \notin {"segment", "write"}
  PROVE  Quiet
<1>1. UNCHANGED <<fixed, filenames, current, pos, is_start, segment>> /\ size' = size
  BY DEF SenderStays, fixed
<1>2. Sending' => Sending /\ pc'["sender"] = pc["sender"]
  BY DEF SenderStays, Sending
<1>3. pc'["sender"] = pc["sender"] => SentPos' = SentPos
  BY <1>1 DEF SentPos, Start
<1>4. pc'["sender"] \in {"segment", "write"} =>
        pc["sender"] \in {"segment", "write"} /\ SentPos' = SentPos
  BY <1>2, <1>3 DEF Sending
<1>5. ASSUME Intact', NEW k \in 1..Len(filenames) PROVE SentOf(k)' = SentOf(k)
  <2>1. CASE pc'["sender"] = pc["sender"]
    BY <1>1, <1>3, <2>1 DEF SentOf
  <2>2. CASE pc["sender"] \notin {"segment", "write"}
    <3>1. pc'["sender"] \notin {"segment", "write"}
      BY <1>4, <2>2
    <3> QED
      BY <1>1, <2>2, <3>1 DEF SentOf
  <2> QED
    BY <1>5, <2>1, <2>2
<1>6. Sending' =>
        /\ Sending
        /\ current' = current
        /\ pc["sender"] = "open" \/ (pc'["sender"] # "open" /\ SentPos' = SentPos)
  BY <1>1, <1>2, <1>3
<1> QED
  BY <1>1, <1>4, <1>5, <1>6 DEF Quiet

LEMMA QueueSame ==
  ASSUME TypeOK, UNCHANGED <<rcvbuf, sndbuf>>
  PROVE  Queue' = Queue /\ Part(Queue', Queue)
<1>1. Queue' = Queue /\ Len(Queue) \in Nat
  BY QueueType DEF Queue, QueueFacts
<1>2. 0 \in Nat /\ \A i \in 1..Len(Queue') : 0 + i \in 1..Len(Queue) /\ Queue'[i] = Queue[0 + i]
  BY <1>1
<1> QED
  BY <1>1, <1>2 DEF Part

\* What is not yet delivered is lost.
LEMMA QueueCut ==
  ASSUME TypeOK, TypeOK', sndbuf' = <<>>, rcvbuf' = rcvbuf \/ rcvbuf' = <<>>
  PROVE  /\ Part(Queue', Queue)
         /\ rcvbuf' = rcvbuf /\ Queue' # <<>> => Queue # <<>> /\ Queue'[1] = Queue[1]
         /\ rcvbuf' = rcvbuf /\ sndbuf = <<>> => Queue' = Queue
<1> DEFINE r == Len(rcvbuf')
           n == Len(Queue)
<1>1. /\ Len(Queue') = r /\ r \in Nat /\ (Queue' = <<>> <=> r = 0)
      /\ \A i \in 1..r : Queue'[i] = rcvbuf'[i]
  BY QueueTypeNext DEF QueueFacts
<1>2. /\ n \in Nat /\ n = Len(rcvbuf) + Len(sndbuf) /\ Len(rcvbuf) \in Nat /\ Len(sndbuf) \in Nat
      /\ (Queue = <<>> <=> n = 0)
      /\ \A i \in 1..n : Queue[i] = IF i <= Len(rcvbuf) THEN rcvbuf[i] ELSE sndbuf[i - Len(rcvbuf)]
  BY QueueType DEF QueueFacts
<1>3. Len(rcvbuf) = r \/ r = 0
  OBVIOUS
<1> HIDE DEF r, n
<1>4. ASSUME NEW i \in 1..r PROVE i \in 1..n /\ Queue'[i] = Queue[i]
  <2>1. rcvbuf' = rcvbuf /\ Len(rcvbuf) = r
    BY <1>1, <1>4 DEF r
  <2>2. i \in 1..n /\ i <= Len(rcvbuf)
    BY <1>1, <1>2, <2>1
  <2> QED
    BY <1>1, <1>2, <2>1, <2>2
<1>5. 0 \in Nat /\ \A i \in 1..Len(Queue') : 0 + i \in 1..Len(Queue) /\ Queue'[i] = Queue[0 + i]
  BY <1>1, <1>4 DEF n
<1>6. Part(Queue', Queue)
  BY <1>5 DEF Part
<1>7. rcvbuf' = rcvbuf /\ Queue' # <<>> => Queue # <<>> /\ Queue'[1] = Queue[1]
  BY <1>1, <1>2, <1>4
<1>8. rcvbuf' = rcvbuf /\ sndbuf = <<>> => Queue' = Queue
  BY DEF Queue
<1> QED
  BY <1>6, <1>7, <1>8

-----------------------------------------------------------------------------
(* The initial states, and the steps before the connection.                *)

LEMMA InitInv == Init => IInv
<1> SUFFICES ASSUME Init PROVE IInv
  OBVIOUS
<1>1. TypeOK
  <2>1. src_path \in Paths /\ size \in [Files -> Nat]
    BY FileTransferAssumption DEF Init, Paths
  <2>2. current \in 1..(Cardinality(Files) + 1)
    <3>1. IsFiniteSet(Files)
      BY FileSystemAssumption, FS_Subset
    <3>2. Cardinality(Files) \in Nat
      BY <3>1, FS_CardinalityType
    <3> QED
      BY <3>2 DEF Init
  <2>3. pc \in [Procs -> {"scan", "connect", "open", "segment", "write", "drain", "read",
                          "join", "returned", "terminated"}]
    BY DEF Init, Procs
  <2>4. /\ sndbuf \in Seq(Segments) /\ Len(sndbuf) <= SndBuf
        /\ rcvbuf \in Seq(Segments) /\ Len(rcvbuf) <= RcvBuf
    BY FileTransferAssumption DEF Init
  <2>5. subdirs \in Seq(Folders \cup Files) /\ filenames \in Seq(Files)
    BY <2>1 DEF Init, Paths
  <2>6. content \in [Names -> Seq(Bytes)]
    BY DEF Init
  <2>7. /\ stats \in [Procs -> {"off", "idle", "test", "sleep", "ended"}]
        /\ local_break \in [Procs -> BOOLEAN] /\ force_break \in [Procs -> BOOLEAN]
        /\ sock \in [Procs -> {"open", "closed"}]
    BY DEF Init
  <2> QED
    BY <2>1, <2>2, <2>3, <2>4, <2>5, <2>6, <2>7 DEF TypeOK, Init, Paths
<1>2. ScanInv
  <2>1. /\ filenames = <<>> /\ Len(filenames) = 0 /\ subdirs = <<src_path>> /\ Len(subdirs) = 1
        /\ subdirs[1] = src_path /\ pc["sender"] = "scan" /\ src_path \in Paths
    BY <1>1 DEF Init, Procs, TypeOK, Paths
  <2>2. IsPrefix(src_path, src_path)
    BY <2>1, PrefixRefl
  <2>3. \A f \in ToSend : IsPrefix(src_path, f)
    BY DEF ToSend
  <2>4. \A i \in 1..Len(subdirs) : i = 1
    BY <2>1
  <2>5. 1 \in 1..Len(subdirs)
    BY <2>1
  <2>6. \A f \in ToSend : \E i \in 1..Len(subdirs) : IsPrefix(subdirs[i], f)
    BY <2>1, <2>3, <2>5
  <2> QED
    BY <2>1, <2>2, <2>4, <2>6 DEF ScanInv
<1>3. LinkInv
  BY DEF Init, LinkInv, Procs
<1>4. SenderInv
  BY DEF Init, SenderInv, Sending, Procs
<1>5. Idle
  BY DEF Init, Idle, Procs
<1> QED
  BY <1>1, <1>2, <1>3, <1>4, <1>5, IdleData DEF IInv

LEMMA ScanStep ==
  ASSUME IInv, ScanFolder \/ ScanFile
  PROVE  IInv'
<1>1. /\ pc["sender"] = "scan" /\ link = "none"
      /\ UNCHANGED <<fixed, pc, process, network, receiving, current, pos, is_start, segment, outcome>>
  BY DEF ScanFolder, ScanFile, IInv, LinkInv
<1>2. ScanInv' /\ subdirs' \in Seq(Paths) /\ filenames' \in Seq(Files)
  BY ScanFolderInv, ScanFileInv DEF IInv
<1>3. TypeOK'
  BY <1>1, <1>2, FixedSets DEF IInv, TypeOK, process, network, receiving, Paths
<1>4. LinkInv'
  BY <1>1, FixedSets DEF IInv, LinkInv, process, network, receiving
<1>5. SenderInv'
  <2>1. current' = 1 /\ Len(filenames') \in Nat /\ pc'["sender"] = "scan" /\ outcome' = "none"
    BY <1>1, <1>2, LenProperties DEF IInv, LinkInv
  <2> QED
    BY <2>1 DEF SenderInv, Sending
<1>6. link' = "none"
  BY <1>1 DEF network
<1> QED
  BY <1>2, <1>3, <1>4, <1>5, <1>6, IdleStep DEF IInv

LEMMA ScanDoneStep ==
  ASSUME IInv, ScanDone
  PROVE  IInv'
<1>1. /\ pc["sender"] = "scan" /\ link = "none" /\ subdirs = <<>> /\ outcome = "none"
      /\ pc' = [pc EXCEPT !["sender"] = IF filenames = <<>> THEN "returned" ELSE "connect"]
      /\ pc'["sender"] \in {"returned", "connect"} /\ pc'["receiver"] = pc["receiver"]
      /\ UNCHANGED <<fixed, process, network, sending, receiving>>
  BY DEF ScanDone, IInv, LinkInv, TypeOK, Procs
<1>2. ScanInv'
  BY <1>1, ScanStays DEF IInv, sending
<1>3. TypeOK'
  BY <1>1, FixedSets DEF IInv, TypeOK, process, network, receiving, sending, Procs
<1>4. LinkInv'
  BY <1>1, FixedSets DEF IInv, LinkInv, process, network, receiving, sending
<1>5. SenderInv'
  <2>1. SenderStays
    BY <1>1 DEF SenderStays, Sending, sending
  <2> QED
    BY <2>1, SenderStaysInv DEF IInv
<1>6. link' = "none"
  BY <1>1 DEF network
<1> QED
  BY <1>2, <1>3, <1>4, <1>5, <1>6, IdleStep DEF IInv

LEMMA ScanThrowsStep ==
  ASSUME IInv, ScanThrows
  PROVE  IInv'
<1>1. /\ pc["sender"] = "scan" /\ link = "none" /\ outcome = "none"
      /\ pc' = [pc EXCEPT !["sender"] = "terminated"]
      /\ pc'["sender"] = "terminated" /\ pc'["receiver"] = pc["receiver"]
      /\ UNCHANGED <<fixed, process, network, sending, receiving>>
  BY DEF ScanThrows, IInv, LinkInv, TypeOK, Procs
<1>2. ScanInv'
  BY <1>1, ScanStays DEF IInv, sending
<1>3. TypeOK'
  BY <1>1, FixedSets DEF IInv, TypeOK, process, network, receiving, sending, Procs
<1>4. LinkInv'
  BY <1>1, FixedSets DEF IInv, LinkInv, process, network, receiving, sending
<1>5. SenderInv'
  <2>1. SenderStays
    BY <1>1 DEF SenderStays, Sending, sending
  <2> QED
    BY <2>1, SenderStaysInv DEF IInv
<1>6. link' = "none"
  BY <1>1 DEF network
<1> QED
  BY <1>2, <1>3, <1>4, <1>5, <1>6, IdleStep DEF IInv

LEMMA ConnectStep ==
  ASSUME IInv, Connect
  PROVE  IInv'
<1>1. /\ pc["sender"] = "connect" /\ link = "none" /\ current = 1 /\ outcome = "none"
      /\ link' = "up" /\ pc'["sender"] = "open" /\ pc'["receiver"] = "read"
      /\ pc' \in [Procs -> {"open", "read"}]
      /\ stats' \in [Procs -> {"test", "off"}]
      /\ UNCHANGED <<fixed, local_break, force_break, sock, sndbuf, rcvbuf, sending, receiving>>
  BY DEF Connect, IInv, LinkInv, TypeOK, Procs
<1>2. ScanInv'
  BY <1>1, ScanStays DEF IInv, sending, ScanInv
<1>3. TypeOK'
  BY <1>1, FixedSets DEF IInv, TypeOK, receiving, sending
<1>4. LinkInv'
  BY <1>1 DEF IInv, LinkInv
<1>5. SenderInv'
  BY <1>1 DEF IInv, SenderInv, Sending, sending
<1>6. Idle'
  BY <1>1, FixedSets DEF IInv, LinkInv, Idle, receiving, sending
<1> QED
  BY <1>2, <1>3, <1>4, <1>5, <1>6, IdleDataNext DEF IInv

-----------------------------------------------------------------------------
(* The steps that leave the buffers alone.                                 *)

LEMMA BuffersStay ==
  ASSUME IInv, TypeOK', ScanInv', LinkInv', SenderStays,
         UNCHANGED <<link, rcvbuf, sndbuf, ofile, content, finished, write_failed>>,
         Reading' => Reading,
         Intact' => /\ Intact
                    /\ pc'["sender"] = pc["sender"] \/ pc["sender"] \notin {"segment", "write"}
  PROVE  IInv' /\ Quiet
<1>1. Queue' = Queue /\ Part(Queue', Queue)
  BY QueueSame DEF IInv
<1>2. Quiet
  BY <1>1, StaysQuiet
<1>3. SenderInv'
  BY SenderStaysInv DEF IInv
<1> QED
  BY <1>2, <1>3, QuietData DEF IInv

LEMMA ConnectFailsStep ==
  ASSUME IInv, NEW p \in Procs, ConnectFails(p)
  PROVE  IInv'
<1>1. /\ pc[p] = "connect" /\ pc' = [pc EXCEPT ![p] = "returned"] /\ link = "none"
      /\ sock' = [sock EXCEPT ![p] = "closed"] /\ outcome = "none"
      /\ UNCHANGED <<fixed, process, link, sndbuf, rcvbuf, sending, receiving>>
  BY DEF ConnectFails, IInv, LinkInv, TypeOK, Procs
<1>2. \A q \in Procs : pc'[q] = pc[q] \/ (pc[q] = "connect" /\ pc'[q] = "returned")
  BY <1>1 DEF IInv, TypeOK, Procs
<1>3. "sender" \in Procs /\ "receiver" \in Procs
  BY DEF Procs
<1>4. ScanInv'
  BY <1>1, <1>2, <1>3, ScanStays DEF IInv, sending, ScanInv
<1>5. TypeOK'
  BY <1>1, FixedSets DEF IInv, TypeOK, process, receiving, sending, Procs
<1>6. LinkInv'
  BY <1>1, <1>2, <1>3, FixedSets DEF IInv, LinkInv, receiving, sending
<1>7. SenderInv'
  <2>1. SenderStays
    BY <1>1, <1>2, <1>3 DEF SenderStays, Sending, sending, IInv, LinkInv
  <2> QED
    BY <2>1, SenderStaysInv DEF IInv
<1> QED
  BY <1>1, <1>4, <1>5, <1>6, <1>7, IdleStep DEF IInv

LEMMA LoggerStep ==
  ASSUME IInv, NEW p \in Procs, Logger(p)
  PROVE  IInv' /\ Quiet
<1>1. /\ UNCHANGED <<fixed, pc, local_break, force_break, network, sending, receiving>>
      /\ \E v \in {"ended", "sleep", "test"} : stats' = [stats EXCEPT ![p] = v]
  BY DEF Logger, LoggerTests, LoggerPrints
<1>2. ScanInv'
  BY <1>1, ScanStays DEF IInv, sending, ScanInv
<1>3. TypeOK'
  BY <1>1, FixedSets DEF IInv, TypeOK, network, receiving, sending, Procs
<1>4. LinkInv'
  BY <1>1, FixedSets DEF IInv, LinkInv, network, receiving, sending
<1>5. SenderStays
  BY <1>1 DEF SenderStays, Sending, sending, network, IInv, SenderInv
<1>6. (Reading' => Reading) /\ (Intact' => Intact)
  BY <1>1 DEF Reading, Intact, Sending, sending, network
<1> QED
  BY <1>1, <1>2, <1>3, <1>4, <1>5, <1>6, BuffersStay DEF network, receiving

LEMMA StutterStep ==
  ASSUME IInv, UNCHANGED vars
  PROVE  IInv' /\ Quiet
<1>1. ScanInv'
  BY ScanStays DEF IInv, ScanInv, vars, fixed
<1>2. TypeOK'
  BY FixedSets DEF IInv, TypeOK, vars, fixed
<1>3. LinkInv'
  BY FixedSets DEF IInv, LinkInv, vars, fixed
<1>4. SenderStays
  BY DEF SenderStays, Sending, IInv, SenderInv, vars, fixed
<1>5. (Reading' => Reading) /\ (Intact' => Intact)
  BY DEF Reading, Intact, Sending, vars
<1> QED
  BY <1>1, <1>2, <1>3, <1>4, <1>5, BuffersStay DEF vars

LEMMA ReceiverEndsStep ==
  ASSUME IInv, ReceiverStops \/ ReadThrows
  PROVE  IInv' /\ Quiet
<1>1. /\ UNCHANGED <<fixed, stats, force_break, network, sending, receiving>>
      /\ pc["receiver"] = "read" /\ pc' = [pc EXCEPT !["receiver"] = "join"]
      /\ local_break' \in [Procs -> BOOLEAN]
  BY DEF ReceiverStops, ReadThrows, Goto, process, IInv, TypeOK, Procs
<1>2. pc'["sender"] = pc["sender"] /\ pc'["receiver"] = "join"
  BY <1>1 DEF IInv, TypeOK, Procs
<1>3. ScanInv'
  BY <1>1, <1>2, ScanStays DEF IInv, sending, ScanInv
<1>4. TypeOK'
  BY <1>1, FixedSets DEF IInv, TypeOK, network, receiving, sending, Procs
<1>5. LinkInv'
  BY <1>1, <1>2, FixedSets DEF IInv, LinkInv, network, receiving, sending
<1>6. SenderStays
  BY <1>1, <1>2 DEF SenderStays, Sending, sending, network, IInv, SenderInv
<1>7. (Reading' => Reading) /\ (Intact' => Intact)
  BY <1>1, <1>2 DEF Reading, Intact, Sending, sending, network
<1> QED
  BY <1>1, <1>2, <1>3, <1>4, <1>5, <1>6, <1>7, BuffersStay DEF network, receiving

\* The sender gives up, or has seen all files.
LEMMA SenderEndsStep ==
  ASSUME IInv, SendFileFails \/ SendFileInterrupted \/ Drained
               \/ (NextFile /\ pc'["sender"] = "drain")
  PROVE  IInv' /\ Quiet
<1>1. /\ UNCHANGED <<fixed, stats, force_break, network, receiving, subdirs, filenames, current,
                     is_start, segment, pos>>
      /\ local_break' \in [Procs -> BOOLEAN]
      /\ pc["sender"] \in {"open", "segment", "drain"}
      /\ \E v \in {"drain", "join"} : pc' = [pc EXCEPT !["sender"] = v]
  BY DEF SendFileFails, SendFileInterrupted, Drained, NextFile, Goto, process, sending,
         IInv, TypeOK, Procs
<1>2. pc'["sender"] \in {"drain", "join"} /\ pc'["receiver"] = pc["receiver"]
  BY <1>1 DEF IInv, TypeOK, Procs
<1>3. link # "none" /\ link \in {"up", "broken"}
  BY <1>1 DEF IInv, LinkInv, TypeOK
<1>4. \/ pc'["sender"] = "drain" /\ outcome' = "failed"
      \/ pc'["sender"] = "drain" /\ outcome' = outcome /\ force_break["sender"]
      \/ /\ pc'["sender"] = "drain" /\ outcome' = outcome
         /\ pc["sender"] = "open" /\ current > Len(filenames)
      \/ pc'["sender"] = "join" /\ outcome' = "failed"
      \/ /\ pc'["sender"] = "join" /\ pc["sender"] = "drain" /\ outcome' = "complete"
         /\ outcome = "none" /\ link # "broken" /\ ~force_break["sender"] /\ sndbuf = <<>>
  BY DEF SendFileFails, SendFileInterrupted, Drained, NextFile, Goto, sending, Fails,
         IInv, TypeOK, Procs
<1>5. outcome # "complete"
  BY <1>1 DEF IInv, SenderInv
<1>6. ScanInv'
  BY <1>1, <1>2, ScanStays DEF IInv, ScanInv
<1>7. TypeOK'
  BY <1>1, <1>4, FixedSets DEF IInv, TypeOK, network, receiving, Procs
<1>8. LinkInv'
  BY <1>1, <1>2, <1>3, FixedSets DEF IInv, LinkInv, network
<1>9. current > Len(filenames) => current = Len(filenames) + 1
  <2>1. current \in Nat /\ Len(filenames) \in Nat
    BY LenProperties DEF IInv, TypeOK
  <2>2. current <= Len(filenames) + 1
    BY DEF IInv, SenderInv
  <2> QED
    BY <2>1, <2>2
<1>10. SenderStays
  BY <1>1, <1>2, <1>4, <1>5, <1>9 DEF SenderStays, Sending, network, IInv, SenderInv
<1>11. Reading' => Reading
  BY <1>1, <1>2 DEF Reading
<1>12. Intact' => Intact /\ pc["sender"] \notin {"segment", "write"}
  BY <1>1, <1>2, <1>3, <1>4, <1>5, <1>11 DEF Intact, Sending, network, IInv, SenderInv
<1> QED
  BY <1>1, <1>6, <1>7, <1>8, <1>10, <1>11, <1>12, BuffersStay DEF network, receiving

-----------------------------------------------------------------------------
(* The connection delivers, or breaks.                                     *)

LEMMA DeliverStep ==
  ASSUME IInv, Deliver
  PROVE  IInv' /\ Quiet
<1>1. /\ link = "up" /\ link' = "up" /\ sndbuf # <<>> /\ Len(rcvbuf) < RcvBuf
      /\ rcvbuf' = Append(rcvbuf, Head(sndbuf)) /\ sndbuf' = Tail(sndbuf)
      /\ UNCHANGED <<fixed, pc, process, sock, sending, receiving>>
  BY DEF Deliver
<1>2. rcvbuf \in Seq(Segments) /\ sndbuf \in Seq(Segments) /\ Len(rcvbuf) \in Nat /\ Len(sndbuf) \in Nat
  BY LenProperties DEF IInv, TypeOK
<1>3. /\ Head(sndbuf) \in Segments /\ Tail(sndbuf) \in Seq(Segments) /\ Len(sndbuf) > 0
      /\ Len(Tail(sndbuf)) = Len(sndbuf) - 1 /\ Head(sndbuf) = sndbuf[1]
      /\ \A i \in 1..(Len(sndbuf) - 1) : Tail(sndbuf)[i] = sndbuf[i + 1]
  BY <1>1, <1>2, EmptySeq, HeadTailProperties
<1>4. /\ rcvbuf' \in Seq(Segments) /\ Len(rcvbuf') = Len(rcvbuf) + 1
      /\ \A i \in 1..Len(rcvbuf) : rcvbuf'[i] = rcvbuf[i]
      /\ rcvbuf'[Len(rcvbuf) + 1] = Head(sndbuf)
  BY <1>1, <1>2, <1>3, AppendProperties
<1>5. ScanInv'
  BY <1>1, ScanStays DEF IInv, sending, ScanInv
<1>6. TypeOK'
  <2>1. sndbuf' \in Seq(Segments) /\ Len(sndbuf') <= SndBuf /\ Len(rcvbuf') <= RcvBuf
    <3>1. Len(sndbuf) <= SndBuf /\ SndBuf \in Nat /\ RcvBuf \in Nat
      BY FileTransferAssumption DEF IInv, TypeOK
    <3> QED
      BY <1>1, <1>2, <1>3, <1>4, <3>1
  <2> QED
    BY <1>1, <1>4, <2>1, FixedSets DEF IInv, TypeOK, process, receiving, sending
<1>7. LinkInv'
  BY <1>1, FixedSets DEF IInv, LinkInv, sending
<1>8. Queue' = Queue
  <2> DEFINE r == Len(rcvbuf)
             m == Len(sndbuf)
  <2>1. /\ Queue \in Seq(Segments) /\ Len(Queue) = r + m
        /\ \A i \in 1..Len(Queue) : Queue[i] = IF i <= r THEN rcvbuf[i] ELSE sndbuf[i - r]
    BY QueueType DEF IInv, QueueFacts
  <2>2. /\ Queue' \in Seq(Segments) /\ Len(Queue') = (r + 1) + (m - 1)
        /\ \A i \in 1..Len(Queue') : Queue'[i] = IF i <= r + 1 THEN rcvbuf'[i] ELSE sndbuf'[i - (r + 1)]
    <3>1. Segments' = Segments
      BY <1>1, FixedSets
    <3> QED
      BY <1>1, <1>3, <1>4, <1>6, <3>1, QueueTypeNext DEF QueueFacts
  <2>3. r \in Nat /\ m \in Nat /\ m > 0
    BY <1>2, <1>3
  <2>4. /\ \A i \in 1..r : rcvbuf'[i] = rcvbuf[i]
        /\ rcvbuf'[r + 1] = sndbuf[1]
        /\ \A i \in 1..(m - 1) : sndbuf'[i] = sndbuf[i + 1]
    BY <1>1, <1>3, <1>4
  <2> HIDE DEF r, m
  <2>5. ASSUME NEW i \in 1..Len(Queue) PROVE Queue'[i] = Queue[i]
    <3>0. i \in 1..(r + m) /\ i \in 1..Len(Queue')
      BY <2>1, <2>2, <2>3
    <3>1. CASE i <= r
      <4>1. i \in 1..r /\ i <= r + 1
        BY <2>3, <3>0, <3>1
      <4> QED
        BY <2>1, <2>2, <2>4, <3>0, <3>1, <4>1
    <3>2. CASE i = r + 1
      <4>1. i - r = 1 /\ ~(i <= r)
        BY <2>3, <3>2
      <4> QED
        BY <2>1, <2>2, <2>3, <2>4, <3>0, <3>2, <4>1
    <3>3. CASE i > r + 1
      <4>1. i - (r + 1) \in 1..(m - 1) /\ (i - (r + 1)) + 1 = i - r /\ ~(i <= r) /\ ~(i <= r + 1)
        BY <2>3, <3>0, <3>3
      <4> QED
        BY <2>1, <2>2, <2>4, <3>0, <4>1
    <3> QED
      BY <2>3, <3>0, <3>1, <3>2, <3>3
  <2>6. Len(Queue') = Len(Queue)
    BY <2>1, <2>2, <2>3
  <2> QED
    BY <2>1, <2>2, <2>5, <2>6, SeqEqual
<1>9. SenderStays
  BY <1>1 DEF SenderStays, Sending, process, sending, IInv, SenderInv
<1>10. (Reading' => Reading) /\ (Intact' => Intact)
  BY <1>1 DEF Reading, Intact, Sending, sending, process
<1>11. Part(Queue', Queue)
  <2>1. 0 \in Nat /\ \A i \in 1..Len(Queue') : 0 + i \in 1..Len(Queue) /\ Queue'[i] = Queue[0 + i]
    BY <1>8, QueueType DEF IInv, QueueFacts
  <2> QED
    BY <2>1 DEF Part
<1>12. Quiet
  BY <1>1, <1>8, <1>9, <1>10, <1>11, StaysQuiet DEF receiving
<1> QED
  BY <1>5, <1>6, <1>7, <1>9, <1>12, SenderStaysInv, QuietData DEF IInv

\* What is not delivered is lost: the connection breaks or one side closes.
LEMMA BreakStep ==
  ASSUME IInv, TypeOK', ScanInv', LinkInv', SenderStays,
         UNCHANGED <<ofile, content, finished, write_failed>>,
         sndbuf' = <<>>, link' # "up",
         rcvbuf' = rcvbuf \/ (rcvbuf' = <<>> /\ ~Reading'),
         Reading' => Reading,
         outcome' = outcome \/ outcome' = "failed"
  PROVE  IInv' /\ Quiet
<1>1. /\ Part(Queue', Queue)
      /\ rcvbuf' = rcvbuf /\ Queue' # <<>> => Queue # <<>> /\ Queue'[1] = Queue[1]
      /\ rcvbuf' = rcvbuf /\ sndbuf = <<>> => Queue' = Queue
  BY QueueCut DEF IInv
<1>2. Intact' => Intact /\ Queue' = Queue /\ pc["sender"] \notin {"segment", "write"}
  <2> SUFFICES ASSUME Intact' PROVE Intact /\ Queue' = Queue /\ pc["sender"] \notin {"segment", "write"}
    OBVIOUS
  <2>1. Reading' /\ outcome = "complete"
    BY DEF Intact
  <2>2. sndbuf = <<>> /\ pc["sender"] \notin {"segment", "write"}
    BY <2>1 DEF IInv, SenderInv
  <2> QED
    BY <1>1, <2>1, <2>2 DEF Intact
<1>3. Quiet
  BY <1>1, <1>2, StaysQuiet
<1>4. SenderInv'
  BY SenderStaysInv DEF IInv
<1> QED
  BY <1>3, <1>4, QuietData DEF IInv

LEMMA ConnectionLostStep ==
  ASSUME IInv, ConnectionLost
  PROVE  IInv' /\ Quiet
<1>1. /\ link = "up" /\ link' = "broken" /\ sndbuf' = <<>>
      /\ UNCHANGED <<fixed, pc, process, sock, rcvbuf, sending, receiving>>
  BY DEF ConnectionLost
<1>2. ScanInv'
  BY <1>1, ScanStays DEF IInv, sending, ScanInv
<1>3. TypeOK'
  BY <1>1, FixedSets, FileTransferAssumption DEF IInv, TypeOK, process, receiving, sending
<1>4. LinkInv'
  BY <1>1 DEF IInv, LinkInv
<1>5. SenderStays
  BY <1>1 DEF SenderStays, Sending, process, sending, IInv, SenderInv
<1>6. Reading' => Reading
  BY <1>1 DEF Reading, process
<1> QED
  BY <1>1, <1>2, <1>3, <1>4, <1>5, <1>6, BreakStep DEF receiving, sending

LEMMA ReturnStep ==
  ASSUME IInv, NEW p \in Procs, Return(p)
  PROVE  IInv' /\ Quiet
<1>1. /\ pc[p] = "join" /\ pc' = [pc EXCEPT ![p] = "returned"]
      /\ sock' = [sock EXCEPT ![p] = "closed"] /\ sndbuf' = <<>>
      /\ link' = (IF link = "up" THEN "broken" ELSE link)
      /\ UNCHANGED <<fixed, process, rcvbuf, sending, receiving>>
  BY DEF Return, Close, Goto
<1>2. \A q \in Procs : pc'[q] = pc[q] \/ (pc[q] = "join" /\ pc'[q] = "returned")
  BY <1>1 DEF IInv, TypeOK, Procs
<1>3. "sender" \in Procs /\ "receiver" \in Procs /\ link # "none"
  BY <1>1 DEF Procs, IInv, LinkInv
<1>4. ScanInv'
  BY <1>1, <1>2, <1>3, ScanStays DEF IInv, sending, ScanInv
<1>5. TypeOK'
  BY <1>1, FixedSets, FileTransferAssumption DEF IInv, TypeOK, process, receiving, sending, Procs
<1>6. LinkInv'
  BY <1>1, <1>2, <1>3 DEF IInv, LinkInv
<1>7. SenderStays
  BY <1>1, <1>2, <1>3 DEF SenderStays, Sending, process, sending, IInv, SenderInv
<1>8. Reading' => Reading
  BY <1>1, <1>2, <1>3 DEF Reading, process
<1>9. link' # "up"
  BY <1>1
<1> QED
  BY <1>1, <1>4, <1>5, <1>6, <1>7, <1>8, <1>9, BreakStep DEF receiving, sending

LEMMA WriteThrowsStep ==
  ASSUME IInv, WriteThrows
  PROVE  IInv' /\ Quiet
<1>1. /\ pc["sender"] = "write" /\ pc' = [pc EXCEPT !["sender"] = "join"]
      /\ outcome' = "failed"
      /\ sock' = [sock EXCEPT !["sender"] = "closed"] /\ sndbuf' = <<>>
      /\ link' = (IF link = "up" THEN "broken" ELSE link)
      /\ UNCHANGED <<fixed, process, rcvbuf, subdirs, filenames, current, pos, is_start, segment,
                     receiving>>
  BY DEF WriteThrows, Close, Goto
<1>2. pc'["sender"] = "join" /\ pc'["receiver"] = pc["receiver"] /\ link # "none" /\ link' # "up"
  BY <1>1 DEF Procs, IInv, TypeOK, LinkInv
<1>3. ScanInv'
  BY <1>1, <1>2, ScanStays DEF IInv, ScanInv
<1>4. TypeOK'
  BY <1>1, FixedSets, FileTransferAssumption DEF IInv, TypeOK, process, receiving, Procs
<1>5. LinkInv'
  BY <1>1, <1>2 DEF IInv, LinkInv
<1>6. SenderStays
  BY <1>1, <1>2 DEF SenderStays, Sending
<1>7. Reading' => Reading
  BY <1>1, <1>2 DEF Reading, process
<1> QED
  BY <1>1, <1>2, <1>3, <1>4, <1>5, <1>6, <1>7, BreakStep DEF receiving

LEMMA InterruptStep ==
  ASSUME IInv, NEW p \in Procs, Interrupt(p)
  PROVE  IInv' /\ Quiet
<1>1. /\ force_break' = [force_break EXCEPT ![p] = TRUE]
      /\ IF pc[p] = "scan" THEN UNCHANGED <<sock, link, sndbuf>>
         ELSE /\ sock' = [sock EXCEPT ![p] = "closed"]
              /\ link' = IF link = "up" THEN "broken" ELSE link
              /\ sndbuf' = <<>>
      /\ rcvbuf' = IF p = "receiver" THEN <<>> ELSE rcvbuf
      /\ UNCHANGED <<fixed, pc, stats, local_break, sending, receiving>>
  BY DEF Interrupt, Close
<1>2. /\ \A q \in Procs : force_break'[q] = force_break[q] \/ force_break'[q]
      /\ p = "receiver" => force_break'["receiver"]
      /\ "sender" \in Procs /\ "receiver" \in Procs
  BY <1>1 DEF IInv, TypeOK, Procs
<1>3. sndbuf' = <<>> /\ link' # "up"
  <2>1. CASE pc[p] = "scan"
    <3>1. p = "sender" /\ link = "none"
      BY <2>1 DEF IInv, LinkInv, Procs
    <3> QED
      BY <1>1, <2>1, <3>1 DEF IInv, LinkInv
  <2>2. CASE pc[p] # "scan"
    BY <1>1, <2>2
  <2> QED
    BY <2>1, <2>2
<1>4. ScanInv'
  BY <1>1, ScanStays DEF IInv, sending, ScanInv
<1>5. TypeOK'
  <2>1. sock' \in [Procs -> {"open", "closed"}] /\ link' \in {"none", "up", "broken"}
    BY <1>1 DEF IInv, TypeOK
  <2>2. /\ sndbuf' \in Seq(Segments) /\ Len(sndbuf') <= SndBuf
        /\ rcvbuf' \in Seq(Segments) /\ Len(rcvbuf') <= RcvBuf
    BY <1>1, <1>3, FileTransferAssumption DEF IInv, TypeOK
  <2>3. force_break' \in [Procs -> BOOLEAN]
    BY <1>1 DEF IInv, TypeOK
  <2> QED
    BY <1>1, <2>1, <2>2, <2>3, FixedSets DEF IInv, TypeOK, receiving, sending
<1>6. LinkInv'
  BY <1>1, <1>3, FixedSets DEF IInv, LinkInv, receiving, sending
<1>7. SenderStays
  BY <1>1, <1>2, <1>3 DEF SenderStays, Sending, sending, IInv, SenderInv
<1>8. (Reading' => Reading) /\ (p = "receiver" => ~Reading')
  BY <1>1, <1>2 DEF Reading
<1> QED
  BY <1>1, <1>3, <1>4, <1>5, <1>6, <1>7, <1>8, BreakStep DEF receiving, sending

-----------------------------------------------------------------------------
(* The sender opens and reads files, and hands over what it has read.      *)

LEMMA NextFileStep ==
  ASSUME IInv, NextFile
  PROVE  IInv' /\ Quiet
<1>1. CASE pc'["sender"] = "drain"
  BY <1>1, SenderEndsStep
<1>2. CASE pc'["sender"] # "drain"
  <2>1. /\ pc["sender"] = "open" /\ current <= Len(filenames) /\ ~force_break["sender"]
        /\ pc' = [pc EXCEPT !["sender"] = "segment"] /\ pos' = 0 /\ is_start' = TRUE
        /\ UNCHANGED <<fixed, process, network, receiving, subdirs, filenames, current, segment, outcome>>
    BY <1>2 DEF NextFile, Goto, IInv, TypeOK, Procs
  <2>2. /\ pc'["sender"] = "segment" /\ pc'["receiver"] = pc["receiver"] /\ link # "none"
        /\ src_path' = src_path /\ size' = size
    BY <2>1 DEF IInv, TypeOK, LinkInv, Procs, fixed
  <2>3. ScanInv'
    BY <2>1, <2>2, ScanStays DEF IInv, ScanInv
  <2>4. TypeOK'
    BY <2>1, FixedSets DEF IInv, TypeOK, process, network, receiving, Procs
  <2>5. LinkInv'
    BY <2>1, <2>2 DEF IInv, LinkInv, network
  <2>6. SenderInv'
    <3>1. current \in 1..Len(filenames)
      BY <2>1 DEF IInv, TypeOK
    <3>2. filenames[current] \in Files
      BY <3>1, ElementOfSeq DEF IInv, TypeOK
    <3>3. size[filenames[current]] \in Nat
      BY <3>2 DEF IInv, TypeOK
    <3>4. pos' <= size'[filenames'[current']]
      BY <2>1, <2>2, <3>3
    <3> QED
      BY <2>1, <2>2, <3>4 DEF SenderInv, Sending, IInv, network
  <2>7. Queue' = Queue /\ Part(Queue', Queue)
    BY <2>1, QueueSame DEF IInv, network
  <2>8. SentPos' = 0 /\ Sending
    BY <2>1, <2>2 DEF SentPos, Sending
  <2>9. (Reading' => Reading) /\ (Intact' => Intact)
    BY <2>1, <2>2, <2>8 DEF Reading, Intact, process, network
  <2>10. \A k \in 1..Len(filenames) : SentOf(k)' = SentOf(k)
    BY <2>1, <2>2, <2>8 DEF SentOf
  <2>11. Quiet
    BY <2>1, <2>2, <2>7, <2>8, <2>9, <2>10 DEF Quiet, network, receiving
  <2> QED
    BY <2>3, <2>4, <2>5, <2>6, <2>11, QuietData DEF IInv
<1> QED
  BY <1>1, <1>2

LEMMA WriteStep ==
  ASSUME IInv, WriteSegment
  PROVE  IInv'
<1>1. /\ pc["sender"] = "write" /\ Len(sndbuf) < SndBuf /\ link # "broken"
      /\ sndbuf' = Append(sndbuf, segment) /\ is_start' = FALSE
      /\ pc' = [pc EXCEPT !["sender"] = IF segment.eof THEN "open" ELSE "segment"]
      /\ current' = (IF segment.eof THEN current + 1 ELSE current)
      /\ UNCHANGED <<fixed, process, sock, link, rcvbuf, subdirs, filenames, pos, segment, outcome,
                     receiving>>
  BY DEF WriteSegment, Goto, Fails
<1>2. /\ pc'["sender"] = (IF segment.eof THEN "open" ELSE "segment")
      /\ pc'["receiver"] = pc["receiver"] /\ link = "up" /\ outcome = "none"
      /\ src_path' = src_path /\ size' = size
  BY <1>1 DEF IInv, TypeOK, LinkInv, SenderInv, Sending, Procs, fixed
<1>3. /\ WellFormed(segment) /\ End(segment) = pos /\ segment \in Segments
      /\ segment.eof \/ FillsSegments(pos)
      /\ current \in Nat /\ current > 0 /\ current <= Len(filenames)
      /\ pos <= size[filenames[current]]
  <2>1. /\ WellFormed(segment) /\ End(segment) = pos
        /\ current <= Len(filenames) /\ pos <= size[filenames[current]]
    BY <1>1 DEF IInv, SenderInv
  <2>2. segment \in Segments /\ (segment.eof \/ FillsSegments(pos))
    BY <2>1 DEF WellFormed
  <2>3. current \in Nat /\ current > 0
    BY DEF IInv, TypeOK
  <2> QED
    BY <2>1, <2>2, <2>3
<1>4. pos \in Nat /\ pos > 0
  <2>1. Start(segment) \in Nat /\ End(segment) \in Nat /\ Start(segment) < End(segment)
    BY <1>3, SegmentNumbers DEF IInv
  <2> QED
    BY <1>3, <2>1
<1>5. /\ Cardinality(Files) \in Nat /\ Len(filenames) \in Nat
      /\ Len(filenames) <= Cardinality(Files)
  BY FewFiles DEF IInv, TypeOK
<1>6. current' \in 1..(Cardinality(Files) + 1) /\ current' <= Len(filenames) + 1
  BY <1>1, <1>3, <1>5
<1>7. ScanInv'
  BY <1>1, <1>2, ScanStays DEF IInv, ScanInv
<1>8. TypeOK'
  <2>1. sndbuf' \in Seq(Segments) /\ Len(sndbuf') <= SndBuf
    <3>1. sndbuf \in Seq(Segments) /\ Len(sndbuf) \in Nat /\ SndBuf \in Nat
      BY LenProperties, FileTransferAssumption DEF IInv, TypeOK
    <3>2. sndbuf' \in Seq(Segments) /\ Len(sndbuf') = Len(sndbuf) + 1
      BY <1>1, <1>3, <3>1, AppendProperties
    <3> QED
      BY <1>1, <3>1, <3>2
  <2>2. pc' \in [Procs -> {"scan", "connect", "open", "segment", "write", "drain", "read",
                           "join", "returned", "terminated"}]
    BY <1>1 DEF IInv, TypeOK
  <2> QED
    BY <1>1, <1>6, <2>1, <2>2, FixedSets DEF IInv, TypeOK, process, receiving
<1>9. LinkInv'
  BY <1>1, <1>2 DEF IInv, LinkInv
<1>10. SenderInv'
  <2>1. current' <= Len(filenames') + 1 /\ outcome' = "none"
    BY <1>1, <1>2, <1>6
  <2>2. ASSUME pc'["sender"] = "segment"
        PROVE  /\ current' <= Len(filenames') /\ pos' <= size'[filenames'[current']]
               /\ (is_start' <=> pos' = 0) /\ FillsSegments(pos')
    <3>1. current' = current /\ ~segment.eof
      BY <1>1, <1>2, <2>2
    <3>2. current' <= Len(filenames') /\ pos' <= size'[filenames'[current']]
      BY <1>1, <1>2, <1>3, <3>1
    <3>3. FillsSegments(pos')
      BY <1>1, <1>3, <3>1
    <3> QED
      BY <1>1, <1>4, <3>2, <3>3
  <2>3. pc'["sender"] \in {"open", "segment"}
    BY <1>2
  <2> QED
    BY <2>1, <2>2, <2>3 DEF SenderInv, Sending
<1> QED
  BY <1>7, <1>8, <1>9, <1>10, WriteData DEF IInv

LEMMA CapacityPositive ==
  \A first \in BOOLEAN : Capacity(first) \in Nat /\ Capacity(first) > 0
BY FileTransferAssumption DEF Capacity, HeaderSize

\* Full segments fill a file.
LEMMA FullSegments ==
  /\ FillsSegments(Capacity(TRUE))
  /\ \A n \in Nat : FillsSegments(n) => FillsSegments(n + Capacity(FALSE))
<1> DEFINE a == Capacity(TRUE)
           b == Capacity(FALSE)
<1>1. a \in Nat /\ b \in Nat /\ b > 0
  BY CapacityPositive
<1> HIDE DEF a, b
<1>2. 0 \in 0..a /\ a = a + 0 * b
  BY <1>1
<1>3. ASSUME NEW n \in Nat, NEW k \in 0..n, n = a + k * b
      PROVE  k + 1 \in 0..(n + b) /\ n + b = a + (k + 1) * b
  <2>1. k \in Nat /\ k + 1 \in 0..(n + b)
    BY <1>1, <1>3
  <2>2. (k + 1) * b = k * b + b
    BY <1>1, <2>1
  <2>3. k * b \in Nat
    BY <1>1, <2>1
  <2> QED
    BY <1>1, <1>3, <2>1, <2>2, <2>3
<1> QED
  BY <1>2, <1>3 DEF FillsSegments, a, b

\* What is read goes on where the last read ended, and an end is seen only at
\* the end of the file.
LEMMA ReadSegmentStep ==
  ASSUME IInv, ReadSegment
  PROVE  IInv' /\ Quiet
<1> DEFINE f == filenames[current]
           capacity == Capacity(is_start)
           n == IF size[f] - pos < capacity THEN size[f] - pos ELSE capacity
           bytes == [i \in 1..n |-> <<f, pos + i>>]
<1>1. /\ pc["sender"] = "segment" /\ ~force_break["sender"] /\ pos' = pos + n
      /\ segment' = [first |-> is_start, eof |-> n < capacity,
                     name |-> IF is_start THEN Upload(f) ELSE <<>>, bytes |-> bytes]
      /\ pc' = [pc EXCEPT !["sender"] = IF n > 0 THEN "write" ELSE "open"]
      /\ current' = (IF n > 0 THEN current ELSE current + 1)
      /\ UNCHANGED <<fixed, process, network, subdirs, filenames, is_start, outcome, receiving>>
  BY DEF ReadSegment, Goto, IsEof
<1>2. /\ current \in Nat /\ current \in 1..Len(filenames) /\ Len(filenames) \in Nat
      /\ f \in ToSend /\ f \in Files /\ Upload(f) \in Names
      /\ pos \in Nat /\ size[f] \in Nat /\ pos <= size[f] /\ (is_start <=> pos = 0)
      /\ is_start \in BOOLEAN /\ outcome = "none" /\ (pos = 0 \/ FillsSegments(pos))
  <2>1. /\ current \in 1..Len(filenames) /\ pos <= size[f] /\ (is_start <=> pos = 0)
        /\ (pos = 0 \/ FillsSegments(pos)) /\ is_start \in BOOLEAN /\ outcome = "none" /\ pos \in Nat
    BY <1>1 DEF IInv, SenderInv, Sending, TypeOK
  <2>2. f \in ToSend /\ Len(filenames) \in Nat
    BY <2>1, LenProperties DEF IInv, ScanInv, TypeOK
  <2>3. f \in Files /\ Upload(f) \in Names /\ size[f] \in Nat
    BY <2>2, ToSendPaths DEF IInv, TypeOK
  <2> QED
    BY <2>1, <2>2, <2>3
<1>3. /\ pc'["sender"] = (IF n > 0 THEN "write" ELSE "open")
      /\ pc'["receiver"] = pc["receiver"] /\ link # "none"
      /\ src_path' = src_path /\ size' = size
  BY <1>1 DEF IInv, TypeOK, LinkInv, Procs, fixed
<1>4. n \in Nat /\ n <= size[f] - pos /\ (n < capacity => n = size[f] - pos)
      /\ (n = 0 => size[f] = pos) /\ n <= capacity /\ (n < capacity \/ n = capacity)
  <2>1. capacity \in Nat /\ capacity > 0 /\ size[f] - pos \in Nat
    BY <1>2, CapacityPositive
  <2> HIDE DEF capacity
  <2> QED
    BY <1>2, <2>1
<1>5. bytes \in Seq(Bytes) /\ Len(bytes) = n /\ \A i \in 1..n : bytes[i] = <<f, pos + i>>
  <2>1. ASSUME NEW i \in 1..n PROVE <<f, pos + i>> \in Bytes
    <3>1. pos + i \in 1..size[f]
      BY <1>2, <1>4
    <3>2. <<f, pos + i>> \in {f} \X (1..size[f])
      BY <3>1
    <3> QED
      BY <1>2, <3>2 DEF Bytes
  <2> HIDE DEF n
  <2> QED
    BY <1>4, <2>1
<1>18. n < capacity \/ FillsSegments(pos + n)
  <2>1. CASE is_start /\ n = capacity
    <3>1. is_start = TRUE
      BY <1>2, <2>1
    <3>2. n = Capacity(TRUE)
      BY <2>1, <3>1
    <3>4. pos = 0
      BY <1>2, <3>1
    <3>5. n \in Nat
      BY <1>4
    <3> HIDE DEF n
    <3>3. pos + n = n
      BY <3>4, <3>5
    <3> QED
      BY <3>2, <3>3, FullSegments
  <2>2. CASE ~is_start /\ n = capacity
    <3>1. is_start = FALSE
      BY <1>2, <2>2
    <3>2. n = Capacity(FALSE)
      BY <2>2, <3>1
    <3>3. FillsSegments(pos)
      BY <1>2, <2>2
    <3> QED
      BY <1>2, <3>2, <3>3, FullSegments
  <2> QED
    BY <1>2, <1>4, <2>1, <2>2
<1> HIDE DEF f, n, bytes
<1>6. /\ segment'.first = is_start /\ (segment'.eof <=> n < capacity)
      /\ segment'.bytes = bytes
      /\ (is_start => segment'.name = Upload(f))
      /\ segment' \in Segments
  <2>1. segment'.first = is_start /\ segment'.bytes = bytes /\ segment'.eof = (n < capacity)
        /\ segment'.name = IF is_start THEN Upload(f) ELSE <<>>
    BY <1>1
  <2>2. segment' \in Segments
    BY <1>1, <1>2, <1>5 DEF Segments
  <2> QED
    BY <2>1, <2>2
<1>7. ASSUME n > 0
      PROVE  /\ WellFormed(segment)' /\ File(segment)' = f /\ Start(segment)' = pos
             /\ End(segment)' = pos + n
  <2>1. 1 \in 1..n /\ bytes[1] = <<f, pos + 1>>
    BY <1>4, <1>5, <1>7
  <2>2. File(segment)' = f /\ Start(segment)' = pos
    <3>1. File(segment)' = bytes[1][1] /\ Start(segment)' = bytes[1][2] - 1
      BY <1>6 DEF File, Start
    <3> QED
      BY <1>2, <2>1, <3>1
  <2>3. End(segment)' = pos + n
    BY <1>5, <1>6, <2>2 DEF End
  <2>4. pos + n <= size[f] /\ (segment'.eof => pos + n = size[f])
    BY <1>2, <1>4, <1>6
  <2>5. Len(segment'.bytes) = n /\ \A i \in 1..n : segment'.bytes[i] = <<f, pos + i>>
    BY <1>5, <1>6
  <2>6. segment'.first => segment'.name = Upload(f)
    BY <1>6
  <2>7. segment'.first <=> pos = 0
    BY <1>2, <1>6
  <2>8. segment' \in Segments' /\ ToSend' = ToSend
    BY <1>1, <1>6, FixedSets
  <2>10. segment'.eof \/ FillsSegments(pos + n)
    BY <1>6, <1>18
  <2>11. Len(segment'.bytes) <= Capacity(segment'.first)
    BY <1>4, <1>5, <1>6
  <2>9. WellFormed(segment)'
    <3>1. /\ segment' \in Segments' /\ Len(segment'.bytes) > 0
          /\ File(segment)' \in ToSend' /\ Start(segment)' \in Nat
          /\ \A i \in 1..Len(segment'.bytes) :
               segment'.bytes[i] = <<File(segment)', Start(segment)' + i>>
          /\ End(segment)' <= size'[File(segment)']
          /\ segment'.first <=> Start(segment)' = 0
          /\ segment'.eof => End(segment)' = size'[File(segment)']
      BY <1>2, <1>3, <1>7, <2>2, <2>3, <2>4, <2>5, <2>7, <2>8
    <3>2. segment'.first => segment'.name = Upload(File(segment))'
      <4>1. Upload(File(segment))' = Upload(f)
        BY <1>3, <2>2 DEF Upload
      <4> QED
        BY <2>6, <4>1
    <3>3. (segment'.eof \/ FillsSegments(End(segment)')) /\ Len(segment'.bytes) <= Capacity(segment'.first)
      BY <2>3, <2>10, <2>11
    <3> QED
      BY <3>1, <3>2, <3>3 DEF WellFormed
  <2> QED
    BY <2>2, <2>3, <2>9
<1>8. ScanInv'
  BY <1>1, <1>3, ScanStays DEF IInv, ScanInv
<1>9. current' \in 1..(Cardinality(Files) + 1) /\ current' <= Len(filenames) + 1
  <2>1. Cardinality(Files) \in Nat /\ Len(filenames) <= Cardinality(Files)
    BY FewFiles DEF IInv, TypeOK
  <2> QED
    BY <1>1, <1>2, <2>1
<1>10. TypeOK'
  <2>1. pos' \in Nat
    BY <1>1, <1>2, <1>4
  <2>2. pc' \in [Procs -> {"scan", "connect", "open", "segment", "write", "drain", "read",
                           "join", "returned", "terminated"}]
    BY <1>1 DEF IInv, TypeOK
  <2> QED
    BY <1>1, <1>6, <1>9, <2>1, <2>2, FixedSets DEF IInv, TypeOK, process, network, receiving
<1>11. LinkInv'
  BY <1>1, <1>3 DEF IInv, LinkInv, network
<1>12. SenderInv'
  <2>1. current' <= Len(filenames') + 1 /\ outcome' = "none" /\ pc'["sender"] \in {"write", "open"}
    BY <1>1, <1>2, <1>3, <1>9
  <2>2. ASSUME pc'["sender"] = "write"
        PROVE  /\ current' <= Len(filenames') /\ pos' <= size'[filenames'[current']]
               /\ WellFormed(segment)' /\ File(segment)' = filenames'[current']
               /\ End(segment)' = pos'
    <3>1. n > 0 /\ current' = current /\ filenames'[current'] = f
      BY <1>1, <1>3, <2>2 DEF f
    <3>2. pos' <= size[f] /\ current <= Len(filenames)
      BY <1>1, <1>2, <1>4
    <3> QED
      BY <1>1, <1>3, <1>7, <3>1, <3>2
  <2> QED
    BY <2>1, <2>2 DEF SenderInv, Sending
<1>13. Queue' = Queue /\ Part(Queue', Queue)
  BY <1>1, QueueSame DEF IInv, network
<1>14. SentPos = pos /\ Sending /\ (n > 0 => SentPos' = pos)
  BY <1>1, <1>3, <1>7 DEF SentPos, Sending
<1>15. (Reading' => Reading) /\ (Intact' => Intact)
  BY <1>1, <1>3, <1>14 DEF Reading, Intact, process, network
<1>16. \A k \in 1..Len(filenames) : SentOf(k)' = SentOf(k)
  <2>1. CASE n > 0
    BY <1>1, <1>3, <1>14, <2>1 DEF SentOf
  <2>2. CASE ~(n > 0)
    <3>1. /\ size[f] = pos /\ current' = current + 1 /\ pc'["sender"] = "open"
      BY <1>1, <1>3, <1>4, <2>2
    <3> SUFFICES ASSUME NEW k \in 1..Len(filenames) PROVE SentOf(k)' = SentOf(k)
      OBVIOUS
    <3>2. CASE k < current
      BY <1>1, <1>2, <1>3, <3>1, <3>2 DEF SentOf
    <3>3. CASE k = current
      BY <1>1, <1>2, <1>3, <1>14, <3>1, <3>3 DEF SentOf, f
    <3>4. CASE k > current
      BY <1>1, <1>2, <1>3, <3>1, <3>4 DEF SentOf
    <3> QED
      BY <1>2, <3>2, <3>3, <3>4
  <2> QED
    BY <2>1, <2>2
<1>17. Quiet
  <2>1. Sending' => /\ Sending
                    /\ \/ current' > current
                       \/ current' = current /\ pc'["sender"] # "open" /\ SentPos' = SentPos
    BY <1>1, <1>2, <1>3, <1>14
  <2>2. pc'["sender"] \in {"segment", "write"} => SentPos' = SentPos /\ current' = current
    BY <1>1, <1>3, <1>14
  <2> QED
    BY <1>1, <1>13, <1>15, <1>16, <2>1, <2>2 DEF Quiet, network, receiving
<1> QED
  BY <1>8, <1>10, <1>11, <1>12, <1>17, QuietData DEF IInv

-----------------------------------------------------------------------------
(* The receiver.                                                           *)

LEMMA ReadStep ==
  ASSUME IInv, Takes
  PROVE  IInv'
<1> DEFINE s == Queue[1]
<1>1. UNCHANGED <<fixed, pc, process, sock, link, sndbuf, sending>>
  BY DEF Takes, ReadAndStore, DropSegment
<1>2. /\ WellFormed(s) /\ Upload(File(s)) \in Names /\ Reading
      /\ rcvbuf # <<>> /\ rcvbuf' = Tail(rcvbuf)
  BY TakenSegment DEF IInv
<1>3. /\ content' \in [Names -> Seq(Bytes)]
      /\ ofile' = <<>> \/ ofile' = Upload(File(s))
      /\ finished' = finished \/ finished' = finished \cup {Upload(File(s))}
      /\ write_failed' = write_failed \/ write_failed' = write_failed \cup {Upload(File(s))}
  BY TakeEffect DEF IInv, Stored
<1>4. rcvbuf' \in Seq(Segments) /\ Len(rcvbuf') <= RcvBuf
  <2>1. rcvbuf \in Seq(Segments) /\ Len(rcvbuf) \in Nat /\ Len(rcvbuf) <= RcvBuf /\ RcvBuf \in Nat
    BY LenProperties, FileTransferAssumption DEF IInv, TypeOK
  <2>2. rcvbuf' \in Seq(Segments) /\ Len(rcvbuf') = Len(rcvbuf) - 1
    BY <1>2, <2>1, HeadTailProperties
  <2> QED
    BY <2>1, <2>2
<1>5. ScanInv'
  BY <1>1, ScanStays DEF IInv, ScanInv, sending
<1>6. TypeOK'
  <2>1. ofile' \in Names \cup {<<>>} /\ finished' \subseteq Names /\ write_failed' \subseteq Names
    BY <1>2, <1>3 DEF IInv, TypeOK
  <2> QED
    BY <1>1, <1>3, <1>4, <2>1, FixedSets DEF IInv, TypeOK, process, sending
<1>7. LinkInv'
  BY <1>1, <1>2 DEF IInv, LinkInv, Reading, sending
<1>8. SenderInv'
  <2>1. SenderStays
    BY <1>1 DEF SenderStays, Sending, sending, process, IInv, SenderInv
  <2> QED
    BY <2>1, SenderStaysInv DEF IInv
<1> QED
  BY <1>5, <1>6, <1>7, <1>8, ReadData DEF IInv

LEMMA OpenFailsStep ==
  ASSUME IInv, OpenFails
  PROVE  IInv' /\ Quiet
<1>1. /\ UNCHANGED <<fixed, stats, force_break, sock, link, sndbuf, sending, content, finished,
                     write_failed>>
      /\ pc["receiver"] = "read" /\ pc' = [pc EXCEPT !["receiver"] = "join"]
      /\ rcvbuf # <<>> /\ rcvbuf' = Tail(rcvbuf) /\ ofile' = <<>>
      /\ local_break' = [local_break EXCEPT !["receiver"] = TRUE]
  BY DEF OpenFails, Goto
<1>2. pc'["sender"] = pc["sender"] /\ pc'["receiver"] = "join"
  BY <1>1 DEF IInv, TypeOK, Procs
<1>3. rcvbuf' \in Seq(Segments) /\ Len(rcvbuf') <= RcvBuf
  <2>1. rcvbuf \in Seq(Segments) /\ Len(rcvbuf) \in Nat /\ Len(rcvbuf) <= RcvBuf /\ RcvBuf \in Nat
    BY LenProperties, FileTransferAssumption DEF IInv, TypeOK
  <2>2. rcvbuf' \in Seq(Segments) /\ Len(rcvbuf') = Len(rcvbuf) - 1
    BY <1>1, <2>1, HeadTailProperties
  <2> QED
    BY <2>1, <2>2
<1>4. ScanInv'
  BY <1>1, <1>2, ScanStays DEF IInv, ScanInv, sending
<1>5. TypeOK'
  BY <1>1, <1>3, FixedSets DEF IInv, TypeOK, sending
<1>6. LinkInv'
  BY <1>1, <1>2 DEF IInv, LinkInv, sending
<1>7. SenderStays
  BY <1>1, <1>2 DEF SenderStays, Sending, sending, IInv, SenderInv
<1>8. /\ Len(Queue) \in Nat /\ Len(Queue) > 0 /\ Len(Queue') = Len(Queue) - 1
      /\ \A i \in 1..(Len(Queue) - 1) : i + 1 \in 1..Len(Queue) /\ Queue'[i] = Queue[i + 1]
      /\ Part(Queue', Queue)
  BY <1>1, <1>5, QueueTail DEF IInv
<1>9. Queue' # <<>> => Queue # <<>> /\ Queue'[Len(Queue')] = Queue[Len(Queue)]
  <2> SUFFICES ASSUME Queue' # <<>> PROVE Queue # <<>> /\ Queue'[Len(Queue')] = Queue[Len(Queue)]
    OBVIOUS
  <2>1. Len(Queue') > 0 /\ Queue # <<>>
    BY <1>5, <1>8, QueueType, QueueTypeNext DEF QueueFacts, IInv
  <2>2. Len(Queue) - 1 \in 1..(Len(Queue) - 1) /\ (Len(Queue) - 1) + 1 = Len(Queue)
    BY <1>8, <2>1
  <2>3. Queue'[Len(Queue) - 1] = Queue[(Len(Queue) - 1) + 1]
    BY <1>8, <2>2
  <2> QED
    BY <1>8, <2>1, <2>2, <2>3
<1>10. ~Reading' /\ ~Intact'
  BY <1>2 DEF Reading, Intact
<1>11. Quiet
  BY <1>1, <1>7, <1>8, <1>9, <1>10, StaysQuiet
<1> QED
  BY <1>4, <1>5, <1>6, <1>7, <1>11, SenderStaysInv, QuietData DEF IInv

-----------------------------------------------------------------------------
(* The theorems.                                                           *)

LEMMA NextInv == IInv /\ [Next]_vars => IInv'
<1> SUFFICES ASSUME IInv, [Next]_vars PROVE IInv'
  OBVIOUS
<1>1. CASE ScanFolder \/ ScanFile
  BY <1>1, ScanStep
<1>2. CASE ScanDone \/ ScanThrows
  BY <1>2, ScanDoneStep, ScanThrowsStep
<1>3. CASE NextFile
  BY <1>3, NextFileStep
<1>4. CASE ReadSegment
  BY <1>4, ReadSegmentStep
<1>5. CASE SendFileFails \/ SendFileInterrupted \/ Drained
  BY <1>5, SenderEndsStep
<1>6. CASE WriteSegment
  BY <1>6, WriteStep
<1>7. CASE WriteThrows
  BY <1>7, WriteThrowsStep
<1>8. CASE ReceiverStops \/ ReadThrows
  BY <1>8, ReceiverEndsStep
<1>9. CASE ReadAndStore \/ DropSegment
  BY <1>9, ReadStep DEF Takes
<1>10. CASE OpenFails
  BY <1>10, OpenFailsStep
<1>11. CASE Connect
  BY <1>11, ConnectStep
<1>12. CASE Deliver
  BY <1>12, DeliverStep
<1>13. CASE ConnectionLost
  BY <1>13, ConnectionLostStep
<1>14. CASE \E p \in Procs : ConnectFails(p) \/ Interrupt(p) \/ Logger(p) \/ Return(p)
  BY <1>14, ConnectFailsStep, InterruptStep, LoggerStep, ReturnStep
<1>15. CASE UNCHANGED vars
  BY <1>15, StutterStep
<1> QED
  BY <1>1, <1>2, <1>3, <1>4, <1>5, <1>6, <1>7, <1>8, <1>9, <1>10, <1>11, <1>12, <1>13, <1>14, <1>15
  DEF Next, Sender, Receiver

LEMMA Invariance == Spec => []IInv
BY InitInv, NextInv, PTL DEF Spec

LEMMA PrefixFromInv == IInv => ReceivedIsPrefix
<1> SUFFICES ASSUME IInv PROVE ReceivedIsPrefix
  OBVIOUS
<1>1. ASSUME WholeSegments, NEW f \in ToSend
      PROVE  LET c == content[Upload(f)]
             IN  Len(c) <= size[f] /\ c = [i \in 1..Len(c) |-> <<f, i>>]
  <2> DEFINE c == content[Upload(f)]
  <2>1. Len(c) <= size[f] /\ \A i \in 1..Len(c) : c[i] = <<f, i>>
    BY <1>1 DEF IInv, Data, PrefixInv
  <2>2. c \in Seq(Bytes)
    BY ToSendPaths DEF IInv, TypeOK
  <2> HIDE DEF c
  <2>3. c \in [1..Len(c) -> Bytes]
    BY <2>2, LenProperties
  <2>4. c = [i \in 1..Len(c) |-> <<f, i>>]
    BY <2>1, <2>3
  <2> QED
    BY <2>1, <2>4 DEF c
<1> QED
  BY <1>1 DEF ReceivedIsPrefix, IInv

\* For every file system, all sizes of files and buffers, every --segment of the
\* sender and every one of the receiver that is not smaller, and whatever fails,
\* writes included: what is in a received file is a beginning of the file that
\* was sent, byte by byte (file-receive.cpp:91, :132, file-send.cpp:82).  The
\* types and the bound of the send buffer hold for every --segment.
THEOREM FileReceivedIsPrefix == Spec => []ReceivedIsPrefix
BY Invariance, PrefixFromInv, PTL

\* If segments are taken whole, a file to which every write succeeded and that
\* the receiver reports as done has all its bytes: the flag of the last segment
\* is seen only with the last byte, and no segment of the file follows it or was
\* missed before it.  And it is reported when it has them, unless it is empty
\* or fills its last segment (file-receive.cpp:149, file-send.cpp:57).
THEOREM FileDoneIsComplete == Spec => []DoneIsComplete
<1>1. IInv => DoneIsComplete
  BY DEF IInv, Data
<1> QED
  BY <1>1, Invariance, PTL

LEMMA DeliveredFromInv == IInv => CompleteMeansDelivered
<1> SUFFICES ASSUME IInv, outcome = "complete", pc["receiver"] = "read",
                    ~force_break["receiver"], NEW f \in ToSend, Sound(Upload(f))
             PROVE  Len(content[Upload(f)]) + Cardinality(Arriving(f)) = size[f]
  BY DEF CompleteMeansDelivered
<1> DEFINE l == Len(content[Upload(f)])
           z == size[f]
<1>1. pc["sender"] \in {"join", "returned"} /\ current = Len(filenames) + 1 /\ sndbuf = <<>>
  BY DEF IInv, SenderInv
<1>2. PICK k \in 1..Len(filenames) : filenames[k] = f
  <2>1. subdirs = <<>>
    BY <1>1 DEF IInv, ScanInv
  <2> QED
    BY <2>1 DEF IInv, ScanInv
<1>3. SentOf(k) = z
  <2>1. Len(filenames) \in Nat
    BY LenProperties DEF IInv, TypeOK
  <2> QED
    BY <1>1, <1>2, <2>1 DEF SentOf
<1>4. l <= z /\ \A i \in Nat : i \in (l + 1)..z <=> \E j \in 1..Len(Queue) : Has(Queue[j], f, i)
  BY <1>2, <1>3 DEF IInv, Data, DeliveryInv, Intact, Reading
<1>5. l \in Nat /\ z \in Nat
  <2>1. content[Upload(f)] \in Seq(Bytes) /\ z \in Nat
    BY ToSendPaths DEF IInv, TypeOK
  <2> QED
    BY <2>1, LenProperties
<1>6. Queue = rcvbuf /\ \A j \in 1..Len(rcvbuf) : WellFormed(rcvbuf[j])
  <2>1. Queue = rcvbuf
    BY <1>1, ConcatEmptySeq DEF IInv, TypeOK, Queue
  <2> QED
    BY <2>1 DEF IInv, Data, Chain
<1> HIDE DEF l, z
<1>7. Arriving(f) = {f} \X ((l + 1)..z)
  <2>1. ASSUME NEW b \in Arriving(f) PROVE b \in {f} \X ((l + 1)..z)
    <3>1. PICK j \in 1..Len(rcvbuf) : b \in ToSet(rcvbuf[j].bytes)
      BY DEF Arriving
    <3>2. PICK i \in DOMAIN rcvbuf[j].bytes : b = rcvbuf[j].bytes[i]
      BY <3>1 DEF ToSet
    <3>3. /\ rcvbuf[j].bytes \in Seq(Bytes)
          /\ \A m \in 1..Len(rcvbuf[j].bytes) :
               rcvbuf[j].bytes[m] = <<File(rcvbuf[j]), Start(rcvbuf[j]) + m>>
          /\ End(rcvbuf[j]) = Start(rcvbuf[j]) + Len(rcvbuf[j].bytes)
      BY <1>6 DEF WellFormed, Segments, End
    <3>4. i \in 1..Len(rcvbuf[j].bytes) /\ Len(rcvbuf[j].bytes) \in Nat
      BY <3>2, <3>3, LenProperties
    <3>5. b = <<File(rcvbuf[j]), Start(rcvbuf[j]) + i>> /\ b[1] = f
      BY <3>2, <3>3, <3>4 DEF Arriving
    <3>6. File(rcvbuf[j]) = f /\ Start(rcvbuf[j]) \in Nat
      BY <1>6, <3>5 DEF WellFormed
    <3>7. Start(rcvbuf[j]) + i \in Nat /\ Has(rcvbuf[j], f, Start(rcvbuf[j]) + i)
      BY <3>3, <3>4, <3>6 DEF Has
    <3>8. Start(rcvbuf[j]) + i \in (l + 1)..z
      BY <1>4, <1>6, <3>7
    <3> QED
      BY <3>5, <3>6, <3>8
  <2>2. ASSUME NEW i \in (l + 1)..z PROVE <<f, i>> \in Arriving(f)
    <3>1. i \in Nat
      BY <1>5
    <3>2. PICK j \in 1..Len(rcvbuf) : Has(rcvbuf[j], f, i)
      BY <1>4, <1>6, <3>1
    <3> DEFINE s == rcvbuf[j]
    <3>3. /\ s.bytes \in Seq(Bytes) /\ Len(s.bytes) \in Nat /\ Start(s) \in Nat
          /\ \A m \in 1..Len(s.bytes) : s.bytes[m] = <<File(s), Start(s) + m>>
          /\ End(s) = Start(s) + Len(s.bytes)
      BY <1>6, LenProperties DEF WellFormed, Segments, End
    <3>4. File(s) = f /\ Start(s) < i /\ i <= End(s)
      BY <3>2 DEF Has
    <3> HIDE DEF s
    <3>5. i - Start(s) \in 1..Len(s.bytes) /\ Start(s) + (i - Start(s)) = i
      BY <3>1, <3>3, <3>4
    <3>6. s.bytes[i - Start(s)] = <<f, i>> /\ DOMAIN s.bytes = 1..Len(s.bytes)
      BY <3>3, <3>4, <3>5, LenProperties
    <3>7. <<f, i>> \in ToSet(s.bytes)
      BY <3>5, <3>6 DEF ToSet
    <3>8. <<f, i>>[1] = f
      OBVIOUS
    <3> QED
      BY <3>7, <3>8 DEF Arriving, s
  <2> QED
    BY <2>1, <2>2
<1>8. IsFiniteSet((l + 1)..z) /\ Cardinality((l + 1)..z) = z - l
  <2>1. l + 1 \in Int /\ z \in Int
    BY <1>5
  <2>2. IsFiniteSet((l + 1)..z)
        /\ Cardinality((l + 1)..z) = IF l + 1 > z THEN 0 ELSE z - (l + 1) + 1
    BY <2>1, FS_Interval
  <2>3. (IF l + 1 > z THEN 0 ELSE z - (l + 1) + 1) = z - l
    BY <1>4, <1>5
  <2> QED
    BY <2>2, <2>3
<1>9. Cardinality(Arriving(f)) = z - l
  <2> DEFINE I == (l + 1)..z
  <2>1. IsFiniteSet({f}) /\ Cardinality({f}) = 1
    BY FS_Singleton
  <2>2. IsFiniteSet(I) /\ Cardinality(I) = z - l
    BY <1>8
  <2> HIDE DEF I
  <2>3. Cardinality({f} \X I) = Cardinality({f}) * Cardinality(I)
    BY <2>1, <2>2, FS_Product
  <2>4. 1 * (z - l) = z - l
    BY <1>5
  <2> QED
    BY <1>7, <2>1, <2>2, <2>3, <2>4 DEF I
<1>10. l + (z - l) = z
  BY <1>5
<1> QED
  BY <1>9, <1>10 DEF l, z

\* If the sender ends without a failure or an interrupt the scan has missed no
\* file and nothing was lost when the socket was closed: what a receiver that
\* is still reading lacks of each file is in its buffer, if it takes segments
\* whole and could write what it has of the file (file-send.cpp:127, :228).
THEOREM FileCompleteMeansDelivered == Spec => []CompleteMeansDelivered
BY Invariance, DeliveredFromInv, PTL
-----------------------------------------------------------------------------
(* A file is opened once.                                                  *)

\* Of a file whose beginning is still to come nothing was received yet.
FreshInv ==
  /\ \A j \in 1..Len(Queue) : Queue[j].first => Len(content[Upload(File(Queue[j]))]) = 0
  /\ Sending => \A k \in current..Len(filenames) :
       \/ Len(content[Upload(filenames[k])]) = 0
       \/ k = current /\ pc["sender"] # "open" /\ SentPos > 0

LEMMA FreshIdle == TypeOK /\ LinkInv /\ link = "none" => FreshInv
<1> SUFFICES ASSUME TypeOK, LinkInv, link = "none" PROVE FreshInv
  OBVIOUS
<1>1. rcvbuf = <<>> /\ sndbuf = <<>> /\ ~Sending
  BY DEF LinkInv, Sending
<1>2. Len(Queue) = 0
  BY <1>1, QueueType DEF QueueFacts
<1> QED
  BY <1>1, <1>2 DEF FreshInv

LEMMA FreshIdleNext == TypeOK' /\ LinkInv' /\ (link = "none")' => FreshInv'
BY FreshIdle, PTL

LEMMA FreshConnect ==
  ASSUME IInv, IInv', Connect
  PROVE  FreshInv'
<1>1. /\ link = "none" /\ UNCHANGED <<fixed, rcvbuf, sndbuf, filenames, content>>
  BY DEF Connect, IInv, LinkInv, Procs, sending, receiving
<1>2. rcvbuf' = <<>> /\ sndbuf' = <<>> /\ content' = [n \in Names |-> <<>>]
  BY <1>1 DEF IInv, LinkInv
<1>3. Len(Queue') = 0
  BY <1>2, QueueTypeNext DEF QueueFacts, IInv
<1>4. ASSUME NEW k \in current'..Len(filenames') PROVE Len(content'[Upload(filenames[k])']) = 0
  <2>1. k \in 1..Len(filenames)
    BY <1>1 DEF IInv, TypeOK
  <2>2. Upload(filenames[k]) \in Names
    BY <2>1, ToSendPaths DEF IInv, ScanInv
  <2>3. Upload(filenames[k])' = Upload(filenames[k])
    BY <1>1 DEF Upload, fixed
  <2> QED
    BY <1>2, <2>2, <2>3
<1> QED
  BY <1>3, <1>4 DEF FreshInv

LEMMA FreshQuiet ==
  ASSUME IInv, IInv', FreshInv, Quiet
  PROVE  FreshInv'
<1>1. UNCHANGED <<fixed, filenames, content>> /\ src_path' = src_path
  BY DEF Quiet, fixed
<1>2. ASSUME NEW j \in 1..Len(Queue'), Queue'[j].first
      PROVE  Len(content'[Upload(File(Queue[j]))']) = 0
  <2>1. PICK a \in Nat : \A i \in 1..Len(Queue') : a + i \in 1..Len(Queue) /\ Queue'[i] = Queue[a + i]
    BY DEF Quiet, Part
  <2>2. a + j \in 1..Len(Queue) /\ Queue'[j] = Queue[a + j]
    BY <2>1
  <2>3. Len(content[Upload(File(Queue[a + j]))]) = 0
    BY <1>2, <2>2 DEF FreshInv
  <2>4. Upload(File(Queue[j]))' = Upload(File(Queue[a + j]))
    BY <1>1, <2>2 DEF Upload, File
  <2> QED
    BY <1>1, <2>3, <2>4
<1>3. ASSUME Sending', NEW k \in current'..Len(filenames')
      PROVE  \/ Len(content'[Upload(filenames[k])']) = 0
             \/ k = current' /\ pc'["sender"] # "open" /\ SentPos' > 0
  <2>1. /\ Sending /\ current \in Nat /\ current' \in Nat /\ Len(filenames) \in Nat
        /\ \/ current' > current
           \/ /\ current' = current
              /\ pc["sender"] = "open" \/ (pc'["sender"] # "open" /\ SentPos' = SentPos)
    BY <1>3, LenProperties DEF Quiet, IInv, TypeOK
  <2>2. k \in current..Len(filenames) /\ (current' > current => k # current)
    BY <1>1, <2>1
  <2>3. \/ Len(content[Upload(filenames[k])]) = 0
        \/ k = current /\ pc["sender"] # "open" /\ SentPos > 0
    BY <2>1, <2>2 DEF FreshInv
  <2>4. CASE Len(content[Upload(filenames[k])]) = 0
    <3>1. Upload(filenames[k])' = Upload(filenames[k])
      BY <1>1 DEF Upload
    <3> QED
      BY <1>1, <2>4, <3>1
  <2>5. CASE k = current /\ pc["sender"] # "open" /\ SentPos > 0
    <3>1. current' = current /\ pc'["sender"] # "open" /\ SentPos' = SentPos
      BY <2>1, <2>2, <2>5
    <3> QED
      BY <2>5, <3>1
  <2> QED
    BY <2>3, <2>4, <2>5
<1> QED
  BY <1>2, <1>3 DEF FreshInv

LEMMA FreshWrite ==
  ASSUME IInv, IInv', FreshInv, WriteSegment
  PROVE  FreshInv'
<1> DEFINE n == Len(Queue)
<1>1. /\ UNCHANGED <<fixed, filenames, content, pos, segment, rcvbuf>> /\ src_path' = src_path
      /\ sndbuf' = Append(sndbuf, segment)
      /\ pc["sender"] = "write"
      /\ pc'["sender"] = IF segment.eof THEN "open" ELSE "segment"
      /\ current' = IF segment.eof THEN current + 1 ELSE current
  BY DEF WriteSegment, Goto, IInv, TypeOK, Procs, fixed, receiving
<1>2. /\ WellFormed(segment) /\ File(segment) = filenames[current] /\ End(segment) = pos
      /\ current \in current..Len(filenames) /\ current \in Nat /\ Len(filenames) \in Nat
  BY <1>1, LenProperties DEF IInv, SenderInv, TypeOK
<1>3. /\ Start(segment) \in Nat /\ End(segment) \in Nat /\ Start(segment) < End(segment)
      /\ segment.first => Start(segment) = 0
      /\ segment \in Segments
  BY <1>2, SegmentNumbers DEF IInv, WellFormed
<1>4. SentPos = Start(segment) /\ (~segment.eof => SentPos' = End(segment)) /\ Sending
  BY <1>1, <1>2 DEF SentPos, Sending
<1>5. Queue' = Append(Queue, segment) /\ Queue \in Seq(Segments) /\ n \in Nat
  <2>1. rcvbuf \in Seq(Segments) /\ sndbuf \in Seq(Segments)
    BY DEF IInv, TypeOK
  <2> QED
    BY <1>1, <1>3, <2>1, ConcatAppend, QueueType DEF Queue, QueueFacts, IInv
<1>6. /\ Len(Queue') = n + 1 /\ Queue'[n + 1] = segment
      /\ \A i \in 1..n : Queue'[i] = Queue[i]
  BY <1>3, <1>5, AppendProperties
<1> HIDE DEF n
<1>7. ASSUME NEW j \in 1..Len(Queue'), Queue'[j].first
      PROVE  Len(content'[Upload(File(Queue[j]))']) = 0
  <2>1. CASE j \in 1..n
    <3>1. Len(content[Upload(File(Queue[j]))]) = 0
      BY <1>6, <1>7, <2>1 DEF FreshInv, n
    <3>2. Upload(File(Queue[j]))' = Upload(File(Queue[j]))
      BY <1>1, <1>6, <2>1 DEF Upload, File
    <3> QED
      BY <1>1, <3>1, <3>2
  <2>2. CASE j = n + 1
    <3>1. segment.first /\ Upload(File(Queue[j]))' = Upload(filenames[current])
      BY <1>1, <1>2, <1>6, <1>7, <2>2 DEF Upload, File
    <3>2. SentPos = 0
      BY <1>3, <1>4, <3>1
    <3>3. Len(content[Upload(filenames[current])]) = 0
      BY <1>2, <1>4, <3>2 DEF FreshInv
    <3> QED
      BY <1>1, <3>1, <3>3
  <2>3. j \in 1..n \/ j = n + 1
    BY <1>5, <1>6
  <2> QED
    BY <2>1, <2>2, <2>3
<1>8. ASSUME NEW k \in current'..Len(filenames')
      PROVE  \/ Len(content'[Upload(filenames[k])']) = 0
             \/ k = current' /\ pc'["sender"] # "open" /\ SentPos' > 0
  <2>1. Upload(filenames[k])' = Upload(filenames[k])
    BY <1>1 DEF Upload
  <2>2. CASE k = current
    <3>1. ~segment.eof
      BY <1>1, <1>2, <2>2
    <3> QED
      BY <1>1, <1>3, <1>4, <2>2, <3>1
  <2>3. CASE k # current
    <3>1. k \in current..Len(filenames)
      BY <1>1, <1>2
    <3>2. Len(content[Upload(filenames[k])]) = 0
      BY <1>4, <2>3, <3>1 DEF FreshInv
    <3> QED
      BY <1>1, <2>1, <3>2
  <2> QED
    BY <2>2, <2>3
<1> QED
  BY <1>7, <1>8 DEF FreshInv

LEMMA FreshRead ==
  ASSUME IInv, IInv', FreshInv, Takes
  PROVE  FreshInv'
<1> DEFINE s == Queue[1]
           f == File(s)
           n == Len(Queue)
<1>1. /\ UNCHANGED <<fixed, filenames, pc, sndbuf, current, pos, segment>> /\ src_path' = src_path
  BY DEF Takes, ReadAndStore, DropSegment, fixed, sending
<1>2. WellFormed(s) /\ rcvbuf # <<>> /\ rcvbuf' = Tail(rcvbuf)
  BY TakenSegment DEF IInv
<1>3. ASSUME NEW g \in ToSend, g # f PROVE content'[Upload(g)] = content[Upload(g)]
  <2>1. f \in ToSend /\ src_path \in Paths
    BY <1>2 DEF WellFormed, IInv, TypeOK, Paths
  <2>2. Upload(g) # Upload(f) /\ Upload(g) \in Names
    BY <1>3, <2>1, UploadInjective, ToSendPaths
  <2> QED
    BY <2>2, TakeEffect DEF IInv, Stored
<1>4. /\ n \in Nat /\ n > 0 /\ Len(Queue') = n - 1
      /\ \A i \in 1..(n - 1) : i + 1 \in 1..n /\ Queue'[i] = Queue[i + 1]
  BY <1>1, <1>2, QueueTail DEF IInv
<1>5. Start(s) \in Nat /\ End(s) \in Nat /\ Start(s) < End(s)
  BY <1>2, SegmentNumbers DEF IInv
<1>6. /\ \A j \in 1..n : WellFormed(Queue[j])
      /\ \A i, j \in 1..n : i < j => Before(Queue[i], Queue[j])
      /\ s = Queue[1]
  BY DEF IInv, Data, Chain
<1> HIDE DEF s, n, f
<1>7. ASSUME NEW j \in 1..Len(Queue'), Queue'[j].first
      PROVE  Len(content'[Upload(File(Queue[j]))']) = 0
  <2>1. j + 1 \in 1..n /\ 1 \in 1..n /\ 1 < j + 1 /\ Queue'[j] = Queue[j + 1]
    BY <1>4
  <2> DEFINE t == Queue[j + 1]
  <2>2. WellFormed(t) /\ t.first /\ Before(s, t)
    BY <1>6, <1>7, <2>1
  <2>3. Upload(File(Queue[j]))' = Upload(File(t))
    BY <1>1, <2>1 DEF Upload, File
  <2>4. File(t) \in ToSend /\ Start(t) = 0
    BY <2>2 DEF WellFormed
  <2>5. Len(content[Upload(File(t))]) = 0
    BY <2>1, <2>2 DEF FreshInv, n
  <2> HIDE DEF t
  <2>6. File(t) # f
    <3>1. PICK k, l \in 1..Len(filenames) :
            /\ f = filenames[k] /\ File(t) = filenames[l]
            /\ k < l \/ (k = l /\ End(s) <= Start(t))
      BY <2>2 DEF Before, f
    <3>2. k < l
      BY <1>5, <2>4, <3>1
    <3>3. k # l
      BY <3>2
    <3> QED
      BY <3>1, <3>3 DEF IInv, ScanInv
  <2> QED
    BY <1>3, <2>3, <2>4, <2>5, <2>6
<1>8. ASSUME Sending', NEW k \in current'..Len(filenames')
      PROVE  \/ Len(content'[Upload(filenames[k])']) = 0
             \/ k = current' /\ pc'["sender"] # "open" /\ SentPos' > 0
  <2>1. /\ Sending /\ SentPos' = SentPos /\ Upload(filenames[k])' = Upload(filenames[k])
        /\ k \in current..Len(filenames)
    BY <1>1, <1>8 DEF Sending, SentPos, Upload, Start
  <2>2. current \in Nat /\ current > 0 /\ Len(filenames) \in Nat /\ k \in 1..Len(filenames)
    BY <2>1, LenProperties DEF IInv, TypeOK
  <2>3. filenames[k] \in ToSend
    BY <2>2 DEF IInv, ScanInv
  <2>4. CASE filenames[k] = f
    <3>1. SentBefore(s)
      BY <1>4, <1>6, <2>1 DEF IInv, Data, SentInv, n
    <3>2. PICK l \in 1..Len(filenames) :
            /\ f = filenames[l]
            /\ \/ l < current
               \/ l = current /\ pc["sender"] # "open" /\ End(s) <= SentPos
      BY <3>1 DEF SentBefore, f
    <3>3. l = k
      BY <2>2, <2>4, <3>2 DEF IInv, ScanInv
    <3>4. ~(l < current)
      BY <2>1, <2>2, <3>3
    <3>5. l = current /\ pc["sender"] # "open" /\ End(s) <= SentPos
      BY <3>2, <3>4
    <3>6. SentPos \in Int
      <4>1. pc["sender"] = "segment" => SentPos = pos /\ pos \in Nat
        BY DEF SentPos, IInv, TypeOK
      <4>2. pc["sender"] = "write" => SentPos = Start(segment) /\ Start(segment) \in Nat
        BY DEF SentPos, IInv, SenderInv, WellFormed
      <4> QED
        BY <2>1, <3>5, <4>1, <4>2 DEF Sending
    <3>7. SentPos > 0
      BY <1>5, <3>5, <3>6
    <3> QED
      BY <1>1, <2>1, <3>3, <3>5, <3>7
  <2>5. CASE filenames[k] # f
    <3>1. content'[Upload(filenames[k])] = content[Upload(filenames[k])]
      BY <1>3, <2>3, <2>5
    <3>2. \/ Len(content[Upload(filenames[k])]) = 0
          \/ k = current /\ pc["sender"] # "open" /\ SentPos > 0
      BY <2>1 DEF FreshInv
    <3> QED
      BY <1>1, <2>1, <3>1, <3>2
  <2> QED
    BY <2>4, <2>5
<1> QED
  BY <1>7, <1>8 DEF FreshInv

LEMMA StepKinds ==
  ASSUME IInv, [Next]_vars
  PROVE  \/ Quiet
         \/ link' = "none" /\ UNCHANGED receiving
         \/ Connect \/ WriteSegment \/ Takes
<1>1. CASE ScanFolder \/ ScanFile \/ ScanDone \/ ScanThrows
  BY <1>1 DEF ScanFolder, ScanFile, ScanDone, ScanThrows, IInv, LinkInv, network
<1>2. CASE NextFile \/ ReadSegment \/ WriteThrows
  BY <1>2, NextFileStep, ReadSegmentStep, WriteThrowsStep
<1>3. CASE SendFileFails \/ SendFileInterrupted \/ Drained
  BY <1>3, SenderEndsStep
<1>4. CASE ReceiverStops \/ ReadThrows \/ OpenFails
  BY <1>4, ReceiverEndsStep, OpenFailsStep
<1>5. CASE Deliver \/ ConnectionLost
  BY <1>5, DeliverStep, ConnectionLostStep
<1>6. ASSUME NEW p \in Procs, ConnectFails(p) PROVE link' = "none" /\ UNCHANGED receiving
  BY <1>6 DEF ConnectFails, IInv, LinkInv, Procs
<1>7. CASE \E p \in Procs : Interrupt(p) \/ Logger(p) \/ Return(p)
  BY <1>7, InterruptStep, LoggerStep, ReturnStep
<1>8. CASE UNCHANGED vars
  BY <1>8, StutterStep
<1> QED
  BY <1>1, <1>2, <1>3, <1>4, <1>5, <1>6, <1>7, <1>8 DEF Next, Sender, Receiver, Takes

LEMMA FreshNext == IInv /\ IInv' /\ FreshInv /\ [Next]_vars => FreshInv'
<1> SUFFICES ASSUME IInv, IInv', FreshInv, [Next]_vars PROVE FreshInv'
  OBVIOUS
<1>1. CASE link' = "none"
  BY <1>1, FreshIdleNext DEF IInv
<1> QED
  BY <1>1, StepKinds, FreshQuiet, FreshConnect, FreshWrite, FreshRead

\* What a step leaves of what was received: all of it, if the file could be
\* written, and a file that is done as it is.
ReceivedKept ==
  \A n \in Names :
    /\ n \notin write_failed' =>
         /\ Len(content[n]) <= Len(content'[n])
         /\ \A i \in 1..Len(content[n]) : content'[n][i] = content[n][i]
    /\ n \in finished => n \in finished' /\ content'[n] = content[n]

LEMMA ReadKeeps ==
  ASSUME IInv, FreshInv, Takes
  PROVE  ReceivedKept
<1> DEFINE s == Queue[1]
           path == Upload(File(s))
<1>1. /\ WellFormed(s) /\ Reading /\ 1 \in 1..Len(Queue) /\ path \in Names
      /\ Stored(s)
  BY TakenSegment, TakeEffect DEF IInv
<1>2. finished \subseteq finished' /\ path \notin finished
  BY <1>1 DEF IInv, Data, HeadInv, Stored
<1>3. \A n \in Names : content[n] \in Seq(Bytes) /\ Len(content[n]) \in Nat
  BY LenProperties DEF IInv, TypeOK
<1>4. ASSUME path \notin write_failed'
      PROVE  /\ Len(content[path]) <= Len(content'[path])
             /\ \A i \in 1..Len(content[path]) : content'[path][i] = content[path][i]
  <2>1. content'[path] = Given(s)
    BY <1>1, <1>4 DEF Stored
  <2>2. CASE s.first
    <3>1. Len(content[path]) = 0
      BY <1>1, <2>2 DEF FreshInv
    <3>2. content'[path] \in Seq(Bytes)
      BY <1>1 DEF Stored
    <3> QED
      BY <3>1, <3>2, LenProperties
  <2>3. CASE ~s.first
    <3> DEFINE old == content[path]
               c == Cut(s)
    <3>1. content'[path] = old \o c
      BY <2>1, <2>3 DEF Given
    <3>2. old \in Seq(Bytes) /\ c \in Seq(Bytes)
      BY <1>1, <1>3, CutSegment DEF IInv
    <3> HIDE DEF old, c
    <3>3. /\ Len(old \o c) = Len(old) + Len(c)
          /\ \A i \in 1..(Len(old) + Len(c)) :
               (old \o c)[i] = IF i <= Len(old) THEN old[i] ELSE c[i - Len(old)]
      BY <3>2, ConcatProperties
    <3>4. Len(old) \in Nat /\ Len(c) \in Nat
      BY <3>2, LenProperties
    <3>5. /\ Len(old) <= Len(old \o c)
          /\ \A i \in 1..Len(old) : (old \o c)[i] = old[i]
      BY <3>3, <3>4
    <3> QED
      BY <3>1, <3>5 DEF old
  <2> QED
    BY <2>2, <2>3
<1>5. \A n \in Names : n # path => content'[n] = content[n]
  BY <1>1 DEF Stored
<1> HIDE DEF s, path
<1> QED
  BY <1>2, <1>3, <1>4, <1>5 DEF ReceivedKept

\* Nothing received is lost again, unless a write to the file fails: open()
\* truncates the file (file-receive.cpp:114), but no file is opened when some
\* of it has arrived, the bytes written stay what they are, and a file reported
\* as done is not written to any more, failed or not.
THEOREM FileReceivedIsKept == Spec => [][ReceivedKept]_vars
<1>1. Init => FreshInv
  <2>1. Init => link = "none"
    BY DEF Init
  <2> QED
    BY <2>1, InitInv, FreshIdle DEF IInv
<1>2. IInv /\ FreshInv /\ [Next]_vars => ReceivedKept
  <2> SUFFICES ASSUME IInv, FreshInv, [Next]_vars PROVE ReceivedKept
    OBVIOUS
  <2>1. CASE content' = content /\ finished' = finished
    <3>1. \A n \in Names : Len(content[n]) \in Nat
      BY LenProperties DEF IInv, TypeOK
    <3> QED
      BY <2>1, <3>1 DEF ReceivedKept
  <2>2. CASE Takes
    BY <2>2, ReadKeeps
  <2>3. Takes \/ (content' = content /\ finished' = finished)
    BY StepKinds DEF Quiet, Connect, WriteSegment, receiving
  <2> QED
    BY <2>1, <2>2, <2>3
<1> QED
  BY <1>1, <1>2, Invariance, FreshNext, PTL DEF Spec
=============================================================================
