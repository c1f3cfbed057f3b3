----------------------------- MODULE MetricsPath -----------------------------
(***************************************************************************)
(* The packet metrics: metrics::generator numbers the packets it sends,    *)
(* and metrics::validator, at the other end of an SRT connection or of a   *)
(* UDP flow, counts received, lost, reordered and damaged ones             *)
(* (metrics.hpp, metrics_reorder.hpp, metrics_integrity.hpp).              *)
(*                                                                         *)
(* A packet is identified by its position in the stream; what it carries   *)
(* is the sequence number of that position as the generator writes it.     *)
(* MD5 is taken to be perfect: a damaged packet never has a valid checksum.*)
(***************************************************************************)
EXTENDS Integers, FiniteSets

CONSTANTS
  Media,        \* the media considered, a subset of {"srt", "udp"}
  IntMod,       \* the number of values of an int (2^32)
  LongMod,      \* the number of values of a uint64_t (2^64)
  MaxPackets,   \* bound on the packets generated
  MaxArrivals   \* bound on the packets received

ASSUME MediaAssumption == Media \subseteq {"srt", "udp"}
ASSUME ModAssumption ==
  /\ IntMod \in Nat \ {0} /\ LongMod \in Nat \ {0}
  /\ IntMod < LongMod
ASSUME BoundAssumption == MaxPackets \in Nat /\ MaxArrivals \in Nat

VARIABLES
  medium,       \* how packets travel
  m_seqno,      \* generator::m_seqno, also the number of packets sent
  last,         \* position of the packet received last, -1 if none
  arrived,      \* positions of the packets received undamaged (history)
  m_reorder,    \* validator::m_reorder
  m_integrity   \* validator::m_integrity

pathVars == <<medium, m_seqno, last, arrived, m_reorder, m_integrity>>

-----------------------------------------------------------------------------
\* generate_payload puts the counter into an int, write_packet_seqno extends
\* that int, with its sign, to 64 bits; read_packet_seqno reads it unsigned.
WireSeqno(n) ==
  LET i == n % IntMod
  IN  IF 2 * i < IntMod THEN i ELSE LongMod - (IntMod - i)

Max2(a, b) == IF a >= b THEN a ELSE b

AfterLoss_Uncounted(r, seqno) ==
  [r EXCEPT !.pkts_processed = @ + 1,
            !.expected_seqno = (seqno + 1) % LongMod]

\* reorder::submit_sample, a gap in the sequence.
AfterLoss(r, seqno) ==
  [r EXCEPT !.pkts_processed = @ + 1,
            !.pkts_lost      = @ + (seqno - r.expected_seqno),
            !.expected_seqno = (seqno + 1) % LongMod]

AfterReorder_Restarts(r, seqno) ==
  [r EXCEPT !.pkts_processed = @ + 1,
            !.pkts_reordered = @ + 1,
            !.expected_seqno = seqno + 1]

\* reorder::submit_sample, a number already passed.
AfterReorder(r, seqno) ==
  [r EXCEPT !.pkts_processed = @ + 1,
            !.pkts_reordered = @ + 1,
            !.reorder_dist   = Max2(@, r.expected_seqno - seqno)]

\* reorder::submit_sample.
ReorderSample(r, seqno) ==
  IF seqno = r.expected_seqno
    THEN [r EXCEPT !.pkts_processed = @ + 1,
                   !.expected_seqno = (@ + 1) % LongMod]
    ELSE IF seqno > r.expected_seqno THEN AfterLoss(r, seqno)
                                     ELSE AfterReorder(r, seqno)

\* integrity::submit_sample.
IntegritySample(c, lengthOk, checksumOk) ==
  [pkts_wrong_len      |-> c.pkts_wrong_len + (IF lengthOk THEN 0 ELSE 1),
   pkts_wrong_checksum |-> c.pkts_wrong_checksum + (IF checksumOk THEN 0 ELSE 1)]

PathInit ==
  /\ medium \in Media
  /\ m_seqno = 0
  /\ last = -1
  /\ arrived = {}
  /\ m_reorder = [expected_seqno |-> 0, pkts_processed |-> 0, pkts_lost |-> 0,
                  pkts_reordered |-> 0, reorder_dist |-> 0]
  /\ m_integrity = [pkts_wrong_len |-> 0, pkts_wrong_checksum |-> 0]

\* generator::generate_payload, and the packet is sent.
GeneratePayload ==
  /\ m_seqno < MaxPackets
  /\ m_seqno' = m_seqno + 1
  /\ UNCHANGED <<medium, last, arrived, m_reorder, m_integrity>>

\* What the medium may hand over next.  SRT delivers in order and at most
\* once, and may drop; UDP may also reorder and duplicate.
Deliverable(n) ==
  /\ n \in 0..(m_seqno - 1)
  /\ medium = "srt" => n > last
  /\ m_reorder.pkts_processed < MaxArrivals

\* validator::validate_packet for an undamaged packet.
ValidatePacket(n) ==
  /\ Deliverable(n)
  /\ last' = n
  /\ arrived' = arrived \cup {n}
  /\ m_integrity' = IntegritySample(m_integrity, TRUE, TRUE)
  /\ m_reorder' = ReorderSample(m_reorder, WireSeqno(n))
  /\ UNCHANGED <<medium, m_seqno>>

ValidateDamaged_Counted(n, lengthOk) ==
  /\ Deliverable(n)
  /\ last' = n
  /\ m_integrity' = IntegritySample(m_integrity, lengthOk, FALSE)
  /\ m_reorder' = ReorderSample(m_reorder, WireSeqno(n))
  /\ UNCHANGED <<medium, m_seqno, arrived>>

\* validator::validate_packet for a packet that was altered, or cut to the
\* size of the receiving buffer: only inc_pkts_received.
ValidateDamaged(n, lengthOk) ==
  /\ Deliverable(n)
  /\ last' = n
  /\ m_integrity' = IntegritySample(m_integrity, lengthOk, FALSE)
  /\ m_reorder' = [m_reorder EXCEPT !.pkts_processed = @ + 1]
  /\ UNCHANGED <<medium, m_seqno, arrived>>

\* The sender stops, and the receiver waits.
Quiet ==
  /\ m_seqno = MaxPackets
  /\ UNCHANGED pathVars

PathNext ==
  \/ GeneratePayload
  \/ \E n \in 0..(MaxPackets - 1) :
       \/ ValidatePacket(n)
       \/ \E lengthOk \in BOOLEAN : ValidateDamaged(n, lengthOk)
  \/ Quiet

PathSpec == PathInit /\ [][PathNext]_pathVars

-----------------------------------------------------------------------------
(* Properties.                                                             *)

ReorderStats == [expected_seqno : Nat, pkts_processed : Nat, pkts_lost : Nat,
                 pkts_reordered : Nat, reorder_dist : Nat]

(***************************************************************************)
(* The counters of generator and validator are natural numbers; none of    *)
(* the differences reorder::submit_sample takes is negative.               *)
(***************************************************************************)
PathTypeOK ==
  /\ medium \in Media
  /\ m_seqno \in 0..MaxPackets
  /\ last \in -1..(MaxPackets - 1)
  /\ arrived \subseteq 0..(MaxPackets - 1)
  /\ m_reorder \in ReorderStats
  /\ m_reorder.expected_seqno < LongMod
  /\ m_integrity \in [pkts_wrong_len : Nat, pkts_wrong_checksum : Nat]

(***************************************************************************)
(* The columns of the report add up: every number the validator has passed *)
(* was received in order or counted as lost, so that received + lost =     *)
(* expected + reordered + damaged.  This holds below 2^32 packets, also    *)
(* behind the one that turns negative as an int.                           *)
(***************************************************************************)
Accounting ==
  m_seqno < IntMod =>
    m_reorder.pkts_processed + m_reorder.pkts_lost =
      m_reorder.expected_seqno + m_reorder.pkts_reordered + m_integrity.pkts_wrong_checksum

\* Fewer than 2^31 packets were sent: the numbers on the wire are those of the
\* packets.  The next one is read as a number near 2^64 (metrics.cpp:91).
InRange == 2 * m_seqno <= IntMod

\* Packets the validator has passed that have not arrived undamaged.
Missing == (0..(m_reorder.expected_seqno - 1)) \ arrived

(***************************************************************************)
(* Up to 2^31 packets, on any medium, the losses reported are never too    *)
(* few, and too many by at most the number of packets reported as          *)
(* reordered.                                                              *)
(***************************************************************************)
LossBounds ==
  InRange =>
    /\ Cardinality(Missing) <= m_reorder.pkts_lost
    /\ m_reorder.pkts_lost <= Cardinality(Missing) + m_reorder.pkts_reordered

\* Packets before the last one received undamaged that were dropped, or
\* arrived damaged: validate_packet does not look at the number of those.
DroppedOrDamaged ==
  {n \in 0..(m_seqno - 1) : n \notin arrived /\ \E k \in arrived : n < k}

(***************************************************************************)
(* Over SRT, up to 2^31 packets, the losses reported are exactly the       *)
(* packets dropped or damaged before the last good one, and nothing is     *)
(* reported as reordered.  docs/metrics.md:24 has no such limit, and       *)
(* speaks of dropped packets only.                                         *)
(***************************************************************************)
SrtLossExact ==
  medium = "srt" /\ InRange =>
    /\ m_reorder.pkts_lost = Cardinality(DroppedOrDamaged)
    /\ m_reorder.pkts_reordered = 0
=============================================================================
