---------------------------- MODULE Metrics_proofs ----------------------------
(***************************************************************************)
(* The metrics, for every number of packets, delay and pipe: the counters  *)
(* of the validator (MetricsPath), its timing (TimingMetrics), the two     *)
(* together (Validator), and the writer that reports them (MetricsWriter). *)
(***************************************************************************)
EXTENDS Validator, MetricsWriter, FiniteSetTheorems, TLAPS

-----------------------------------------------------------------------------
(***************************************************************************)
(* validator::validate_packet and stats take the counters through steps of *)
(* MetricsPath only: what holds of it holds of the validator.              *)
(***************************************************************************)
THEOREM ValidatorIsPath == ValidatorSpec => PathSpec
<1>1. ValidatorInit => PathInit
  BY DEF ValidatorInit
<1>2. [ValidatorNext]_validatorVars => [PathNext]_pathVars
  <2> SUFFICES ASSUME [ValidatorNext]_validatorVars PROVE [PathNext]_pathVars
    OBVIOUS
  <2>1. CASE Generate
    BY <2>1 DEF Generate, PathNext
  <2>2. ASSUME NEW n \in 0..(MaxPackets - 1), NEW sys \in SysDelays, NEW std \in StdDelays,
               ValidateUndamaged(n, sys, std)
        PROVE  [PathNext]_pathVars
    BY <2>2 DEF ValidateUndamaged, PathNext
  <2>3. ASSUME NEW n \in 0..(MaxPackets - 1), NEW lengthOk \in BOOLEAN,
               ValidateAltered(n, lengthOk)
        PROVE  [PathNext]_pathVars
    BY <2>3 DEF ValidateAltered, PathNext
  <2>4. CASE Report \/ Restart
    BY <2>4 DEF Report, Restart
  <2>5. CASE Silence \/ UNCHANGED validatorVars
    BY <2>5 DEF Silence, validatorVars
  <2> QED
    BY <2>1, <2>2, <2>3, <2>4, <2>5 DEF ValidatorNext
<1> QED
  BY <1>1, <1>2, PTL DEF ValidatorSpec, PathSpec

(***************************************************************************)
(* The same for the timing: a damaged packet and the generator leave it    *)
(* alone, and the lock keeps samples and reports apart.                    *)
(***************************************************************************)
THEOREM ValidatorIsTiming == ValidatorSpec => TimingSpec
<1>1. ValidatorInit => TimingInit
  BY DEF ValidatorInit
<1>2. [ValidatorNext]_validatorVars => [TimingNext]_timingVars
  <2> SUFFICES ASSUME [ValidatorNext]_validatorVars PROVE [TimingNext]_timingVars
    OBVIOUS
  <2>1. CASE Generate
    BY <2>1 DEF Generate
  <2>2. ASSUME NEW n \in 0..(MaxPackets - 1), NEW sys \in SysDelays, NEW std \in StdDelays,
               ValidateUndamaged(n, sys, std)
        PROVE  [TimingNext]_timingVars
    BY <2>2 DEF ValidateUndamaged, TimingNext
  <2>3. ASSUME NEW n \in 0..(MaxPackets - 1), NEW lengthOk \in BOOLEAN,
               ValidateAltered(n, lengthOk)
        PROVE  [TimingNext]_timingVars
    BY <2>3 DEF ValidateAltered
  <2>4. CASE Report \/ Restart
    BY <2>4 DEF Report, Restart, TimingNext
  <2>5. CASE Silence \/ UNCHANGED validatorVars
    BY <2>5 DEF Silence, validatorVars
  <2> QED
    BY <2>1, <2>2, <2>3, <2>4, <2>5 DEF ValidatorNext
<1> QED
  BY <1>1, <1>2, PTL DEF ValidatorSpec, TimingSpec

-----------------------------------------------------------------------------
(***************************************************************************)
(* MetricsPath: what the loss accounting of metrics::reorder guarantees    *)
(* for every number of packets, every pattern of loss, reordering,         *)
(* duplication and damage, and every width of the integers.  Types hold    *)
(* always; the sums below 2^32 packets; what the counts mean while the     *)
(* sequence number stays in the non-negative half of an int (2^31).        *)
(***************************************************************************)

\* The validator's position: just behind the highest number received.
PositionInv ==
  /\ m_reorder.expected_seqno <= m_seqno
  /\ arrived \subseteq 0..(m_reorder.expected_seqno - 1)
  /\ m_reorder.expected_seqno > 0 => (m_reorder.expected_seqno - 1) \in arrived

\* What was received in order, and what was received at all.
CountInv ==
  /\ m_reorder.expected_seqno - m_reorder.pkts_lost <= Cardinality(arrived)
  /\ Cardinality(arrived) <= m_reorder.expected_seqno - m_reorder.pkts_lost
                               + m_reorder.pkts_reordered

\* SRT never hands over a number the validator has passed.
SrtInv ==
  medium = "srt" => /\ m_reorder.expected_seqno <= last + 1
                    /\ m_reorder.pkts_reordered = 0

RangeInv == InRange => PositionInv /\ CountInv /\ SrtInv

PathInv == PathTypeOK /\ Accounting /\ RangeInv

-----------------------------------------------------------------------------

LEMMA ModSmall ==
  ASSUME NEW a \in Nat, NEW b \in Nat, a < b
  PROVE  a % b = a
  BY SMT

LEMMA ModRange ==
  ASSUME NEW a \in Nat, NEW b \in Nat \ {0}
  PROVE  a % b \in Nat /\ a % b < b
  BY SMT

\* Below 2^31 packets a sequence number survives int and comes out as it was.
LEMMA WireSeqnoExact ==
  ASSUME NEW n \in Nat, 2 * n < IntMod
  PROVE  WireSeqno(n) = n
<1>1. IntMod \in Nat /\ n < IntMod
  BY ModAssumption
<1>2. n % IntMod = n
  BY <1>1, ModSmall
<1> QED
  BY <1>2 DEF WireSeqno

\* Whatever the position, the validator reads a 64-bit number; only the last
\* position of an int is read as the largest one.
LEMMA WireSeqnoType ==
  ASSUME NEW n \in Nat
  PROVE  /\ WireSeqno(n) \in Nat /\ WireSeqno(n) < LongMod
         /\ n + 1 < IntMod => WireSeqno(n) + 1 < LongMod
<1> DEFINE i == n % IntMod
<1>1. /\ IntMod \in Nat \ {0} /\ LongMod \in Nat /\ IntMod < LongMod
  BY ModAssumption
<1>2. i \in Nat /\ i < IntMod
  BY <1>1, ModRange
<1>3. n + 1 < IntMod => i = n
  BY <1>1, ModSmall
<1>4. WireSeqno(n) = IF 2 * i < IntMod THEN i ELSE LongMod - (IntMod - i)
  BY DEF WireSeqno
<1> HIDE DEF i
<1> QED
  BY <1>1, <1>2, <1>3, <1>4

\* Why InRange is needed, and no weaker condition would do: a packet's number
\* is read as it was sent exactly in the first half of an int; from there on
\* the sign is extended on the way into 64 bits (metrics.cpp:91), and the
\* validator reads a number that is larger by a fixed distance.
THEOREM WireSeqnoExactIff ==
  ASSUME NEW n \in 0..(IntMod - 1)
  PROVE  /\ WireSeqno(n) = n <=> 2 * n < IntMod
         /\ WireSeqno(n) # n => WireSeqno(n) = n + (LongMod - IntMod)
<1>1. n \in Nat /\ IntMod \in Nat /\ LongMod \in Nat /\ n < IntMod /\ IntMod < LongMod
  BY ModAssumption
<1>2. n % IntMod = n
  BY <1>1
<1>3. WireSeqno(n) = IF 2 * n < IntMod THEN n ELSE LongMod - (IntMod - n)
  BY <1>2 DEF WireSeqno
<1> QED
  BY <1>1, <1>3

LEMMA PathInitInv ==
  ASSUME PathInit PROVE PathInv
<1>1. Cardinality(arrived) = 0
  BY FS_EmptySet DEF PathInit
<1>2. PathTypeOK
  BY MediaAssumption, BoundAssumption, ModAssumption DEF PathInit, PathTypeOK, ReorderStats
<1>3. Accounting /\ RangeInv
  BY <1>1, BoundAssumption DEF PathInit, Accounting, RangeInv, PositionInv, CountInv, SrtInv
<1> QED
  BY <1>2, <1>3 DEF PathInv

(***************************************************************************)
(* The three outcomes of reorder::submit_sample, as arithmetic.            *)
(***************************************************************************)
LEMMA SampleFields ==
  ASSUME NEW n \in Nat, n < LongMod, NEW r \in ReorderStats, r.expected_seqno < LongMod
  PROVE  LET s == ReorderSample(r, n) IN
         /\ s \in ReorderStats
         /\ s.expected_seqno < LongMod
         /\ s.pkts_processed = r.pkts_processed + 1
         /\ n >= r.expected_seqno =>
              /\ s.expected_seqno = (n + 1) % LongMod
              /\ s.pkts_lost = r.pkts_lost + (n - r.expected_seqno)
              /\ s.pkts_reordered = r.pkts_reordered
         /\ n < r.expected_seqno =>
              /\ s.expected_seqno = r.expected_seqno
              /\ s.pkts_lost = r.pkts_lost
              /\ s.pkts_reordered = r.pkts_reordered + 1
<1> DEFINE s == ReorderSample(r, n)
           e == (n + 1) % LongMod
<1>0. e \in Nat /\ e < LongMod
  <2>1. LongMod \in Nat \ {0} /\ n + 1 \in Nat
    BY ModAssumption
  <2> QED
    BY <2>1, ModRange
<1> HIDE DEF e
<1>1. CASE n = r.expected_seqno
  <2>1. s = [r EXCEPT !.pkts_processed = r.pkts_processed + 1,
                      !.expected_seqno = e]
    BY <1>1 DEF ReorderSample, e
  <2> HIDE DEF s
  <2>2. s \in ReorderStats
    <3>1. r.pkts_processed + 1 \in Nat
      BY DEF ReorderStats
    <3> QED
      BY <1>0, <2>1, <3>1, Zenon DEF ReorderStats
  <2>3. /\ s.pkts_processed = r.pkts_processed + 1
        /\ s.expected_seqno = e
        /\ s.pkts_lost = r.pkts_lost
        /\ s.pkts_reordered = r.pkts_reordered
    BY <2>1 DEF ReorderStats
  <2>4. r.pkts_lost = r.pkts_lost + (n - r.expected_seqno) /\ ~(n < r.expected_seqno)
    BY <1>1 DEF ReorderStats
  <2> QED
    BY <1>0, <2>2, <2>3, <2>4 DEF s, e
<1>2. CASE n > r.expected_seqno
  <2>0. n # r.expected_seqno /\ ~(n < r.expected_seqno)
    BY <1>2 DEF ReorderStats
  <2>1. s = [r EXCEPT !.pkts_processed = r.pkts_processed + 1,
                      !.pkts_lost      = r.pkts_lost + (n - r.expected_seqno),
                      !.expected_seqno = e]
    <3>1. s = AfterLoss(r, n)
      BY <1>2, <2>0 DEF ReorderSample
    <3> QED
      BY <3>1, Zenon DEF AfterLoss, e
  <2> HIDE DEF s
  <2>2. s \in ReorderStats
    <3>1. /\ r.pkts_processed + 1 \in Nat
          /\ r.pkts_lost + (n - r.expected_seqno) \in Nat
      BY <1>2 DEF ReorderStats
    <3> QED
      BY <1>0, <2>1, <3>1, Zenon DEF ReorderStats
  <2>3. /\ s.pkts_processed = r.pkts_processed + 1
        /\ s.expected_seqno = e
        /\ s.pkts_lost = r.pkts_lost + (n - r.expected_seqno)
        /\ s.pkts_reordered = r.pkts_reordered
    BY <2>1 DEF ReorderStats
  <2> QED
    BY <1>0, <2>0, <2>2, <2>3 DEF s, e
<1>3. CASE n < r.expected_seqno
  <2>0. n # r.expected_seqno /\ ~(n > r.expected_seqno) /\ ~(n >= r.expected_seqno)
    BY <1>3 DEF ReorderStats
  <2>1. s = [r EXCEPT !.pkts_processed = r.pkts_processed + 1,
                      !.pkts_reordered = r.pkts_reordered + 1,
                      !.reorder_dist   = Max2(r.reorder_dist, r.expected_seqno - n)]
    <3>1. s = AfterReorder(r, n)
      BY <2>0 DEF ReorderSample
    <3> QED
      BY <3>1, Zenon DEF AfterReorder
  <2> HIDE DEF s
  <2>2. Max2(r.reorder_dist, r.expected_seqno - n) \in Nat
    BY <1>3 DEF Max2, ReorderStats
  <2>3. s \in ReorderStats
    <3>1. r.pkts_processed + 1 \in Nat /\ r.pkts_reordered + 1 \in Nat
      BY DEF ReorderStats
    <3> QED
      BY <2>1, <2>2, <3>1, Zenon DEF ReorderStats
  <2>4. /\ s.pkts_processed = r.pkts_processed + 1
        /\ s.expected_seqno = r.expected_seqno
        /\ s.pkts_lost = r.pkts_lost
        /\ s.pkts_reordered = r.pkts_reordered + 1
    BY <2>1 DEF ReorderStats
  <2> QED
    BY <2>0, <2>3, <2>4 DEF s
<1> QED
  BY <1>1, <1>2, <1>3 DEF ReorderStats

LEMMA ArrivedFinite ==
  ASSUME PathTypeOK
  PROVE  IsFiniteSet(arrived) /\ Cardinality(arrived) \in Nat
<1> DEFINE P == 0..(MaxPackets - 1)
<1>1. IsFiniteSet(P)
  BY BoundAssumption, FS_Interval
<1>2. arrived \in SUBSET P
  BY DEF PathTypeOK
<1>3. IsFiniteSet(arrived)
  BY <1>1, <1>2, FS_Subset
<1> QED
  BY <1>3, FS_CardinalityType

LEMMA ValidStep ==
  ASSUME PathInv, NEW n \in 0..(MaxPackets - 1), ValidatePacket(n)
  PROVE  PathInv'
<1> DEFINE e == m_reorder.expected_seqno
           E == m_reorder'.expected_seqno
           w == WireSeqno(n)
<1>1. /\ m_reorder \in ReorderStats /\ m_seqno \in 0..MaxPackets
      /\ e \in Nat /\ e < LongMod /\ n \in Nat /\ n < m_seqno
  BY BoundAssumption DEF PathInv, PathTypeOK, ReorderStats, ValidatePacket, Deliverable
<1>2. /\ w \in Nat /\ w < LongMod
      /\ n + 1 < IntMod => w + 1 < LongMod
  BY <1>1, WireSeqnoType
<1> HIDE DEF w
<1>3. /\ m_reorder' \in ReorderStats
      /\ E < LongMod
      /\ m_reorder'.pkts_processed = m_reorder.pkts_processed + 1
      /\ w >= e => /\ E = (w + 1) % LongMod
                   /\ m_reorder'.pkts_lost = m_reorder.pkts_lost + (w - e)
                   /\ m_reorder'.pkts_reordered = m_reorder.pkts_reordered
      /\ w < e => /\ E = e
                  /\ m_reorder'.pkts_lost = m_reorder.pkts_lost
                  /\ m_reorder'.pkts_reordered = m_reorder.pkts_reordered + 1
  <2>1. m_reorder' = ReorderSample(m_reorder, w)
    BY DEF ValidatePacket, w
  <2> QED
    BY <1>1, <1>2, <2>1, SampleFields
<1>4. n + 1 < IntMod => (w + 1) % LongMod = w + 1
  <2>1. w + 1 \in Nat /\ LongMod \in Nat
    BY <1>2, ModAssumption
  <2> QED
    BY <1>2, <2>1, ModSmall
<1>5. m_integrity' = m_integrity
  BY DEF ValidatePacket, IntegritySample, PathInv, PathTypeOK
<1>6. arrived' = arrived \cup {n} /\ last' = n /\ UNCHANGED <<medium, m_seqno>>
  BY DEF ValidatePacket
<1>7. PathTypeOK'
  BY <1>1, <1>3, <1>5, <1>6, BoundAssumption DEF PathInv, PathTypeOK
<1>8. Accounting'
  <2> SUFFICES ASSUME m_seqno' < IntMod
               PROVE  m_reorder'.pkts_processed + m_reorder'.pkts_lost =
                        E + m_reorder'.pkts_reordered + m_integrity'.pkts_wrong_checksum
    BY DEF Accounting
  <2>1. n + 1 < IntMod
    BY <1>1, <1>6, ModAssumption
  <2>2. m_reorder.pkts_processed + m_reorder.pkts_lost =
          e + m_reorder.pkts_reordered + m_integrity.pkts_wrong_checksum
    BY <1>6 DEF PathInv, Accounting
  <2>3. m_integrity.pkts_wrong_checksum \in Nat
    BY DEF PathInv, PathTypeOK
  <2> QED
    BY <1>1, <1>2, <1>3, <1>4, <1>5, <2>1, <2>2, <2>3 DEF ReorderStats
<1>9. RangeInv'
  <2> SUFFICES ASSUME InRange' PROVE PositionInv' /\ CountInv' /\ SrtInv'
    BY DEF RangeInv
  <2>1. InRange /\ PositionInv /\ CountInv /\ SrtInv
    BY <1>6 DEF PathInv, RangeInv, InRange
  <2>2. 2 * m_seqno <= IntMod /\ IntMod \in Nat /\ LongMod \in Nat /\ IntMod < LongMod
    BY <2>1, ModAssumption DEF InRange
  <2>3. 2 * n < IntMod /\ n + 1 < LongMod
    <3>1. m_seqno \in Nat /\ n + 1 <= m_seqno
      BY <1>1, BoundAssumption
    <3> QED
      BY <1>1, <2>2, <3>1
  <2>4. w = n /\ (w + 1) % LongMod = n + 1
    <3>1. w = n
      BY <1>1, <2>3, WireSeqnoExact DEF w
    <3>2. n + 1 \in Nat /\ LongMod \in Nat
      BY <1>1, ModAssumption
    <3> QED
      BY <2>3, <3>1, <3>2, ModSmall
  <2>5. /\ n >= e => /\ E = n + 1
                     /\ m_reorder'.pkts_lost = m_reorder.pkts_lost + (n - e)
                     /\ m_reorder'.pkts_reordered = m_reorder.pkts_reordered
        /\ n < e => /\ E = e
                    /\ m_reorder'.pkts_lost = m_reorder.pkts_lost
                    /\ m_reorder'.pkts_reordered = m_reorder.pkts_reordered + 1
    BY <1>3, <2>4
  <2>6. /\ IsFiniteSet(arrived) /\ Cardinality(arrived) \in Nat
        /\ Cardinality(arrived') = IF n \in arrived THEN Cardinality(arrived)
                                                    ELSE Cardinality(arrived) + 1
    <3>1. IsFiniteSet(arrived)
      BY ArrivedFinite DEF PathInv
    <3> QED
      BY <1>6, <3>1, FS_AddElement, FS_CardinalityType
  <2>7. n >= e => n \notin arrived
    BY <1>1, <2>1 DEF PositionInv
  <2>8. PositionInv'
    <3>1. E <= m_seqno'
      BY <1>1, <2>5, <1>6, <2>1 DEF PositionInv
    <3>2. arrived' \subseteq 0..(E - 1)
      BY <1>1, <2>5, <1>6, <2>1 DEF PositionInv
    <3>3. E - 1 \in arrived'
      BY <1>1, <2>5, <1>6, <2>1 DEF PositionInv
    <3> QED
      BY <3>1, <3>2, <3>3 DEF PositionInv
  <2>9. CountInv'
    BY <1>1, <1>3, <2>1, <2>5, <2>6, <2>7 DEF CountInv, ReorderStats
  <2>10. SrtInv'
    BY <1>1, <1>6, <2>1, <2>5 DEF PathInv, SrtInv, PathTypeOK, ValidatePacket, Deliverable
  <2> QED
    BY <2>8, <2>9, <2>10
<1> QED
  BY <1>7, <1>8, <1>9 DEF PathInv

LEMMA DamagedStep ==
  ASSUME PathInv, NEW n \in 0..(MaxPackets - 1), NEW lengthOk \in BOOLEAN,
         ValidateDamaged(n, lengthOk)
  PROVE  PathInv'
<1>1. /\ m_reorder \in ReorderStats
      /\ m_reorder' = [m_reorder EXCEPT !.pkts_processed = m_reorder.pkts_processed + 1]
      /\ last' = n /\ UNCHANGED <<medium, m_seqno, arrived>>
      /\ n \in Nat /\ n < m_seqno /\ m_seqno \in 0..MaxPackets
  BY BoundAssumption DEF ValidateDamaged, Deliverable, PathInv, PathTypeOK, ReorderStats
<1>2. /\ m_reorder' \in ReorderStats
      /\ m_reorder'.pkts_processed = m_reorder.pkts_processed + 1
      /\ m_reorder'.expected_seqno = m_reorder.expected_seqno
      /\ m_reorder'.pkts_lost = m_reorder.pkts_lost
      /\ m_reorder'.pkts_reordered = m_reorder.pkts_reordered
  BY <1>1 DEF ReorderStats
<1>3. /\ m_integrity' \in [pkts_wrong_len : Nat, pkts_wrong_checksum : Nat]
      /\ m_integrity'.pkts_wrong_checksum = m_integrity.pkts_wrong_checksum + 1
  BY DEF ValidateDamaged, IntegritySample, PathInv, PathTypeOK
<1>4. PathTypeOK'
  BY <1>1, <1>2, <1>3, BoundAssumption DEF PathInv, PathTypeOK
<1>5. Accounting'
  BY <1>1, <1>2, <1>3 DEF PathInv, Accounting, PathTypeOK, ReorderStats
<1>6. RangeInv'
  <2> SUFFICES ASSUME InRange' PROVE PositionInv' /\ CountInv' /\ SrtInv'
    BY DEF RangeInv
  <2>1. PositionInv /\ CountInv /\ SrtInv
    BY <1>1 DEF PathInv, RangeInv, InRange
  <2>2. PositionInv' /\ CountInv'
    BY <1>1, <1>2, <2>1 DEF PositionInv, CountInv
  <2>3. SrtInv'
    BY <1>1, <1>2, <2>1
       DEF PathInv, SrtInv, PathTypeOK, ReorderStats, ValidateDamaged, Deliverable
  <2> QED
    BY <2>2, <2>3
<1> QED
  BY <1>4, <1>5, <1>6 DEF PathInv

LEMMA PathStep ==
  ASSUME PathInv, [PathNext]_pathVars
  PROVE  PathInv'
<1>1. CASE GeneratePayload
  <2>1. /\ m_seqno' = m_seqno + 1 /\ m_seqno \in 0..MaxPackets /\ m_seqno < MaxPackets
        /\ m_reorder.expected_seqno \in Nat
        /\ UNCHANGED <<medium, last, arrived, m_reorder, m_integrity>>
    BY <1>1 DEF GeneratePayload, PathInv, PathTypeOK, ReorderStats
  <2>2. PathTypeOK'
    BY <2>1, BoundAssumption DEF PathInv, PathTypeOK
  <2>3. Accounting'
    BY <2>1, ModAssumption DEF PathInv, Accounting
  <2>4. InRange' => InRange
    BY <2>1, ModAssumption DEF InRange
  <2>5. InRange' => PositionInv'
    BY <2>1, <2>4 DEF PathInv, RangeInv, PositionInv
  <2>6. InRange' => CountInv' /\ SrtInv'
    BY <2>1, <2>4 DEF PathInv, RangeInv, CountInv, SrtInv
  <2> QED
    BY <2>2, <2>3, <2>5, <2>6 DEF PathInv, RangeInv
<1>2. CASE UNCHANGED pathVars
  BY <1>2 DEF pathVars, PathInv, PathTypeOK, Accounting, RangeInv, InRange, PositionInv,
              CountInv, SrtInv
<1> QED
  BY <1>1, <1>2, ValidStep, DamagedStep DEF PathNext, Quiet

(***************************************************************************)
(* Type correctness always, the sums below 2^32 packets, and position,     *)
(* counts and the order of SRT below 2^31 are invariants of generator and  *)
(* validator.                                                              *)
(***************************************************************************)
THEOREM MetricsInvariant == PathSpec => []PathInv
<1>1. PathInit => PathInv
  BY PathInitInv
<1>2. PathInv /\ [PathNext]_pathVars => PathInv'
  BY PathStep
<1> QED
  BY <1>1, <1>2, PTL DEF PathSpec

\* What the validator has passed without receiving it, counted.
LEMMA MissingCount ==
  ASSUME PathTypeOK, PositionInv
  PROVE  /\ Cardinality(Missing) = m_reorder.expected_seqno - Cardinality(arrived)
         /\ DroppedOrDamaged = Missing
<1> DEFINE e == m_reorder.expected_seqno
<1>1. e \in Nat /\ m_seqno \in Nat /\ e <= m_seqno
  BY DEF PathTypeOK, PositionInv, ReorderStats
<1>2. IsFiniteSet(0..(e - 1)) /\ Cardinality(0..(e - 1)) = e
  <2>1. 0 \in Int /\ e - 1 \in Int
    BY <1>1
  <2>2. /\ IsFiniteSet(0..(e - 1))
        /\ Cardinality(0..(e - 1)) = IF 0 > e - 1 THEN 0 ELSE (e - 1) - 0 + 1
    BY <2>1, FS_Interval, Zenon
  <2> QED
    BY <1>1, <2>2
<1>3. (0..(e - 1)) \cap arrived = arrived
  BY DEF PositionInv
<1>4. Cardinality(Missing) = e - Cardinality(arrived)
  <2>1. Cardinality((0..(e - 1)) \ arrived) = e - Cardinality((0..(e - 1)) \cap arrived)
    BY <1>2, FS_Difference
  <2> QED
    BY <1>3, <2>1 DEF Missing
<1>5. ASSUME NEW k \in arrived PROVE k \in 0..(e - 1) /\ k <= e - 1
  BY <1>1 DEF PositionInv
<1>6. ASSUME NEW k \in Missing PROVE k \in DroppedOrDamaged
  <2>1. k \in 0..(e - 1) /\ k \notin arrived /\ e - 1 \in arrived
    BY <1>1 DEF Missing, PositionInv
  <2>2. k \in 0..(m_seqno - 1) /\ k < e - 1
    BY <1>1, <2>1
  <2> QED
    BY <2>1, <2>2 DEF DroppedOrDamaged
<1>7. ASSUME NEW k \in DroppedOrDamaged PROVE k \in Missing
  BY <1>1, <1>5 DEF DroppedOrDamaged, Missing
<1> QED
  BY <1>4, <1>6, <1>7

(***************************************************************************)
(* The columns of every report add up, whatever the network does, below    *)
(* 2^32 packets.                                                           *)
(***************************************************************************)
THEOREM AccountingHolds == ValidatorSpec => []Accounting
<1>1. PathInv => Accounting
  BY DEF PathInv
<1> QED
  BY <1>1, MetricsInvariant, ValidatorIsPath, PTL

(***************************************************************************)
(* The losses reported are at least the packets missing, and exceed them   *)
(* by no more than the packets reported as reordered, up to 2^31 packets.  *)
(***************************************************************************)
THEOREM LossBoundsHolds == ValidatorSpec => []LossBounds
<1>1. ASSUME PathInv PROVE LossBounds
  <2> SUFFICES ASSUME InRange
               PROVE  /\ Cardinality(Missing) <= m_reorder.pkts_lost
                      /\ m_reorder.pkts_lost <= Cardinality(Missing) + m_reorder.pkts_reordered
    BY DEF LossBounds
  <2>1. PathTypeOK /\ PositionInv /\ CountInv
    BY <1>1 DEF PathInv, RangeInv
  <2>2. Cardinality(arrived) \in Nat
    BY <2>1, ArrivedFinite
  <2> QED
    BY <2>1, <2>2, MissingCount DEF CountInv, PathTypeOK, ReorderStats
<1> QED
  BY <1>1, MetricsInvariant, ValidatorIsPath, PTL

(***************************************************************************)
(* Over SRT the losses reported are exactly the packets dropped or         *)
(* damaged, up to 2^31 packets.                                            *)
(***************************************************************************)
THEOREM SrtLossExactHolds == ValidatorSpec => []SrtLossExact
<1>1. ASSUME PathInv PROVE SrtLossExact
  <2> SUFFICES ASSUME medium = "srt", InRange
               PROVE  /\ m_reorder.pkts_lost = Cardinality(DroppedOrDamaged)
                      /\ m_reorder.pkts_reordered = 0
    BY DEF SrtLossExact
  <2>1. PathTypeOK /\ PositionInv /\ CountInv /\ SrtInv
    BY <1>1 DEF PathInv, RangeInv
  <2>2. Cardinality(arrived) \in Nat
    BY <2>1, ArrivedFinite
  <2> QED
    BY <2>1, <2>2, MissingCount DEF CountInv, SrtInv, PathTypeOK, ReorderStats
<1> QED
  BY <1>1, MetricsInvariant, ValidatorIsPath, PTL

-----------------------------------------------------------------------------
(***************************************************************************)
(* TimingMetrics: for all delays that 64 bits hold, and packets and        *)
(* reports in any order and number.  Minimum and maximum, and the delay    *)
(* factor, are those of some packets of the period; what is smoothed stays *)
(* between bounds that only move apart.                                    *)
(***************************************************************************)

\* Whole microseconds, and the differences of two delays.
Delays == {v \in Int : -MaxValue < v /\ v < MaxValue}

\* The samples of the period and of the experiment.
SamplesOK ==
  /\ unreported \in [count : Nat, sys : SUBSET Delays, std : SUBSET StdDelays]
  /\ history \in [count : Nat, sys : SUBSET Delays, last : StdDelays \cup {0}, step : Nat]
  /\ unreported.count = 0 <=> unreported.sys = {}
  /\ unreported.count = 0 <=> unreported.std = {}
  /\ unreported.count <= history.count

\* A report in the making has taken all samples.
ReportInv == m_mtx = "stats" => unreported.count = 0

\* The delay factor of the period: no limits before the second packet, then
\* those of two packets, in this order.
DelayFactorInv ==
  m_mtx = "free" =>
    /\ m_delay_factor.is_reference <=> unreported.count = 0
    /\ unreported.count > 0 => m_delay_factor.reference \in StdDelays
    /\ unreported.count = 1 => m_delay_factor.min = MaxValue /\ m_delay_factor.max = MinValue
    /\ unreported.count = 0 => m_delay_factor.min = MaxValue /\ m_delay_factor.max = MinValue
    /\ unreported.count > 1 =>
         /\ m_delay_factor.min <= m_delay_factor.max
         /\ \E d, e \in unreported.std :
              /\ m_delay_factor.max = Micros(d - m_delay_factor.reference)
              /\ m_delay_factor.min = Micros(e - m_delay_factor.reference)

\* What no report resets: the previous delay of the jitter is the one of the
\* last packet.
LastInv ==
  IF history.count = 0
    THEN m_jitter.prev_delay = 0 /\ history.step = 0 /\ m_latency.avg = -1
    ELSE m_jitter.prev_delay = history.last /\ history.last \in StdDelays

TimingInv ==
  /\ TimingTypeOK
  /\ SamplesOK
  /\ ReportInv
  /\ LatencyOfPeriod
  /\ DelayFactorInv
  /\ LastInv
  /\ SmoothedWithinRange

\* Integer division is between two multiples of the divisor.
LEMMA DivMultiples ==
  ASSUME NEW x \in Nat, NEW k \in Nat, k > 0
  PROVE  /\ x \div k \in Nat
         /\ (x \div k) * k <= x
         /\ x < (x \div k) * k + k
BY SMT

LEMMA DoubleAtMost ==
  ASSUME NEW q \in Nat, NEW k \in Nat, k > 1
  PROVE  q + q <= q * k
<1>1. PICK j \in Nat : k = 2 + j
  <2>1. k - 2 \in Nat /\ k = 2 + (k - 2)
    OBVIOUS
  <2> QED
    BY <2>1
<1>2. q * k = q * 2 + q * j
  BY <1>1
<1>3. q * j \in Nat
  BY <1>1
<1> QED
  BY <1>2, <1>3

LEMMA ProductOfDifference ==
  ASSUME NEW a \in Int, NEW b \in Int, NEW k \in Nat
  PROVE  (-a) * k = -(a * k) /\ (a - b) * k = a * k - b * k /\ a * k \in Int
BY SMT

\* duration_cast cuts off less than a microsecond, towards zero.
LEMMA MicrosBounds ==
  ASSUME NEW x \in Int
  PROVE  /\ Micros(x) \in Int
         /\ x >= 0 => /\ 0 <= Micros(x) /\ Micros(x) + Micros(x) <= x
                      /\ Micros(x) * PerUs <= x /\ x < Micros(x) * PerUs + PerUs
         /\ x < 0 => /\ Micros(x) <= 0 /\ x <= Micros(x) + Micros(x)
                     /\ x <= Micros(x) * PerUs /\ Micros(x) * PerUs < x + PerUs
<1>0. PerUs \in Nat /\ PerUs > 1
  BY WidthAssumption
<1>1. CASE x >= 0
  <2>1. x \in Nat /\ Micros(x) = x \div PerUs
    BY <1>1 DEF Micros, Truncated
  <2>2. Micros(x) \in Nat /\ Micros(x) * PerUs <= x /\ x < Micros(x) * PerUs + PerUs
    BY <2>1, <1>0, DivMultiples
  <2>3. Micros(x) + Micros(x) <= Micros(x) * PerUs
    BY <2>2, <1>0, DoubleAtMost
  <2>4. Micros(x) * PerUs \in Int
    BY <2>2, <1>0
  <2> QED
    BY <1>1, <2>2, <2>3, <2>4
<1>2. CASE x < 0
  <2> DEFINE q == (-x) \div PerUs
  <2>1. -x \in Nat /\ Micros(x) = -q
    BY <1>2 DEF Micros, Truncated
  <2>2. q \in Nat /\ q * PerUs <= -x /\ -x < q * PerUs + PerUs
    BY <2>1, <1>0, DivMultiples
  <2> HIDE DEF q
  <2>3. q + q <= q * PerUs
    BY <2>2, <1>0, DoubleAtMost
  <2>4. (-q) * PerUs = -(q * PerUs) /\ q * PerUs \in Int
    BY <2>2, <1>0, ProductOfDifference
  <2> QED
    BY <1>0, <1>2, <2>1, <2>2, <2>3, <2>4
<1> QED
  BY <1>1, <1>2

\* A delay, and the difference of two, is still in range in microseconds.
LEMMA MicrosRange ==
  ASSUME NEW x \in Int, -MaxValue < x, x < MaxValue
  PROVE  Micros(x) \in Delays
<1> DEFINE m == Micros(x)
<1>1. MaxValue \in Nat
  BY WidthAssumption
<1>2. m \in Int /\ (x >= 0 => 0 <= m /\ m + m <= x) /\ (x < 0 => m <= 0 /\ x <= m + m)
  BY MicrosBounds
<1> HIDE DEF m
<1>3. m \in Delays
  BY <1>1, <1>2 DEF Delays
<1> QED
  BY <1>3 DEF m

\* The step of the exponential average does not leave the range of its inputs.
LEMMA SmoothedBetween ==
  ASSUME NEW lo \in Int, NEW hi \in Int, NEW x \in Int, NEW y \in Int,
         lo <= x, x <= hi, lo <= y, y <= hi
  PROVE  /\ Truncated(x * 15 + y, 16) \in Int
         /\ lo <= Truncated(x * 15 + y, 16) /\ Truncated(x * 15 + y, 16) <= hi
<1> DEFINE s == x * 15 + y
<1>1. s \in Int /\ lo * 16 <= s /\ s <= hi * 16
  OBVIOUS
<1> HIDE DEF s
<1>2. Truncated(s, 16) \in Int /\ lo <= Truncated(s, 16) /\ Truncated(s, 16) <= hi
  BY <1>1 DEF Truncated
<1> QED
  BY <1>2 DEF s

\* The truncated differences to a common reference: their distance is less
\* than a microsecond above the distance of two of the delays.
LEMMA TransitDistance ==
  ASSUME NEW d \in Int, NEW e \in Int, NEW r \in Int,
         Micros(e - r) <= Micros(d - r)
  PROVE  \/ (Micros(d - r) - Micros(e - r)) * PerUs < (d - e) + PerUs
         \/ Micros(d - r) - Micros(e - r) = 0
<1> DEFINE x == d - r
           y == e - r
           a == Micros(x)
           b == Micros(y)
<1>0. PerUs \in Nat /\ PerUs > 1
  BY WidthAssumption
<1>1. x \in Int /\ y \in Int /\ x - y = d - e
  OBVIOUS
<1>2. /\ a \in Int
      /\ x >= 0 => 0 <= a /\ a * PerUs <= x /\ x < a * PerUs + PerUs
      /\ x < 0 => a <= 0 /\ x <= a * PerUs /\ a * PerUs < x + PerUs
  BY <1>1, MicrosBounds
<1>3. /\ b \in Int
      /\ y >= 0 => 0 <= b /\ b * PerUs <= y /\ y < b * PerUs + PerUs
      /\ y < 0 => b <= 0 /\ y <= b * PerUs /\ b * PerUs < y + PerUs
  BY <1>1, MicrosBounds
<1>4. b <= a
  OBVIOUS
<1> HIDE DEF a, b, x, y
<1>5. (a - b) * PerUs = a * PerUs - b * PerUs /\ a * PerUs \in Int /\ b * PerUs \in Int
  BY <1>0, <1>2, <1>3, ProductOfDifference
<1>6. \/ a * PerUs - b * PerUs < (x - y) + PerUs
      \/ a - b = 0
  BY <1>0, <1>1, <1>2, <1>3, <1>4, <1>5
<1>7. \/ (a - b) * PerUs < (d - e) + PerUs
      \/ a - b = 0
  BY <1>1, <1>5, <1>6
<1> QED
  BY <1>7 DEF a, b, x, y

LEMMA JitterArithmetic ==
  ASSUME NEW num \in Nat, NEW scale \in Nat, NEW old \in Nat, NEW step \in Nat,
         NEW diff \in Nat, num <= old * scale, old <= step, diff <= step
  PROVE  /\ num * 15 + diff * scale \in Nat
         /\ num <= step * scale
         /\ num * 15 + diff * scale <= step * (scale * 16)
<1>1. PICK i \in Nat, j \in Nat : step = old + i /\ step = diff + j
  <2>1. step - old \in Nat /\ step - diff \in Nat /\ step = old + (step - old) /\ step = diff + (step - diff)
    OBVIOUS
  <2> QED
    BY <2>1
<1>2. step * scale = old * scale + i * scale
  BY <1>1
<1>3. step * scale = diff * scale + j * scale
  BY <1>1
<1>4. /\ i * scale \in Nat /\ j * scale \in Nat /\ old * scale \in Nat
      /\ diff * scale \in Nat /\ step * scale \in Nat
  BY <1>1
<1>5. step * (scale * 16) = (step * scale) * 16
  OBVIOUS
<1>6. num <= step * scale
  BY <1>2, <1>4
<1>7. num * 15 + diff * scale <= (step * scale) * 16
  BY <1>3, <1>4, <1>6
<1> QED
  BY <1>4, <1>5, <1>6, <1>7

LEMMA TimingInitInv == TimingInit => TimingInv
<1> SUFFICES ASSUME TimingInit PROVE TimingInv
  OBVIOUS
<1>0. MaxValue \in Nat /\ MaxReports \in Nat
  BY WidthAssumption, TimingBounds
<1>1. TimingTypeOK
  BY <1>0 DEF TimingInit, TimingTypeOK, NoDelayFactor, Values, MinValue
<1>2. SamplesOK /\ ReportInv
  BY DEF TimingInit, SamplesOK, ReportInv
<1>3. LatencyOfPeriod
  BY DEF TimingInit, LatencyOfPeriod
<1>4. DelayFactorInv /\ LastInv
  BY DEF TimingInit, DelayFactorInv, LastInv, NoDelayFactor
<1>5. SmoothedWithinRange
  BY DEF TimingInit, SmoothedWithinRange, AvgWithinRange, JitterBounded
<1> QED
  BY <1>1, <1>2, <1>3, <1>4, <1>5 DEF TimingInv

-----------------------------------------------------------------------------
(* validate_packet, one lemma per metric.                                  *)

\* The values a packet adds.
LEMMA SampleRange ==
  ASSUME NEW sys \in SysDelays, NEW std \in StdDelays
  PROVE  /\ Micros(sys) \in Delays /\ std \in Values
         /\ \A d \in StdDelays : d - std \in Int /\ Micros(std - d) \in Delays
<1>1. /\ MaxValue \in Nat /\ sys \in Int /\ std \in Int
      /\ -MaxValue < sys /\ sys < MaxValue /\ -MaxValue < std /\ std < MaxValue
  BY WidthAssumption, DelayAssumption
<1>2. Micros(sys) \in Delays
  BY <1>1, MicrosRange
<1>3. std \in Values
  BY <1>1 DEF Values, MinValue
<1>4. ASSUME NEW d \in StdDelays PROVE d - std \in Int /\ Micros(std - d) \in Delays
  <2>1. d \in Int /\ std - d < MaxValue /\ d - std < MaxValue
    BY WidthAssumption, DelayAssumption
  <2>2. std - d \in Int /\ -MaxValue < std - d
    BY <1>1, <2>1
  <2> QED
    BY <1>1, <2>1, <2>2, MicrosRange
<1> QED
  BY <1>2, <1>3, <1>4

LEMMA SampleSamples ==
  ASSUME TimingInv, NEW sys \in SysDelays, NEW std \in StdDelays, SubmitSamples(sys, std)
  PROVE  SamplesOK' /\ ReportInv'
<1>1. Micros(sys) \in Delays /\ std \in Values
  BY SampleRange
<1>2. /\ m_mtx' = "free"
      /\ unreported' = [count |-> unreported.count + 1,
                        sys   |-> unreported.sys \cup {Micros(sys)},
                        std   |-> unreported.std \cup {std}]
  BY DEF SubmitSamples, Validated
<1>3. /\ history'.count = history.count + 1 /\ history'.sys = history.sys \cup {Micros(sys)}
      /\ history'.last = std
      /\ history'.step = IF history.count = 0 THEN 0
                         ELSE Larger(history.step, Abs(Micros(std - history.last)))
      /\ history' = [count |-> history'.count, sys |-> history'.sys,
                     last |-> history'.last, step |-> history'.step]
  BY DEF SubmitSamples, Validated
<1>4. history'.step \in Nat
  <2>1. CASE history.count = 0
    BY <1>3, <2>1
  <2>2. CASE history.count # 0
    <3>1. history.step \in Nat /\ history.last \in StdDelays
      BY <2>2 DEF TimingInv, SamplesOK, LastInv
    <3>2. Micros(std - history.last) \in Int
      BY <3>1, SampleRange DEF Delays
    <3> QED
      BY <1>3, <2>2, <3>1, <3>2 DEF Larger, Abs
  <2> QED
    BY <2>1, <2>2
<1>5. /\ unreported.count \in Nat /\ unreported.sys \subseteq Delays /\ unreported.std \subseteq StdDelays
      /\ history.count \in Nat /\ history.sys \subseteq Delays
      /\ unreported.count <= history.count
  BY DEF TimingInv, SamplesOK
<1>6. unreported' \in [count : Nat, sys : SUBSET Delays, std : SUBSET StdDelays]
  BY <1>1, <1>2, <1>5
<1>7. history' \in [count : Nat, sys : SUBSET Delays, last : StdDelays \cup {0}, step : Nat]
  BY <1>1, <1>3, <1>4, <1>5
<1>8. unreported'.count > 0 /\ unreported'.sys # {} /\ unreported'.std # {}
  BY <1>2, <1>5
<1>9. unreported'.count <= history'.count
  BY <1>2, <1>3, <1>5
<1> QED
  BY <1>2, <1>6, <1>7, <1>8, <1>9 DEF SamplesOK, ReportInv

LEMMA SampleLatency ==
  ASSUME TimingInv, NEW sys \in SysDelays, NEW std \in StdDelays, SubmitSamples(sys, std)
  PROVE  /\ m_latency' \in [min : Values, max : Values, avg : Values]
         /\ LatencyOfPeriod'
         /\ AvgWithinRange'
<1> DEFINE delay == Micros(sys)
<1>1. delay \in Delays
  BY SampleRange
<1>2. /\ m_latency' = [min |-> Smaller(m_latency.min, delay), max |-> Larger(m_latency.max, delay),
                       avg |-> Smoothed(m_latency, delay)]
      /\ unreported'.sys = unreported.sys \cup {delay}
      /\ history'.sys = history.sys \cup {delay}
      /\ m_mtx = "free"
  BY DEF SubmitSamples, Validated, LatencySample
<1>3. /\ m_latency.min \in Values /\ m_latency.max \in Values /\ m_latency.avg \in Values
      /\ unreported.sys \subseteq Delays /\ history.sys \subseteq Delays /\ history.count \in Nat
  BY DEF TimingInv, TimingTypeOK, SamplesOK
<1>4. MaxValue \in Nat /\ delay \in Int /\ delay \in Values
  BY <1>1, WidthAssumption DEF Delays, Values, MinValue
<1>5. IF unreported.sys = {}
        THEN m_latency.min = MaxValue /\ m_latency.max = MinValue
        ELSE Least(m_latency.min, unreported.sys) /\ Greatest(m_latency.max, unreported.sys)
  BY <1>2 DEF TimingInv, LatencyOfPeriod
<1>6. history.count > 0 =>
        \E least, greatest \in history.sys : least <= m_latency.avg /\ m_latency.avg <= greatest
  BY DEF TimingInv, SmoothedWithinRange, AvgWithinRange
<1>7. history.count = 0 => m_latency.avg = -1
  BY DEF TimingInv, LastInv
<1> HIDE DEF delay
<1>8. Least(Smaller(m_latency.min, delay), unreported.sys \cup {delay})
  <2>1. CASE unreported.sys = {}
    BY <1>1, <1>4, <1>5, <2>1 DEF Least, Smaller, Delays
  <2>2. CASE unreported.sys # {}
    BY <1>3, <1>4, <1>5, <2>2 DEF Least, Smaller, Delays
  <2> QED
    BY <2>1, <2>2
<1>9. Greatest(Larger(m_latency.max, delay), unreported.sys \cup {delay})
  <2>1. CASE unreported.sys = {}
    BY <1>1, <1>4, <1>5, <2>1 DEF Greatest, Larger, Delays, MinValue
  <2>2. CASE unreported.sys # {}
    BY <1>3, <1>4, <1>5, <2>2 DEF Greatest, Larger, Delays
  <2> QED
    BY <2>1, <2>2
<1>10. LatencyOfPeriod'
  BY <1>2, <1>8, <1>9 DEF LatencyOfPeriod, Least, Greatest
<1>11. PICK lo, hi \in history.sys \cup {delay} :
         /\ lo <= Smoothed(m_latency, delay) /\ Smoothed(m_latency, delay) <= hi
         /\ Smoothed(m_latency, delay) \in Int
  <2>1. CASE m_latency.avg = -1
    BY <1>4, <2>1 DEF Smoothed
  <2>2. CASE m_latency.avg # -1
    <3>1. PICK a, b \in history.sys : a <= m_latency.avg /\ m_latency.avg <= b
      BY <1>3, <1>6, <1>7, <2>2
    <3>2. a \in Int /\ b \in Int /\ m_latency.avg \in Int
      BY <1>3, <3>1 DEF Delays, Values
    <3>3. /\ Smaller(a, delay) \in Int /\ Larger(b, delay) \in Int
          /\ Smaller(a, delay) <= m_latency.avg /\ m_latency.avg <= Larger(b, delay)
          /\ Smaller(a, delay) <= delay /\ delay <= Larger(b, delay)
      BY <1>4, <3>1, <3>2 DEF Smaller, Larger
    <3>4. /\ Smaller(a, delay) <= Smoothed(m_latency, delay)
          /\ Smoothed(m_latency, delay) <= Larger(b, delay)
          /\ Smoothed(m_latency, delay) \in Int
      BY <1>4, <2>2, <3>2, <3>3, SmoothedBetween DEF Smoothed
    <3>5. Smaller(a, delay) \in history.sys \cup {delay} /\ Larger(b, delay) \in history.sys \cup {delay}
      BY <3>1 DEF Smaller, Larger
    <3> QED
      BY <3>4, <3>5
  <2> QED
    BY <2>1, <2>2
<1>12. AvgWithinRange'
  BY <1>2, <1>11 DEF AvgWithinRange
<1>13. Smoothed(m_latency, delay) \in Values
  <2>1. lo \in Delays /\ hi \in Delays
    BY <1>1, <1>3, <1>11
  <2> QED
    BY <1>4, <1>11, <2>1 DEF Delays, Values, MinValue
<1>14. Smaller(m_latency.min, delay) \in Values /\ Larger(m_latency.max, delay) \in Values
  BY <1>3, <1>4 DEF Smaller, Larger
<1> QED
  BY <1>2, <1>10, <1>12, <1>13, <1>14

LEMMA SampleJitter ==
  ASSUME TimingInv, NEW sys \in SysDelays, NEW std \in StdDelays, SubmitSamples(sys, std)
  PROVE  /\ m_jitter' \in [prev_delay : Values, num : Nat, scale : Nat \ {0}]
         /\ LastInv'
         /\ JitterBounded'
<1> DEFINE diff == Abs(Micros(std - m_jitter.prev_delay))
           num == m_jitter.num
           scale == m_jitter.scale
           step == history'.step
<1>1. /\ m_jitter' = JitterSample(m_jitter, std)
      /\ history'.count = history.count + 1 /\ history'.last = std
      /\ step = IF history.count = 0 THEN 0
                ELSE Larger(history.step, Abs(Micros(std - history.last)))
  BY DEF SubmitSamples, Validated
<1>2. /\ m_jitter \in [prev_delay : Values, num : Nat, scale : Nat \ {0}]
      /\ num \in Nat /\ scale \in Nat /\ scale > 0 /\ m_jitter.prev_delay \in Values
      /\ history.step \in Nat /\ history.count \in Nat /\ std \in Values
      /\ num <= history.step * scale
  BY SampleRange DEF TimingInv, TimingTypeOK, SamplesOK, SmoothedWithinRange, JitterBounded
<1>3. IF history.count = 0
        THEN m_jitter.prev_delay = 0 /\ history.step = 0
        ELSE m_jitter.prev_delay = history.last /\ history.last \in StdDelays
  BY DEF TimingInv, LastInv
<1>4. LastInv'
  <2>1. m_jitter'.prev_delay = std
    BY <1>1, <1>2 DEF JitterSample
  <2>2. history'.count # 0
    BY <1>1, <1>2
  <2> QED
    BY <1>1, <2>1, <2>2 DEF LastInv
<1>5. step \in Nat /\ history.step <= step /\ (history.count # 0 => diff \in Nat /\ diff <= step)
  <2>1. CASE history.count = 0
    BY <1>1, <1>3, <2>1
  <2>2. CASE history.count # 0
    <3>1. Micros(std - history.last) \in Int
      BY <1>3, <2>2, SampleRange DEF Delays
    <3>2. diff = Abs(Micros(std - history.last)) /\ diff \in Nat
      BY <1>3, <2>2, <3>1 DEF Abs
    <3> HIDE DEF diff
    <3> QED
      BY <1>1, <1>2, <2>2, <3>2 DEF Larger
  <2> QED
    BY <2>1, <2>2
<1>6. CASE m_jitter.prev_delay = 0
  <2>1. m_jitter' = [m_jitter EXCEPT !.prev_delay = std]
    BY <1>1, <1>6 DEF JitterSample
  <2>2. m_jitter'.num = num /\ m_jitter'.scale = scale
    BY <1>2, <2>1
  <2>3. m_jitter' \in [prev_delay : Values, num : Nat, scale : Nat \ {0}]
    BY <1>2, <2>1
  <2> HIDE DEF num, scale, step, diff
  <2>4. num <= step * scale
    BY <1>2, <1>5, JitterArithmetic
  <2> QED
    BY <1>4, <2>2, <2>3, <2>4 DEF JitterBounded, step
<1>7. CASE m_jitter.prev_delay # 0
  <2>1. m_jitter' = [prev_delay |-> std, num |-> num * 15 + diff * scale, scale |-> scale * 16]
    BY <1>1, <1>7 DEF JitterSample
  <2>2. diff \in Nat /\ diff <= step
    BY <1>3, <1>5, <1>7
  <2> HIDE DEF num, scale, step, diff
  <2>3. num * 15 + diff * scale \in Nat /\ num * 15 + diff * scale <= step * (scale * 16)
    BY <1>2, <1>5, <2>2, JitterArithmetic
  <2>4. scale * 16 \in Nat \ {0}
    BY <1>2
  <2>5. m_jitter' \in [prev_delay : Values, num : Nat, scale : Nat \ {0}]
    BY <1>2, <2>1, <2>3, <2>4
  <2>6. m_jitter'.num = num * 15 + diff * scale /\ m_jitter'.scale = scale * 16
    BY <2>1
  <2> QED
    BY <1>4, <2>3, <2>5, <2>6 DEF JitterBounded, step
<1> QED
  BY <1>6, <1>7

LEMMA SampleDelayFactor ==
  ASSUME TimingInv, NEW sys \in SysDelays, NEW std \in StdDelays, SubmitSamples(sys, std)
  PROVE  /\ m_delay_factor' \in [is_reference : BOOLEAN, reference : Values, min : Values,
                                 max : Values]
         /\ DelayFactorInv'
<1> DEFINE f == m_delay_factor
           transit == Micros(std - f.reference)
<1>1. /\ m_delay_factor' = DelayFactorSample(f, std)
      /\ unreported'.count = unreported.count + 1
      /\ unreported'.std = unreported.std \cup {std}
      /\ m_mtx = "free"
  BY DEF SubmitSamples, Validated
<1>2. /\ f \in [is_reference : BOOLEAN, reference : Values, min : Values, max : Values]
      /\ f.min \in Values /\ f.max \in Values
      /\ unreported.count \in Nat
      /\ unreported.count = 0 <=> unreported.std = {}
      /\ unreported.std \subseteq StdDelays
  BY DEF TimingInv, TimingTypeOK, SamplesOK
<1>3. /\ f.is_reference <=> unreported.count = 0
      /\ unreported.count > 0 => f.reference \in StdDelays
      /\ unreported.count = 1 => f.min = MaxValue /\ f.max = MinValue
      /\ unreported.count = 0 => f.min = MaxValue /\ f.max = MinValue
      /\ unreported.count > 1 =>
           /\ f.min <= f.max
           /\ \E d, e \in unreported.std :
                f.max = Micros(d - f.reference) /\ f.min = Micros(e - f.reference)
  BY <1>1 DEF TimingInv, DelayFactorInv
<1>4. std \in Values /\ MaxValue \in Nat
  BY SampleRange, WidthAssumption
<1>5. CASE unreported.count = 0
  <2>1. m_delay_factor' = [f EXCEPT !.reference = std, !.is_reference = FALSE]
    BY <1>1, <1>3, <1>5 DEF DelayFactorSample
  <2>2. m_delay_factor' \in [is_reference : BOOLEAN, reference : Values, min : Values, max : Values]
    BY <1>2, <1>4, <2>1
  <2>3. /\ m_delay_factor'.is_reference = FALSE /\ m_delay_factor'.reference = std
        /\ m_delay_factor'.min = MaxValue /\ m_delay_factor'.max = MinValue
    BY <1>2, <1>3, <1>5, <2>1
  <2>4. unreported'.count = 1
    BY <1>1, <1>5
  <2>5. MinValue' = MinValue
    BY DEF MinValue
  <2>6. DelayFactorInv'
    BY <2>3, <2>4, <2>5 DEF DelayFactorInv
  <2> QED
    BY <2>2, <2>6
<1>6. CASE unreported.count > 0
  <2>1. m_delay_factor' = [f EXCEPT !.min = Smaller(@, transit), !.max = Larger(@, transit)]
    BY <1>1, <1>2, <1>3, <1>6 DEF DelayFactorSample
  <2>a. transit \in Delays
    BY <1>3, <1>6, SampleRange
  <2> HIDE DEF transit
  <2>2. transit \in Delays /\ transit \in Int /\ transit \in Values
    BY <1>4, <2>a DEF Delays, Values, MinValue
  <2>3. /\ m_delay_factor'.is_reference = FALSE /\ m_delay_factor'.reference = f.reference
        /\ m_delay_factor'.min = Smaller(f.min, transit)
        /\ m_delay_factor'.max = Larger(f.max, transit)
    BY <1>2, <1>3, <1>6, <2>1
  <2>4. Smaller(f.min, transit) \in Values /\ Larger(f.max, transit) \in Values
    BY <1>2, <2>2 DEF Smaller, Larger
  <2>5. m_delay_factor' \in [is_reference : BOOLEAN, reference : Values, min : Values, max : Values]
    BY <1>2, <2>1, <2>4
  <2>6. Smaller(f.min, transit) <= Larger(f.max, transit)
    BY <1>2, <2>2 DEF Smaller, Larger, Values
  <2>7. \E d, e \in unreported.std \cup {std} :
          /\ Larger(f.max, transit) = Micros(d - f.reference)
          /\ Smaller(f.min, transit) = Micros(e - f.reference)
    <3>1. CASE unreported.count = 1
      <4>1. Larger(f.max, transit) = transit /\ Smaller(f.min, transit) = transit
        BY <1>3, <1>4, <2>2, <3>1 DEF Larger, Smaller, Delays, MinValue
      <4> QED
        BY <4>1 DEF transit
    <3>2. CASE unreported.count > 1
      <4>1. PICK d, e \in unreported.std :
              f.max = Micros(d - f.reference) /\ f.min = Micros(e - f.reference)
        BY <1>3, <3>2
      <4>2. Larger(f.max, transit) \in {f.max, transit} /\ Smaller(f.min, transit) \in {f.min, transit}
        BY DEF Larger, Smaller
      <4>3. transit = Micros(std - f.reference)
        BY DEF transit
      <4> QED
        BY <4>1, <4>2, <4>3
    <3> QED
      BY <1>2, <1>6, <3>1, <3>2
  <2>8. unreported'.count > 1
    BY <1>1, <1>2, <1>6
  <2>9. f.reference \in StdDelays
    BY <1>3, <1>6
  <2>10. DelayFactorInv'
    <3>1. unreported'.count # 0 /\ unreported'.count # 1 /\ unreported'.count > 0
      BY <1>1, <1>2, <2>8
    <3>2. m_delay_factor'.min <= m_delay_factor'.max
      BY <2>3, <2>6
    <3>3. \E d, e \in unreported'.std :
            /\ m_delay_factor'.max = Micros(d - m_delay_factor'.reference)
            /\ m_delay_factor'.min = Micros(e - m_delay_factor'.reference)
      BY <1>1, <2>3, <2>7
    <3> QED
      BY <2>3, <2>9, <3>1, <3>2, <3>3 DEF DelayFactorInv
  <2> QED
    BY <2>5, <2>10
<1> QED
  BY <1>2, <1>5, <1>6

LEMMA SampleStep ==
  ASSUME TimingInv, NEW sys \in SysDelays, NEW std \in StdDelays, SubmitSamples(sys, std)
  PROVE  TimingInv'
<1>1. m_mtx' = m_mtx /\ reports' = reports
  BY DEF SubmitSamples, Validated
<1>2. TimingTypeOK'
  BY <1>1, SampleLatency, SampleJitter, SampleDelayFactor DEF TimingInv, TimingTypeOK
<1> QED
  BY <1>2, SampleSamples, SampleLatency, SampleJitter, SampleDelayFactor
     DEF TimingInv, SmoothedWithinRange

-----------------------------------------------------------------------------
(* The reports.                                                            *)

LEMMA StatsBeginStep ==
  ASSUME TimingInv, StatsBegin
  PROVE  TimingInv'
<1> USE DEF TimingInv
<1>1. /\ m_mtx' = "stats" /\ reports' = reports + 1 /\ reports < MaxReports
      /\ unreported' = [count |-> 0, sys |-> {}, std |-> {}]
      /\ m_latency' = m_latency /\ m_jitter' = m_jitter
      /\ m_delay_factor' = m_delay_factor /\ history' = history
  BY DEF StatsBegin
<1>2. TimingTypeOK'
  BY <1>1, TimingBounds DEF TimingTypeOK
<1>3. SamplesOK' /\ ReportInv'
  BY <1>1 DEF SamplesOK, ReportInv
<1>4. LatencyOfPeriod' /\ DelayFactorInv'
  BY <1>1 DEF LatencyOfPeriod, DelayFactorInv
<1>5. LastInv' /\ SmoothedWithinRange'
  BY <1>1 DEF LastInv, SmoothedWithinRange, AvgWithinRange, JitterBounded
<1> QED
  BY <1>2, <1>3, <1>4, <1>5

LEMMA StatsEndStep ==
  ASSUME TimingInv, StatsEnd
  PROVE  TimingInv'
<1> USE DEF TimingInv
<1>1. /\ m_mtx' = "free" /\ reports' = reports /\ unreported' = unreported
      /\ m_latency' = [m_latency EXCEPT !.min = MaxValue, !.max = MinValue]
      /\ m_delay_factor' = NoDelayFactor
      /\ m_jitter' = m_jitter /\ history' = history
      /\ unreported.count = 0
  BY DEF StatsEnd, LatencyReset, ReportInv
<1>2. MaxValue \in Values /\ MinValue \in Values /\ 0 \in Values
  BY WidthAssumption DEF Values, MinValue
<1>3. /\ m_latency'.min = MaxValue /\ m_latency'.max = MinValue /\ m_latency'.avg = m_latency.avg
      /\ m_latency' \in [min : Values, max : Values, avg : Values]
  BY <1>1, <1>2 DEF TimingTypeOK
<1>4. TimingTypeOK'
  BY <1>1, <1>2, <1>3 DEF TimingTypeOK, NoDelayFactor
<1>5. SamplesOK' /\ ReportInv'
  BY <1>1 DEF SamplesOK, ReportInv
<1>6. LatencyOfPeriod'
  BY <1>1, <1>3 DEF LatencyOfPeriod, SamplesOK
<1>7. DelayFactorInv'
  BY <1>1 DEF DelayFactorInv, NoDelayFactor
<1>8. LastInv' /\ SmoothedWithinRange'
  BY <1>1, <1>3 DEF LastInv, SmoothedWithinRange, AvgWithinRange, JitterBounded
<1> QED
  BY <1>4, <1>5, <1>6, <1>7, <1>8

LEMMA TimingStep == TimingInv /\ [TimingNext]_timingVars => TimingInv'
<1> SUFFICES ASSUME TimingInv, [TimingNext]_timingVars PROVE TimingInv'
  OBVIOUS
<1>1. CASE UNCHANGED timingVars
  BY <1>1 DEF timingVars, TimingInv, TimingTypeOK, SamplesOK, ReportInv, LatencyOfPeriod,
     DelayFactorInv, LastInv, SmoothedWithinRange, AvgWithinRange, JitterBounded
<1> QED
  BY <1>1, SampleStep, StatsBeginStep, StatsEndStep DEF TimingNext, NoMoreSamples

\* The invariant of the timing metrics, however packets and reports alternate.
THEOREM TimingInvariant == TimingSpec => []TimingInv
BY TimingInitInv, TimingStep, PTL DEF TimingSpec

\* Two values that came from packets do not overflow when subtracted.
LEMMA DelayFactorExact ==
  ASSUME TimingInv, m_mtx = "free", unreported.count >= 2
  PROVE  DelayFactor(m_delay_factor) = m_delay_factor.max - m_delay_factor.min
<1> DEFINE a == m_delay_factor.max
           b == m_delay_factor.min
           w == 2 * (MaxValue + 1)
<1>1. PICK d, e \in unreported.std :
         /\ b <= a
         /\ a = Micros(d - m_delay_factor.reference)
         /\ b = Micros(e - m_delay_factor.reference)
  BY DEF TimingInv, SamplesOK, DelayFactorInv
<1>2. d \in StdDelays /\ e \in StdDelays /\ m_delay_factor.reference \in StdDelays
  BY DEF TimingInv, SamplesOK, DelayFactorInv
<1> DEFINE x == d - m_delay_factor.reference
           y == e - m_delay_factor.reference
<1>3. /\ x \in Int /\ y \in Int /\ MaxValue \in Nat
      /\ x < MaxValue /\ y < MaxValue /\ -MaxValue < x /\ -MaxValue < y
  <2>1. d \in Int /\ e \in Int /\ m_delay_factor.reference \in Int /\ MaxValue \in Nat
    BY <1>2, DelayAssumption, WidthAssumption
  <2>2. x < MaxValue /\ y < MaxValue
    BY <1>2, WidthAssumption
  <2>3. m_delay_factor.reference - d < MaxValue /\ m_delay_factor.reference - e < MaxValue
    BY <1>2, WidthAssumption
  <2> QED
    BY <2>1, <2>2, <2>3
<1>4. /\ a \in Int /\ (x >= 0 => a + a <= x) /\ (x < 0 => a <= 0)
      /\ b \in Int /\ (y >= 0 => 0 <= b) /\ (y < 0 => y <= b + b)
  BY <1>1, <1>3, MicrosBounds
<1> HIDE DEF a, b, x, y
<1>5. a - b \in Nat /\ a - b <= MaxValue
  BY <1>1, <1>3, <1>4
<1>6. w \in Nat /\ a - b < w
  BY <1>3, <1>5
<1>7. (a - b) % w = a - b
  BY <1>5, <1>6, ModSmall
<1>8. Difference(a, b) = a - b
  BY <1>5, <1>7 DEF Difference
<1> QED
  BY <1>8 DEF DelayFactor, a, b

\* With fewer than two packets the limits of int64_t are subtracted.
LEMMA NoDelayFactorIsOne ==
  ASSUME TimingInv, m_mtx = "free", unreported.count < 2
  PROVE  DelayFactor(m_delay_factor) = 1
<1> DEFINE w == 2 * (MaxValue + 1)
<1>1. m_delay_factor.min = MaxValue /\ m_delay_factor.max = -MaxValue - 1
  <2>1. unreported.count = 0 \/ unreported.count = 1
    BY DEF TimingInv, SamplesOK
  <2> QED
    BY <2>1 DEF TimingInv, DelayFactorInv, MinValue
<1>2. MaxValue \in Nat \ {0}
  BY WidthAssumption
<1>3. w \in Nat /\ 1 < w /\ (-MaxValue - 1) - MaxValue = 1 - w
  BY <1>2
<1>4. (1 - w) % w = 1
  <2>1. \A k \in Nat : 1 < k => (1 - k) % k = 1
    OBVIOUS
  <2> QED
    BY <1>3, <2>1
<1>5. ((-MaxValue - 1) - MaxValue) % w = 1
  BY <1>3, <1>4
<1>6. Difference(-MaxValue - 1, MaxValue) = 1
  BY <1>2, <1>5 DEF Difference
<1> QED
  BY <1>1, <1>6 DEF DelayFactor

\* Each report covers its measurement period and no other packet, for all
\* delays, and any number and order of packets and reports (metrics.cpp:245).
THEOREM ReportOfPeriodHolds == ValidatorSpec => []ReportOfPeriod
<1>1. ASSUME TimingInv PROVE DelayFactorOfPeriod
  <2>0. unreported.count < 2 \/ unreported.count >= 2
    BY <1>1 DEF TimingInv, SamplesOK
  <2> SUFFICES ASSUME m_mtx = "free", unreported.count >= 2
               PROVE  /\ DelayFactor(m_delay_factor) >= 0
                      /\ \E d, e \in unreported.std :
                           DelayFactor(m_delay_factor) * PerUs < (d - e) + PerUs
    BY <1>1, <2>0, NoDelayFactorIsOne DEF DelayFactorOfPeriod
  <2> DEFINE r == m_delay_factor.reference
             a == m_delay_factor.max
             b == m_delay_factor.min
  <2>1. PICK d, e \in unreported.std : b <= a /\ a = Micros(d - r) /\ b = Micros(e - r)
    BY <1>1 DEF TimingInv, SamplesOK, DelayFactorInv
  <2>a. d \in StdDelays /\ e \in StdDelays /\ r \in StdDelays
    BY <1>1 DEF TimingInv, SamplesOK, DelayFactorInv
  <2>2. d \in Int /\ e \in Int /\ r \in Int
    BY <2>a, DelayAssumption
  <2>3. DelayFactor(m_delay_factor) = a - b
    BY <1>1, DelayFactorExact
  <2>b. d - r \in Int /\ e - r \in Int
    BY <2>2
  <2>4. a \in Int /\ b \in Int
    BY <2>1, <2>b, MicrosBounds
  <2> HIDE DEF a, b, r
  <2>c. Micros(e - r) <= Micros(d - r)
    BY <2>1
  <2>d. \/ (Micros(d - r) - Micros(e - r)) * PerUs < (d - e) + PerUs
        \/ Micros(d - r) - Micros(e - r) = 0
    BY <2>2, <2>c, TransitDistance
  <2>5. (a - b) * PerUs < (d - e) + PerUs \/ a - b = 0
    BY <2>1, <2>d
  <2>6. a - b >= 0
    BY <2>1, <2>4
  <2>7. CASE a - b = 0
    <3>1. (a - b) * PerUs < (d - d) + PerUs
      BY <2>2, <2>7, WidthAssumption
    <3> QED
      BY <2>3, <2>6, <3>1
  <2> QED
    BY <2>3, <2>5, <2>6, <2>7
<1>2. TimingInv => ReportOfPeriod
  BY <1>1 DEF TimingInv, ReportOfPeriod
<1> QED
  BY <1>2, TimingInvariant, ValidatorIsTiming, PTL

\* The smoothed delay and the jitter stay within what was measured, whatever
\* is rounded and reported (metrics_latency.cpp:20, metrics_jitter.cpp:18).
THEOREM SmoothedWithinRangeHolds == ValidatorSpec => []SmoothedWithinRange
<1>1. TimingInv => SmoothedWithinRange
  BY DEF TimingInv
<1> QED
  BY <1>1, TimingInvariant, ValidatorIsTiming, PTL

-----------------------------------------------------------------------------
(***************************************************************************)
(* MetricsWriter: types and lock discipline, and that a receiving pipe     *)
(* always has a writer, hold whatever the number of streams.  That there   *)
(* is one writer at most, and none when the object is destroyed, is proved *)
(* for streams received one at a time, the default.                        *)
(***************************************************************************)

\* A pipe launches at most one thread.
LaunchInv ==
  \A p \in Pipes : pc[p] \in {"idle", "insert", "check", "launch"} => writer[p] = "none"

TypeInv == TypeOK /\ LaunchInv

LEMMA InitType ==
  ASSUME Init PROVE TypeInv
  BY PipesAssumption DEF Init, TypeInv, LaunchInv, TypeOK, PipeLabels, WriterLabels

LEMMA TypeStep ==
  ASSUME TypeInv, [Next]_vars
  PROVE  TypeInv'
<1> USE PipesAssumption DEF TypeInv, LaunchInv, TypeOK, PipeLabels, WriterLabels
<1>1. ASSUME NEW p \in Pipes, StartPipe(p) PROVE TypeInv'
  BY <1>1 DEF StartPipe, Goto, pipeVars, writerVars
<1>2. ASSUME NEW p \in Pipes, Insert(p) PROVE TypeInv'
  BY <1>2 DEF Insert, Goto, pipeVars, writerVars
<1>3. ASSUME NEW p \in Pipes, CheckFuture(p) PROVE TypeInv'
  BY <1>3 DEF CheckFuture, Goto, pipeVars, writerVars
<1>4. ASSUME NEW p \in Pipes, Launch(p) PROVE TypeInv'
  BY <1>4 DEF Launch, Goto, pipeVars, writerVars
<1>5. ASSUME NEW p \in Pipes, SwapLoad(p) PROVE TypeInv'
  BY <1>5 DEF SwapLoad, Goto, pipeVars, writerVars
<1>6. ASSUME NEW p \in Pipes, SwapStore(p) PROVE TypeInv'
  BY <1>6 DEF SwapStore, Goto, pipeVars, writerVars
<1>7. ASSUME NEW p \in Pipes, Join(p) PROVE TypeInv'
  BY <1>7 DEF Join, Goto, Joined, pipeVars, writerVars
<1>8. ASSUME NEW p \in Pipes, Read(p) PROVE TypeInv'
  BY <1>8 DEF Read, pipeVars, writerVars
<1>9. ASSUME NEW p \in Pipes, EndStream(p) PROVE TypeInv'
  BY <1>9 DEF EndStream, Goto, pipeVars, writerVars
<1>10. ASSUME NEW p \in Pipes, Remove(p) PROVE TypeInv'
  BY <1>10 DEF Remove, Goto, pipeVars, writerVars
<1>11. ASSUME NEW p \in Pipes, WriterCheck(p) PROVE TypeInv'
  BY <1>11 DEF WriterCheck, pipeVars, writerVars
<1>12. ASSUME NEW p \in Pipes, BeginPrint(p) PROVE TypeInv'
  BY <1>12 DEF BeginPrint, pipeVars, writerVars
<1>13. ASSUME NEW p \in Pipes, PrintOne(p) PROVE TypeInv'
  BY <1>13 DEF PrintOne, pipeVars, writerVars
<1>14. ASSUME NEW p \in Pipes, EndPrint(p) PROVE TypeInv'
  BY <1>14 DEF EndPrint, pipeVars, writerVars
<1>15. ASSUME NEW p \in Pipes, WakeUp(p) PROVE TypeInv'
  BY <1>15 DEF WakeUp, pipeVars, writerVars
<1>16. CASE Interrupt
  BY <1>16 DEF Interrupt, pipeVars, writerVars
<1>17. CASE Stop
  BY <1>17 DEF Stop, pipeVars, writerVars
<1>18. CASE Destroy
  BY <1>18 DEF Destroy, Joined, pipeVars, writerVars
<1>19. CASE UNCHANGED vars
  BY <1>19 DEF vars
<1> QED
  BY <1>1, <1>2, <1>3, <1>4, <1>5, <1>6, <1>7, <1>8, <1>9, <1>10, <1>11, <1>12, <1>13, <1>14, <1>15, <1>16, <1>17, <1>18, <1>19
     DEF Next, PipeStep, AddValidator, WriterStep, Terminated

(***************************************************************************)
(* The types of metrics_writer's state, and that m_lock is held exactly by *)
(* the writer that is printing.                                            *)
(***************************************************************************)
THEOREM TypeCorrect == Spec => []TypeOK
<1>1. TypeInv /\ [Next]_vars => TypeInv'
  BY TypeStep
<1>2. Init => TypeInv
  BY InitType
<1>3. TypeInv => TypeOK
  BY DEF TypeInv
<1> QED
  BY <1>1, <1>2, <1>3, PTL DEF Spec

-----------------------------------------------------------------------------
(***************************************************************************)
(* Why a receiving pipe is served: until stop() is called the stop token   *)
(* is false for every thread launched, and stop() comes after the pipes.   *)
(***************************************************************************)
TokenInv ==
  main = "running" =>
    \A t \in Pipes : /\ writer[t] # "done"
                     /\ writer[t] # "none" => m_stop_token = FALSE

FutureInv ==
  /\ m_metrics_future # None => writer[m_metrics_future] # "none"
  /\ \A p \in Pipes :
       /\ pc[p] \in {"load", "store"} => writer[p] # "none"
       /\ pc[p] \in {"join", "read", "remove"} => m_metrics_future # None

MainInv == main # "running" => \A p \in Pipes : pc[p] \in {"idle", "gone"}

ServedInv == TypeInv /\ TokenInv /\ FutureInv /\ MainInv

LEMMA InitServed ==
  ASSUME Init PROVE ServedInv
  BY InitType DEF Init, ServedInv, TokenInv, FutureInv, MainInv

LEMMA TokenStep ==
  ASSUME ServedInv, [Next]_vars
  PROVE  TokenInv'
<1> USE DEF TypeInv, TypeOK, ServedInv, TokenInv, MainInv, WriterLabels
<1>1. ASSUME NEW p \in Pipes, StartPipe(p) PROVE TokenInv'
  BY <1>1 DEF StartPipe, Goto, pipeVars, writerVars
<1>2. ASSUME NEW p \in Pipes, Insert(p) PROVE TokenInv'
  BY <1>2 DEF Insert, Goto, pipeVars, writerVars
<1>3. ASSUME NEW p \in Pipes, CheckFuture(p) PROVE TokenInv'
  BY <1>3 DEF CheckFuture, Goto, pipeVars, writerVars
<1>4. ASSUME NEW p \in Pipes, Launch(p) PROVE TokenInv'
  BY <1>4 DEF Launch, Goto, pipeVars, writerVars
<1>5. ASSUME NEW p \in Pipes, SwapLoad(p) PROVE TokenInv'
  BY <1>5 DEF SwapLoad, Goto, pipeVars, writerVars
<1>6. ASSUME NEW p \in Pipes, SwapStore(p) PROVE TokenInv'
  BY <1>6 DEF SwapStore, Goto, pipeVars, writerVars
<1>7. ASSUME NEW p \in Pipes, Join(p) PROVE TokenInv'
  BY <1>7 DEF Join, Goto, Joined, pipeVars, writerVars
<1>8. ASSUME NEW p \in Pipes, Read(p) PROVE TokenInv'
  BY <1>8 DEF Read, pipeVars, writerVars
<1>9. ASSUME NEW p \in Pipes, EndStream(p) PROVE TokenInv'
  BY <1>9 DEF EndStream, Goto, pipeVars, writerVars
<1>10. ASSUME NEW p \in Pipes, Remove(p) PROVE TokenInv'
  BY <1>10 DEF Remove, Goto, pipeVars, writerVars
<1>11. ASSUME NEW p \in Pipes, WriterCheck(p) PROVE TokenInv'
  BY <1>11 DEF WriterCheck, pipeVars, writerVars
<1>12. ASSUME NEW p \in Pipes, BeginPrint(p) PROVE TokenInv'
  BY <1>12 DEF BeginPrint, pipeVars, writerVars
<1>13. ASSUME NEW p \in Pipes, PrintOne(p) PROVE TokenInv'
  BY <1>13 DEF PrintOne, pipeVars, writerVars
<1>14. ASSUME NEW p \in Pipes, EndPrint(p) PROVE TokenInv'
  BY <1>14 DEF EndPrint, pipeVars, writerVars
<1>15. ASSUME NEW p \in Pipes, WakeUp(p) PROVE TokenInv'
  BY <1>15 DEF WakeUp, pipeVars, writerVars
<1>16. CASE Interrupt
  BY <1>16 DEF Interrupt, pipeVars, writerVars
<1>17. CASE Stop
  BY <1>17 DEF Stop, pipeVars, writerVars
<1>18. CASE Destroy
  BY <1>18 DEF Destroy, Joined, pipeVars, writerVars
<1>19. CASE UNCHANGED vars
  BY <1>19 DEF vars
<1> QED
  BY <1>1, <1>2, <1>3, <1>4, <1>5, <1>6, <1>7, <1>8, <1>9, <1>10, <1>11, <1>12, <1>13, <1>14, <1>15, <1>16, <1>17, <1>18, <1>19
     DEF Next, PipeStep, AddValidator, WriterStep, Terminated

LEMMA FutureStep ==
  ASSUME ServedInv, [Next]_vars
  PROVE  FutureInv'
<1> USE DEF TypeInv, TypeOK, ServedInv, FutureInv, MainInv
<1>1. ASSUME NEW p \in Pipes, StartPipe(p) PROVE FutureInv'
  BY <1>1 DEF StartPipe, Goto, pipeVars, writerVars
<1>2. ASSUME NEW p \in Pipes, Insert(p) PROVE FutureInv'
  BY <1>2 DEF Insert, Goto, pipeVars, writerVars
<1>3. ASSUME NEW p \in Pipes, CheckFuture(p) PROVE FutureInv'
  BY <1>3 DEF CheckFuture, Goto, pipeVars, writerVars
<1>4. ASSUME NEW p \in Pipes, Launch(p) PROVE FutureInv'
  BY <1>4 DEF Launch, Goto, pipeVars, writerVars
<1>5. ASSUME NEW p \in Pipes, SwapLoad(p) PROVE FutureInv'
  BY <1>5 DEF SwapLoad, Goto, pipeVars, writerVars
<1>6. ASSUME NEW p \in Pipes, SwapStore(p) PROVE FutureInv'
  BY <1>6, PipesAssumption DEF SwapStore, Goto, pipeVars, writerVars
<1>7. ASSUME NEW p \in Pipes, Join(p) PROVE FutureInv'
  BY <1>7 DEF Join, Goto, Joined, pipeVars, writerVars
<1>8. ASSUME NEW p \in Pipes, Read(p) PROVE FutureInv'
  BY <1>8 DEF Read, pipeVars, writerVars
<1>9. ASSUME NEW p \in Pipes, EndStream(p) PROVE FutureInv'
  BY <1>9 DEF EndStream, Goto, pipeVars, writerVars
<1>10. ASSUME NEW p \in Pipes, Remove(p) PROVE FutureInv'
  BY <1>10 DEF Remove, Goto, pipeVars, writerVars
<1>11. ASSUME NEW p \in Pipes, WriterCheck(p) PROVE FutureInv'
  BY <1>11 DEF WriterCheck, pipeVars, writerVars
<1>12. ASSUME NEW p \in Pipes, BeginPrint(p) PROVE FutureInv'
  BY <1>12 DEF BeginPrint, pipeVars, writerVars
<1>13. ASSUME NEW p \in Pipes, PrintOne(p) PROVE FutureInv'
  BY <1>13 DEF PrintOne, pipeVars, writerVars
<1>14. ASSUME NEW p \in Pipes, EndPrint(p) PROVE FutureInv'
  BY <1>14 DEF EndPrint, pipeVars, writerVars
<1>15. ASSUME NEW p \in Pipes, WakeUp(p) PROVE FutureInv'
  BY <1>15 DEF WakeUp, pipeVars, writerVars
<1>16. CASE Interrupt
  BY <1>16 DEF Interrupt, pipeVars, writerVars
<1>17. CASE Stop
  BY <1>17 DEF Stop, pipeVars, writerVars
<1>18. CASE Destroy
  BY <1>18 DEF Destroy, Joined, pipeVars, writerVars
<1>19. CASE UNCHANGED vars
  BY <1>19 DEF vars
<1> QED
  BY <1>1, <1>2, <1>3, <1>4, <1>5, <1>6, <1>7, <1>8, <1>9, <1>10, <1>11, <1>12, <1>13, <1>14, <1>15, <1>16, <1>17, <1>18, <1>19
     DEF Next, PipeStep, AddValidator, WriterStep, Terminated

LEMMA MainStep ==
  ASSUME ServedInv, [Next]_vars
  PROVE  MainInv'
<1> USE DEF TypeInv, TypeOK, ServedInv, MainInv
<1>1. ASSUME NEW p \in Pipes, StartPipe(p) PROVE MainInv'
  BY <1>1 DEF StartPipe, Goto, pipeVars, writerVars
<1>2. ASSUME NEW p \in Pipes, Insert(p) PROVE MainInv'
  BY <1>2 DEF Insert, Goto, pipeVars, writerVars
<1>3. ASSUME NEW p \in Pipes, CheckFuture(p) PROVE MainInv'
  BY <1>3 DEF CheckFuture, Goto, pipeVars, writerVars
<1>4. ASSUME NEW p \in Pipes, Launch(p) PROVE MainInv'
  BY <1>4 DEF Launch, Goto, pipeVars, writerVars
<1>5. ASSUME NEW p \in Pipes, SwapLoad(p) PROVE MainInv'
  BY <1>5 DEF SwapLoad, Goto, pipeVars, writerVars
<1>6. ASSUME NEW p \in Pipes, SwapStore(p) PROVE MainInv'
  BY <1>6 DEF SwapStore, Goto, pipeVars, writerVars
<1>7. ASSUME NEW p \in Pipes, Join(p) PROVE MainInv'
  BY <1>7 DEF Join, Goto, Joined, pipeVars, writerVars
<1>8. ASSUME NEW p \in Pipes, Read(p) PROVE MainInv'
  BY <1>8 DEF Read, pipeVars, writerVars
<1>9. ASSUME NEW p \in Pipes, EndStream(p) PROVE MainInv'
  BY <1>9 DEF EndStream, Goto, pipeVars, writerVars
<1>10. ASSUME NEW p \in Pipes, Remove(p) PROVE MainInv'
  BY <1>10 DEF Remove, Goto, pipeVars, writerVars
<1>11. ASSUME NEW p \in Pipes, WriterCheck(p) PROVE MainInv'
  BY <1>11 DEF WriterCheck, pipeVars, writerVars
<1>12. ASSUME NEW p \in Pipes, BeginPrint(p) PROVE MainInv'
  BY <1>12 DEF BeginPrint, pipeVars, writerVars
<1>13. ASSUME NEW p \in Pipes, PrintOne(p) PROVE MainInv'
  BY <1>13 DEF PrintOne, pipeVars, writerVars
<1>14. ASSUME NEW p \in Pipes, EndPrint(p) PROVE MainInv'
  BY <1>14 DEF EndPrint, pipeVars, writerVars
<1>15. ASSUME NEW p \in Pipes, WakeUp(p) PROVE MainInv'
  BY <1>15 DEF WakeUp, pipeVars, writerVars
<1>16. CASE Interrupt
  BY <1>16 DEF Interrupt, pipeVars, writerVars
<1>17. CASE Stop
  BY <1>17 DEF Stop, Active, pipeVars, writerVars
<1>18. CASE Destroy
  BY <1>18 DEF Destroy, Joined, pipeVars, writerVars
<1>19. CASE UNCHANGED vars
  BY <1>19 DEF vars
<1> QED
  BY <1>1, <1>2, <1>3, <1>4, <1>5, <1>6, <1>7, <1>8, <1>9, <1>10, <1>11, <1>12, <1>13, <1>14, <1>15, <1>16, <1>17, <1>18, <1>19
     DEF Next, PipeStep, AddValidator, WriterStep, Terminated

LEMMA ServedStep ==
  ASSUME ServedInv, [Next]_vars PROVE ServedInv'
  BY TypeStep, TokenStep, FutureStep, MainStep DEF ServedInv

THEOREM ServedInvariant == Spec => []ServedInv
<1>1. ServedInv /\ [Next]_vars => ServedInv'
  BY ServedStep
<1> QED
  BY <1>1, InitServed, PTL DEF Spec

(***************************************************************************)
(* However many pipes register at once, and however their registrations    *)
(* interleave, a pipe that receives has a live writer thread.              *)
(***************************************************************************)
THEOREM ReceivingIsServedHolds == Spec => []ReceivingIsServed
<1>1. ServedInv => ReceivingIsServed
  <2> SUFFICES ASSUME ServedInv, NEW p \in Pipes, pc[p] \in {"read", "remove"}
               PROVE  m_metrics_future \in Live
    BY DEF ReceivingIsServed
  <2>1. main = "running"
    BY DEF ServedInv, MainInv, TypeInv, TypeOK
  <2>2. m_metrics_future \in Pipes /\ writer[m_metrics_future] # "none"
    BY DEF ServedInv, FutureInv, TypeInv, TypeOK
  <2> QED
    BY <2>1, <2>2 DEF ServedInv, TokenInv, Live
<1> QED
  BY <1>1, ServedInvariant, PTL

-----------------------------------------------------------------------------
(***************************************************************************)
(* One stream at a time: registrations do not overlap, so that a pipe that *)
(* found no future finds none until it has stored its own.                 *)
(***************************************************************************)
OneInv ==
  streams = 1 =>
    /\ \A p, q \in Active : p = q
    /\ \A p \in Pipes : pc[p] \in {"launch", "load", "store"} => m_metrics_future = None
    /\ \A t \in Pipes : writer[t] # "none" =>
         m_metrics_future = t \/ (m_metrics_future = None /\ pc[t] \in {"load", "store"})

OneIInv == ServedInv /\ OneInv /\ NoWriterAfterDestroy

LEMMA NoneActive ==
  ASSUME streams = 1, Cardinality(Active) < streams
  PROVE  Active = {}
<1>1. Active \in SUBSET Pipes
  BY DEF Active
<1>2. IsFiniteSet(Active)
  BY <1>1, PipesAssumption, FS_Subset
<1>3. Cardinality(Active) = 0
  BY <1>2, FS_CardinalityType
<1> QED
  BY <1>2, <1>3, FS_EmptySet

LEMMA OneStep ==
  ASSUME OneIInv, [Next]_vars
  PROVE  OneInv'
<1> USE DEF TypeInv, TypeOK, ServedInv, OneIInv, OneInv, TypeInv, Active
<1>1. ASSUME NEW p \in Pipes, StartPipe(p) PROVE OneInv'
  BY <1>1, NoneActive DEF StartPipe, Goto, pipeVars, writerVars
<1>2. ASSUME NEW p \in Pipes, Insert(p) PROVE OneInv'
  BY <1>2 DEF Insert, Goto, pipeVars, writerVars
<1>3. ASSUME NEW p \in Pipes, CheckFuture(p) PROVE OneInv'
  BY <1>3 DEF CheckFuture, Goto, pipeVars, writerVars
<1>4. ASSUME NEW p \in Pipes, Launch(p) PROVE OneInv'
  BY <1>4 DEF Launch, Goto, pipeVars, writerVars
<1>5. ASSUME NEW p \in Pipes, SwapLoad(p) PROVE OneInv'
  BY <1>5 DEF SwapLoad, Goto, pipeVars, writerVars
<1>6. ASSUME NEW p \in Pipes, SwapStore(p) PROVE OneInv'
  BY <1>6, PipesAssumption DEF SwapStore, Goto, pipeVars, writerVars
<1>7. ASSUME NEW p \in Pipes, Join(p) PROVE OneInv'
  BY <1>7 DEF Join, Goto, Joined, pipeVars, writerVars
<1>8. ASSUME NEW p \in Pipes, Read(p) PROVE OneInv'
  BY <1>8 DEF Read, pipeVars, writerVars
<1>9. ASSUME NEW p \in Pipes, EndStream(p) PROVE OneInv'
  BY <1>9 DEF EndStream, Goto, pipeVars, writerVars
<1>10. ASSUME NEW p \in Pipes, Remove(p) PROVE OneInv'
  BY <1>10 DEF Remove, Goto, pipeVars, writerVars
<1>11. ASSUME NEW p \in Pipes, WriterCheck(p) PROVE OneInv'
  BY <1>11 DEF WriterCheck, pipeVars, writerVars
<1>12. ASSUME NEW p \in Pipes, BeginPrint(p) PROVE OneInv'
  BY <1>12 DEF BeginPrint, pipeVars, writerVars
<1>13. ASSUME NEW p \in Pipes, PrintOne(p) PROVE OneInv'
  BY <1>13 DEF PrintOne, pipeVars, writerVars
<1>14. ASSUME NEW p \in Pipes, EndPrint(p) PROVE OneInv'
  BY <1>14 DEF EndPrint, pipeVars, writerVars
<1>15. ASSUME NEW p \in Pipes, WakeUp(p) PROVE OneInv'
  BY <1>15 DEF WakeUp, pipeVars, writerVars
<1>16. CASE Interrupt
  BY <1>16 DEF Interrupt, pipeVars, writerVars
<1>17. CASE Stop
  BY <1>17 DEF Stop, pipeVars, writerVars
<1>18. CASE Destroy
  BY <1>18 DEF Destroy, Joined, pipeVars, writerVars
<1>19. CASE UNCHANGED vars
  BY <1>19 DEF vars
<1> QED
  BY <1>1, <1>2, <1>3, <1>4, <1>5, <1>6, <1>7, <1>8, <1>9, <1>10, <1>11, <1>12, <1>13, <1>14, <1>15, <1>16, <1>17, <1>18, <1>19
     DEF Next, PipeStep, AddValidator, WriterStep, Terminated

LEMMA DestroyStep ==
  ASSUME OneIInv, [Next]_vars
  PROVE  NoWriterAfterDestroy'
<1> USE DEF TypeInv, TypeOK, ServedInv, OneIInv, NoWriterAfterDestroy, Live
<1>1. ASSUME NEW p \in Pipes, StartPipe(p) PROVE NoWriterAfterDestroy'
  BY <1>1 DEF StartPipe, Goto, pipeVars, writerVars
<1>2. ASSUME NEW p \in Pipes, Insert(p) PROVE NoWriterAfterDestroy'
  BY <1>2 DEF Insert, Goto, pipeVars, writerVars
<1>3. ASSUME NEW p \in Pipes, CheckFuture(p) PROVE NoWriterAfterDestroy'
  BY <1>3 DEF CheckFuture, Goto, pipeVars, writerVars
<1>4. ASSUME NEW p \in Pipes, Launch(p) PROVE NoWriterAfterDestroy'
  BY <1>4 DEF Launch, ServedInv, MainInv, Goto, pipeVars, writerVars
<1>5. ASSUME NEW p \in Pipes, SwapLoad(p) PROVE NoWriterAfterDestroy'
  BY <1>5 DEF SwapLoad, Goto, pipeVars, writerVars
<1>6. ASSUME NEW p \in Pipes, SwapStore(p) PROVE NoWriterAfterDestroy'
  BY <1>6 DEF SwapStore, Goto, pipeVars, writerVars
<1>7. ASSUME NEW p \in Pipes, Join(p) PROVE NoWriterAfterDestroy'
  BY <1>7 DEF Join, Goto, Joined, pipeVars, writerVars
<1>8. ASSUME NEW p \in Pipes, Read(p) PROVE NoWriterAfterDestroy'
  BY <1>8 DEF Read, pipeVars, writerVars
<1>9. ASSUME NEW p \in Pipes, EndStream(p) PROVE NoWriterAfterDestroy'
  BY <1>9 DEF EndStream, Goto, pipeVars, writerVars
<1>10. ASSUME NEW p \in Pipes, Remove(p) PROVE NoWriterAfterDestroy'
  BY <1>10 DEF Remove, Goto, pipeVars, writerVars
<1>11. ASSUME NEW p \in Pipes, WriterCheck(p) PROVE NoWriterAfterDestroy'
  BY <1>11 DEF WriterCheck, pipeVars, writerVars
<1>12. ASSUME NEW p \in Pipes, BeginPrint(p) PROVE NoWriterAfterDestroy'
  BY <1>12 DEF BeginPrint, pipeVars, writerVars
<1>13. ASSUME NEW p \in Pipes, PrintOne(p) PROVE NoWriterAfterDestroy'
  BY <1>13 DEF PrintOne, pipeVars, writerVars
<1>14. ASSUME NEW p \in Pipes, EndPrint(p) PROVE NoWriterAfterDestroy'
  BY <1>14 DEF EndPrint, pipeVars, writerVars
<1>15. ASSUME NEW p \in Pipes, WakeUp(p) PROVE NoWriterAfterDestroy'
  BY <1>15 DEF WakeUp, pipeVars, writerVars
<1>16. CASE Interrupt
  BY <1>16 DEF Interrupt, pipeVars, writerVars
<1>17. CASE Stop
  BY <1>17 DEF Stop, pipeVars, writerVars
<1>18. CASE Destroy
  BY <1>18, PipesAssumption DEF Destroy, Joined, OneInv, ServedInv, MainInv, pipeVars, writerVars
<1>19. CASE UNCHANGED vars
  BY <1>19 DEF vars
<1> QED
  BY <1>1, <1>2, <1>3, <1>4, <1>5, <1>6, <1>7, <1>8, <1>9, <1>10, <1>11, <1>12, <1>13, <1>14, <1>15, <1>16, <1>17, <1>18, <1>19
     DEF Next, PipeStep, AddValidator, WriterStep, Terminated

(***************************************************************************)
(* With one stream at a time, no two writer threads and none after the     *)
(* destruction.                                                            *)
(***************************************************************************)
THEOREM OneStreamInvariant == Spec => []OneIInv
<1>1. Init => OneIInv
  BY InitServed DEF Init, OneIInv, OneInv, NoWriterAfterDestroy, Active
<1>2. OneIInv /\ [Next]_vars => OneIInv'
  BY ServedStep, OneStep, DestroyStep DEF OneIInv
<1> QED
  BY <1>1, <1>2, PTL DEF Spec

(***************************************************************************)
(* The metrics are retrieved once per interval when streams are received   *)
(* one at a time: there are never two writer threads.                      *)
(***************************************************************************)
THEOREM AtMostOneWriterHolds == Spec => []AtMostOneWriter
<1>1. OneIInv => AtMostOneWriter
  BY PipesAssumption DEF OneIInv, OneInv, AtMostOneWriter, Live, Active
<1> QED
  BY <1>1, OneStreamInvariant, PTL

(***************************************************************************)
(* stop() waits for the only thread that uses the members, so that none is *)
(* left when they are destroyed.                                           *)
(***************************************************************************)
THEOREM NoWriterAfterDestroyHolds == Spec => []NoWriterAfterDestroy
<1>1. OneIInv => NoWriterAfterDestroy
  BY DEF OneIInv
<1> QED
  BY <1>1, OneStreamInvariant, PTL

-----------------------------------------------------------------------------
(***************************************************************************)
(* What the assignment of the future in add_validator waits for.           *)
(***************************************************************************)
Stuck(p) == pc[p] = "join" /\ released[p] # None

\* A thread that was swapped out never ends while a pipe waits for it, nor
\* does receive::run go on to tell it to.
StuckStays ==
  [][\A p \in Pipes : Stuck(p) => Stuck(p)' /\ main' = "running"]_vars

LEMMA StuckStep ==
  ASSUME ServedInv, Next, NEW p \in Pipes, Stuck(p)
  PROVE  Stuck(p)' /\ main' = "running"
<1>1. /\ main = "running" /\ p \in Active
      /\ released[p] \in Pipes /\ writer[released[p]] # "done" /\ released[p] # None
  BY DEF ServedInv, TypeInv, TypeOK, MainInv, TokenInv, Stuck, Active
<1>2. ~Join(p)
  BY <1>1 DEF Join, Joined
<1>3. main' = "running"
  BY <1>1 DEF Next, PipeStep, AddValidator, StartPipe, Insert, CheckFuture, Launch, SwapLoad,
     SwapStore, Join, Read, EndStream, Remove, WriterStep, WriterCheck, BeginPrint, PrintOne,
     EndPrint, WakeUp, Interrupt, Stop, Destroy, Terminated, vars
<1>4. ASSUME NEW q \in Pipes, PipeStep(q) PROVE Stuck(p)'
  <2>1. q # p
    BY <1>2, <1>4 DEF Stuck, PipeStep, AddValidator, StartPipe, Insert, CheckFuture, Launch,
       SwapLoad, SwapStore, Read, EndStream, Remove
  <2>2. pc'[p] = pc[p] /\ released'[p] = released[p]
    BY <1>4, <2>1 DEF PipeStep, AddValidator, StartPipe, Insert, CheckFuture, Launch,
       SwapLoad, SwapStore, Join, Read, EndStream, Remove, Goto, pipeVars,
       ServedInv, TypeInv, TypeOK
  <2> QED
    BY <2>2 DEF Stuck
<1>5. CASE (\E q \in Pipes : WriterStep(q)) \/ Interrupt \/ Stop \/ Destroy \/ Terminated
  <2>1. pc' = pc /\ released' = released
    BY <1>5 DEF WriterStep, WriterCheck, BeginPrint, PrintOne, EndPrint, WakeUp, Interrupt,
       Stop, Destroy, Terminated, vars, pipeVars
  <2> QED
    BY <1>3, <2>1 DEF Stuck
<1> QED
  BY <1>3, <1>4, <1>5 DEF Next

(***************************************************************************)
(* For any number of pipes: when two registrations overlap so that one     *)
(* swaps out the other's future (metrics_writer.cpp:53), its add_validator *)
(* never returns, and so receive::run does not either.  The run            *)
(* metrics_writer_hangs shows that this happens; the theorem, that it is   *)
(* not a delay.                                                            *)
(***************************************************************************)
THEOREM StuckStaysForEver == Spec => StuckStays
<1>1. ServedInv /\ [Next]_vars => [\A p \in Pipes : Stuck(p) => Stuck(p)' /\ main' = "running"]_vars
  BY StuckStep
<1> QED
  BY <1>1, ServedInvariant, PTL DEF Spec, StuckStays

\* One stream at a time: nothing is swapped out.
NothingReleased == streams = 1 => \A p \in Pipes : released[p] = None

(***************************************************************************)
(* With one stream at a time add_validator waits for no thread, whatever   *)
(* the order in which pipes come and go and however many there are.        *)
(***************************************************************************)
THEOREM NothingReleasedHolds == Spec => []NothingReleased
<1>1. Init => NothingReleased
  BY DEF Init, NothingReleased
<1>2. OneIInv /\ NothingReleased /\ [Next]_vars => NothingReleased'
  <2> SUFFICES ASSUME OneIInv, NothingReleased, [Next]_vars, streams' = 1, NEW p \in Pipes
               PROVE  released'[p] = None
    BY DEF NothingReleased
  <2>1. streams = 1
    BY DEF Next, PipeStep, AddValidator, StartPipe, Insert, CheckFuture, Launch, SwapLoad,
       SwapStore, Join, Read, EndStream, Remove, WriterStep, WriterCheck, BeginPrint, PrintOne,
       EndPrint, WakeUp, Interrupt, Stop, Destroy, Terminated, vars
  <2>2. released[p] = None
    BY <2>1 DEF NothingReleased
  <2>3. ASSUME NEW q \in Pipes, SwapLoad(q) PROVE released'[p] = None
    <3>1. m_metrics_future = None
      BY <2>1, <2>3 DEF SwapLoad, OneIInv, OneInv
    <3> QED
      BY <2>2, <2>3, <3>1 DEF SwapLoad, OneIInv, ServedInv, TypeInv, TypeOK
  <2>4. ASSUME NEW q \in Pipes, Join(q) PROVE released'[p] = None
    BY <2>2, <2>4 DEF Join, OneIInv, ServedInv, TypeInv, TypeOK
  <2>5. CASE released' = released
    BY <2>2, <2>5
  <2> QED
    BY <2>3, <2>4, <2>5 DEF Next, PipeStep, AddValidator, StartPipe, Insert, CheckFuture, Launch,
       SwapStore, Read, EndStream, Remove, WriterStep, WriterCheck, BeginPrint, PrintOne,
       EndPrint, WakeUp, Interrupt, Stop, Destroy, Terminated, vars, pipeVars
<1> QED
  BY <1>1, <1>2, OneStreamInvariant, PTL DEF Spec
=============================================================================
