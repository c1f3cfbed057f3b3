------------------------------ MODULE Validator ------------------------------
(***************************************************************************)
(* metrics::validator as a whole: validate_packet takes a packet through   *)
(* every metric under m_mtx, in the receiving thread, and stats() or       *)
(* stats_csv() reads and resets them under the same lock, in the thread of *)
(* the metrics_writer (metrics.hpp, metrics.cpp).  MetricsPath has the     *)
(* generator, the medium and the counters, TimingMetrics the timing.       *)
(***************************************************************************)
EXTENDS MetricsPath, TimingMetrics

validatorVars == <<pathVars, timingVars>>

ValidatorInit == PathInit /\ TimingInit

\* The sender does not know of the validator.
Generate == GeneratePayload /\ UNCHANGED timingVars

\* validator::validate_packet for an undamaged packet: all five metrics.
ValidateUndamaged(n, sys, std) ==
  /\ ValidatePacket(n)
  /\ SubmitSamples(sys, std)

\* validator::validate_packet for a damaged one returns early: no timing.
ValidateAltered(n, lengthOk) ==
  /\ m_mtx = "free"
  /\ ValidateDamaged(n, lengthOk)
  /\ UNCHANGED timingVars

\* validator::stats or stats_csv, up to what it prints ...
Report == StatsBegin /\ UNCHANGED pathVars

\* ... and the reset of what belongs to the period; the counters go on.
Restart == StatsEnd /\ UNCHANGED pathVars

\* Nothing more is sent, and the receiver waits.
Silence == m_seqno = MaxPackets /\ m_mtx = "free" /\ UNCHANGED validatorVars

ValidatorNext ==
  \/ Generate
  \/ \E n \in 0..(MaxPackets - 1) :
       \/ \E sys \in SysDelays, std \in StdDelays : ValidateUndamaged(n, sys, std)
       \/ \E lengthOk \in BOOLEAN : ValidateAltered(n, lengthOk)
  \/ Report
  \/ Restart
  \/ Silence

ValidatorSpec == ValidatorInit /\ [][ValidatorNext]_validatorVars
=============================================================================
