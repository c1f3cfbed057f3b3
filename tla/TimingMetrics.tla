---------------------------- MODULE TimingMetrics ----------------------------
(***************************************************************************)
(* The timing metrics of metrics::validator: transmission delay, RFC 3550  *)
(* jitter and time-stamped delay factor of the packets received, and the   *)
(* reports that close a measurement period (metrics_latency.cpp,           *)
(* metrics_jitter.cpp, metrics_delay_factor.cpp, validator::stats and      *)
(* stats_csv).  validate_packet runs in the receiving thread, stats in the *)
(* thread of the metrics_writer.                                           *)
(*                                                                         *)
(* Delays are in nanoseconds, of which PerUs make a microsecond; they may  *)
(* be negative, for the clocks of sender and receiver are not the same.    *)
(* The double m_jitter is kept exactly, as num / scale.                    *)
(***************************************************************************)
EXTENDS Integers

CONSTANTS
  SysDelays,    \* arrival time minus timestamp, by the system clock
  StdDelays,    \* the same by the monotonic clock
  PerUs,        \* nanoseconds in a microsecond
  MaxValue,     \* numeric_limits<long long>::max()
  MaxSamples,   \* bound on the packets received
  MaxReports    \* bound on the reports

ASSUME DelayAssumption == SysDelays \subseteq Int /\ StdDelays \subseteq Int

\* 64 bits hold 292 years of nanoseconds: a delay, and the difference of two.
ASSUME WidthAssumption ==
  /\ PerUs \in Nat /\ PerUs > 1 /\ MaxValue \in Nat \ {0}
  /\ \A d \in SysDelays \cup StdDelays : -MaxValue < d /\ d < MaxValue
  /\ \A d, e \in StdDelays : d - e < MaxValue
ASSUME TimingBounds == MaxSamples \in Nat /\ MaxReports \in Nat

VARIABLES
  m_latency,        \* [min, max, avg], in microseconds
  m_jitter,         \* [prev_delay, num, scale]
  m_delay_factor,   \* [is_reference, reference, min, max]
  m_mtx,            \* "free", or "stats" while a report is being made
  reports,          \* reports begun
  unreported,       \* delays <<system, monotonic>> no report has covered
  history           \* every delay so far, and the previous monotonic one

timingVars == <<m_latency, m_jitter, m_delay_factor, m_mtx, reports, unreported, history>>

MinValue == -MaxValue - 1

\* Integer division of C++, and duration_cast: truncated towards zero.
Truncated(x, k) == IF x >= 0 THEN x \div k ELSE -((-x) \div k)
Micros(d) == Truncated(d, PerUs)

\* A difference in 64 bits; what the overflow leaves is its low bits.
Difference(a, b) ==
  LET w == 2 * (MaxValue + 1)
      d == (a - b) % w
  IN  IF d <= MaxValue THEN d ELSE d - w

Larger(a, b) == IF a >= b THEN a ELSE b
Smaller(a, b) == IF a <= b THEN a ELSE b
Abs(x) == IF x >= 0 THEN x ELSE -x

-----------------------------------------------------------------------------
Smoothed_NoFirst(l, delay) == Truncated(l.avg * 15 + delay, 16)

\* The smoothed delay; -1 stands for none yet.
Smoothed(l, delay) ==
  IF l.avg # -1 THEN Truncated(l.avg * 15 + delay, 16) ELSE delay

\* latency::submit_sample.
LatencySample(l, d) ==
  LET delay == Micros(d)
  IN  [min |-> Smaller(l.min, delay), max |-> Larger(l.max, delay),
       avg |-> Smoothed(l, delay)]

\* latency::reset.
LatencyReset(l) == [l EXCEPT !.min = MaxValue, !.max = MinValue]

\* jitter::submit_sample; a previous delay of zero stands for none yet.
JitterSample(j, d) ==
  IF j.prev_delay = 0
    THEN [j EXCEPT !.prev_delay = d]
    ELSE [prev_delay |-> d,
          num        |-> j.num * 15 + Abs(Micros(d - j.prev_delay)) * j.scale,
          scale      |-> j.scale * 16]

\* delay_factor::submit_sample.
DelayFactorSample(f, d) ==
  IF f.is_reference
    THEN [f EXCEPT !.reference = d, !.is_reference = FALSE]
    ELSE LET transit == Micros(d - f.reference)
         IN  [f EXCEPT !.min = Smaller(@, transit), !.max = Larger(@, transit)]

\* delay_factor::get_delay_factor.
DelayFactor(f) == Difference(f.max, f.min)

NoDelayFactor ==
  [is_reference |-> TRUE, reference |-> 0, min |-> MaxValue, max |-> MinValue]

TimingInit ==
  /\ m_latency = [min |-> MaxValue, max |-> MinValue, avg |-> -1]
  /\ m_jitter = [prev_delay |-> 0, num |-> 0, scale |-> 1]
  /\ m_delay_factor = NoDelayFactor
  /\ m_mtx = "free"
  /\ reports = 0
  /\ unreported = [count |-> 0, sys |-> {}, std |-> {}]
  /\ history = [count |-> 0, sys |-> {}, last |-> 0, step |-> 0]

\* validator::validate_packet for an undamaged packet.
Validated(sys, std) ==
  /\ history.count < MaxSamples
  /\ m_latency' = LatencySample(m_latency, sys)
  /\ m_jitter' = JitterSample(m_jitter, std)
  /\ m_delay_factor' = DelayFactorSample(m_delay_factor, std)
  /\ unreported' = [count |-> unreported.count + 1,
                    sys   |-> unreported.sys \cup {Micros(sys)},
                    std   |-> unreported.std \cup {std}]
  /\ history' =
       [count |-> history.count + 1,
        sys   |-> history.sys \cup {Micros(sys)},
        last  |-> std,
        step  |-> IF history.count = 0 THEN 0
                  ELSE Larger(history.step, Abs(Micros(std - history.last)))]
  /\ UNCHANGED <<m_mtx, reports>>

SubmitSamples_NoLock(sys, std) == Validated(sys, std)

\* It holds m_mtx from beginning to end.
SubmitSamples(sys, std) ==
  /\ m_mtx = "free"
  /\ Validated(sys, std)

\* stats() or stats_csv() locks m_mtx and reads the values it prints ...
StatsBegin ==
  /\ m_mtx = "free"
  /\ reports < MaxReports
  /\ m_mtx' = "stats"
  /\ reports' = reports + 1
  /\ unreported' = [count |-> 0, sys |-> {}, std |-> {}]
  /\ UNCHANGED <<m_latency, m_jitter, m_delay_factor, history>>

\* ... and resets latency and delay factor before it unlocks.
StatsEnd ==
  /\ m_mtx = "stats"
  /\ m_latency' = LatencyReset(m_latency)
  /\ m_delay_factor' = NoDelayFactor
  /\ m_mtx' = "free"
  /\ UNCHANGED <<m_jitter, reports, unreported, history>>

\* No more packets within the bound.
NoMoreSamples == history.count = MaxSamples /\ m_mtx = "free" /\ UNCHANGED timingVars

TimingNext ==
  \/ \E sys \in SysDelays, std \in StdDelays : SubmitSamples(sys, std)
  \/ StatsBegin
  \/ StatsEnd
  \/ NoMoreSamples

TimingSpec == TimingInit /\ [][TimingNext]_timingVars

-----------------------------------------------------------------------------
(* Properties.                                                             *)

Values == MinValue..MaxValue

(***************************************************************************)
(* Every value fits its 64-bit integer.                                    *)
(***************************************************************************)
TimingTypeOK ==
  /\ m_latency \in [min : Values, max : Values, avg : Values]
  /\ m_jitter \in [prev_delay : Values, num : Nat, scale : Nat \ {0}]
  /\ m_delay_factor \in [is_reference : BOOLEAN, reference : Values, min : Values,
                         max : Values]
  /\ m_mtx \in {"free", "stats"}
  /\ reports \in 0..MaxReports

Least(x, S) == x \in S /\ \A y \in S : x <= y
Greatest(x, S) == x \in S /\ \A y \in S : y <= x

(***************************************************************************)
(* docs/metrics.md, "Minimum and maximum values are reset at the start of  *)
(* each measurement period": between reports, minimum and maximum are the  *)
(* ones of exactly the packets that arrived since the last report, none    *)
(* forgotten and none counted twice.                                       *)
(***************************************************************************)
LatencyOfPeriod ==
  m_mtx = "free" =>
    IF unreported.sys = {}
      THEN m_latency.min = MaxValue /\ m_latency.max = MinValue
      ELSE Least(m_latency.min, unreported.sys) /\ Greatest(m_latency.max, unreported.sys)

(***************************************************************************)
(* The smoothed delay lies between the smallest and the largest delay of   *)
(* the experiment, whatever the rounding, the sign and the reports do.     *)
(***************************************************************************)
AvgWithinRange ==
  history.count > 0 =>
    \E least, greatest \in history.sys : least <= m_latency.avg /\ m_latency.avg <= greatest

(***************************************************************************)
(* With two packets or more in the period, the delay factor is not         *)
(* negative and is less than a microsecond above the difference of two     *)
(* delays of that period.  With fewer it is 1, what the overflow of the    *)
(* two limits leaves, and nothing of an earlier period.                    *)
(***************************************************************************)
DelayFactorOfPeriod ==
  m_mtx = "free" =>
    IF unreported.count < 2
      THEN DelayFactor(m_delay_factor) = 1
      ELSE /\ DelayFactor(m_delay_factor) >= 0
           /\ \E d, e \in unreported.std :
                DelayFactor(m_delay_factor) * PerUs < (d - e) + PerUs

\* The jitter is never above the largest difference between the delays of two
\* consecutive packets.
JitterBounded == m_jitter.num <= history.step * m_jitter.scale

(***************************************************************************)
(* A report covers its measurement period, no more and no less, although   *)
(* packets are validated in another thread (metrics.cpp:245).              *)
(***************************************************************************)
ReportOfPeriod == TimingTypeOK /\ LatencyOfPeriod /\ DelayFactorOfPeriod

(***************************************************************************)
(* The smoothed values, which no report resets, stay within what was       *)
(* measured (metrics_latency.cpp:20, metrics_jitter.cpp:18).               *)
(***************************************************************************)
SmoothedWithinRange == AvgWithinRange /\ JitterBounded
=============================================================================
