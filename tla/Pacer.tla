------------------------------- MODULE Pacer -------------------------------
(***************************************************************************)
(* The sending loop of generate and its pacers: pacer, which keeps a rate  *)
(* by sleeping or spinning, and csv_pacer, which follows the times listed  *)
(* in a file.                                                              *)
(*                                                                         *)
(* Time is counted in ticks, Tick of them in a microsecond: the clock is   *)
(* finer than the microseconds pacer computes with.  A call may take any   *)
(* time; due is the time by which, at the interval of the pacer, the       *)
(* messages sent so far have their turn.                                   *)
(***************************************************************************)
EXTENDS Integers, Sequences

CONSTANTS
  Tick,      \* ticks in a microsecond
  MaxTime,   \* the end of the clock (a bound)
  MaxMsgs,   \* messages are counted up to this number (a bound)
  Configs    \* the command lines considered

\* rate: bits per second (0: no pacer), size: bytes in a message; num_messages
\* is negative for no limit, duration 0 (ticks); csv: the times in the file,
\* in ticks, and whether its last line ends with a newline.
Config == [mode : {"sleep", "spin", "csv", "none"}, rate : Nat, size : Nat \ {0},
           num_messages : Int, duration : Nat, csv : Seq(Nat), newline : BOOLEAN]

ASSUME PacerAssumption ==
  /\ Tick \in Nat \ {0}
  /\ MaxTime \in Nat /\ MaxMsgs \in Nat
  /\ Configs \subseteq Config
  /\ \A c \in Configs : c.num_messages <= MaxMsgs

VARIABLES
  cfg,
  now,               \* steady_clock; start_time is 0
  pc,                \* where run_pipe is
  i,                 \* messages sent
  due,
  m_last_snd_time,
  m_timedev,         \* m_timedev_us, in ticks
  next_time,         \* until when wait() waits
  line, eof, m_start,   \* csv_pacer: the next line, the flag of the stream, ...
  force_break

vars == <<cfg, now, pc, i, due, m_last_snd_time, m_timedev, next_time, line, eof,
          m_start, force_break>>
rate_pacer == <<due, m_last_snd_time, m_timedev>>
csv_pacer == <<line, eof, m_start>>

\* In whole messages per ten seconds: the lowest rates become 0, no pacing.
calc_msg_interval_us(rate, size) ==
  LET msgs_per_10s == ((rate \div 8) * 10) \div size
  IN  IF msgs_per_10s = 0 THEN 0 ELSE 10000000 \div msgs_per_10s

Interval == Tick * calc_msg_interval_us(cfg.rate, cfg.size)

\* A duration cast to microseconds.
Truncated(t) == t - (t % Tick)

Paced == cfg.mode \in {"sleep", "spin"}
num_messages == IF cfg.duration > 0 THEN 0 - 1 ELSE cfg.num_messages

Init ==
  /\ cfg \in Configs
  /\ now = 0
  /\ pc = "construct"
  /\ i = 0
  /\ due = 0
  /\ m_last_snd_time = 0
  /\ m_timedev = 0
  /\ next_time = 0
  /\ line = 1
  /\ eof = FALSE
  /\ m_start = 0
  /\ force_break = FALSE

-----------------------------------------------------------------------------
\* Some time may pass between start_time and the construction of the pacer.
ConstructPacer ==
  /\ pc = "construct"
  /\ pc' = "loop"
  /\ due' = now
  /\ m_last_snd_time' = now
  /\ m_start' = now
  /\ UNCHANGED <<cfg, now, i, m_timedev, next_time, line, eof, force_break>>

Loop ==
  /\ pc = "loop"
  /\ pc' = IF (num_messages < 0 \/ i < num_messages) /\ ~force_break
             THEN (IF cfg.mode = "none" THEN "check" ELSE "pace") ELSE "done"
  /\ UNCHANGED <<cfg, now, i, rate_pacer, next_time, csv_pacer, force_break>>

NextTime_NoDeviation == m_last_snd_time + Interval

\* inter_send_us, from m_last_snd_time: the deviation shortens or lengthens the
\* wait, and one of more than an interval leaves none.
NextTime ==
  m_last_snd_time + (IF m_timedev > Interval THEN 0 ELSE Interval - m_timedev)

Advance_NoDeviation ==
  /\ due' = due + Interval
  /\ m_last_snd_time' = now
  /\ UNCHANGED m_timedev

\* The end of pacer::wait, with time_now as it was read last.
Advance ==
  /\ due' = due + Interval
  /\ m_timedev' = m_timedev + Truncated(now - m_last_snd_time) - Interval
  /\ m_last_snd_time' = now

\* time_now is read before the sleep, so that what wait() notes does not
\* depend on when the thread wakes up.
WaitAsleep ==
  /\ pc = "pace" /\ cfg.mode = "sleep"
  /\ next_time' = NextTime
  /\ Advance
  /\ pc' = "waiting"
  /\ UNCHANGED <<cfg, now, i, csv_pacer, force_break>>

SleepOver ==
  /\ pc = "waiting" /\ cfg.mode = "sleep"
  /\ now >= next_time
  /\ pc' = "check"
  /\ UNCHANGED <<cfg, now, i, rate_pacer, next_time, csv_pacer, force_break>>

WaitSpinning ==
  /\ pc = "pace" /\ cfg.mode = "spin"
  /\ now >= NextTime \/ force_break
  /\ next_time' = NextTime
  /\ Advance
  /\ pc' = "check"
  /\ UNCHANGED <<cfg, now, i, csv_pacer, force_break>>

ReadLine_KeepsStart ==
  LET l == IF eof THEN 1 ELSE line
  IN  /\ pc = "pace" /\ cfg.mode = "csv"
      /\ line' = l + 1
      /\ eof' = (l > Len(cfg.csv) \/ (l = Len(cfg.csv) /\ ~cfg.newline))
      /\ next_time' = IF l <= Len(cfg.csv) THEN m_start + cfg.csv[l] ELSE 0
      /\ pc' = "waiting"
      /\ UNCHANGED <<cfg, now, i, rate_pacer, m_start, force_break>>

\* next_time(): at the end of the file it is read from the start again.  The
\* end is found by a line that does not end, or by reading after the last
\* line, which gives no line and so no wait.
ReadLine ==
  LET l == IF eof THEN 1 ELSE line
      start == IF eof THEN now ELSE m_start
  IN  /\ pc = "pace" /\ cfg.mode = "csv"
      /\ line' = l + 1
      /\ eof' = (l > Len(cfg.csv) \/ (l = Len(cfg.csv) /\ ~cfg.newline))
      /\ m_start' = start
      /\ next_time' = IF l <= Len(cfg.csv) THEN start + cfg.csv[l] ELSE 0
      /\ pc' = "waiting"
      /\ UNCHANGED <<cfg, now, i, rate_pacer, force_break>>

CsvWaitOver ==
  /\ pc = "waiting" /\ cfg.mode = "csv"
  /\ now >= next_time \/ force_break
  /\ pc' = "check"
  /\ UNCHANGED <<cfg, now, i, rate_pacer, next_time, csv_pacer, force_break>>

CheckDuration_Never ==
  /\ pc = "check"
  /\ pc' = "write"
  /\ UNCHANGED <<cfg, now, i, rate_pacer, next_time, csv_pacer, force_break>>

CheckDuration ==
  /\ pc = "check"
  /\ pc' = IF cfg.duration > 0 /\ now > cfg.duration THEN "done" ELSE "write"
  /\ UNCHANGED <<cfg, now, i, rate_pacer, next_time, csv_pacer, force_break>>

\* An exception of write() ends the loop.
Write ==
  /\ pc = "write"
  /\ \/ i' = (IF i < MaxMsgs THEN i + 1 ELSE i) /\ pc' = "loop"
     \/ i' = i /\ pc' = "done"
  /\ UNCHANGED <<cfg, now, rate_pacer, next_time, csv_pacer, force_break>>

Step ==
  \/ ConstructPacer \/ Loop \/ WaitAsleep \/ SleepOver \/ WaitSpinning
  \/ ReadLine \/ CsvWaitOver \/ CheckDuration \/ Write

TimePasses ==
  /\ now < MaxTime
  /\ now' = now + 1
  /\ UNCHANGED <<cfg, pc, i, rate_pacer, next_time, csv_pacer, force_break>>

Interrupt ==
  /\ ~force_break
  /\ force_break' = TRUE
  /\ UNCHANGED <<cfg, now, pc, i, rate_pacer, next_time, csv_pacer>>

Next == Step \/ TimePasses \/ Interrupt

Spec == Init /\ [][Next]_vars

-----------------------------------------------------------------------------
\* Types; csv_pacer reads at most once past the last line before it rewinds,
\* and the clock never runs behind what pacer has noted.
TypeOK ==
  /\ cfg \in Config
  /\ now \in 0..MaxTime
  /\ pc \in {"construct", "loop", "pace", "waiting", "check", "write", "done"}
  /\ i \in 0..MaxMsgs
  /\ due \in Nat
  /\ m_last_snd_time \in Nat /\ m_last_snd_time <= now
  /\ m_timedev \in Int
  /\ next_time \in Nat
  /\ line \in 1..(Len(cfg.csv) + 2)
  /\ eof \in BOOLEAN
  /\ m_start \in Nat
  /\ force_break \in BOOLEAN

\* No message is sent before its turn: not after a delay either, when pacer
\* sends without waiting to catch up, and whatever is cut off by counting in
\* microseconds (pacer.hpp:47, :69).  An interrupt may cut a spin short.
NeverEarly ==
  Paced /\ pc \in {"check", "write"} /\ ~(force_break /\ cfg.mode = "spin") => now >= due

\* Delays are made up for: what wait() waits for is past already or, whatever
\* delayed the messages before, later than the turn of the next message by less
\* than a microsecond for every message so far (pacer.hpp:47, :69).
ScheduleKept ==
  Paced /\ pc = "pace" /\ i < MaxMsgs =>
    NextTime <= now \/ NextTime <= due + Interval + i * (Tick - 1)

\* A message after an interrupt need not have waited.
AfterInterrupt == IF force_break THEN 1 ELSE 0

\* With --duration and a rate no more messages are sent than fit in that time
\* at the interval of the pacer, however the thread is delayed (generate.cpp:67).
\* The interval is in whole microseconds: 3, not 3 1/3, for messages of 100
\* bytes at 240 Mbps.
WithinDuration ==
  Paced /\ cfg.duration > 0 => (i - AfterInterrupt) * Interval <= cfg.duration

\* Every pass through the file of csv_pacer takes the time of its last line,
\* unless this is 0, also when it is started again; a pass has one message more
\* than lines if the last line ends with a newline (pacer.hpp:118).
CsvPassTakesItsTime ==
  LET n == Len(cfg.csv)
  IN  cfg.mode = "csv" /\ n > 0 /\ cfg.csv[n] > 0 =>
        i <= (n + (IF cfg.newline THEN 1 ELSE 0)) * (1 + now \div cfg.csv[n]) + AfterInterrupt
=============================================================================
