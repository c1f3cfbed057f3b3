---------------------------- MODULE Pacer_proofs ----------------------------
(***************************************************************************)
(* The pacers keep their times, for every rate, message size, clock and    *)
(* duration: type correctness, NeverEarly, ScheduleKept, WithinDuration    *)
(* and CsvPassTakesItsTime of Pacer.                                       *)
(*                                                                         *)
(* The argument: m_last_snd_time - m_timedev is what the pacer takes for   *)
(* the time its last message was due.  A wait adds the interval to it and, *)
(* because elapsed time is cut to microseconds, a rest of less than Tick;  *)
(* so it is never before due, and off by one such rest per message.  The   *)
(* next time computed from it is then not before the next message is due,  *)
(* and past it by no more than these rests, unless the deviation has       *)
(* outgrown the interval and there is nothing to wait for.                 *)
(* Since no message is early, those of a duration fit in it; and a pass of *)
(* the csv pacer starts when the last line of the pass before was due.     *)
(* Last, how near the interval of a pacer comes to the rate asked for.     *)
(***************************************************************************)
EXTENDS Pacer, TLAPS

\* The waits that have been completed or, by a sleeper, noted.
Waits == i + (IF pc \in {"waiting", "check", "write", "done"} THEN 1 ELSE 0)

Scheduled == m_last_snd_time - m_timedev

\* The end of the file is noticed before the line after the next.
LineInv == ~eof => line <= Len(cfg.csv) + 1

\* The schedule of the pacer against the exact one.
ScheduleInv ==
  /\ Paced => Scheduled >= due
  /\ Paced /\ i < MaxMsgs => Scheduled - due <= Waits * (Tick - 1)
  /\ pc = "construct" => m_timedev = 0 /\ i = 0

\* What a sleeper waits for.
SleepInv == cfg.mode = "sleep" /\ pc = "waiting" => next_time >= due

IInv == TypeOK /\ LineInv /\ ScheduleInv /\ SleepInv /\ NeverEarly

\* The interval of a pacer is a whole number of ticks.
LEMMA IntervalType == ASSUME cfg \in Config PROVE Interval \in Nat
<1> DEFINE msgs == ((cfg.rate \div 8) * 10) \div cfg.size
<1>1. cfg.rate \in Nat /\ cfg.size \in Nat \ {0}
  BY DEF Config
<1>2. (cfg.rate \div 8) * 10 \in Nat
  BY <1>1
<1>3. msgs \in Nat
  BY <1>1, <1>2
<1> HIDE DEF msgs
<1>4. msgs # 0 => 10000000 \div msgs \in Nat
  BY <1>3
<1>5. calc_msg_interval_us(cfg.rate, cfg.size) = IF msgs = 0 THEN 0 ELSE 10000000 \div msgs
  BY DEF calc_msg_interval_us, msgs
<1>6. calc_msg_interval_us(cfg.rate, cfg.size) \in Nat
  BY <1>4, <1>5
<1> QED
  BY <1>6, PacerAssumption DEF Interval

\* Casting to microseconds cuts off less than a microsecond.
LEMMA TruncatedBounds ==
  ASSUME NEW t \in Nat
  PROVE  Truncated(t) \in Int /\ t - Truncated(t) \in 0..(Tick - 1)
BY PacerAssumption DEF Truncated

\* One more wait allows for one more rest.
LEMMA OneMoreRest ==
  ASSUME NEW n \in Nat
  PROVE  /\ n * (Tick - 1) \in Nat
         /\ (n + 1) * (Tick - 1) = n * (Tick - 1) + (Tick - 1)
BY PacerAssumption

LEMMA InitInv == Init => IInv
<1> SUFFICES ASSUME Init PROVE IInv
  OBVIOUS
<1>1. cfg \in Config
  BY PacerAssumption DEF Init
<1>2. Len(cfg.csv) \in Nat
  BY <1>1 DEF Config
<1>3. /\ now \in 0..MaxTime /\ i \in 0..MaxMsgs /\ due \in Nat /\ m_last_snd_time \in Nat
      /\ m_last_snd_time <= now /\ m_timedev \in Int /\ next_time \in Nat
      /\ line \in 1..(Len(cfg.csv) + 2) /\ m_start \in Nat
  BY <1>2, PacerAssumption DEF Init
<1>5. eof \in BOOLEAN /\ force_break \in BOOLEAN /\ pc = "construct"
  BY Zenon DEF Init
<1>6. TypeOK
  BY <1>1, <1>3, <1>5, Zenon DEF TypeOK
<1>4. Waits = 0
  BY DEF Init, Waits
<1> QED
  BY <1>2, <1>4, <1>6, OneMoreRest, PacerAssumption
     DEF Init, IInv, LineInv, ScheduleInv, SleepInv, NeverEarly, Scheduled

\* The end of pacer::wait.
LEMMA AdvanceKeeps ==
  ASSUME IInv, Advance, pc = "pace", cfg' = cfg, now' = now, i' = i,
         pc' \in {"waiting", "check"}, Paced
  PROVE  /\ m_timedev' \in Int /\ due' \in Nat
         /\ m_last_snd_time' = now
         /\ ScheduleInv'
         /\ NextTime \in Nat /\ NextTime >= due'
<1> DEFINE rest == (now - m_last_snd_time) - Truncated(now - m_last_snd_time)
<1>1. /\ cfg \in Config /\ now \in Nat /\ m_last_snd_time \in Nat /\ m_timedev \in Int
      /\ due \in Nat /\ i \in Nat /\ now - m_last_snd_time \in Nat
  BY PacerAssumption DEF IInv, TypeOK
<1>2. Interval \in Nat /\ Interval' = Interval /\ Paced'
  BY <1>1, IntervalType DEF Interval, Paced
<1>3. Truncated(now - m_last_snd_time) \in Int /\ rest \in 0..(Tick - 1)
  BY <1>1, TruncatedBounds
<1> HIDE DEF rest
<1>4. rest \in Nat /\ rest <= Tick - 1 /\ Tick - 1 \in Nat
  BY <1>3, PacerAssumption
<1>5. m_timedev' \in Int /\ due' \in Nat /\ m_last_snd_time' = now
  BY <1>1, <1>2, <1>3 DEF Advance
<1>6. due' = due + Interval
  BY DEF Advance
<1>7. Scheduled' = Scheduled + Interval + rest /\ Scheduled \in Int
  BY <1>1, <1>2, <1>3 DEF Advance, Scheduled, rest
<1>8. Scheduled >= due
  BY DEF IInv, ScheduleInv
<1>9. Waits = i /\ Waits' = i + 1
  BY <1>1 DEF Waits
<1>10. i < MaxMsgs => Scheduled - due <= i * (Tick - 1)
  BY <1>9 DEF IInv, ScheduleInv
<1>11. i < MaxMsgs => Scheduled' - due' <= (i + 1) * (Tick - 1)
  <2>1. i * (Tick - 1) \in Nat /\ (i + 1) * (Tick - 1) = i * (Tick - 1) + (Tick - 1)
    BY <1>1, OneMoreRest
  <2> QED
    BY <2>1, <1>1, <1>2, <1>4, <1>6, <1>7, <1>10
<1>12. ScheduleInv'
  BY <1>1, <1>2, <1>4, <1>6, <1>7, <1>8, <1>9, <1>11 DEF ScheduleInv
<1>13. NextTime \in Nat /\ NextTime >= due'
  BY <1>1, <1>2, <1>6, <1>8 DEF NextTime, Scheduled
<1> QED
  BY <1>5, <1>12, <1>13

\* Steps that leave the pacer alone leave its schedule alone, as long as the
\* number of waits stays.
LEMMA ScheduleStays ==
  ASSUME IInv, UNCHANGED <<cfg, rate_pacer, i>>, pc # "construct", pc' # "construct",
         Waits' = Waits \/ Waits' = Waits + 1
  PROVE  ScheduleInv'
<1>1. i \in Nat /\ Waits \in Nat
  BY PacerAssumption DEF IInv, TypeOK, Waits
<1>2. Scheduled' = Scheduled /\ due' = due /\ Paced' = Paced /\ i' = i
  BY DEF rate_pacer, Scheduled, Paced
<1>3. Scheduled \in Int /\ due \in Nat
  BY PacerAssumption DEF IInv, TypeOK, Scheduled
<1>4. Waits * (Tick - 1) \in Nat /\ Waits * (Tick - 1) <= Waits' * (Tick - 1)
  BY <1>1, OneMoreRest, PacerAssumption
<1>5. Waits' * (Tick - 1) \in Int
  BY <1>1, PacerAssumption
<1> QED
  BY <1>2, <1>3, <1>4, <1>5 DEF ScheduleInv, IInv

\* The types of everything, and the parts of the invariant, one by one.
LEMMA Types ==
  ASSUME IInv
  PROVE  /\ cfg \in Config /\ Len(cfg.csv) \in Nat
         /\ now \in Nat /\ now <= MaxTime /\ i \in Nat /\ i <= MaxMsgs
         /\ due \in Nat /\ m_last_snd_time \in Nat /\ m_last_snd_time <= now
         /\ m_timedev \in Int /\ next_time \in Nat /\ m_start \in Nat
         /\ line \in Nat /\ line >= 1 /\ line <= Len(cfg.csv) + 2
<1>1. cfg \in Config /\ Len(cfg.csv) \in Nat
  BY DEF IInv, TypeOK, Config
<1> QED
  BY <1>1, PacerAssumption DEF IInv, TypeOK

\* Steps of run_pipe that only move on.
LEMMA MovesOn ==
  ASSUME IInv, UNCHANGED <<cfg, now, i, rate_pacer, next_time, csv_pacer, force_break>>,
         pc # "construct", pc' \in {"loop", "pace", "check", "write", "done"},
         Waits' = Waits \/ Waits' = Waits + 1,
         NeverEarly'
  PROVE  IInv'
<1>1. TypeOK'
  BY Zenon DEF IInv, TypeOK, rate_pacer, csv_pacer
<1>2. LineInv'
  BY DEF IInv, LineInv, csv_pacer
<1>3. ScheduleInv'
  BY ScheduleStays
<1>4. SleepInv'
  BY DEF SleepInv
<1> QED
  BY <1>1, <1>2, <1>3, <1>4 DEF IInv

LEMMA ConstructInv == IInv /\ ConstructPacer => IInv'
<1> SUFFICES ASSUME IInv, ConstructPacer PROVE IInv'
  OBVIOUS
<1>1. /\ now \in 0..MaxTime /\ i \in 0..MaxMsgs /\ line \in 1..(Len(cfg.csv) + 2) /\ now \in Nat
      /\ cfg \in Config /\ next_time \in Nat /\ m_timedev = 0 /\ i = 0
  BY PacerAssumption DEF IInv, TypeOK, ScheduleInv, ConstructPacer
<1>2. now <= now
  BY <1>1
<1>3. 0 \in Int
  OBVIOUS
<1>4. TypeOK'
  BY <1>1, <1>2, <1>3, Zenon DEF IInv, TypeOK, ConstructPacer
<1>5. LineInv'
  BY DEF IInv, LineInv, ConstructPacer
<1>6. Waits' = 0 /\ Waits' \in Nat /\ Waits' * (Tick - 1) \in Nat
  BY <1>1, PacerAssumption DEF Waits, ConstructPacer
<1>7. Scheduled' = now /\ due' = now
  BY <1>1 DEF Scheduled, ConstructPacer
<1>8. ScheduleInv'
  BY <1>1, <1>6, <1>7 DEF ScheduleInv, ConstructPacer
<1> QED
  BY <1>4, <1>5, <1>8 DEF IInv, SleepInv, NeverEarly, ConstructPacer

LEMMA LoopInv == IInv /\ Loop => IInv'
<1> SUFFICES ASSUME IInv, Loop PROVE IInv'
  OBVIOUS
<1>1. i \in Nat
  BY Types
<1>2. pc = "loop" /\ pc' \in {"check", "pace", "done"} /\ (pc' = "check" => cfg.mode = "none")
  BY DEF Loop
<1>3. Waits' = Waits \/ Waits' = Waits + 1
  BY <1>1, <1>2 DEF Waits, Loop
<1>4. NeverEarly'
  BY <1>2 DEF NeverEarly, Paced, Loop
<1> QED
  BY <1>2, <1>3, <1>4, MovesOn DEF Loop

LEMMA WaitAsleepInv == IInv /\ WaitAsleep => IInv'
<1> SUFFICES ASSUME IInv, WaitAsleep PROVE IInv'
  OBVIOUS
<1>1. /\ m_timedev' \in Int /\ due' \in Nat /\ m_last_snd_time' = now
      /\ ScheduleInv' /\ next_time' \in Nat /\ next_time' >= due'
  BY AdvanceKeeps DEF WaitAsleep, Paced
<1>2. now \in Nat /\ now <= now
  BY Types
<1>3. TypeOK'
  BY <1>1, <1>2, Zenon DEF IInv, TypeOK, WaitAsleep, csv_pacer
<1>4. LineInv'
  BY DEF IInv, LineInv, WaitAsleep, csv_pacer
<1> QED
  BY <1>1, <1>3, <1>4 DEF IInv, SleepInv, NeverEarly, WaitAsleep

LEMMA SleepOverInv == IInv /\ SleepOver => IInv'
<1> SUFFICES ASSUME IInv, SleepOver PROVE IInv'
  OBVIOUS
<1>1. Waits' = Waits
  BY DEF Waits, SleepOver
<1>2. NeverEarly'
  <2>1. next_time >= due /\ now >= next_time
    BY DEF IInv, SleepInv, SleepOver
  <2>2. now' = now /\ due' = due
    BY DEF SleepOver, rate_pacer
  <2> QED
    BY <2>1, <2>2, Types DEF NeverEarly
<1> QED
  BY <1>1, <1>2, MovesOn DEF SleepOver

LEMMA WaitSpinningInv == IInv /\ WaitSpinning => IInv'
<1> SUFFICES ASSUME IInv, WaitSpinning PROVE IInv'
  OBVIOUS
<1>1. /\ m_timedev' \in Int /\ due' \in Nat /\ m_last_snd_time' = now
      /\ ScheduleInv' /\ NextTime \in Nat /\ NextTime >= due'
  BY AdvanceKeeps DEF WaitSpinning, Paced
<1>2. now \in Nat /\ now <= now
  BY Types
<1>3. TypeOK'
  BY <1>1, <1>2, Zenon DEF IInv, TypeOK, WaitSpinning, csv_pacer
<1>4. LineInv'
  BY DEF IInv, LineInv, WaitSpinning, csv_pacer
<1>5. NeverEarly'
  BY <1>1, <1>2 DEF NeverEarly, WaitSpinning
<1> QED
  BY <1>1, <1>3, <1>4, <1>5 DEF IInv, SleepInv, WaitSpinning

LEMMA ReadLineInv == IInv /\ ReadLine => IInv'
<1> SUFFICES ASSUME IInv, ReadLine PROVE IInv'
  OBVIOUS
<1> DEFINE n == Len(cfg.csv)
<1>1. /\ cfg \in Config /\ n \in Nat /\ line \in Nat /\ line >= 1 /\ m_start \in Nat
      /\ now \in Nat /\ i \in Nat
  BY Types
<1>2. cfg.csv \in Seq(Nat)
  BY <1>1 DEF Config
<1>3. \A l \in Nat : l >= 1 /\ l <= n => cfg.csv[l] \in Nat
  BY <1>2
<1>4. ~eof => line <= n + 1
  BY DEF IInv, LineInv
<1>5. PICK l \in {1, line} : \E start \in {now, m_start} :
        /\ (l = 1 \/ ~eof) /\ line' = l + 1
        /\ eof' = (l > n \/ (l = n /\ ~cfg.newline))
        /\ m_start' = start
        /\ next_time' = IF l <= n THEN start + cfg.csv[l] ELSE 0
  BY Zenon DEF ReadLine
<1>6. l \in Nat /\ l >= 1 /\ l <= n + 1
  BY <1>1, <1>4, <1>5
<1>7. line' \in 1..(n + 2) /\ m_start' \in Nat /\ next_time' \in Nat
  BY <1>1, <1>3, <1>5, <1>6
<1>8. eof' \in BOOLEAN
  BY <1>5, Zenon
<1>9. cfg' = cfg /\ pc = "pace" /\ pc' = "waiting" /\ cfg.mode = "csv"
  BY DEF ReadLine
<1>10. TypeOK'
  BY <1>7, <1>8, <1>9, Zenon DEF IInv, TypeOK, ReadLine, rate_pacer
<1>11. LineInv'
  <2>1. ~eof' => ~(l > n)
    BY <1>5, Zenon
  <2>2. line' = l + 1
    BY <1>5
  <2> QED
    BY <2>1, <2>2, <1>1, <1>6, <1>9 DEF LineInv
<1>12. ScheduleInv'
  BY <1>9 DEF ScheduleInv, Paced
<1> QED
  BY <1>9, <1>10, <1>11, <1>12 DEF IInv, SleepInv, NeverEarly

LEMMA CsvWaitOverInv == IInv /\ CsvWaitOver => IInv'
<1> SUFFICES ASSUME IInv, CsvWaitOver PROVE IInv'
  OBVIOUS
<1>1. Waits' = Waits
  BY DEF Waits, CsvWaitOver
<1>2. NeverEarly'
  BY DEF NeverEarly, Paced, CsvWaitOver
<1> QED
  BY <1>1, <1>2, MovesOn DEF CsvWaitOver

LEMMA CheckDurationInv == IInv /\ CheckDuration => IInv'
<1> SUFFICES ASSUME IInv, CheckDuration PROVE IInv'
  OBVIOUS
<1>1. pc = "check" /\ pc' \in {"write", "done"}
  BY DEF CheckDuration
<1>2. Waits' = Waits
  BY <1>1 DEF Waits, CheckDuration
<1>3. NeverEarly'
  BY <1>1 DEF IInv, NeverEarly, Paced, CheckDuration, rate_pacer
<1> QED
  BY <1>1, <1>2, <1>3, MovesOn DEF CheckDuration

LEMMA WriteInv == IInv /\ Write => IInv'
<1> SUFFICES ASSUME IInv, Write PROVE IInv'
  OBVIOUS
<1>1. i \in Nat /\ i <= MaxMsgs /\ MaxMsgs \in Nat
  BY Types, PacerAssumption
<1>2. pc = "write" /\ pc' \in {"loop", "done"}
  BY DEF Write
<1>3. i' \in 0..MaxMsgs /\ i' \in Nat /\ i' >= i
  BY <1>1 DEF Write
<1>4. TypeOK'
  BY <1>2, <1>3, Zenon DEF IInv, TypeOK, Write, rate_pacer, csv_pacer
<1>5. i' < MaxMsgs => i < MaxMsgs /\ Waits' = Waits
  <2>1. Waits = i + 1
    BY <1>2 DEF Waits
  <2>2. CASE i' = (IF i < MaxMsgs THEN i + 1 ELSE i) /\ pc' = "loop"
    BY <1>1, <2>1, <2>2 DEF Waits
  <2>3. CASE i' = i /\ pc' = "done"
    BY <1>1, <2>1, <2>3 DEF Waits
  <2> QED
    BY <2>2, <2>3 DEF Write
<1>6. Scheduled' = Scheduled /\ due' = due /\ Paced' = Paced
  BY DEF Write, rate_pacer, Scheduled, Paced
<1>7. ScheduleInv'
  BY <1>2, <1>5, <1>6 DEF IInv, ScheduleInv
<1>8. LineInv'
  BY DEF IInv, LineInv, Write, csv_pacer
<1> QED
  BY <1>2, <1>4, <1>7, <1>8 DEF IInv, SleepInv, NeverEarly

LEMMA TimePassesInv == IInv /\ TimePasses => IInv'
<1> SUFFICES ASSUME IInv, TimePasses PROVE IInv'
  OBVIOUS
<1>1. now' \in 0..MaxTime /\ now' \in Nat /\ now' >= now /\ m_last_snd_time' <= now'
  BY Types, PacerAssumption DEF TimePasses, rate_pacer
<1>2. TypeOK'
  BY <1>1, Zenon DEF IInv, TypeOK, TimePasses, rate_pacer, csv_pacer
<1>3. Waits' = Waits /\ Scheduled' = Scheduled
  BY DEF Waits, Scheduled, TimePasses, rate_pacer
<1>4. ScheduleInv'
  BY <1>3 DEF IInv, ScheduleInv, TimePasses, Paced, rate_pacer
<1>5. NeverEarly'
  BY <1>1, Types DEF IInv, NeverEarly, TimePasses, Paced, rate_pacer
<1> QED
  BY <1>2, <1>4, <1>5 DEF IInv, LineInv, SleepInv, TimePasses, rate_pacer, csv_pacer

LEMMA InterruptInv == IInv /\ Interrupt => IInv'
<1> SUFFICES ASSUME IInv, Interrupt PROVE IInv'
  OBVIOUS
<1>1. TypeOK'
  BY Zenon DEF IInv, TypeOK, Interrupt, rate_pacer, csv_pacer
<1>2. Waits' = Waits /\ Scheduled' = Scheduled
  BY DEF Waits, Scheduled, Interrupt, rate_pacer
<1>3. ScheduleInv'
  BY <1>2 DEF IInv, ScheduleInv, Interrupt, Paced, rate_pacer
<1>4. NeverEarly'
  BY DEF IInv, NeverEarly, Interrupt, Paced, rate_pacer
<1> QED
  BY <1>1, <1>3, <1>4 DEF IInv, LineInv, SleepInv, Interrupt, rate_pacer, csv_pacer

LEMMA StutterInv == IInv /\ UNCHANGED vars => IInv'
BY DEF IInv, TypeOK, LineInv, ScheduleInv, SleepInv, NeverEarly, Waits, Scheduled, Paced, vars

LEMMA NextInv == IInv /\ [Next]_vars => IInv'
BY ConstructInv, LoopInv, WaitAsleepInv, SleepOverInv, WaitSpinningInv, ReadLineInv,
   CsvWaitOverInv, CheckDurationInv, WriteInv, TimePassesInv, InterruptInv, StutterInv
   DEF Next, Step

\* The invariant holds throughout.
THEOREM PacerInvariant == Spec => []IInv
BY InitInv, NextInv, PTL DEF Spec

\* The types of Pacer, for every clock and every command line.
THEOREM PacerTypes == Spec => []TypeOK
<1>1. IInv => TypeOK
  BY DEF IInv
<1> QED
  BY <1>1, PacerInvariant, PTL

\* pacer never lets a message go before its turn, at any rate and message
\* size, with any delay and any resolution of the clock.
THEOREM PacerNeverEarly == Spec => []NeverEarly
<1>1. IInv => NeverEarly
  BY DEF IInv
<1> QED
  BY <1>1, PacerInvariant, PTL

\* pacer makes up for every delay: it waits for no time later than the turn of
\* the next message and a microsecond for each one so far, or not at all.
THEOREM PacerKeepsSchedule == Spec => []ScheduleKept
<1>1. IInv => ScheduleKept
  <2> SUFFICES ASSUME IInv, Paced, pc = "pace", i < MaxMsgs
               PROVE  NextTime <= now \/ NextTime <= due + Interval + i * (Tick - 1)
    BY DEF ScheduleKept
  <2>1. /\ i \in Nat /\ due \in Nat /\ now \in Nat /\ m_last_snd_time \in Nat
        /\ m_timedev \in Int /\ m_last_snd_time <= now /\ cfg \in Config
    BY Types
  <2>2. Interval \in Nat
    BY <2>1, IntervalType
  <2>3. i * (Tick - 1) \in Nat
    BY <2>1, OneMoreRest
  <2>4. Waits = i
    BY <2>1 DEF Waits
  <2>5. m_last_snd_time - m_timedev - due <= i * (Tick - 1)
    BY <2>4 DEF IInv, ScheduleInv, Scheduled
  <2>6. CASE m_timedev > Interval
    <3>1. NextTime = m_last_snd_time
      BY <2>1, <2>6 DEF NextTime
    <3> QED
      BY <2>1, <3>1
  <2>7. CASE ~(m_timedev > Interval)
    <3>1. NextTime = m_last_snd_time + (Interval - m_timedev)
      BY <2>7 DEF NextTime
    <3>2. NextTime <= due + Interval + i * (Tick - 1)
      BY <2>1, <2>2, <2>3, <2>5, <3>1
    <3> QED
      BY <3>2
  <2> QED
    BY <2>6, <2>7
<1> QED
  BY <1>1, PacerInvariant, PTL
-----------------------------------------------------------------------------
(* The duration.  A message that is let go has waited once for each one    *)
(* before it, so that it is due, and then also the time is, no earlier     *)
(* than that many intervals; what passes the check of the duration fits.   *)

\* The waits of the messages sent and of the one on its way.
Passed == i + (IF pc \in {"waiting", "check", "write"} THEN 1 ELSE 0)

DueInv == Paced /\ pc # "construct" => due >= Passed * Interval

\* After an interrupt one more message may be sent, and the loop ends.
DurationInv ==
  Paced /\ cfg.duration > 0 =>
    /\ \/ i * Interval <= cfg.duration
       \/ force_break /\ pc \in {"loop", "done"} /\ (i - 1) * Interval <= cfg.duration
    /\ pc = "write" /\ ~force_break => (i + 1) * Interval <= cfg.duration

LEMMA Multiples ==
  ASSUME NEW n \in Nat, NEW k \in Nat
  PROVE  /\ n * k \in Nat
         /\ (n + 1) * k = n * k + k
         /\ (n - 1) * k = n * k - k
OBVIOUS

\* What the steps below have in common.
LEMMA DurationTypes ==
  ASSUME IInv
  PROVE  /\ Interval \in Nat /\ cfg.duration \in Nat /\ i \in Nat /\ due \in Nat /\ now \in Nat
         /\ i * Interval \in Nat
         /\ (i + 1) * Interval = i * Interval + Interval
         /\ (i - 1) * Interval = i * Interval - Interval
         /\ (UNCHANGED cfg => Interval' = Interval /\ (Paced' <=> Paced))
<1>1. Interval \in Nat /\ i \in Nat /\ due \in Nat /\ now \in Nat /\ cfg \in Config
  BY Types, IntervalType
<1>2. cfg.duration \in Nat
  BY <1>1 DEF Config
<1>3. UNCHANGED cfg => Interval' = Interval /\ (Paced' <=> Paced)
  BY DEF Interval, Paced
<1> QED
  BY <1>1, <1>2, <1>3, Multiples

\* At the start nothing is due.
LEMMA DurationInit == Init => DueInv /\ DurationInv
<1> SUFFICES ASSUME Init PROVE DueInv /\ DurationInv
  OBVIOUS
<1>1. Interval \in Nat /\ cfg.duration \in Nat /\ i * Interval = 0
  <2>1. IInv
    BY InitInv
  <2>2. Interval \in Nat /\ cfg.duration \in Nat
    BY <2>1, DurationTypes
  <2>3. 0 * Interval = 0
    BY <2>2
  <2> QED
    BY <2>2, <2>3 DEF Init
<1> QED
  BY <1>1 DEF Init, DueInv, DurationInv

LEMMA DurationWait ==
  ASSUME IInv, DueInv, DurationInv, WaitAsleep \/ WaitSpinning
  PROVE  DueInv' /\ DurationInv'
<1>1. /\ due' = due + Interval /\ pc = "pace" /\ pc' \in {"waiting", "check"}
      /\ UNCHANGED <<cfg, i, force_break>>
  BY DEF WaitAsleep, WaitSpinning, Advance
<1>2. Passed = i /\ Passed' = i + 1
  BY <1>1, DurationTypes DEF Passed
<1>3. Paced => due >= i * Interval
  BY <1>1, <1>2 DEF DueInv
<1>4. DueInv'
  <2>1. Paced => due' >= (i + 1) * Interval
    BY <1>1, <1>3, DurationTypes
  <2>2. Interval' = Interval /\ (Paced' <=> Paced)
    BY <1>1, DurationTypes
  <2> QED
    BY <1>2, <2>1, <2>2 DEF DueInv
<1>5. DurationInv'
  BY <1>1, DurationTypes DEF DurationInv
<1> QED
  BY <1>4, <1>5

LEMMA DurationCheck ==
  ASSUME IInv, DueInv, DurationInv, CheckDuration
  PROVE  DueInv' /\ DurationInv'
<1>1. /\ pc = "check" /\ UNCHANGED <<cfg, i, due, force_break, now>>
      /\ pc' = IF cfg.duration > 0 /\ now > cfg.duration THEN "done" ELSE "write"
  BY DEF CheckDuration, rate_pacer
<1>2. Passed = i + 1 /\ (pc' = "write" => Passed' = i + 1) /\ (pc' = "done" => Passed' = i)
  BY <1>1, DurationTypes DEF Passed
<1>3. Paced => due >= (i + 1) * Interval
  BY <1>1, <1>2 DEF DueInv
<1>4. Paced => due >= i * Interval
  BY <1>3, DurationTypes
<1>5. Interval' = Interval /\ (Paced' <=> Paced)
  BY <1>1, DurationTypes
<1>6. DueInv'
  BY <1>1, <1>2, <1>3, <1>4, <1>5 DEF DueInv
<1>7. DurationInv'
  <2> SUFFICES ASSUME Paced, cfg.duration > 0
               PROVE  /\ i * Interval <= cfg.duration
                      /\ pc' = "write" /\ ~force_break => (i + 1) * Interval <= cfg.duration
    BY <1>1, <1>5 DEF DurationInv
  <2>1. i * Interval <= cfg.duration
    BY <1>1 DEF DurationInv
  <2>2. ASSUME pc' = "write", ~force_break PROVE (i + 1) * Interval <= cfg.duration
    <3>1. now <= cfg.duration
      BY <1>1, <2>2, DurationTypes
    <3>2. now >= due
      BY <1>1, <2>2 DEF IInv, NeverEarly
    <3> QED
      BY <3>1, <3>2, <1>3, DurationTypes
  <2> QED
    BY <2>1, <2>2
<1> QED
  BY <1>6, <1>7

LEMMA DurationWrite ==
  ASSUME IInv, DueInv, DurationInv, Write
  PROVE  DueInv' /\ DurationInv'
<1>1. /\ pc = "write" /\ pc' \in {"loop", "done"} /\ UNCHANGED <<cfg, due, force_break>>
      /\ i' = i \/ i' = i + 1
  BY DEF Write, rate_pacer
<1>2. Passed = i + 1 /\ Passed' = i'
  BY <1>1, DurationTypes DEF Passed
<1>3. /\ i' * Interval = i * Interval \/ i' * Interval = i * Interval + Interval
      /\ (i' - 1) * Interval <= i * Interval
      /\ i' * Interval \in Int /\ (i' - 1) * Interval \in Int
  BY <1>1, DurationTypes
<1>4. Interval' = Interval /\ (Paced' <=> Paced)
  BY <1>1, DurationTypes
<1>5. DueInv'
  <2>1. Paced => due >= i * Interval + Interval
    BY <1>1, <1>2, DurationTypes DEF DueInv
  <2>2. Paced => due >= i' * Interval
    BY <2>1, <1>3, DurationTypes
  <2> QED
    BY <2>2, <1>1, <1>2, <1>4 DEF DueInv
<1>6. DurationInv'
  <2> SUFFICES ASSUME Paced, cfg.duration > 0
               PROVE  \/ i' * Interval <= cfg.duration
                      \/ force_break /\ (i' - 1) * Interval <= cfg.duration
    BY <1>1, <1>4 DEF DurationInv
  <2>1. CASE force_break
    BY <2>1, <1>1, <1>3, DurationTypes DEF DurationInv
  <2>2. CASE ~force_break
    BY <2>2, <1>1, <1>3, DurationTypes DEF DurationInv
  <2> QED
    BY <2>1, <2>2
<1> QED
  BY <1>5, <1>6

LEMMA DurationNext ==
  ASSUME IInv, DueInv, DurationInv, [Next]_vars
  PROVE  DueInv' /\ DurationInv'
<1>1. CASE ConstructPacer
  <2>1. UNCHANGED <<cfg, i, force_break>> /\ due' = now /\ pc = "construct" /\ pc' = "loop"
    BY <1>1 DEF ConstructPacer
  <2>2. i = 0 /\ Passed' = 0
    BY <2>1 DEF IInv, ScheduleInv, Passed
  <2>3. 0 * Interval = 0
    BY DurationTypes
  <2> QED
    BY <2>1, <2>2, <2>3, DurationTypes DEF DueInv, DurationInv
<1>2. CASE Loop
  <2>1. /\ UNCHANGED <<cfg, i, due, force_break>> /\ pc = "loop"
        /\ pc' \in {"done", "pace", "check"} /\ (force_break => pc' = "done")
        /\ (pc' = "check" => ~Paced)
    BY <1>2 DEF Loop, rate_pacer, Paced
  <2>2. Passed = i /\ (Paced => Passed' = i)
    BY <2>1, DurationTypes DEF Passed
  <2> QED
    BY <2>1, <2>2, DurationTypes DEF DueInv, DurationInv
<1>3. CASE SleepOver
  <2>1. UNCHANGED <<cfg, i, due, force_break>> /\ pc = "waiting" /\ pc' = "check"
    BY <1>3 DEF SleepOver, rate_pacer
  <2>2. Passed' = Passed
    BY <2>1 DEF Passed
  <2> QED
    BY <2>1, <2>2, DurationTypes DEF DueInv, DurationInv
<1>4. CASE ReadLine \/ CsvWaitOver
  BY <1>4 DEF ReadLine, CsvWaitOver, Paced, DueInv, DurationInv
<1>5. CASE TimePasses \/ UNCHANGED vars
  <2>1. UNCHANGED <<cfg, i, due, force_break, pc>>
    BY <1>5 DEF TimePasses, rate_pacer, vars
  <2>2. Passed' = Passed
    BY <2>1 DEF Passed
  <2> QED
    BY <2>1, <2>2, DurationTypes DEF DueInv, DurationInv
<1>6. CASE Interrupt
  <2>1. UNCHANGED <<cfg, i, due, pc>> /\ ~force_break /\ force_break'
    BY <1>6 DEF Interrupt, rate_pacer
  <2>2. Passed' = Passed
    BY <2>1 DEF Passed
  <2> QED
    BY <2>1, <2>2, DurationTypes DEF DueInv, DurationInv
<1> QED
  BY <1>1, <1>2, <1>3, <1>4, <1>5, <1>6, DurationWait, DurationCheck, DurationWrite
     DEF Next, Step

\* With --duration the messages fit in that time at the rate of the pacer,
\* whatever the delays, for every rate, size and duration; one more may go
\* after an interrupt.
THEOREM PacerWithinDuration == Spec => []WithinDuration
<1>1. Init => IInv /\ DueInv /\ DurationInv
  BY InitInv, DurationInit
<1>2. (IInv /\ DueInv /\ DurationInv) /\ [Next]_vars => (IInv /\ DueInv /\ DurationInv)'
  BY NextInv, DurationNext
<1>3. IInv /\ DueInv /\ DurationInv => WithinDuration
  <2> SUFFICES ASSUME IInv, DurationInv, Paced, cfg.duration > 0
               PROVE  (i - AfterInterrupt) * Interval <= cfg.duration
    BY DEF WithinDuration
  <2>1. CASE force_break
    BY <2>1, DurationTypes DEF DurationInv, AfterInterrupt
  <2>2. CASE ~force_break
    <3>1. i - AfterInterrupt = i
      BY <2>2, DurationTypes DEF AfterInterrupt
    <3> QED
      BY <2>2, <3>1 DEF DurationInv
  <2> QED
    BY <2>1, <2>2
<1> QED
  BY <1>1, <1>2, <1>3, PTL DEF Spec
-----------------------------------------------------------------------------
(* The passes of csv_pacer.  Within a pass the messages are counted by the *)
(* lines read; a pass that is complete has waited for its last line, so    *)
(* that the start of pass p + 1 is at least p times that line's time.      *)

N == Len(cfg.csv)
Last == cfg.csv[N]
PassMsgs == N + (IF cfg.newline THEN 1 ELSE 0)

\* The most messages by now, without an interrupt.
PassBound == PassMsgs * (1 + now \div Last)

\* The flag of the stream is set by reading the end of the file.
EofInv ==
  /\ line \in 1..(PassMsgs + 1)
  /\ eof <=> line = PassMsgs + 1
  /\ m_start <= now
  /\ pc = "construct" => line = 1

\* The last line has been waited for when what follows it is read.
LastLineInv ==
  /\ pc = "waiting" /\ line = N + 1 => next_time = m_start + Last
  /\ line > N + 1 \/ (line = N + 1 /\ pc # "waiting") => now >= m_start + Last

PassesInv == \E p \in Nat : Passed <= p * PassMsgs + (line - 1) /\ m_start >= p * Last

SentInv ==
  Last > 0 => \/ i <= PassBound
              \/ force_break /\ pc \in {"loop", "done"} /\ i <= PassBound + 1

CsvInv ==
  cfg.mode = "csv" /\ N > 0 =>
    EofInv /\ (~force_break => LastLineInv /\ PassesInv) /\ SentInv

LEMMA DivBound ==
  ASSUME NEW p \in Nat, NEW t \in Nat, NEW k \in Nat, k > 0, p * k <= t
  PROVE  p <= t \div k
<1> DEFINE q == t \div k
<1>1. q \in Nat /\ t < q * k + k
  BY DEF q
<1> HIDE DEF q
<1>2. (q + 1) * k = q * k + k
  BY <1>1
<1>3. ASSUME p > q PROVE FALSE
  <2>1. PICK d \in Nat : p = q + 1 + d
    <3>1. p - q - 1 \in Nat /\ p = q + 1 + (p - q - 1)
      BY <1>1, <1>3
    <3> QED
      BY <3>1
  <2>2. p * k = (q + 1) * k + d * k /\ d * k \in Nat
    BY <1>1, <2>1
  <2> QED
    BY <1>1, <1>2, <2>2
<1> QED
  BY <1>1, <1>3 DEF q

LEMMA DivRest ==
  ASSUME NEW a \in Nat, NEW k \in Nat, k > 0
  PROVE  a \div k \in Nat /\ (a \div k) * k <= a /\ a < (a \div k + 1) * k
<1> DEFINE q == a \div k
<1>1. q \in Nat /\ q * k <= a /\ a < q * k + k
  BY DEF q
<1> HIDE DEF q
<1>2. (q + 1) * k = q * k + k
  BY <1>1
<1>3. q \in Nat /\ q * k <= a /\ a < (q + 1) * k
  BY <1>1, <1>2
<1> QED
  BY <1>3 DEF q

LEMMA DivMonotone ==
  ASSUME NEW t \in Nat, NEW u \in Nat, NEW k \in Nat, k > 0, t <= u
  PROVE  t \div k \in Nat /\ u \div k \in Nat /\ t \div k <= u \div k
<1>1. t \div k \in Nat /\ u \div k \in Nat /\ (t \div k) * k <= t
  OBVIOUS
<1>2. (t \div k) * k <= u /\ (t \div k) * k \in Nat
  BY <1>1
<1> QED
  BY <1>1, <1>2, DivBound

LEMMA TimesMonotone ==
  ASSUME NEW a \in Nat, NEW b \in Nat, NEW k \in Nat, a <= b
  PROVE  a * k <= b * k /\ k * a <= k * b /\ k * a \in Nat /\ k * b \in Nat
<1>1. b - a \in Nat /\ b = a + (b - a)
  OBVIOUS
<1>2. (b - a) * k \in Nat /\ b * k = a * k + (b - a) * k
  BY <1>1
<1>3. a * k \in Nat /\ b * k \in Nat /\ k * a = a * k /\ k * b = b * k
  OBVIOUS
<1> QED
  BY <1>1, <1>2, <1>3

\* The types of what a pass is counted by.
LEMMA CsvTypes ==
  ASSUME IInv, cfg.mode = "csv", N > 0
  PROVE  /\ N \in Nat /\ Last \in Nat /\ PassMsgs \in Nat /\ PassMsgs >= N /\ PassMsgs <= N + 1
         /\ (cfg.newline => PassMsgs = N + 1) /\ (~cfg.newline => PassMsgs = N)
         /\ now \in Nat /\ i \in Nat /\ line \in Nat /\ m_start \in Nat /\ next_time \in Nat
         /\ \A l \in 1..N : cfg.csv[l] \in Nat
<1>1. cfg \in Config /\ now \in Nat /\ i \in Nat /\ line \in Nat /\ m_start \in Nat
      /\ next_time \in Nat
  BY Types
<1>2. cfg.csv \in Seq(Nat)
  BY <1>1 DEF Config
<1>3. N \in Nat /\ \A l \in 1..N : cfg.csv[l] \in Nat
  BY <1>2 DEF N
<1>4. Last \in Nat
  BY <1>3 DEF Last
<1>5. PassMsgs = N \/ PassMsgs = N + 1
  BY <1>3 DEF PassMsgs
<1>6. (cfg.newline => PassMsgs = N + 1) /\ (~cfg.newline => PassMsgs = N)
  BY <1>3 DEF PassMsgs
<1> QED
  BY <1>1, <1>3, <1>4, <1>5, <1>6

\* A step of the same command line.
LEMMA SameFile == ASSUME UNCHANGED cfg PROVE N' = N /\ Last' = Last /\ PassMsgs' = PassMsgs
BY DEF N, Last, PassMsgs

\* As time passes more messages are allowed.
LEMMA BoundGrows ==
  ASSUME IInv, cfg.mode = "csv", N > 0, Last > 0, UNCHANGED cfg, now' \in Nat, now <= now'
  PROVE  PassBound \in Nat /\ PassBound' \in Nat /\ PassBound <= PassBound'
<1>1. now \div Last \in Nat /\ now' \div Last \in Nat /\ now \div Last <= now' \div Last
  BY CsvTypes, DivMonotone
<1>2. 1 + now \div Last \in Nat /\ 1 + now' \div Last \in Nat
      /\ 1 + now \div Last <= 1 + now' \div Last
  BY <1>1
<1>3. PassMsgs * (1 + now \div Last) <= PassMsgs * (1 + now' \div Last)
      /\ PassMsgs * (1 + now \div Last) \in Nat /\ PassMsgs * (1 + now' \div Last) \in Nat
  BY <1>2, CsvTypes, TimesMonotone
<1>4. PassBound' = PassMsgs * (1 + now' \div Last)
  BY SameFile DEF PassBound
<1> QED
  BY <1>3, <1>4 DEF PassBound

\* The messages of the passes so far are not more than the time allows for.
LEMMA PassesFit ==
  ASSUME IInv, cfg.mode = "csv", N > 0, Last > 0, EofInv, PassesInv
  PROVE  Passed <= PassBound /\ Passed \in Nat /\ PassBound \in Nat
<1>1. PICK p \in Nat : Passed <= p * PassMsgs + (line - 1) /\ m_start >= p * Last
  BY DEF PassesInv
<1>2. p * Last \in Nat /\ p * Last <= now
  BY <1>1, CsvTypes DEF EofInv
<1>3. p <= now \div Last /\ now \div Last \in Nat
  BY <1>2, CsvTypes, DivBound, DivMonotone
<1>4. (p + 1) * PassMsgs <= (1 + now \div Last) * PassMsgs
  BY <1>3, CsvTypes, TimesMonotone
<1>5. (p + 1) * PassMsgs = p * PassMsgs + PassMsgs /\ p * PassMsgs \in Nat
  BY CsvTypes, Multiples
<1>6. (1 + now \div Last) * PassMsgs = PassBound /\ PassBound \in Nat
  BY <1>3, CsvTypes DEF PassBound
<1>7. line - 1 <= PassMsgs /\ line - 1 \in Int
  BY CsvTypes DEF EofInv
<1>8. Passed \in Nat
  BY CsvTypes DEF Passed
<1> QED
  BY <1>1, <1>4, <1>5, <1>6, <1>7, <1>8, CsvTypes

LEMMA CsvInit == Init => CsvInv
<1> SUFFICES ASSUME Init, cfg.mode = "csv", N > 0
             PROVE  EofInv /\ LastLineInv /\ PassesInv /\ SentInv
  BY DEF CsvInv
<1>1. IInv
  BY InitInv
<1>2. line = 1 /\ now = 0 /\ i = 0 /\ m_start = 0 /\ pc = "construct" /\ Passed = 0
  BY DEF Init, Passed
<1>3. EofInv
  <2>1. line \in 1..(PassMsgs + 1) /\ line # PassMsgs + 1 /\ m_start <= now
    BY <1>1, <1>2, CsvTypes
  <2>2. ~eof
    BY DEF Init
  <2> QED
    BY <1>2, <2>1, <2>2 DEF EofInv
<1>4. LastLineInv
  BY <1>1, <1>2, CsvTypes DEF LastLineInv
<1>5. PassesInv
  <2>1. 0 * PassMsgs = 0 /\ 0 * Last = 0
    BY <1>1, CsvTypes
  <2>2. Passed <= 0 * PassMsgs + (line - 1) /\ m_start >= 0 * Last
    BY <1>2, <2>1
  <2> QED
    BY <2>2 DEF PassesInv
<1>6. SentInv
  BY <1>1, <1>2, <1>3, <1>5, PassesFit DEF SentInv
<1> QED
  BY <1>3, <1>4, <1>5, <1>6

\* Steps that do not read a line.
LEMMA CsvStays ==
  ASSUME IInv, cfg.mode = "csv", N > 0, EofInv, ~force_break => LastLineInv /\ PassesInv,
         UNCHANGED <<cfg, csv_pacer, next_time>>, ~force_break' => ~force_break,
         now' \in Nat, now <= now', Passed' \in Int, Passed' <= Passed,
         pc' = "construct" => pc = "construct", pc' = "waiting" => pc = "waiting",
         pc = "waiting" /\ pc' # "waiting" => now >= next_time \/ force_break
  PROVE  EofInv' /\ (~force_break' => LastLineInv' /\ PassesInv')
<1>1. N' = N /\ Last' = Last /\ PassMsgs' = PassMsgs
  BY SameFile
<1>2. UNCHANGED <<line, eof, m_start, next_time>>
  BY DEF csv_pacer
<1>3. m_start' <= now'
  BY <1>2, CsvTypes DEF EofInv
<1>4. EofInv'
  BY <1>1, <1>2, <1>3 DEF EofInv
<1>5. ASSUME ~force_break' PROVE LastLineInv' /\ PassesInv'
  <2>1. LastLineInv /\ PassesInv /\ ~force_break
    BY <1>5
  <2>2. LastLineInv'
    BY <1>1, <1>2, <2>1, CsvTypes DEF LastLineInv
  <2>3. PICK p \in Nat : Passed <= p * PassMsgs + (line - 1) /\ m_start >= p * Last
    BY <2>1 DEF PassesInv
  <2>4. p * PassMsgs \in Nat /\ Passed \in Int
    BY CsvTypes DEF Passed
  <2>5. Passed' <= p * PassMsgs' + (line' - 1) /\ m_start' >= p * Last'
    BY <1>1, <1>2, <2>3, <2>4, CsvTypes
  <2> QED
    BY <2>2, <2>5 DEF PassesInv
<1> QED
  BY <1>4, <1>5

LEMMA CsvReadLine ==
  ASSUME IInv, CsvInv, ReadLine, N > 0
  PROVE  CsvInv'
<1>0. /\ cfg.mode = "csv" /\ pc = "pace" /\ pc' = "waiting"
      /\ UNCHANGED <<cfg, now, i, force_break>>
  BY DEF ReadLine
<1>1. N' = N /\ Last' = Last /\ PassMsgs' = PassMsgs
  BY <1>0, SameFile
<1>2. EofInv /\ (~force_break => LastLineInv /\ PassesInv) /\ SentInv
  BY <1>0 DEF CsvInv
<1>3. SentInv'
  <2>1. PassBound' = PassBound
    BY <1>0, <1>1 DEF PassBound
  <2> QED
    BY <1>0, <1>1, <1>2, <2>1 DEF SentInv
<1>4. Passed = i /\ Passed' = i + 1
  BY <1>0, CsvTypes DEF Passed
<1>5. CASE eof
  <2>1. /\ line = PassMsgs + 1 /\ line' = 2 /\ m_start' = now
        /\ next_time' = IF 1 <= N THEN now + cfg.csv[1] ELSE 0
        /\ eof' <=> 1 > N \/ (1 = N /\ ~cfg.newline)
    <3>1. line = PassMsgs + 1
      BY <1>2, <1>5 DEF EofInv
    <3>2. /\ line' = 1 + 1 /\ m_start' = now
          /\ next_time' = IF 1 <= N THEN now + cfg.csv[1] ELSE 0
          /\ eof' = (1 > N \/ (1 = N /\ ~cfg.newline))
      BY <1>5 DEF ReadLine, N
    <3>3. eof' <=> 1 > N \/ (1 = N /\ ~cfg.newline)
      BY <3>2, Zenon
    <3>4. 1 + 1 = 2
      OBVIOUS
    <3> QED
      BY <3>1, <3>2, <3>3, <3>4, Zenon
  <2>2. EofInv'
    <3>1. eof' <=> PassMsgs = 1
      BY <1>0, <2>1, CsvTypes
    <3>2. line' \in 1..(PassMsgs + 1) /\ m_start' <= now' /\ (PassMsgs = 1 <=> line' = PassMsgs + 1)
      BY <1>0, <2>1, CsvTypes
    <3> QED
      BY <1>0, <1>1, <3>1, <3>2 DEF EofInv
  <2>3. LastLineInv'
    <3>1. line' = N + 1 => next_time' = m_start' + Last
      BY <1>0, <2>1, CsvTypes DEF Last
    <3>2. ~(line' > N + 1)
      BY <1>0, <2>1, CsvTypes
    <3> QED
      BY <1>0, <1>1, <3>1, <3>2 DEF LastLineInv
  <2>4. ASSUME ~force_break PROVE PassesInv'
    <3>1. PICK p \in Nat : Passed <= p * PassMsgs + (line - 1) /\ m_start >= p * Last
      BY <1>2, <2>4 DEF PassesInv
    <3>2. now >= m_start + Last
      BY <1>0, <1>2, <2>1, <2>4, CsvTypes DEF LastLineInv
    <3>3. /\ p * PassMsgs \in Nat /\ (p + 1) * PassMsgs = p * PassMsgs + PassMsgs
          /\ p * Last \in Nat /\ (p + 1) * Last = p * Last + Last
      BY <1>0, CsvTypes, Multiples
    <3>4. Passed' <= (p + 1) * PassMsgs' + (line' - 1)
      BY <1>0, <1>1, <1>4, <2>1, <3>1, <3>3, CsvTypes
    <3>5. m_start' >= (p + 1) * Last'
      BY <1>0, <1>1, <2>1, <3>1, <3>2, <3>3, CsvTypes
    <3> QED
      BY <3>4, <3>5 DEF PassesInv
  <2> QED
    BY <1>0, <1>3, <2>2, <2>3, <2>4 DEF CsvInv
<1>6. CASE ~eof
  <2>1. /\ line # PassMsgs + 1 /\ line' = line + 1 /\ m_start' = m_start
        /\ next_time' = IF line <= N THEN m_start + cfg.csv[line] ELSE 0
        /\ eof' <=> line > N \/ (line = N /\ ~cfg.newline)
        /\ m_start <= now
    BY <1>2, <1>6 DEF EofInv, ReadLine, N
  <2>2. line >= 1 /\ line <= PassMsgs
    BY <1>0, <1>2, <2>1, CsvTypes DEF EofInv
  <2>3. EofInv'
    <3>1. eof' <=> line = PassMsgs
      <4>1. CASE cfg.newline
        BY <1>0, <2>1, <2>2, <4>1, CsvTypes
      <4>2. CASE ~cfg.newline
        BY <1>0, <2>1, <2>2, <4>2, CsvTypes
      <4> QED
        BY <4>1, <4>2
    <3>2. line' \in 1..(PassMsgs + 1) /\ m_start' <= now' /\ (line = PassMsgs <=> line' = PassMsgs + 1)
      BY <1>0, <2>1, <2>2, CsvTypes
    <3> QED
      BY <1>0, <1>1, <3>1, <3>2 DEF EofInv
  <2>4. ASSUME ~force_break PROVE LastLineInv' /\ PassesInv'
    <3>1. line' = N + 1 => next_time' = m_start' + Last
      <4>1. line' = N + 1 => line = N
        BY <1>0, <2>1, CsvTypes
      <4>2. N <= N
        BY <1>0, CsvTypes
      <4> QED
        BY <2>1, <4>1, <4>2 DEF Last
    <3>2. line' > N + 1 => now >= m_start + Last
      BY <1>0, <1>2, <2>1, <2>2, <2>4, CsvTypes DEF LastLineInv
    <3>3. LastLineInv'
      BY <1>0, <1>1, <2>1, <3>1, <3>2 DEF LastLineInv
    <3>4. PICK p \in Nat : Passed <= p * PassMsgs + (line - 1) /\ m_start >= p * Last
      BY <1>2, <2>4 DEF PassesInv
    <3>5. p * PassMsgs \in Nat
      BY <1>0, CsvTypes
    <3>6. Passed' <= p * PassMsgs' + (line' - 1) /\ m_start' >= p * Last'
      BY <1>0, <1>1, <1>4, <2>1, <3>4, <3>5, CsvTypes
    <3> QED
      BY <3>3, <3>6 DEF PassesInv
  <2> QED
    BY <1>0, <1>3, <2>3, <2>4 DEF CsvInv
<1> QED
  BY <1>5, <1>6

LEMMA CsvNext ==
  ASSUME IInv, CsvInv, [Next]_vars
  PROVE  CsvInv'
<1>1. UNCHANGED cfg
  BY DEF Next, Step, ConstructPacer, Loop, WaitAsleep, SleepOver, WaitSpinning, ReadLine,
         CsvWaitOver, CheckDuration, Write, TimePasses, Interrupt, vars
<1>2. N' = N /\ Last' = Last /\ PassMsgs' = PassMsgs
  BY <1>1, SameFile
<1> SUFFICES ASSUME cfg.mode = "csv", N > 0 PROVE CsvInv'
  BY <1>1, <1>2 DEF CsvInv
<1>3. EofInv /\ (~force_break => LastLineInv /\ PassesInv) /\ SentInv
  BY DEF CsvInv
<1>4. ASSUME EofInv' /\ (~force_break' => LastLineInv' /\ PassesInv') /\ SentInv'
      PROVE  CsvInv'
  BY <1>4 DEF CsvInv
<1>5. now \in Nat /\ i \in Nat /\ now <= now /\ Passed \in Int /\ Passed <= Passed
  BY CsvTypes DEF Passed
<1>6. CASE ConstructPacer
  <2>1. /\ pc = "construct" /\ pc' = "loop" /\ m_start' = now
        /\ UNCHANGED <<now, i, line, eof, next_time, force_break>>
    BY <1>6 DEF ConstructPacer
  <2>2. i = 0 /\ line = 1 /\ Passed' = 0
    BY <1>3, <2>1 DEF IInv, ScheduleInv, EofInv, Passed
  <2>3. EofInv'
    BY <1>2, <1>3, <1>5, <2>1 DEF EofInv
  <2>4. LastLineInv'
    BY <1>2, <2>1, <2>2, CsvTypes DEF LastLineInv
  <2>5. PassesInv'
    <3>1. 0 * PassMsgs' = 0 /\ 0 * Last' = 0
      BY <1>2, CsvTypes
    <3>2. Passed' <= 0 * PassMsgs' + (line' - 1) /\ m_start' >= 0 * Last'
      BY <1>5, <2>1, <2>2, <3>1
    <3> QED
      BY <3>2 DEF PassesInv
  <2>6. SentInv'
    BY <1>2, <1>3, <2>1 DEF SentInv, PassBound
  <2> QED
    BY <1>4, <2>3, <2>4, <2>5, <2>6
<1>7. CASE Loop
  <2>1. /\ pc = "loop" /\ pc' \in {"pace", "done"} /\ (force_break => pc' = "done")
        /\ UNCHANGED <<now, i, csv_pacer, next_time, force_break>>
    BY <1>7 DEF Loop
  <2>2. Passed' = Passed
    BY <2>1 DEF Passed
  <2>3. SentInv'
    BY <1>2, <1>3, <2>1 DEF SentInv, PassBound
  <2> QED
    BY <1>1, <1>3, <1>4, <1>5, <2>1, <2>2, <2>3, CsvStays
<1>8. CASE ReadLine
  BY <1>8, CsvReadLine
<1>9. CASE CsvWaitOver
  <2>1. /\ pc = "waiting" /\ pc' = "check" /\ (now >= next_time \/ force_break)
        /\ UNCHANGED <<now, i, csv_pacer, next_time, force_break>>
    BY <1>9 DEF CsvWaitOver
  <2>2. Passed' = Passed
    BY <2>1 DEF Passed
  <2>3. SentInv'
    BY <1>2, <1>3, <2>1 DEF SentInv, PassBound
  <2> QED
    BY <1>1, <1>3, <1>4, <1>5, <2>1, <2>2, <2>3, CsvStays
<1>10. CASE CheckDuration
  <2>1. /\ pc = "check" /\ pc' \in {"done", "write"}
        /\ UNCHANGED <<now, i, csv_pacer, next_time, force_break>>
    BY <1>10 DEF CheckDuration
  <2>2. Passed' \in Int /\ Passed' <= Passed
    BY <1>5, <2>1 DEF Passed
  <2>3. SentInv'
    BY <1>2, <1>3, <2>1 DEF SentInv, PassBound
  <2> QED
    BY <1>1, <1>3, <1>4, <1>5, <2>1, <2>2, <2>3, CsvStays
<1>11. CASE Write
  <2>1. /\ pc = "write" /\ pc' \in {"loop", "done"} /\ (i' = i \/ i' = i + 1)
        /\ UNCHANGED <<now, csv_pacer, next_time, force_break>>
    BY <1>11 DEF Write
  <2>2. Passed = i + 1 /\ Passed' = i' /\ Passed' \in Int /\ Passed' <= Passed
    BY <1>5, <2>1 DEF Passed
  <2>3. SentInv'
    <3> SUFFICES ASSUME Last > 0
                 PROVE  i' <= PassBound \/ (force_break /\ i' <= PassBound + 1)
      BY <1>2, <2>1 DEF SentInv, PassBound
    <3>1. CASE force_break
      <4>1. i <= PassBound /\ PassBound \in Nat
        BY <1>1, <1>3, <1>5, <2>1, BoundGrows DEF SentInv
      <4> QED
        BY <1>5, <2>1, <3>1, <4>1
    <3>2. CASE ~force_break
      <4>1. Passed <= PassBound /\ PassBound \in Nat
        BY <1>3, <3>2, PassesFit
      <4> QED
        BY <1>5, <2>1, <2>2, <4>1
    <3> QED
      BY <3>1, <3>2
  <2> QED
    BY <1>1, <1>3, <1>4, <1>5, <2>1, <2>2, <2>3, CsvStays
<1>12. CASE TimePasses \/ Interrupt \/ UNCHANGED vars
  <2>1. /\ UNCHANGED <<i, pc, csv_pacer, next_time>> /\ (force_break => force_break')
        /\ now' = now \/ now' = now + 1
    BY <1>12 DEF TimePasses, Interrupt, vars, csv_pacer
  <2>2. Passed' = Passed /\ now' \in Nat /\ now <= now'
    BY <1>5, <2>1 DEF Passed
  <2>3. SentInv'
    <3> SUFFICES ASSUME Last > 0
                 PROVE  \/ i <= PassBound'
                        \/ force_break' /\ pc \in {"loop", "done"} /\ i <= PassBound' + 1
      BY <1>2, <2>1 DEF SentInv
    <3>1. PassBound \in Nat /\ PassBound' \in Nat /\ PassBound <= PassBound'
      BY <1>1, <2>2, BoundGrows
    <3>2. i <= PassBound \/ (force_break /\ pc \in {"loop", "done"} /\ i <= PassBound + 1)
      BY <1>3 DEF SentInv
    <3>0. \A x, y, z \in Nat :
            x + 1 \in Nat /\ (x <= y => x + 1 <= y + 1) /\ (x <= y /\ y <= z => x <= z)
      OBVIOUS
    <3>3. CASE i <= PassBound
      <4>1. i <= PassBound'
        BY <1>5, <3>0, <3>1, <3>3
      <4> QED
        BY <4>1
    <3>4. CASE force_break /\ pc \in {"loop", "done"} /\ i <= PassBound + 1
      <4>1. PassBound + 1 <= PassBound' + 1 /\ PassBound + 1 \in Nat /\ PassBound' + 1 \in Nat
        BY <3>0, <3>1
      <4>2. i <= PassBound' + 1
        BY <1>5, <3>0, <3>4, <4>1
      <4> QED
        BY <2>1, <3>4, <4>2
    <3> QED
      BY <3>2, <3>3, <3>4
  <2>4. ~force_break' => ~force_break
    BY <2>1
  <2> QED
    BY <1>1, <1>3, <1>4, <1>5, <2>1, <2>2, <2>3, <2>4, CsvStays
<1> QED
  BY <1>6, <1>7, <1>8, <1>9, <1>10, <1>11, <1>12
     DEF Next, Step, WaitAsleep, SleepOver, WaitSpinning

\* Every pass of csv_pacer through its file takes the time of the last line,
\* for every file: the messages sent are at most those of the passes that fit
\* in the time so far and of the one begun, and one more after an interrupt.
THEOREM CsvPassesTakeTheirTime == Spec => []CsvPassTakesItsTime
<1>1. Init => IInv /\ CsvInv
  BY InitInv, CsvInit
<1>2. (IInv /\ CsvInv) /\ [Next]_vars => (IInv /\ CsvInv)'
  BY NextInv, CsvNext
<1>3. IInv /\ CsvInv => CsvPassTakesItsTime
  <2> SUFFICES ASSUME IInv, CsvInv, cfg.mode = "csv", N > 0, Last > 0
               PROVE  i <= PassBound + AfterInterrupt
    BY DEF CsvPassTakesItsTime, N, Last, PassMsgs, PassBound
  <2>1. i \in Nat /\ PassBound \in Nat
    <3>1. now \div Last \in Nat
      BY CsvTypes, DivMonotone
    <3> QED
      BY <3>1, CsvTypes DEF PassBound
  <2>2. i <= PassBound \/ (force_break /\ i <= PassBound + 1)
    BY DEF CsvInv, SentInv
  <2> QED
    BY <2>1, <2>2 DEF AfterInterrupt
<1> QED
  BY <1>1, <1>2, <1>3, PTL DEF Spec

\* What the pace asked for comes to, for every rate and message size.  The
\* interval is cut to whole messages in ten seconds and then to microseconds
\* (pacer.hpp:73, calc_msg_interval_us): the messages paced never fall behind
\* the whole messages of the rate, these are the most that fit in it, and there
\* is no pacing at all exactly when less than one message fits in ten seconds,
\* or more than one in a microsecond.
THEOREM IntervalKeepsRate ==
  ASSUME NEW rate \in Nat, NEW size \in Nat \ {0}
  PROVE  LET t == calc_msg_interval_us(rate, size)
             bytes == (rate \div 8) * 10
             msgs == bytes \div size
         IN  /\ msgs * size <= bytes /\ bytes < (msgs + 1) * size
             /\ t = 0 <=> msgs = 0 \/ msgs > 10000000
             /\ msgs > 0 => t * msgs <= 10000000 /\ 10000000 < (t + 1) * msgs
<1> DEFINE t == calc_msg_interval_us(rate, size)
           bytes == (rate \div 8) * 10
           msgs == bytes \div size
<1>1. bytes \in Nat
  <2>1. rate \div 8 \in Nat
    OBVIOUS
  <2> QED
    BY <2>1
<1>2. t = IF msgs = 0 THEN 0 ELSE 10000000 \div msgs
  BY DEF calc_msg_interval_us
<1> HIDE DEF bytes, t
<1>3. msgs \in Nat /\ msgs * size <= bytes /\ bytes < (msgs + 1) * size
  BY <1>1, DivRest DEF msgs
<1> HIDE DEF msgs
<1>4. CASE msgs = 0
  <2>1. t = 0
    BY <1>2, <1>4
  <2> QED
    BY <1>3, <1>4, <2>1 DEF bytes, t, msgs
<1>5. CASE msgs > 0
  <2>1. t = 10000000 \div msgs
    BY <1>2, <1>3, <1>5
  <2>2. t \in Nat /\ t * msgs <= 10000000 /\ 10000000 < (t + 1) * msgs
    BY <1>3, <1>5, <2>1, DivRest
  <2>3. ASSUME t = 0 PROVE msgs > 10000000
    BY <1>3, <2>2, <2>3
  <2>4. ASSUME t # 0 PROVE msgs <= 10000000
    <3>1. 1 * msgs <= t * msgs /\ t * msgs \in Nat
      BY <1>3, <2>2, <2>4, TimesMonotone
    <3> QED
      BY <1>3, <2>2, <3>1
  <2>5. t = 0 <=> msgs = 0 \/ msgs > 10000000
    BY <1>3, <1>5, <2>3, <2>4
  <2> QED
    BY <1>3, <1>5, <2>2, <2>5 DEF bytes, t, msgs
<1> QED
  BY <1>3, <1>4, <1>5
=============================================================================
