----------------------------- MODULE McxwAlarm -----------------------------
(***************************************************************************)
(* The clock and the alarms of src/src/mcxw/platform/alarm.c, and the part *)
(* of otSysProcessDrivers (system.c) that puts the device to sleep.        *)
(*                                                                         *)
(* Time passes in ticks of the microsecond clock, without end: the clock   *)
(* is kept modulo Cycle, and deadlines as the ticks that are left.         *)
(***************************************************************************)
EXTENDS Integers, FiniteSets

CONSTANTS
  Alarm,     \* the alarms in use, of "milli" and "micro"
  PerMilli,  \* ticks in a millisecond
  Wrap,      \* ticks after which TM_GetTimestamp starts again
  Word,      \* 2^32: the range of OpenThread's 32-bit times
  Cycle,     \* bound: a multiple of Wrap and of PerMilli * Word
  MaxGap,    \* assumption: ticks between two readings of the clock
  MaxDt,     \* bound: longest delay OpenThread asks for, in the alarm's unit
  MaxLag,    \* bound: how long ago the start time it gives may be
  MaxLate,   \* bound: how late the main loop may be with an alarm
  Off        \* a timer that does not run

ASSUME AlarmAssumption ==
  /\ Alarm \subseteq {"milli", "micro"}
  /\ {PerMilli, Wrap, Word, Cycle} \subseteq Nat \ {0}
  /\ Cycle > Wrap /\ Cycle % Wrap = 0 /\ Cycle % (PerMilli * Word) = 0
  /\ MaxGap < Wrap /\ MaxDt * PerMilli <= MaxGap
  /\ {MaxGap, MaxDt, MaxLag, MaxLate} \subseteq Nat /\ MaxLag < Word /\ MaxDt < Word
  /\ Off \notin Int

VARIABLES
  now,      \* the true time
  gap,      \* ticks since the clock was read
  sw, hw,   \* u64SwTimestampUs, u64HwTimestampUs
  timer,    \* ticks left on each timer of the timer manager, or Off
  irq,      \* interrupts that wait to be served: of a timer, or "other"
  fired,    \* sEventFired, sEventMicroFired
  lock,     \* lpDisallowCount
  want,     \* ticks left of what OpenThread waits for, negative once overdue
  tasklet,  \* otTaskletsArePending
  pc        \* where the main loop is

clock == <<now, gap, sw, hw>>
alarmVars == <<clock, timer, irq, fired, lock, want, tasklet, pc>>

AlarmInit ==
  /\ now = 0 /\ gap = 0 /\ sw = 0 /\ hw = 0
  /\ timer = [a \in Alarm |-> Off] /\ want = [a \in Alarm |-> Off]
  /\ irq = {} /\ fired = {} /\ lock = 0
  /\ tasklet = FALSE /\ pc = "tasklets"

Unit(a) == IF a = "milli" THEN PerMilli ELSE 1

-----------------------------------------------------------------------------
(* The clock.                                                              *)

\* The low-power timer counts, and its timers run down; a reading follows
\* within MaxGap, and the main loop serves an alarm within MaxLate.
Tick ==
  /\ gap < MaxGap
  /\ \A a \in Alarm : want[a] # Off => want[a] > - MaxLate
  /\ now' = (now + 1) % Cycle
  /\ gap' = gap + 1
  /\ timer' = [a \in Alarm |-> IF timer[a] \in {Off, 1} THEN Off ELSE timer[a] - 1]
  /\ irq' = irq \cup {a \in Alarm : timer[a] = 1}
  /\ want' = [a \in Alarm |-> IF want[a] = Off THEN Off ELSE want[a] - 1]
  /\ UNCHANGED <<sw, hw, fired, lock, tasklet, pc>>

\* Mutant: a counter that wrapped is not noticed.
TimeNoWrap == (sw + Cycle + (now % Wrap) - hw) % Cycle

\* otPlatTimeGet: the ticks since the last reading, across a wrap.
Time ==
  LET new == now % Wrap
      wrapped == IF hw > new THEN Wrap ELSE 0
  IN  (sw + (new + wrapped - hw)) % Cycle

ReadClock == sw' = Time /\ hw' = now % Wrap /\ gap' = 0 /\ UNCHANGED now

\* otPlatAlarmMilliGetNow and otPlatAlarmMicroGetNow.
GetNow(a) == (Time \div Unit(a)) % Word

-----------------------------------------------------------------------------
(* The alarms.                                                             *)

\* timerCallback, timerMicroCallback: each holds one sleep lock at most.
TimerCallback(a) ==
  /\ fired' = fired \cup {a}
  /\ lock' = IF a \in fired THEN lock ELSE lock + 1

\* The timer's interrupt, unless the main loop has interrupts disabled.
TimerInterrupt(a) ==
  /\ a \in irq /\ pc \notin {"wfi", "asleep"}
  /\ irq' = irq \ {a}
  /\ TimerCallback(a)
  /\ UNCHANGED <<clock, timer, want, tasklet, pc>>

\* Mutant: the time since aT0 is not reduced to 32 bits.
ElapsedNoWrap(ts, t0) == IF ts >= t0 THEN ts - t0 ELSE 0

\* The time since t0, as both StartAt functions compute it.
Elapsed(ts, t0) == IF ts >= t0 THEN ts - t0 ELSE Word - 1 - t0 + ts + 1

\* The delay that is left of dt.
Left(ts, t0, dt) == IF dt >= Elapsed(ts, t0) THEN dt - Elapsed(ts, t0) ELSE 0

\* Mutant: a delay that is over starts no timer and runs no callback.
StartTimerNoCallback(a, t0, dt) ==
  LET left == Left(GetNow(a), t0, dt)
  IN  /\ ReadClock
      /\ timer' = [timer EXCEPT ![a] = IF left > 0 THEN left * Unit(a) ELSE Off]
      /\ irq' = irq \ {a}
      /\ UNCHANGED <<fired, lock>>

\* otPlatAlarmMilliStartAt, otPlatAlarmMicroStartAt; a delay that is over runs
\* the callback at once.
StartTimer(a, t0, dt) ==
  LET left == Left(GetNow(a), t0, dt)
  IN  /\ ReadClock
      /\ timer' = [timer EXCEPT ![a] = IF left > 0 THEN left * Unit(a) ELSE Off]
      /\ irq' = irq \ {a}
      /\ IF left > 0 THEN UNCHANGED <<fired, lock>> ELSE TimerCallback(a)

\* OpenThread starts an alarm for dt after a time it read lag ago.
StartAt(a, lag, dt) ==
  /\ pc = "tasklets"
  /\ StartTimer(a, (GetNow(a) + Word - lag) % Word, dt)
  /\ want' = [want EXCEPT ![a] = (dt - lag) * Unit(a) - (now % Unit(a))]
  /\ UNCHANGED <<tasklet, pc>>

\* otPlatAlarmMilliStop, otPlatAlarmMicroStop: an alarm that fired is not undone.
Stop(a) ==
  /\ pc = "tasklets"
  /\ timer' = [timer EXCEPT ![a] = Off]
  /\ irq' = irq \ {a}
  /\ want' = [want EXCEPT ![a] = Off]
  /\ UNCHANGED <<clock, fired, lock, tasklet, pc>>

\* OpenThread reads the clock.
TimeGet ==
  /\ pc = "tasklets" /\ gap > 0
  /\ ReadClock
  /\ UNCHANGED <<timer, irq, fired, lock, want, tasklet, pc>>

-----------------------------------------------------------------------------
(* The main loop: tasklets, otSysProcessDrivers.                           *)

RunTasklets ==
  /\ pc = "tasklets"
  /\ tasklet' = FALSE
  /\ pc' = "milli"
  /\ UNCHANGED <<clock, timer, irq, fired, lock, want>>

After(a) == IF a = "milli" THEN "micro" ELSE "sleep"

\* Nothing is wanted any more, or its time has come.
Due(a) == want[a] # Off => want[a] <= 0

\* The alarm has not fired, or is not in use.
ProcessNothing(a) ==
  /\ pc = a /\ a \notin fired
  /\ pc' = After(a)
  /\ UNCHANGED <<clock, timer, irq, fired, lock, want, tasklet>>

\* otPlatAlarmProcess.  otPlatAlarmMilliFired and otPlatAlarmMicroFired: when
\* the time has come OpenThread is served, otherwise it starts the alarm again.
Process(a) ==
  /\ pc = a /\ a \in fired
  /\ pc' = After(a)
  /\ fired' = fired \ {a} /\ lock' = lock - 1
  /\ \/ /\ Due(a)
        /\ want' = [want EXCEPT ![a] = Off]
        /\ UNCHANGED <<clock, timer, irq>>
     \/ /\ ~Due(a)
        /\ ReadClock
        /\ timer' = [timer EXCEPT ![a] = want[a] + (now % Unit(a))]
        /\ irq' = irq \ {a}
        /\ UNCHANGED want
  /\ UNCHANGED tasklet

\* Another interrupt comes; its handler posts a tasklet.
OtherInterrupt ==
  /\ irq' = irq \cup {"other"}
  /\ UNCHANGED <<clock, timer, fired, lock, want, tasklet, pc>>

Post ==
  /\ "other" \in irq /\ pc \notin {"wfi", "asleep"}
  /\ irq' = irq \ {"other"}
  /\ tasklet' = TRUE
  /\ UNCHANGED <<clock, timer, fired, lock, want, pc>>

\* Mutant: interrupts are served between the test and the wait.
CheckSleepUnmasked ==
  /\ pc = "sleep"
  /\ IF tasklet \/ lock > 0
       THEN pc' = "tasklets" /\ UNCHANGED <<irq, fired, lock, tasklet>>
       ELSE /\ pc' = "wfi" /\ irq' = {}
            /\ fired' = fired \cup (irq \cap Alarm)
            /\ lock' = lock + Cardinality((irq \cap Alarm) \ fired)
            /\ tasklet' = (tasklet \/ "other" \in irq)
  /\ UNCHANGED <<clock, timer, want>>

\* DisableGlobalIRQ; otTaskletsArePending; PWR_EnterLowPower reads the count.
CheckSleep ==
  /\ pc = "sleep"
  /\ pc' = IF tasklet \/ lock > 0 THEN "tasklets" ELSE "wfi"
  /\ UNCHANGED <<clock, timer, irq, fired, lock, want, tasklet>>

Wfi ==
  /\ pc = "wfi"
  /\ pc' = "asleep"
  /\ UNCHANGED <<clock, timer, irq, fired, lock, want, tasklet>>

\* An interrupt wakes the core although it is masked.
WakeUp ==
  /\ pc = "asleep" /\ irq # {}
  /\ pc' = "tasklets"
  /\ UNCHANGED <<clock, timer, irq, fired, lock, want, tasklet>>

-----------------------------------------------------------------------------
LoopStep ==
  \/ RunTasklets \/ CheckSleep \/ Wfi \/ WakeUp
  \/ \E a \in {"milli", "micro"} : ProcessNothing(a) \/ Process(a)

AlarmNext ==
  \/ Tick \/ OtherInterrupt \/ Post \/ TimeGet \/ LoopStep
  \/ \E a \in Alarm : TimerInterrupt(a) \/ Stop(a)
  \/ \E a \in Alarm, lag \in 0 .. MaxLag, dt \in 0 .. MaxDt : StartAt(a, lag, dt)

\* Time passes whenever the bounds let it, the main loop runs, interrupts are
\* served, and OpenThread goes on reading the clock.
AlarmFairness ==
  /\ SF_alarmVars(Tick) /\ WF_alarmVars(LoopStep) /\ SF_alarmVars(TimeGet)
  /\ \A a \in Alarm : SF_alarmVars(TimerInterrupt(a))

AlarmSpec == AlarmInit /\ [][AlarmNext]_alarmVars /\ AlarmFairness

-----------------------------------------------------------------------------
\* Types: no timer is started with a delay that underflowed, and the readings of
\* the counter stay below its wrap.
AlarmTypeOK ==
  /\ {now, sw} \subseteq 0 .. Cycle - 1 /\ gap \in 0 .. MaxGap /\ hw \in 0 .. Wrap - 1
  /\ irq \subseteq Alarm \cup {"other"} /\ fired \subseteq Alarm
  /\ \A a \in Alarm : timer[a] \in {Off} \cup 1 .. MaxDt * Unit(a)
  /\ pc \in {"tasklets", "milli", "micro", "sleep", "wfi", "asleep"}

\* "Maintain a true 64bit timestamp": the software clock does not lose a tick
\* when the counter wraps.
TimeTrue == (sw + gap) % Cycle = now

\* A timer ends when OpenThread wants it, less than one unit later and never
\* earlier, though the 32-bit times wrap and the start lies in the past.
OnTime ==
  \A a \in Alarm : timer[a] # Off /\ want[a] # Off => timer[a] - want[a] \in 0 .. Unit(a) - 1

\* The core does not wait for an interrupt with work in hand ("possible stays
\* in low power for ever"), and the callbacks and the main loop take and give
\* back one sleep lock for each alarm that fired.
AwakeForWork ==
  /\ pc \in {"wfi", "asleep"} => fired = {} /\ ~tasklet
  /\ lock = Cardinality(fired)

\* An alarm that OpenThread leaves alone is served.
Served ==
  \A a \in Alarm :
    <>[][~(Stop(a) \/ \E lag \in 0 .. MaxLag, dt \in 0 .. MaxDt : StartAt(a, lag, dt))]_alarmVars
      => (want[a] # Off ~> want[a] = Off)
=============================================================================
