----------------------------- MODULE K32wAlarm -----------------------------
(***************************************************************************)
(* The alarms of the K32W0 (src/src/k32w0/platform/alarm.c) and the        *)
(* calibration of its oscillators from the main loop (system.c).           *)
(*                                                                         *)
(* Times are 32-bit words; the wake timer counts in units of KaTick and is *)
(* too short for the longest delays.  OpenThread's timer scheduler checks  *)
(* the time when an alarm fires and starts the alarm again when it is      *)
(* early, so an alarm may fire early and never late.                       *)
(***************************************************************************)
EXTENDS Integers, Sequences

CONSTANTS
  KaAlarm,   \* otTimer and otMicroTimer, as far as they are in use
  KaWord,    \* 2^32
  KaTick,    \* time units in a tick of the 32 kHz timer
  KaMax,     \* WTIMER1_MAX_VALUE, in ticks
  KaDt,      \* bound: longest delay
  KaLag,     \* bound: how far the start time may be in the past, or ahead
  KaLate,    \* bound: how late the main loop may be with an alarm
  FroLoops,  \* calibrationLoops of each oscillator of mFroCalibFuncTable
  KaOff      \* a timer that does not run

\* Delays and start times are far shorter than a wrap of the clock.
ASSUME KaAssumption ==
  /\ KaWord \in Nat \ {0} /\ KaTick \in Nat \ {0} /\ KaMax \in Nat \ {0}
  /\ KaDt \in Nat /\ KaLag \in Nat /\ KaLate \in Nat /\ KaOff \notin Int
  /\ KaDt + KaLag < KaWord /\ 2 * KaLag <= KaWord

VARIABLES
  kaNow,      \* otPlatTimeGet
  kaTimer,    \* time left on each activity of the wake timer
  kaExpired,  \* activities whose callback waits for interrupts to be enabled
  kaFired,    \* sEventFired, sMicroEventFired
  kaStopped,  \* the alarm whose flag otPlatAlarm*Stop has cleared
  kaWant,     \* time left until OpenThread wants the alarm
  froStarted, froCount, froIndex   \* the statics of K32WFroCalibration

froVars == <<froStarted, froCount, froIndex>>
kaVars == <<kaNow, kaTimer, kaExpired, kaFired, kaStopped, kaWant, froVars>>

KaInit ==
  /\ kaNow = 0 /\ kaTimer = [a \in KaAlarm |-> KaOff] /\ kaWant = kaTimer
  /\ kaExpired = {} /\ kaFired = {} /\ kaStopped = {}
  /\ froStarted = FALSE /\ froCount = 0 /\ froIndex = 1

Diff(a, b) == (a - b + KaWord) % KaWord

\* Time passes; the main loop serves an alarm within KaLate.
KaTime ==
  /\ \A a \in KaAlarm : kaWant[a] # KaOff => kaWant[a] > - KaLate
  /\ kaNow' = (kaNow + 1) % KaWord
  /\ kaTimer' = [a \in KaAlarm |-> IF kaTimer[a] \in {KaOff, 1} THEN KaOff ELSE kaTimer[a] - 1]
  /\ kaExpired' = kaExpired \cup {a \in KaAlarm : kaTimer[a] = 1}
  /\ kaWant' = [a \in KaAlarm |-> IF kaWant[a] = KaOff THEN KaOff ELSE kaWant[a] - 1]
  /\ UNCHANGED <<kaFired, kaStopped, froVars>>

\* TMR_ScheduleActivityCallback and MicroTimerCallback.
ActivityCallback(a) ==
  /\ a \in kaExpired
  /\ kaExpired' = kaExpired \ {a}
  /\ kaFired' = kaFired \cup {a}
  /\ UNCHANGED <<kaNow, kaTimer, kaStopped, kaWant, froVars>>

-----------------------------------------------------------------------------
\* Mutant: the end is taken to lie in the future.
TargetAhead(t0, dt) == Diff((t0 + dt) % KaWord, kaNow)

\* The time left of [t0, t0 + dt], 0 when now is past its end.
Target(t0, dt) ==
  LET t1 == (t0 + dt) % KaWord
      inside == Diff(kaNow, t0) <= dt /\ Diff(t1, kaNow) <= dt
      left == Diff(kaNow, t1) > Diff(t0, kaNow)
  IN  IF inside \/ left THEN Diff(t1, kaNow) ELSE 0

\* TMR_ConvertUsToTicks and the 28 bits of wake timer 1.
Ticks(t) == IF t \div KaTick > KaMax THEN KaMax ELSE t \div KaTick

\* alarmStartAt: an activity that runs is replaced; an end in the past fires the
\* alarm at once and leaves the activity alone.
alarmStartAt(a, t0, dt) ==
  IF Ticks(Target(t0, dt)) > 0
    THEN /\ kaTimer' = [kaTimer EXCEPT ![a] = Ticks(Target(t0, dt)) * KaTick]
         /\ kaExpired' = kaExpired \ {a}
         /\ UNCHANGED kaFired
    ELSE kaFired' = kaFired \cup {a} /\ UNCHANGED <<kaTimer, kaExpired>>

\* otPlatAlarmMilliStartAt and otPlatAlarmMicroStartAt; the start may lie in
\* the past or ahead.
KaStartAt(a, off, dt) ==
  /\ kaStopped = {}
  /\ off + dt > - KaLate
  /\ alarmStartAt(a, (kaNow + off + KaWord) % KaWord, dt)
  /\ kaWant' = [kaWant EXCEPT ![a] = off + dt]
  /\ UNCHANGED <<kaNow, kaStopped, froVars>>

\* otPlatAlarm*Stop: the flag first...
KaStop(a) ==
  /\ kaStopped = {}
  /\ kaStopped' = {a}
  /\ kaFired' = kaFired \ {a}
  /\ kaWant' = [kaWant EXCEPT ![a] = KaOff]
  /\ UNCHANGED <<kaNow, kaTimer, kaExpired, froVars>>

\* ... then the activity, whose callback may have run in between.
TMR_eRemoveActivity ==
  /\ kaStopped # {}
  /\ kaTimer' = [a \in KaAlarm |-> IF a \in kaStopped THEN KaOff ELSE kaTimer[a]]
  /\ kaExpired' = kaExpired \ kaStopped
  /\ kaStopped' = {}
  /\ UNCHANGED <<kaNow, kaFired, kaWant, froVars>>

-----------------------------------------------------------------------------
\* Mutant: the oscillators are not taken in turn.
SameOscillator ==
  CASE ~froStarted /\ froCount >= FroLoops[froIndex] ->
         froStarted' = TRUE /\ UNCHANGED <<froCount, froIndex>>
    [] froStarted -> \/ froStarted' = FALSE /\ froCount' = 0 /\ UNCHANGED froIndex
                     \/ UNCHANGED froVars
    [] OTHER -> froCount' = froCount + 1 /\ UNCHANGED <<froStarted, froIndex>>

\* K32WFroCalibration: after some passes of the main loop one oscillator's
\* calibration starts; when it is complete the next one's turn comes.
K32WFroCalibration ==
  CASE ~froStarted /\ froCount >= FroLoops[froIndex] ->
         froStarted' = TRUE /\ UNCHANGED <<froCount, froIndex>>
    [] froStarted -> \/ /\ froStarted' = FALSE /\ froCount' = 0
                        /\ froIndex' = (froIndex % Len(FroLoops)) + 1
                     \/ UNCHANGED froVars
    [] OTHER -> froCount' = froCount + 1 /\ UNCHANGED <<froStarted, froIndex>>

KaDue(a) == kaWant[a] # KaOff => kaWant[a] <= 0

\* K32WAlarmProcess takes both flags at once.  otPlatAlarm*Fired: OpenThread is
\* served when the time has come and otherwise starts the alarm again from now.
K32WAlarmProcess(a) ==
  /\ kaStopped = {} /\ a \in kaFired
  /\ \/ /\ KaDue(a)
        /\ kaWant' = [kaWant EXCEPT ![a] = KaOff]
        /\ kaFired' = kaFired \ {a}
        /\ UNCHANGED <<kaTimer, kaExpired>>
     \/ /\ ~KaDue(a)
        /\ IF Ticks(Target(kaNow, kaWant[a])) > 0
             THEN /\ kaTimer' = [kaTimer EXCEPT ![a] = Ticks(Target(kaNow, kaWant[a])) * KaTick]
                  /\ kaExpired' = kaExpired \ {a}
                  /\ kaFired' = kaFired \ {a}
             ELSE UNCHANGED <<kaTimer, kaExpired, kaFired>>
        /\ UNCHANGED kaWant
  /\ UNCHANGED <<kaNow, kaStopped>>

\* otSysProcessDrivers: the alarms, then the calibration.
K32wProcessDrivers ==
  /\ kaStopped = {}
  /\ \/ \E a \in KaAlarm : K32WAlarmProcess(a)
     \/ kaFired = {} /\ UNCHANGED <<kaNow, kaTimer, kaExpired, kaFired, kaStopped, kaWant>>
  /\ K32WFroCalibration

KaNext ==
  \/ KaTime \/ TMR_eRemoveActivity \/ K32wProcessDrivers
  \/ \E a \in KaAlarm : ActivityCallback(a) \/ KaStop(a)
  \/ \E a \in KaAlarm, off \in -KaLag .. KaLag, dt \in 0 .. KaDt : KaStartAt(a, off, dt)

\* The main loop goes round whatever OpenThread does in it, and a calibration ends.
KaFairness ==
  /\ WF_kaVars(TMR_eRemoveActivity)
  /\ SF_kaVars(K32wProcessDrivers /\ froVars' # froVars)

-----------------------------------------------------------------------------
\* An alarm OpenThread waits for is never late by its timer: either it has
\* fired, or the timer runs and ends no later than the alarm is wanted; with
\* start times before or after now, times that wrap, a timer of 28 bits and a
\* callback that runs while the alarm is stopped or started again.
KaNeverLate ==
  \A a \in KaAlarm : kaWant[a] # KaOff =>
    \/ a \in kaFired \cup kaExpired
    \/ kaTimer[a] # KaOff /\ kaTimer[a] <= kaWant[a]

\* Every oscillator is calibrated again and again.
FroInTurn == \A i \in DOMAIN FroLoops : []<>(froIndex = i)
=============================================================================
