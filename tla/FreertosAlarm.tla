--------------------------- MODULE FreertosAlarm ---------------------------
(***************************************************************************)
(* The alarm on FreeRTOS: src/src/common/alarm_freertos.c.  The software   *)
(* timer belongs to FreeRTOS' timer task, which gets its orders through a  *)
(* queue and runs the callback; the OpenThread task and the callback share *)
(* alarmFired under a mutex.                                               *)
(*                                                                         *)
(* The tick counter does not wrap here (it does after 49.7 days): the      *)
(* comparisons of StartAt do not allow for it.                             *)
(***************************************************************************)
EXTENDS Integers, Sequences

CONSTANTS
  FaTime,    \* bound: ticks that pass
  FaDt,      \* bound: longest delay
  FaQueue,   \* configTIMER_QUEUE_LENGTH
  OtAbove,   \* does the OpenThread task run before the timer task?
  FaNone     \* no alarm is wanted

ASSUME FaAssumption ==
  /\ FaTime \in Nat /\ FaDt \in Nat /\ FaQueue \in Nat \ {0} /\ OtAbove \in BOOLEAN
  /\ FaNone \notin Int

VARIABLES
  faNow,     \* xTaskGetTickCount
  faActive,  \* the timer's status and expiry time
  faExpiry,
  faOrders,  \* orders in the timer queue: periods, 0 for a stop
  faCall,    \* the timer task is in alarmTimerCallback
  faMutex,   \* the OpenThread task holds the mutex, and for what
  alarmFired,
  faWant     \* when OpenThread wants the alarm

faVars == <<faNow, faActive, faExpiry, faOrders, faCall, faMutex, alarmFired, faWant>>

FaInit ==
  /\ faNow = 0 /\ faActive = FALSE /\ faExpiry = 0 /\ faOrders = << >>
  /\ faCall = FALSE /\ faMutex = << >> /\ alarmFired = FALSE /\ faWant = FaNone

\* The timer task has something to do other than wait for the mutex.
TimerTaskReady ==
  \/ ~faCall /\ (faOrders # << >> \/ (faActive /\ faExpiry <= faNow))
  \/ faCall /\ faMutex = << >>

\* The OpenThread task runs when nothing above it does.
OtRuns == OtAbove \/ ~TimerTaskReady

\* A tick; the tasks are done with the last one, and one at most falls between
\* StartAt's reading of the time and its order.
FaTick ==
  /\ faNow < FaTime
  /\ faWant # FaNone => faNow <= faWant
  /\ ~TimerTaskReady
  /\ faMutex # << >> /\ faMutex[1] = "start" => faNow = faMutex[3]
  /\ faNow' = faNow + 1
  /\ UNCHANGED <<faActive, faExpiry, faOrders, faCall, faMutex, alarmFired, faWant>>

-----------------------------------------------------------------------------
(* The timer task.                                                         *)

\* It takes an order: xTimerStop, or xTimerChangePeriod, which starts the timer.
TakeOrder ==
  /\ ~faCall /\ faOrders # << >>
  /\ faOrders' = Tail(faOrders)
  /\ faActive' = (Head(faOrders) # 0)
  /\ faExpiry' = IF Head(faOrders) # 0 THEN faNow + Head(faOrders) ELSE faExpiry
  /\ UNCHANGED <<faNow, faCall, faMutex, alarmFired, faWant>>

\* The one-shot timer expires.
Expire ==
  /\ ~faCall /\ faOrders = << >> /\ faActive /\ faExpiry <= faNow
  /\ faActive' = FALSE
  /\ faCall' = TRUE
  /\ UNCHANGED <<faNow, faExpiry, faOrders, faMutex, alarmFired, faWant>>

\* alarmTimerCallback.
alarmTimerCallback ==
  /\ faCall /\ faMutex = << >>
  /\ alarmFired' = TRUE
  /\ faCall' = FALSE
  /\ UNCHANGED <<faNow, faActive, faExpiry, faOrders, faMutex, faWant>>

-----------------------------------------------------------------------------
(* The OpenThread task.                                                    *)

\* otPlatAlarmMilliStartAt takes the mutex and reads the time and the timer.
StartBegin(t1) ==
  /\ OtRuns /\ faMutex = << >>
  /\ faWant' = t1
  /\ faMutex' = <<"start", t1, faNow, faActive>>
  /\ UNCHANGED <<faNow, faActive, faExpiry, faOrders, faCall, alarmFired>>

\* Mutant: a timer that runs is always kept.
KeepTimer(t1, active) == active

\* Whether the timer that runs is left alone: it expires before t1.
LeaveTimer(t1, active) == active /\ t1 >= faExpiry

\* A queue that is full refuses the order and nobody notices.
Order(o) == faOrders' = IF Len(faOrders) < FaQueue THEN Append(faOrders, o) ELSE faOrders

\* The rest of otPlatAlarmMilliStartAt: a time that is over sets the flag.
StartEnd ==
  /\ OtRuns /\ faMutex # << >> /\ faMutex[1] = "start"
  /\ LET t1 == faMutex[2]  then == faMutex[3]
     IN  IF t1 > then
           THEN /\ IF LeaveTimer(t1, faMutex[4]) THEN UNCHANGED faOrders ELSE Order(t1 - then)
                /\ UNCHANGED alarmFired
           ELSE alarmFired' = TRUE /\ UNCHANGED faOrders
  /\ faMutex' = << >>
  /\ UNCHANGED <<faNow, faActive, faExpiry, faCall, faWant>>

\* otPlatAlarmMilliStop: a timer that runs is told to stop; alarmFired stays.
StopBegin ==
  /\ OtRuns /\ faMutex = << >> /\ faWant # FaNone
  /\ faWant' = FaNone
  /\ faMutex' = <<"stop", faActive>>
  /\ UNCHANGED <<faNow, faActive, faExpiry, faOrders, faCall, alarmFired>>

StopEnd ==
  /\ OtRuns /\ faMutex # << >> /\ faMutex[1] = "stop"
  /\ IF faMutex[2] THEN Order(0) ELSE UNCHANGED faOrders
  /\ faMutex' = << >>
  /\ UNCHANGED <<faNow, faActive, faExpiry, faCall, alarmFired, faWant>>

\* otPlatAlarmProcess: OpenThread is served, or it was early and starts again.
FaProcess ==
  /\ OtRuns /\ faMutex = << >> /\ alarmFired
  /\ alarmFired' = FALSE
  /\ \/ /\ faWant # FaNone => faWant <= faNow
        /\ faWant' = FaNone
        /\ UNCHANGED faMutex
     \/ /\ ~(faWant # FaNone => faWant <= faNow)
        /\ faMutex' = <<"start", faWant, faNow, faActive>>
        /\ UNCHANGED faWant
  /\ UNCHANGED <<faNow, faActive, faExpiry, faOrders, faCall>>

FaRest == faNow = FaTime /\ UNCHANGED faVars

FaNext ==
  \/ FaTick \/ TakeOrder \/ Expire \/ alarmTimerCallback
  \/ StartEnd \/ StopBegin \/ StopEnd \/ FaProcess \/ FaRest
  \/ \E dt \in 0 .. FaDt : faNow + dt <= FaTime /\ StartBegin(faNow + dt)

-----------------------------------------------------------------------------
\* An alarm OpenThread waits for is not forgotten: whatever the timer task and
\* the OpenThread task did in between, it has fired, or the timer is running or
\* on its way to run and expires by then (a tick later if one fell in StartAt).
AlarmKept ==
  faWant # FaNone /\ faMutex = << >> =>
    \/ alarmFired \/ faCall
    \/ faActive /\ faExpiry <= faWant + 1
    \/ faOrders # << >> /\ faOrders[Len(faOrders)] # 0
=============================================================================
