---------------------------- MODULE Host_proofs -----------------------------
(***************************************************************************)
(* Proofs about the parts of a host with a co-processor radio (see         *)
(* MCHost): for each an inductive invariant that implies what the run      *)
(* checks on a small instance.                                             *)
(***************************************************************************)
EXTENDS MCHost, Recursion, SequenceTheorems, FiniteSetTheorems, TLAPS

\* A step of the system is a step of every part, or leaves it alone.
LEMMA HostPartSteps ==
  ASSUME [HostNext]_hostVars
  PROVE  /\ [LfsNext]_lfVars /\ [FaNext]_faVars /\ [ReceiveNext]_receiveVars /\ [SendNext]_sendVars
         /\ [RcNext]_rcVars /\ [NvsNext]_nsVars
BY DEF HostNext, hostVars, CommandsPart, HdlcReceivePart, HdlcSendPart, SpiPart, LfsPart, NvsPart,
       UartPart, AlarmPart

-----------------------------------------------------------------------------
(* LfsSettings: the file has every call.                                   *)

\* With no save asked for, the idle task's copy is as good as the buffer until
\* it is written, and the file from then on.
LfsInv ==
  lfReady /\ ~lfSave /\ ~lfFailed =>
    /\ lfPc = "write" => lfCopy = lfBuf
    /\ lfPc = "test" => lfFile = lfBuf

\* Every step keeps the file up to date.
LEMMA LfsStep == LfsInv /\ [LfsNext]_lfVars => LfsInv'
<1> SUFFICES ASSUME LfsInv, [LfsNext]_lfVars PROVE LfsInv'
  OBVIOUS
<1>1. ASSUME NEW b, LfsUpdate(b) PROVE LfsInv'
  BY <1>1 DEF LfsUpdate, LfsInv
<1>2. CASE LfsSettingsInit
  BY <1>2 DEF LfsSettingsInit, LfsInv
<1>3. CASE LfsSettingsDeinit
  BY <1>3 DEF LfsSettingsDeinit, LfsInv
<1>4. CASE LfsWipe
  BY <1>1, <1>4 DEF LfsWipe
<1>5. ASSUME NEW k \in Key, NEW v \in Value, LfsAdd(k, v) \/ LfsSet(k, v) PROVE LfsInv'
  BY <1>1, <1>5 DEF LfsAdd, LfsSet
<1>6. ASSUME NEW k \in Key, NEW i \in -1 .. 1, LfsDelete(k, i) PROVE LfsInv'
  BY <1>1, <1>6 DEF LfsDelete
<1>7. CASE LfsIdleTest
  BY <1>7 DEF LfsIdleTest, LfsInv
<1>8. CASE LfsIdleCopy
  BY <1>8 DEF LfsIdleCopy, LfsInv
<1>9. ASSUME NEW ok \in BOOLEAN, LfsIdleWrite(ok) PROVE LfsInv'
  <2>1. CASE ok
    BY <1>9, <2>1 DEF LfsIdleWrite, LfsInv
  <2>2. CASE ~ok
    BY <1>9, <2>2 DEF LfsIdleWrite, LfsInv
  <2> QED BY <2>1, <2>2
<1>10. CASE UNCHANGED lfVars
  BY <1>10 DEF lfVars, LfsInv
<1> QED BY <1>2, <1>3, <1>4, <1>5, <1>6, <1>7, <1>8, <1>9, <1>10 DEF LfsNext

\* With the idle task at rest and no save asked for or failed, the littlefs file
\* has every call: for any keys, values and buffer size, with OpenThread's task
\* calling between any two steps of the idle task.
THEOREM FileUpToDate == HostSpec => []LfsUpToDate
<1>1. HostInit => LfsInv
  BY DEF HostInit, LfsInit, LfsInv
<1>2. [HostNext]_hostVars => [LfsNext]_lfVars
  BY HostPartSteps
<1>3. LfsInv => LfsUpToDate
  BY DEF LfsInv, LfsUpToDate
<1> QED BY <1>1, <1>2, <1>3, LfsStep, PTL DEF HostSpec

-----------------------------------------------------------------------------
(* FreertosAlarm: no alarm is forgotten.                                   *)

FaTypes ==
  /\ faNow \in Nat /\ faExpiry \in Nat
  /\ faActive \in BOOLEAN /\ faCall \in BOOLEAN /\ alarmFired \in BOOLEAN
  /\ faWant \in Nat \cup {FaNone}

\* The queue of the timer task has one order at most: below it, OpenThread's task
\* runs on only when the order is taken.  A period was counted from the tick
\* before at the earliest.
OneOrder ==
  faOrders = <<>> \/ \E o \in Nat : /\ faOrders = <<o>>
                                    /\ faWant # FaNone => o # 0 /\ faNow + o <= faWant + 1

\* While StartAt holds the mutex nothing is on its way to the timer task, the
\* clock is within a tick of what it read, and a timer it saw running still runs
\* or waits for the mutex in its callback.
StartReads ==
  /\ faMutex[2] = faWant /\ faWant \in Nat
  /\ faMutex[3] \in Nat /\ faMutex[3] <= faNow /\ faNow <= faMutex[3] + 1
  /\ faMutex[4] => faActive \/ faCall

MutexHeld ==
  faMutex # <<>> =>
    /\ faOrders = <<>>
    /\ faMutex[1] = "start" => StartReads
    /\ faMutex[1] = "stop" => faWant = FaNone

FaInv == FaTypes /\ OneOrder /\ MutexHeld /\ AlarmKept

\* The parts of a message that starts a timer.
LEMMA StartTuple ==
  ASSUME NEW t, NEW n, NEW b
  PROVE  LET m == <<"start", t, n, b>> IN m # <<>> /\ m[1] = "start" /\ m[2] = t /\ m[3] = n /\ m[4] = b
OBVIOUS

\* The parts of a message that stops a timer.
LEMMA StopTuple ==
  ASSUME NEW b
  PROVE  LET m == <<"stop", b>> IN m # <<>> /\ m[1] = "stop" /\ m[2] = b
OBVIOUS

\* Without OpenThread's task above it, the timer task has nothing to do when
\* OpenThread's task runs.
LEMMA QuietTimer ==
  ASSUME FaInv, ~TimerTaskReady
  PROVE  faOrders = <<>> /\ (faMutex = <<>> => ~faCall)
BY DEF FaInv, MutexHeld, TimerTaskReady

\* StartAt has read the time and the timer.
LEMMA StartBegun ==
  ASSUME FaInv, NEW t1 \in Nat, ~TimerTaskReady, faWant' = t1, faMutex' = <<"start", t1, faNow, faActive>>,
         alarmFired' \in BOOLEAN, UNCHANGED <<faNow, faActive, faExpiry, faOrders, faCall>>
  PROVE  FaInv'
<1>1. faMutex' # <<>> /\ faMutex'[1] = "start" /\ faMutex'[2] = t1 /\ faMutex'[3] = faNow
      /\ faMutex'[4] = faActive
  <2> DEFINE b == faActive
  <2> HIDE DEF b
  <2>1. faMutex' = <<"start", t1, faNow, b>>
    BY DEF b
  <2>2. faMutex' # <<>> /\ faMutex'[1] = "start" /\ faMutex'[2] = t1 /\ faMutex'[3] = faNow
        /\ faMutex'[4] = b
    BY ONLY <2>1, StartTuple
  <2> QED BY <2>2, Zenon DEF b
<1>2. FaTypes'
  BY DEF FaInv, FaTypes
<1>3. faOrders = <<>>
  BY QuietTimer
<1>4. faMutex'[4] => faActive' \/ faCall'
  BY <1>1, Zenon
<1>5. MutexHeld'
  <2>1. StartReads'
    BY <1>1, <1>4 DEF FaInv, FaTypes, StartReads
  <2> QED BY <1>1, <1>3, <2>1 DEF MutexHeld
<1> QED BY <1>1, <1>2, <1>3, <1>5 DEF FaInv, OneOrder, AlarmKept

\* Every step of the tasks and of the interrupt keeps the alarm.
LEMMA FaStep ==
  ASSUME OtAbove = FALSE
  PROVE  FaInv /\ [FaNext]_faVars => FaInv'
<1> USE FaAssumption
<1> SUFFICES ASSUME FaInv, [FaNext]_faVars PROVE FaInv'
  OBVIOUS
<1>0. FaTypes /\ OneOrder /\ MutexHeld /\ AlarmKept /\ (OtRuns => ~TimerTaskReady)
  BY DEF FaInv, OtRuns
<1>1. CASE FaTick
  <2>1. faNow' = faNow + 1 /\ UNCHANGED <<faActive, faExpiry, faOrders, faCall, faMutex, alarmFired, faWant>>
        /\ ~TimerTaskReady
    BY <1>1 DEF FaTick
  <2>2. faOrders = <<>>
    BY <2>1, QuietTimer
  <2>3. FaTypes'
    BY <1>0, <2>1 DEF FaTypes
  <2>4. MutexHeld'
    <3>1. faMutex # <<>> /\ faMutex[1] = "start" => faNow = faMutex[3]
      BY <1>1 DEF FaTick
    <3> QED BY <1>0, <2>1, <3>1 DEF FaTypes, MutexHeld, StartReads
  <2>5. AlarmKept'
    BY <1>0, <2>1 DEF AlarmKept
  <2> QED BY <2>1, <2>2, <2>3, <2>4, <2>5 DEF FaInv, OneOrder
<1>2. CASE TakeOrder
  <2>1. /\ ~faCall /\ faOrders # <<>> /\ faOrders' = Tail(faOrders) /\ faActive' = (Head(faOrders) # 0)
        /\ faExpiry' = IF Head(faOrders) # 0 THEN faNow + Head(faOrders) ELSE faExpiry
        /\ UNCHANGED <<faNow, faCall, faMutex, alarmFired, faWant>>
    BY <1>2 DEF TakeOrder
  <2>2. PICK o \in Nat : faOrders = <<o>> /\ (faWant # FaNone => o # 0 /\ faNow + o <= faWant + 1)
    BY <1>0, <2>1 DEF OneOrder
  <2>3. Head(faOrders) = o /\ Tail(faOrders) = <<>>
    BY <2>2
  <2>4. faMutex = <<>>
    BY <1>0, <2>1 DEF MutexHeld
  <2>5. FaTypes'
    BY <1>0, <2>1, <2>2, <2>3 DEF FaTypes
  <2>6. faWant # FaNone => faActive' /\ faExpiry' <= faWant + 1
    BY <2>1, <2>2, <2>3
  <2>7. faOrders' = <<>>
    BY <2>1, <2>3
  <2> QED BY <2>1, <2>4, <2>5, <2>6, <2>7 DEF FaInv, OneOrder, MutexHeld, AlarmKept
<1>3. CASE Expire
  <2>1. /\ faOrders = <<>> /\ faCall' = TRUE /\ faActive' = FALSE
        /\ UNCHANGED <<faNow, faExpiry, faOrders, faMutex, alarmFired, faWant>>
    BY <1>3 DEF Expire
  <2> QED BY <1>0, <2>1 DEF FaInv, FaTypes, OneOrder, MutexHeld, StartReads, AlarmKept
<1>4. CASE alarmTimerCallback
  <2>1. /\ faMutex = <<>> /\ alarmFired' = TRUE /\ faCall' = FALSE
        /\ UNCHANGED <<faNow, faActive, faExpiry, faOrders, faMutex, faWant>>
    BY <1>4 DEF alarmTimerCallback
  <2> QED BY <1>0, <2>1 DEF FaInv, FaTypes, OneOrder, MutexHeld, AlarmKept
<1>5. CASE StartEnd
  <2> DEFINE t1 == faMutex[2]
             n == faMutex[3]
  <2>1. /\ faMutex # <<>> /\ faMutex[1] = "start" /\ ~TimerTaskReady /\ faMutex' = <<>>
        /\ UNCHANGED <<faNow, faActive, faExpiry, faCall, faWant>>
    BY <1>0, <1>5 DEF StartEnd
  <2>2. StartReads /\ faOrders = <<>> /\ faWant # FaNone
    BY <1>0, <2>1 DEF MutexHeld, StartReads
  <2>3. MutexHeld'
    BY <2>1 DEF MutexHeld
  <2>4. CASE ~(t1 > n)
    <3>1. alarmFired' = TRUE /\ UNCHANGED faOrders
      BY <1>5, <2>4 DEF StartEnd
    <3> QED BY <1>0, <2>1, <2>2, <2>3, <3>1 DEF FaInv, FaTypes, OneOrder, AlarmKept
  <2>5. CASE t1 > n /\ LeaveTimer(t1, faMutex[4])
    <3>1. UNCHANGED <<faOrders, alarmFired>>
      BY <1>5, <2>5 DEF StartEnd
    <3>2. faCall \/ (faActive /\ faExpiry <= faWant)
      BY <1>0, <2>2, <2>5 DEF StartReads, LeaveTimer, FaTypes
    <3>3. AlarmKept'
      BY <1>0, <2>1, <3>2 DEF FaTypes, AlarmKept
    <3> QED BY <1>0, <2>1, <2>2, <2>3, <3>1, <3>3 DEF FaInv, FaTypes, OneOrder
  <2>6. CASE t1 > n /\ ~LeaveTimer(t1, faMutex[4])
    <3> DEFINE o == t1 - n
    <3>1. Order(o) /\ UNCHANGED alarmFired
      BY <1>5, <2>6 DEF StartEnd
    <3>2. o \in Nat /\ o # 0 /\ faNow + o <= faWant + 1
      BY <1>0, <2>2, <2>6 DEF StartReads, FaTypes
    <3> HIDE DEF o
    <3>3. faOrders' = <<o>>
      <4>1. Len(faOrders) = 0
        BY <2>2
      <4>2. Append(<<>>, o) = <<o>>
        OBVIOUS
      <4> QED BY <2>2, <3>1, <4>1, <4>2 DEF Order
    <3>4. Len(<<o>>) = 1 /\ <<o>>[1] = o /\ <<o>> # <<>>
      OBVIOUS
    <3>5. OneOrder'
      BY <2>1, <3>2, <3>3 DEF OneOrder
    <3>6. AlarmKept'
      BY <3>2, <3>3, <3>4 DEF AlarmKept
    <3> QED BY <1>0, <2>1, <2>3, <3>1, <3>5, <3>6 DEF FaInv, FaTypes
  <2> QED BY <2>4, <2>5, <2>6
<1>6. CASE StopBegin
  <2>1. /\ ~TimerTaskReady /\ faWant' = FaNone /\ faMutex' = <<"stop", faActive>>
        /\ UNCHANGED <<faNow, faActive, faExpiry, faOrders, faCall, alarmFired>>
    BY <1>0, <1>6 DEF StopBegin
  <2>2. faOrders = <<>>
    BY <2>1, QuietTimer
  <2>3. faMutex' # <<>> /\ faMutex'[1] = "stop"
    <3> DEFINE b == faActive
    <3> HIDE DEF b
    <3>1. faMutex' = <<"stop", b>>
      BY <2>1 DEF b
    <3> QED BY ONLY <3>1, StopTuple
  <2> QED BY <1>0, <2>1, <2>2, <2>3 DEF FaInv, FaTypes, OneOrder, MutexHeld, AlarmKept
<1>7. CASE StopEnd
  <2>1. /\ faMutex # <<>> /\ faMutex[1] = "stop" /\ faMutex' = <<>>
        /\ UNCHANGED <<faNow, faActive, faExpiry, faCall, alarmFired, faWant>>
        /\ Order(0) \/ UNCHANGED faOrders
    BY <1>7 DEF StopEnd
  <2>2. faOrders = <<>> /\ faWant = FaNone
    BY <1>0, <2>1 DEF MutexHeld
  <2>3. faOrders' = <<0>> \/ faOrders' = <<>>
    <3>1. Append(<<>>, 0) = <<0>>
      OBVIOUS
    <3> QED BY <2>1, <2>2, <3>1 DEF Order
  <2> QED BY <1>0, <2>1, <2>2, <2>3 DEF FaInv, FaTypes, OneOrder, MutexHeld, AlarmKept
<1>8. CASE FaProcess
  <2>1. /\ ~TimerTaskReady /\ faMutex = <<>> /\ alarmFired' = FALSE
        /\ UNCHANGED <<faNow, faActive, faExpiry, faOrders, faCall>>
    BY <1>0, <1>8 DEF FaProcess
  <2>2. CASE faWant' = FaNone /\ UNCHANGED faMutex
    BY <1>0, <2>1, <2>2 DEF FaInv, FaTypes, OneOrder, MutexHeld, AlarmKept
  <2>3. CASE ~(faWant # FaNone => faWant <= faNow) /\ faMutex' = <<"start", faWant, faNow, faActive>>
             /\ UNCHANGED faWant
    <3>1. faWant \in Nat
      BY <1>0, <2>3 DEF FaTypes
    <3> QED BY <2>1, <2>3, <3>1, StartBegun
  <2> QED BY <1>8, <2>2, <2>3 DEF FaProcess
<1>9. ASSUME NEW dt \in 0 .. FaDt, StartBegin(faNow + dt) PROVE FaInv'
  <2>1. faNow + dt \in Nat
    BY <1>0 DEF FaTypes
  <2>2. UNCHANGED alarmFired /\ alarmFired \in BOOLEAN
    BY <1>0, <1>9 DEF StartBegin, FaTypes
  <2> QED BY <1>0, <1>9, <2>1, <2>2, StartBegun DEF StartBegin
<1>10. CASE FaRest \/ UNCHANGED faVars
  BY <1>0, <1>10 DEF FaRest, faVars, FaInv, FaTypes, OneOrder, MutexHeld, StartReads, AlarmKept
<1> QED BY <1>1, <1>2, <1>3, <1>4, <1>5, <1>6, <1>7, <1>8, <1>9, <1>10 DEF FaNext

\* An alarm OpenThread waits for is not forgotten: for any delays and any queue
\* of the timer task, with OpenThread's task below the timer task.
THEOREM AlarmNotForgotten ==
  ASSUME OtAbove = FALSE
  PROVE  HostSpec => []AlarmKept
<1>1. HostInit => FaInv
  <2> SUFFICES ASSUME FaInit PROVE FaInv
    BY DEF HostInit
  <2>1. FaTypes
    BY DEF FaInit, FaTypes
  <2> QED BY <2>1 DEF FaInit, FaInv, OneOrder, MutexHeld, AlarmKept
<1>2. [HostNext]_hostVars => [FaNext]_faVars
  BY HostPartSteps
<1>3. FaInv => AlarmKept
  BY DEF FaInv
<1>4. FaInv /\ [FaNext]_faVars => FaInv'
  BY FaStep
<1> QED BY <1>1, <1>2, <1>3, <1>4, PTL DEF HostSpec

-----------------------------------------------------------------------------
(* SpinelHdlc, sending: one frame of one task.                             *)

\* s has the first n parts of a frame of t.
PartsOf(s, t, n) ==
  /\ s \in Seq([task : Task, part : {"flag", "data", "end"}, size : Int]) /\ Len(s) = n
  /\ \A i \in 1 .. n : s[i].task = t /\ s[i].part = <<"flag", "data", "end">>[i]

\* A task past the lock holds it, and the encoder has the parts of its frame so
\* far; what an error left behind keeps every task at the lock.
EncoderOf(t) ==
  /\ pc[t] \in {"begin", "data", "end", "write", "exit"} => mutex = t
  /\ pc[t] = "begin" => PartsOf(encoder, t, 0)
  /\ pc[t] = "data" => PartsOf(encoder, t, 1)
  /\ pc[t] = "end" => PartsOf(encoder, t, 2)
  /\ pc[t] = "write" => PartsOf(encoder, t, 3)

SendLabel == {"out", "lock", "begin", "data", "end", "write", "exit"}

SendTypes == pc \in [Task -> SendLabel] /\ frame \in [Task -> Frame]

SendInv ==
  /\ SendTypes /\ \A t \in Task : EncoderOf(t)
  /\ sent = <<>> \/ \E t \in Task : PartsOf(sent, t, 3)

\* An encoder that adds its next part leaves a longer piece of its frame.
LEMMA PartAdded ==
  ASSUME NEW s, NEW t \in Task, NEW n \in 0 .. 2, PartsOf(s, t, n), NEW name, NEW size \in Int,
         name = <<"flag", "data", "end">>[n + 1]
  PROVE  PartsOf(Append(s, [task |-> t, part |-> name, size |-> size]), t, n + 1)
<1> DEFINE T == [task : Task, part : {"flag", "data", "end"}, size : Int]
           x == [task |-> t, part |-> name, size |-> size]
           u == Append(s, x)
<1>1. s \in Seq(T) /\ Len(s) = n
  BY DEF PartsOf
<1>2. x \in T /\ x.task = t /\ x.part = name
  <2>1. name \in {"flag", "data", "end"}
    BY n = 0 \/ n = 1 \/ n = 2
  <2> QED BY <2>1
<1> HIDE DEF T, x
<1>3. u \in Seq(T) /\ Len(u) = n + 1 /\ u[n + 1] = x /\ \A i \in 1 .. n : u[i] = s[i]
  BY <1>1, <1>2
<1> HIDE DEF u
<1>4. \A i \in 1 .. n + 1 : u[i].task = t /\ u[i].part = <<"flag", "data", "end">>[i]
  <2> TAKE i \in 1 .. n + 1
  <2>1. CASE i = n + 1
    BY <1>2, <1>3, <2>1
  <2>2. CASE i \in 1 .. n
    BY <1>3, <2>2 DEF PartsOf
  <2> QED BY <2>1, <2>2
<1>5. PartsOf(u, t, n + 1)
  BY <1>3, <1>4 DEF PartsOf, T
<1> QED BY <1>5 DEF u, x

\* Task t goes on to label l with the mutex and the encoder its own.
LEMMA HolderStep ==
  ASSUME SendInv, NEW t \in Task, NEW l \in SendLabel, mutex' = t, Goes(t, l), UNCHANGED <<frame, sent>>,
         \A u \in Task : u # t => pc[u] \in {"out", "lock"},
         l = "begin" => PartsOf(encoder', t, 0), l = "data" => PartsOf(encoder', t, 1),
         l = "end" => PartsOf(encoder', t, 2), l = "write" => PartsOf(encoder', t, 3)
  PROVE  SendInv'
<1>1. SendTypes' /\ pc'[t] = l /\ \A u \in Task : u # t => pc'[u] = pc[u]
  BY DEF SendInv, SendTypes, Goes
<1>2. EncoderOf(t)'
  BY <1>1 DEF EncoderOf
<1>3. \A u \in Task : u # t => EncoderOf(u)'
  BY <1>1 DEF EncoderOf
<1> QED BY <1>1, <1>2, <1>3 DEF SendInv

\* Every step of the encoders keeps the frames whole.
LEMMA SendStep == SendInv /\ [SendNext]_sendVars => SendInv'
<1> USE SendAssumption
<1> SUFFICES ASSUME SendInv, [SendNext]_sendVars PROVE SendInv'
  OBVIOUS
<1>0. SendTypes /\ \A t \in Task : EncoderOf(t)
  BY DEF SendInv
<1>a. ASSUME NEW t \in Task, mutex = t \/ mutex = NoTask
      PROVE  \A u \in Task : u # t => pc[u] \in {"out", "lock"}
  BY <1>0, <1>a DEF SendTypes, SendLabel, EncoderOf
<1>1. ASSUME NEW t \in Task, NEW f \in Frame, SendFrame(t, f) PROVE SendInv'
  <2>1. /\ pc' = [pc EXCEPT ![t] = "lock"] /\ frame' = [frame EXCEPT ![t] = f]
        /\ UNCHANGED <<mutex, encoder, sent>>
    BY <1>1 DEF SendFrame, Goes
  <2>2. SendTypes'
    BY <1>0, <2>1 DEF SendTypes, SendLabel
  <2>3. \A u \in Task : EncoderOf(u)'
    BY <1>0, <2>1 DEF SendTypes, EncoderOf
  <2> QED BY <2>1, <2>2, <2>3 DEF SendInv
<1>2. ASSUME NEW t \in Task, Lock(t) PROVE SendInv'
  <2>1. mutex = NoTask /\ encoder = <<>> /\ mutex' = t /\ Goes(t, "begin") /\ UNCHANGED <<encoder, frame, sent>>
    BY <1>2 DEF Lock
  <2>2. PartsOf(<<>>, t, 0)
    <3>1. <<>> \in Seq([task : Task, part : {"flag", "data", "end"}, size : Int]) /\ Len(<<>>) = 0
      OBVIOUS
    <3> QED BY <3>1 DEF PartsOf
  <2> QED BY <1>a, <2>1, <2>2, HolderStep DEF SendLabel
<1>3. ASSUME NEW t \in Task, NEW n \in 0 .. 2, NEW from, NEW name, NEW size \in Int, NEW to \in SendLabel,
             Part(t, from, name, size, to), from \in {"begin", "data", "end"},
             PartsOf(encoder, t, n), name = <<"flag", "data", "end">>[n + 1],
             <<n, to>> \in {<<0, "data">>, <<1, "end">>, <<2, "write">>}
      PROVE  SendInv'
  <2>1. pc[t] \in {"begin", "data", "end"} /\ UNCHANGED <<mutex, frame, sent>>
    BY <1>3 DEF Part
  <2>2. mutex' = t /\ \A u \in Task : u # t => pc[u] \in {"out", "lock"}
    BY <1>0, <1>a, <2>1 DEF EncoderOf
  <2>3. CASE encoder' = Append(encoder, [task |-> t, part |-> name, size |-> size]) /\ Goes(t, to)
    <3>1. PartsOf(encoder', t, n + 1)
      BY <1>3, <2>3, PartAdded
    <3>2. to # "begin" /\ (to = "data" => n + 1 = 1) /\ (to = "end" => n + 1 = 2) /\ (to = "write" => n + 1 = 3)
      BY <1>3
    <3>3. (to = "data" => PartsOf(encoder', t, 1)) /\ (to = "end" => PartsOf(encoder', t, 2))
          /\ (to = "write" => PartsOf(encoder', t, 3))
      BY <3>1, <3>2
    <3> QED BY <2>1, <2>2, <2>3, <3>2, <3>3, HolderStep
  <2>4. CASE Goes(t, "exit")
    BY <2>1, <2>2, <2>4, HolderStep DEF SendLabel
  <2> QED BY <1>3, <2>3, <2>4 DEF Part
<1>4. ASSUME NEW t \in Task, Encode(t) PROVE SendInv'
  <2>0. frame[t].len \in Int /\ frame[t].esc \in Int
    BY <1>0 DEF SendTypes, Frame
  <2>1. CASE Part(t, "begin", "flag", Flag, "data")
    <3>1. PartsOf(encoder, t, 0)
      BY <1>0, <2>1 DEF Part, EncoderOf
    <3>2. "flag" = <<"flag", "data", "end">>[0 + 1]
      OBVIOUS
    <3>3. "data" \in SendLabel /\ 0 \in 0 .. 2 /\ Flag \in Int
      BY DEF SendLabel
    <3> QED BY <1>3, <2>1, <3>1, <3>2, <3>3
  <2>2. CASE Part(t, "data", "data", frame[t].len + frame[t].esc, "end")
    <3>1. PartsOf(encoder, t, 1)
      BY <1>0, <2>2 DEF Part, EncoderOf
    <3>2. "data" = <<"flag", "data", "end">>[1 + 1]
      OBVIOUS
    <3>3. "end" \in SendLabel /\ 1 \in 0 .. 2 /\ frame[t].len + frame[t].esc \in Int
      BY <2>0 DEF SendLabel
    <3> QED BY <1>3, <2>2, <3>1, <3>2, <3>3
  <2>3. CASE Part(t, "end", "end", Fcs + Flag, "write")
    <3>1. PartsOf(encoder, t, 2)
      BY <1>0, <2>3 DEF Part, EncoderOf
    <3>2. "end" = <<"flag", "data", "end">>[2 + 1]
      OBVIOUS
    <3>3. "write" \in SendLabel /\ 2 \in 0 .. 2 /\ Fcs + Flag \in Int
      BY DEF SendLabel
    <3> QED BY <1>3, <2>3, <3>1, <3>2, <3>3
  <2> QED BY <1>4, <2>1, <2>2, <2>3 DEF Encode
<1>5. ASSUME NEW t \in Task, Write(t) PROVE SendInv'
  <2>1. pc[t] = "write" /\ sent' = encoder /\ encoder' = <<>> /\ pc' = [pc EXCEPT ![t] = "exit"]
        /\ UNCHANGED <<mutex, frame>>
    BY <1>5 DEF Write, Goes
  <2>2. mutex = t /\ PartsOf(encoder, t, 3)
    BY <1>0, <2>1 DEF EncoderOf
  <2>3. \A u \in Task : u # t => pc[u] \in {"out", "lock"}
    BY <1>a, <2>2
  <2>4. SendTypes'
    BY <1>0, <2>1 DEF SendTypes, SendLabel
  <2>5. \A u \in Task : EncoderOf(u)'
    BY <1>0, <2>1, <2>2, <2>3 DEF SendTypes, EncoderOf
  <2> QED BY <2>1, <2>2, <2>4, <2>5 DEF SendInv
<1>6. ASSUME NEW t \in Task, Exit(t) PROVE SendInv'
  <2>1. pc[t] = "exit" /\ mutex' = NoTask /\ pc' = [pc EXCEPT ![t] = "out"] /\ UNCHANGED <<encoder, frame, sent>>
    BY <1>6 DEF Exit, Goes
  <2>2. \A u \in Task : u # t => pc[u] \in {"out", "lock"}
    BY <1>0, <1>a, <2>1 DEF EncoderOf
  <2>3. SendTypes'
    BY <1>0, <2>1 DEF SendTypes, SendLabel
  <2>4. \A u \in Task : pc'[u] \in {"out", "lock"}
    BY <1>0, <2>1, <2>2 DEF SendTypes
  <2>5. \A u \in Task : EncoderOf(u)'
    BY <2>4 DEF EncoderOf
  <2> QED BY <2>1, <2>3, <2>5 DEF SendInv
<1>7. CASE UNCHANGED sendVars
  BY <1>7 DEF sendVars, SendInv, SendTypes, EncoderOf
<1> QED BY <1>1, <1>2, <1>4, <1>5, <1>6, <1>7 DEF SendNext, Step

\* A message that has the three parts of one task's frame is whole.
LEMMA WholeIfInv == SendInv => WholeFrames
<1> SUFFICES ASSUME NEW t \in Task, PartsOf(sent, t, 3) PROVE WholeFrames
  BY DEF SendInv, WholeFrames
<1>1. DOMAIN sent = 1 .. 3 /\ \A i \in 1 .. 3 : sent[i].task = t /\ sent[i].part = <<"flag", "data", "end">>[i]
  BY DEF PartsOf
<1>2. {sent[i].task : i \in DOMAIN sent} = {t}
  BY <1>1
<1>3. Cardinality({t}) = 1
  BY FS_Singleton
<1>4. [i \in DOMAIN sent |-> sent[i].part] = <<"flag", "data", "end">>
  BY <1>1
<1> QED BY <1>2, <1>3, <1>4 DEF WholeFrames

\* Every message the platform gets is one whole frame of one task, with any
\* tasks and frame sizes, and with an encoder that runs out of room anywhere.
THEOREM FramesAreWhole == HostSpec => []WholeFrames
<1>1. HostInit => SendInv
  <2> SUFFICES ASSUME SendInit PROVE SendInv
    BY DEF HostInit
  <2>1. [len |-> 1, esc |-> 0] \in Frame
    BY SendAssumption DEF Frame
  <2>2. SendTypes
    BY <2>1 DEF SendInit, SendTypes, SendLabel
  <2>3. \A t \in Task : pc[t] = "out"
    BY DEF SendInit
  <2> QED BY <2>2, <2>3 DEF SendInit, SendInv, EncoderOf
<1>2. [HostNext]_hostVars => [SendNext]_sendVars
  BY HostPartSteps
<1>3. SendInv => WholeFrames
  BY WholeIfInv
<1> QED BY <1>1, <1>2, <1>3, SendStep, PTL DEF HostSpec

-----------------------------------------------------------------------------
(* SpinelHdlc, reception: the frames, in their order.                       *)

\* Joining sequences of numbers is associative.
LEMMA JoinThree == \A s, t, u \in Seq(Nat) : (s \o t) \o u = s \o (t \o u)
BY ConcatAssociative, SMTT(20)

\* The length of two joined.
LEMMA JoinTwo == \A s, t \in Seq(Nat) : s \o t \in Seq(Nat) /\ Len(s \o t) = Len(s) + Len(t)
OBVIOUS

\* A number is appended to a sequence joined of two, or to the second of them.
LEMMA AppendToJoin ==
  ASSUME NEW s \in Seq(Nat), NEW t \in Seq(Nat), NEW e \in Nat
  PROVE  s \o Append(t, e) = Append(s \o t, e)
<1>1. <<e>> \in Seq(Nat) /\ s \o t \in Seq(Nat)
  BY ConcatProperties
<1>2. Append(t, e) = t \o <<e>> /\ Append(s \o t, e) = (s \o t) \o <<e>>
  BY <1>1, AppendIsConcat
<1> QED BY <1>1, <1>2, ConcatAssociative

\* A sequence joined of two, element by element.
LEMMA JoinedAt ==
  ASSUME NEW s \in Seq(Nat), NEW t \in Seq(Nat)
  PROVE  /\ s \o t \in Seq(Nat) /\ Len(s \o t) = Len(s) + Len(t)
         /\ \A i \in 1 .. Len(s) : (s \o t)[i] = s[i]
         /\ \A i \in 1 .. Len(t) : (s \o t)[Len(s) + i] = t[i]
OBVIOUS

\* Quotient and remainder.
LEMMA DivRange ==
  ASSUME NEW a \in Nat, NEW m \in Nat \ {0}
  PROVE (a % m) \in 0 .. m - 1 /\ a \div m \in Nat /\ a = m * (a \div m) + (a % m)
OBVIOUS

\* They grow with the number.
LEMMA DivMonotonic ==
  ASSUME NEW a \in Nat, NEW b \in Nat, NEW m \in Nat \ {0}, a <= b
  PROVE (b \div m) - (a \div m) \in Nat
<1> DEFINE p == a \div m
           q == b \div m
           r == a % m
           s == b % m
<1>1. p \in Nat /\ q \in Nat /\ r \in 0 .. m - 1 /\ s \in 0 .. m - 1 /\ a = m * p + r /\ b = m * q + s
  BY DivRange
<1> HIDE DEF p, q, r, s
<1>2. CASE q < p
  <2>1. m * (p - q) >= m
    BY <1>1, <1>2
  <2>2. m * (p - q) = m * p - m * q
    BY <1>1
  <2> QED BY <1>1, <2>1, <2>2
<1>3. CASE p <= q
  BY <1>1, <1>3 DEF p, q
<1> QED BY <1>1, <1>2, <1>3

\* f has the frames saved of those after the first a.
AreFramesAfter(f, a) ==
  /\ f[0] = << >>
  /\ \A k \in Nat : f[k] \in Seq(Nat) /\ f[k + 1] = IF Kinds[a + (k + 1)] = "spinel" THEN Append(f[k], a + (k + 1)) ELSE f[k]

\* The definition of FramesAfter is a definition.
LEMMA FramesAfterIs == ASSUME NEW a \in Nat PROVE AreFramesAfter(FramesAfter(a), a)
<1> DEFINE T == Seq(Nat)
           step == [p \in T \X Nat |-> IF Kinds[a + (p[2] + 1)] = "spinel" THEN Append(p[1], a + (p[2] + 1)) ELSE p[1]]
           E(s) == [k \in Nat |-> IF k = 0 THEN << >>
                      ELSE IF Kinds[a + k] = "spinel" THEN Append(s[k - 1], a + k) ELSE s[k - 1]]
           g == CHOOSE s : s = E(s)
<1>1. step \in [T \X Nat -> T]
  <2> SUFFICES ASSUME NEW p \in T \X Nat PROVE step[p] \in T
    OBVIOUS
  <2>1. p[1] \in Seq(Nat) /\ a + (p[2] + 1) \in Nat
    OBVIOUS
  <2>2. Append(p[1], a + (p[2] + 1)) \in Seq(Nat)
    BY <2>1, AppendProperties
  <2> QED BY <2>1, <2>2
<1>2. PICK f : IsRecursion(f, T, << >>, step)
  <2>1. << >> \in T
    BY EmptySeq
  <2> HIDE DEF T, step
  <2> QED BY <1>1, <2>1, NatRecursion
<1>3. f \in [Nat -> Seq(Nat)] /\ f[0] = << >> /\ \A n \in Nat : f[n + 1] = step[<<f[n], n>>]
  BY <1>2 DEF IsRecursion
<1>4. ASSUME NEW k \in Nat, k # 0 PROVE f[k] = E(f)[k]
  <2>1. PICK n \in Nat : k = n + 1
    BY <1>4, k - 1 \in Nat
  <2>2. <<f[n], n>> \in T \X Nat
    BY <1>3
  <2>3. f[n + 1] = IF Kinds[a + (n + 1)] = "spinel" THEN Append(f[n], a + (n + 1)) ELSE f[n]
    BY <1>3, <2>2
  <2>4. k - 1 = n
    BY <2>1
  <2> QED BY <1>4, <2>1, <2>3, <2>4
<1> HIDE DEF step
<1>5. \A k \in Nat : f[k] = E(f)[k]
  BY <1>3, <1>4
<1>6. f = E(f)
  BY <1>3, <1>5
<1>7. g = E(g)
  BY <1>6
<1>8. FramesAfter(a) = g
  BY DEF FramesAfter
<1> HIDE DEF g
<1>9. g[0] = << >> /\ \A k \in Nat : g[k + 1] = IF Kinds[a + (k + 1)] = "spinel" THEN Append(g[k], a + (k + 1)) ELSE g[k]
  <2>1. g[0] = << >>
    BY <1>7
  <2>2. ASSUME NEW k \in Nat PROVE g[k + 1] = IF Kinds[a + (k + 1)] = "spinel" THEN Append(g[k], a + (k + 1)) ELSE g[k]
    <3>1. g[k + 1] = E(g)[k + 1]
      BY <1>7
    <3>2. k + 1 \in Nat /\ k + 1 # 0 /\ (k + 1) - 1 = k
      OBVIOUS
    <3> QED BY <3>1, <3>2
  <2> QED BY <2>1, <2>2
<1>10. \A k \in Nat : g[k] \in Seq(Nat)
  <2> DEFINE H == {k \in Nat : g[k] \in Seq(Nat)}
  <2>1. 0 \in H
    BY <1>9, EmptySeq
  <2>2. ASSUME NEW k \in Nat, k \in H PROVE k + 1 \in H
    <3>1. PICK s, e : s = g[k] /\ e = a + (k + 1) /\ s \in Seq(Nat) /\ e \in Nat
      BY <2>2
    <3> HIDE DEF H
    <3>2. Append(s, e) \in Seq(Nat)
      BY <3>1, AppendProperties
    <3>3. g[k + 1] \in Seq(Nat)
      BY <1>9, <3>1, <3>2
    <3> QED BY <3>3 DEF H
  <2>3. \A k \in Nat : k \in H
    <3> HIDE DEF H
    <3> QED BY <2>1, <2>2, SetInduction
  <2> QED BY <2>3
<1> QED BY <1>8, <1>9, <1>10 DEF AreFramesAfter

\* The frames after the first a, and those after the first a + k, follow each
\* other, and there are no more than were sent.
LEMMA FramesAfterJoin ==
  ASSUME NEW a \in Nat, NEW k \in Nat, NEW m \in Nat
  PROVE  /\ FramesAfter(a)[k] \in Seq(Nat) /\ Len(FramesAfter(a)[k]) <= k
         /\ FramesAfter(a)[k + m] = FramesAfter(a)[k] \o FramesAfter(a + k)[m]
<1>1. PICK f, g, b : b = a + k /\ b \in Nat /\ f = FramesAfter(a) /\ g = FramesAfter(b)
  OBVIOUS
<1>2. AreFramesAfter(f, a) /\ AreFramesAfter(g, b)
  BY <1>1, FramesAfterIs
<1>3. \A i \in Nat : f[i] \in Seq(Nat) /\ g[i] \in Seq(Nat)
  <2>1. \A i \in Nat : f[i] \in Seq(Nat)
    BY <1>2, Zenon DEF AreFramesAfter
  <2>2. \A i \in Nat : g[i] \in Seq(Nat)
    BY <1>2, Zenon DEF AreFramesAfter
  <2> QED BY <2>1, <2>2
<1>4. Len(f[k]) <= k
  <2> DEFINE H == {i \in Nat : Len(f[i]) <= i}
  <2>1. 0 \in H
    <3>1. f[0] = << >>
      BY <1>2, Zenon DEF AreFramesAfter
    <3> QED BY <3>1
  <2>2. ASSUME NEW i \in Nat, i \in H PROVE i + 1 \in H
    <3>1. PICK s, e : s = f[i] /\ e = a + (i + 1) /\ s \in Seq(Nat) /\ e \in Nat /\ Len(s) <= i
      <4>1. f[i] \in Seq(Nat) /\ a + (i + 1) \in Nat /\ Len(f[i]) <= i
        BY <1>3, <2>2
      <4> HIDE DEF H
      <4> QED BY <4>1
    <3> HIDE DEF H
    <3>2. Len(Append(s, e)) = Len(s) + 1 /\ Len(s) \in Nat
      BY <3>1, AppendProperties, LenProperties
    <3>3. f[i + 1] = s \/ f[i + 1] = Append(s, e)
      BY <1>2, <3>1 DEF AreFramesAfter
    <3>4. Len(f[i + 1]) <= i + 1
      BY <3>1, <3>2, <3>3
    <3> QED BY <3>4 DEF H
  <2>3. \A i \in Nat : i \in H
    <3> HIDE DEF H
    <3> QED BY <2>1, <2>2, SetInduction
  <2> QED BY <2>3
<1>5. f[k + m] = f[k] \o g[m]
  <2> DEFINE P(i) == f[k + i] = f[k] \o g[i]
             H == {i \in Nat : P(i)}
  <2>1. 0 \in H
    <3>1. PICK s, t : s = f[k] /\ t = g[0] /\ s \in Seq(Nat) /\ t = << >>
      BY <1>2, <1>3 DEF AreFramesAfter
    <3>2. s \o t = s
      BY <3>1, ConcatEmptySeq
    <3>3. k + 0 = k
      OBVIOUS
    <3>4. P(0)
      BY <3>1, <3>2, <3>3, Zenon
    <3> HIDE DEF P
    <3> QED BY <3>4
  <2>2. ASSUME NEW i \in Nat, i \in H PROVE i + 1 \in H
    <3>1. PICK s, t, e : s = f[k] /\ t = g[i] /\ e = a + (k + (i + 1)) /\ s \in Seq(Nat) /\ t \in Seq(Nat) /\ e \in Nat
      <4>1. a + (k + (i + 1)) \in Nat
        OBVIOUS
      <4> HIDE DEF H
      <4> QED BY <1>3, <4>1
    <3>2. f[k + i] = s \o t
      BY <2>2, <3>1
    <3>3. s \o Append(t, e) = Append(s \o t, e)
      <4> HIDE DEF H
      <4>1. s \in Seq(Nat) /\ t \in Seq(Nat) /\ e \in Nat
        BY <3>1
      <4> QED BY <4>1, AppendToJoin
    <3>4. f[k + (i + 1)] = IF Kinds[e] = "spinel" THEN Append(s \o t, e) ELSE s \o t
      <4>1. k + i \in Nat /\ (k + i) + 1 = k + (i + 1)
        OBVIOUS
      <4>2. f[(k + i) + 1] = IF Kinds[a + ((k + i) + 1)] = "spinel" THEN Append(f[k + i], a + ((k + i) + 1)) ELSE f[k + i]
        BY <1>2, <4>1 DEF AreFramesAfter
      <4> QED BY <3>1, <3>2, <4>1, <4>2
    <3>5. g[i + 1] = IF Kinds[e] = "spinel" THEN Append(t, e) ELSE t
      <4>1. g[i + 1] = IF Kinds[b + (i + 1)] = "spinel" THEN Append(g[i], b + (i + 1)) ELSE g[i]
        BY <1>2 DEF AreFramesAfter
      <4>2. b + (i + 1) = a + (k + (i + 1))
        BY <1>1
      <4> QED BY <3>1, <4>1, <4>2
    <3> HIDE DEF H
    <3>6. f[k + (i + 1)] = s \o g[i + 1]
      <4>1. CASE Kinds[e] = "spinel"
        BY <3>3, <3>4, <3>5, <4>1
      <4>2. CASE Kinds[e] # "spinel"
        BY <3>4, <3>5, <4>2
      <4> QED BY <4>1, <4>2
    <3>7. P(i + 1)
      BY <3>1, <3>6
    <3> HIDE DEF P
    <3> QED BY <3>7 DEF H
  <2>3. \A i \in Nat : i \in H
    <3> HIDE DEF H
    <3> QED BY <2>1, <2>2, SetInduction
  <2> QED BY <2>3
<1> QED BY <1>1, <1>3, <1>4, <1>5

\* Frames saved up to a, and from there to b, are those saved up to b.
LEMMA NewFramesJoin ==
  ASSUME NEW a \in Nat, NEW b \in Nat, a <= b
  PROVE  /\ NewFrames(0, b) = NewFrames(0, a) \o NewFrames(a, b)
         /\ NewFrames(0, a) \in Seq(Nat) /\ NewFrames(a, b) \in Seq(Nat)
         /\ Len(NewFrames(a, b)) <= (b \div FrameLen) - (a \div FrameLen)
<1>1. PICK i, k : i = a \div FrameLen /\ k = (b \div FrameLen) - (a \div FrameLen) /\ i \in Nat /\ k \in Nat
                  /\ b \div FrameLen = i + k
  <2>1. a \div FrameLen \in Nat /\ b \div FrameLen \in Nat
    BY HdlcAssumption, DivRange
  <2>2. (b \div FrameLen) - (a \div FrameLen) \in Nat
    BY HdlcAssumption, DivMonotonic
  <2> QED BY <2>1, <2>2
<1>2. PICK o : o = 0 /\ o \in Nat /\ 0 \div FrameLen = o
  BY HdlcAssumption
<1>3. /\ NewFrames(0, b) = FramesAfter(o)[i + k] /\ NewFrames(0, a) = FramesAfter(o)[i]
      /\ NewFrames(a, b) = FramesAfter(o + i)[k]
  <2>1. (i + k) - o = i + k /\ i - o = i /\ o + i = i
    BY <1>1, <1>2
  <2> QED BY <1>1, <1>2, <2>1 DEF NewFrames
<1>4. /\ FramesAfter(o)[i] \in Seq(Nat) /\ FramesAfter(o)[i + k] = FramesAfter(o)[i] \o FramesAfter(o + i)[k]
  <2>1. o \in Nat /\ i \in Nat /\ k \in Nat
    BY <1>1, <1>2
  <2> QED BY <2>1, FramesAfterJoin, ZenonT(20)
<1>5. /\ FramesAfter(o + i)[k] \in Seq(Nat) /\ Len(FramesAfter(o + i)[k]) <= k
  BY <1>1, <1>2, FramesAfterJoin, o + i \in Nat
<1> QED BY <1>1, <1>3, <1>4, <1>5, Zenon

\* The buffers hold frames, and a chunk in hand is one the wire has.
ReceiveInv ==
  /\ ReceiveTypeOK /\ InOrder
  /\ saved \in Seq(Nat) /\ otBuf \in Seq(Nat) /\ handled \in Seq(Nat) /\ copied \in Nat
  /\ rx # "idle" => arrived + chunk <= Total

\* The saved frames that are not copied are a sequence, shorter by those that are.
LEMMA UnreadIs ==
  ASSUME NEW s \in Seq(Nat), NEW c \in Nat, c <= Len(s)
  PROVE  SubSeq(s, c + 1, Len(s)) \in Seq(Nat) /\ Len(SubSeq(s, c + 1, Len(s))) = Len(s) - c
<1>1. Len(s) \in Nat /\ \A i \in c + 1 .. Len(s) : s[i] \in Nat
  BY ElementOfSeq, LenProperties
<1> QED BY <1>1, SubSeqProperties

\* A part of a sequence, element by element.
LEMMA PartIs ==
  ASSUME NEW s \in Seq(Nat), NEW a \in Nat, NEW b \in Nat, a <= b, b <= Len(s)
  PROVE  /\ SubSeq(s, a + 1, b) \in Seq(Nat) /\ Len(SubSeq(s, a + 1, b)) = b - a
         /\ \A i \in 1 .. b - a : SubSeq(s, a + 1, b)[i] = s[a + i]
<1>0. Len(s) \in Nat
  BY LenProperties
<1>1. \A i \in a + 1 .. b : s[i] \in Nat
  BY <1>0, ElementOfSeq
<1> DEFINE m == a + 1
           u == SubSeq(s, m, b)
<1>2. m \in Int /\ b \in Int
  OBVIOUS
<1>3. /\ u \in Seq(Nat) /\ Len(u) = (IF m <= b THEN b - m + 1 ELSE 0)
      /\ \A i \in 1 .. b - m + 1 : u[i] = s[m + i - 1]
  <2> HIDE DEF m
  <2> QED BY <1>1, <1>2, SubSeqProperties DEF m
<1> HIDE DEF u
<1>4. Len(u) = b - a
  BY <1>3
<1>5. \A i \in 1 .. b - a : u[i] = s[a + i]
  <2> TAKE i \in 1 .. b - a
  <2>1. i \in 1 .. b - m + 1 /\ m + i - 1 = a + i
    OBVIOUS
  <2> QED BY <1>3, <2>1
<1> QED BY <1>3, <1>4, <1>5 DEF u

\* Of those, the ones after the next k are the ones after c + k.
LEMMA UnreadAfter ==
  ASSUME NEW s \in Seq(Nat), NEW c \in Nat, NEW k \in Nat, c + k <= Len(s)
  PROVE  SubSeq(SubSeq(s, c + 1, Len(s)), k + 1, Len(s) - c) = SubSeq(s, (c + k) + 1, Len(s))
<1>0. PICK n, d, e : /\ n = Len(s) /\ n \in Nat /\ d = n - c /\ d \in Nat /\ e = c + k /\ e \in Nat
                     /\ c <= n /\ k <= d /\ e <= n /\ d - k = n - e /\ n <= Len(s)
  <2>1. PICK n : n = Len(s) /\ n \in Nat
    BY LenProperties
  <2>2. c + k <= n
    BY <2>1
  <2>3. n - c \in Nat /\ c + k \in Nat /\ c <= n /\ k <= n - c /\ (n - c) - k = n - (c + k)
    BY <2>1, <2>2
  <2> QED BY <2>1, <2>2, <2>3
<1> DEFINE u == SubSeq(s, c + 1, n)
           v == SubSeq(u, k + 1, d)
           w == SubSeq(s, e + 1, n)
<1>1. u \in Seq(Nat) /\ Len(u) = n - c /\ \A i \in 1 .. n - c : u[i] = s[c + i]
  BY <1>0, PartIs
<1> HIDE DEF u
<1>2. v \in Seq(Nat) /\ Len(v) = d - k /\ \A i \in 1 .. d - k : v[i] = u[k + i]
  <2>1. d <= Len(u)
    BY <1>0, <1>1
  <2> QED BY <1>0, <1>1, <2>1, PartIs
<1>3. w \in Seq(Nat) /\ Len(w) = n - e /\ \A i \in 1 .. n - e : w[i] = s[e + i]
  BY <1>0, PartIs
<1> HIDE DEF v, w
<1>4. \A i \in 1 .. d - k : v[i] = w[i]
  <2> TAKE i \in 1 .. d - k
  <2>1. k + i \in 1 .. n - c /\ c + (k + i) = e + i /\ i \in 1 .. n - e
    BY <1>0
  <2> QED BY <1>1, <1>2, <1>3, <2>1
<1>5. v = w
  <2>1. Len(v) = Len(w) /\ \A i \in 1 .. Len(v) : v[i] = w[i]
    BY <1>0, <1>2, <1>3, <1>4
  <2> QED BY <1>2, <1>3, <2>1, SeqEqual
<1> QED BY <1>0, <1>5 DEF u, v, w

\* What is appended is not read yet.
LEMMA UnreadAppended ==
  ASSUME NEW s \in Seq(Nat), NEW t \in Seq(Nat), NEW c \in Nat, c <= Len(s)
  PROVE  SubSeq(s \o t, c + 1, Len(s \o t)) = SubSeq(s, c + 1, Len(s)) \o t
<1>0. PICK n, m : n = Len(s) /\ n \in Nat /\ m = Len(t) /\ m \in Nat /\ c <= n
  BY LenProperties
<1> DEFINE j == s \o t
           u == SubSeq(s, c + 1, n)
           v == SubSeq(j, c + 1, n + m)
           w == u \o t
<1>1. /\ j \in Seq(Nat) /\ Len(j) = n + m
      /\ \A i \in 1 .. n : j[i] = s[i]
      /\ \A i \in 1 .. m : j[n + i] = t[i]
  BY <1>0, JoinedAt
<1> HIDE DEF j
<1>2. u \in Seq(Nat) /\ Len(u) = n - c /\ \A i \in 1 .. n - c : u[i] = s[c + i]
  BY <1>0, PartIs
<1>3. v \in Seq(Nat) /\ Len(v) = (n + m) - c /\ \A i \in 1 .. (n + m) - c : v[i] = j[c + i]
  <2>1. c <= n + m /\ n + m <= Len(j) /\ n + m \in Nat
    BY <1>0, <1>1
  <2> QED BY <1>1, <2>1, PartIs
<1> HIDE DEF u, v
<1>4. /\ w \in Seq(Nat) /\ Len(w) = (n - c) + m
      /\ \A i \in 1 .. n - c : w[i] = u[i]
      /\ \A i \in 1 .. m : w[(n - c) + i] = t[i]
  <2>1. u \in Seq(Nat) /\ t \in Seq(Nat)
    BY <1>2
  <2>2. /\ w \in Seq(Nat) /\ Len(w) = Len(u) + Len(t)
        /\ \A i \in 1 .. Len(u) : w[i] = u[i]
        /\ \A i \in 1 .. Len(t) : w[Len(u) + i] = t[i]
    BY <2>1, JoinedAt, Zenon
  <2> HIDE DEF w
  <2> QED BY <1>0, <1>2, <2>2
<1> HIDE DEF w
<1>5. \A i \in 1 .. (n + m) - c : v[i] = w[i]
  <2> TAKE i \in 1 .. (n + m) - c
  <2>0. v[i] = j[c + i]
    BY <1>3
  <2>1. CASE i <= n - c
    <3>1. i \in 1 .. n - c /\ c + i \in 1 .. n
      BY <1>0, <2>1
    <3> QED BY <1>1, <1>2, <1>4, <2>0, <3>1
  <2>2. CASE i > n - c
    <3>1. PICK d : d \in 1 .. m /\ n + d = c + i /\ (n - c) + d = i
      <4>1. i - (n - c) \in 1 .. m /\ n + (i - (n - c)) = c + i /\ (n - c) + (i - (n - c)) = i
        BY <1>0, <2>2
      <4> QED BY <4>1
    <3> QED BY <1>1, <1>4, <2>0, <3>1
  <2> QED BY <1>0, <2>1, <2>2
<1>6. v = w
  <2>1. Len(v) = Len(w) /\ \A i \in 1 .. Len(v) : v[i] = w[i]
    BY <1>0, <1>3, <1>4, <1>5
  <2> QED BY <1>3, <1>4, <2>1, SeqEqual
<1> QED BY <1>0, <1>1, <1>6 DEF j, u, v, w

\* What OpenThread's buffer takes is some of the unread frames, and fits.
LEMMA FittingIs ==
  ASSUME saved \in Seq(Nat), copied \in Nat, copied <= Len(saved), otBuf \in Seq(Nat),
         Len(otBuf) * FrameLen <= OtSize
  PROVE  /\ Fitting \in Nat /\ Fitting <= Len(Unread)
         /\ (OtSize - Len(otBuf) * FrameLen) \div FrameLen \in Nat
         /\ Fitting <= (OtSize - Len(otBuf) * FrameLen) \div FrameLen
         /\ ((OtSize - Len(otBuf) * FrameLen) \div FrameLen) * FrameLen <= OtSize - Len(otBuf) * FrameLen
<1>1. PICK n, m, room : /\ n = Len(Unread) /\ n \in Nat
                        /\ room = OtSize - Len(otBuf) * FrameLen /\ m = room \div FrameLen
                        /\ room \in Nat /\ m \in Nat /\ m * FrameLen <= room
  <2>1. Len(otBuf) \in Nat /\ Len(Unread) \in Nat /\ FrameLen \in Nat \ {0} /\ OtSize \in Nat
    BY HdlcAssumption, UnreadIs, LenProperties DEF Unread
  <2>2. PICK l, f : l = Len(otBuf) /\ f = FrameLen
    OBVIOUS
  <2>3. l * f \in Nat /\ OtSize - l * f \in Nat
    BY <2>1, <2>2
  <2>4. PICK r : r = OtSize - l * f
    OBVIOUS
  <2>5. r \div f \in Nat /\ r = f * (r \div f) + (r % f) /\ r % f \in Nat
    <3>1. r \in Nat /\ f \in Nat \ {0}
      BY <2>1, <2>2, <2>3, <2>4
    <3>2. (r % f) \in 0 .. f - 1 /\ r \div f \in Nat /\ r = f * (r \div f) + (r % f)
      BY <3>1, DivRange
    <3> QED BY <3>1, <3>2
  <2>6. (r \div f) * f <= r
    BY <2>1, <2>2, <2>5
  <2> QED BY <2>1, <2>2, <2>3, <2>4, <2>5, <2>6
<1>2. Fitting = Min({n, m})
  BY <1>1 DEF Fitting
<1>3. Min({n, m}) \in {n, m} /\ Min({n, m}) <= n /\ Min({n, m}) <= m
  <2>1. \E x \in {n, m} : \A y \in {n, m} : x =< y
    BY <1>1
  <2> QED BY <2>1 DEF Min
<1> QED BY <1>1, <1>2, <1>3
\* What is read moves on, in order, and fits.
LEMMA ReadStep ==
  ASSUME saved \in Seq(Nat), copied \in Nat, copied <= Len(saved), otBuf \in Seq(Nat),
         Len(otBuf) * FrameLen <= OtSize, TryReadAndDecode
  PROVE  /\ saved' \in Seq(Nat) /\ otBuf' \in Seq(Nat) /\ otBuf' \o Unread' = otBuf \o Unread
         /\ Unread \in Seq(Nat) /\ Unread' \in Seq(Nat)
         /\ copied' \in Nat /\ IF saved' = << >> THEN copied' = 0 ELSE copied' < Len(saved')
         /\ Len(saved') <= Len(saved) /\ Len(otBuf') * FrameLen <= OtSize
<1>1. PICK s, t, n, m, room : /\ s = Unread /\ t = otBuf /\ n = Len(Unread) /\ n \in Nat /\ s \in Seq(Nat)
                        /\ n = Len(saved) - copied
                        /\ room = OtSize - Len(otBuf) * FrameLen /\ m = room \div FrameLen
                        /\ m \in Nat /\ m * FrameLen <= room
  <2>1. Unread \in Seq(Nat) /\ Len(Unread) = Len(saved) - copied
    BY UnreadIs DEF Unread
  <2> QED BY <2>1, FittingIs, LenProperties
<1>2. PICK k : k = Fitting /\ k \in 0 .. n /\ k <= m
  BY <1>1, FittingIs
<1>3. PICK a, b : /\ a = SubSeq(s, 1, k) /\ b = SubSeq(s, k + 1, n) /\ a \in Seq(Nat) /\ b \in Seq(Nat)
                  /\ Len(a) = k /\ Len(b) = n - k /\ a \o b = s
  <2>1. s \in Seq(Nat) /\ n = Len(s)
    BY <1>1
  <2>2. SubSeq(s, 1, k) \o SubSeq(s, k + 1, n) = SubSeq(s, 1, n)
    <3>1. 1 \in 1 .. Len(s) + 1 /\ k \in 1 - 1 .. Len(s) /\ n \in k .. Len(s)
      BY <1>1, <1>2, <2>1
    <3> QED BY <2>1, <3>1, ConcatAdjacentSubSeq
  <2>3. SubSeq(s, 1, n) = s
    BY <2>1, SubSeqFull
  <2>4. SubSeq(s, 1, k) \in Seq(Nat) /\ Len(SubSeq(s, 1, k)) = k
    <3>1. \A i \in 1 .. k : s[i] \in Nat
      <4>1. n \in Nat /\ k \in 0 .. n
        BY <1>1, <1>2
      <4> QED BY <2>1, <4>1, ElementOfSeq
    <3> QED BY <1>1, <1>2, <3>1, SubSeqProperties
  <2>5. SubSeq(s, k + 1, n) \in Seq(Nat) /\ Len(SubSeq(s, k + 1, n)) = n - k
    <3>1. \A i \in k + 1 .. n : s[i] \in Nat
      <4>1. n \in Nat /\ k \in 0 .. n
        BY <1>1, <1>2
      <4> QED BY <2>1, <4>1, ElementOfSeq
    <3> QED BY <1>1, <1>2, <3>1, SubSeqProperties
  <2> QED BY <2>2, <2>3, <2>4, <2>5
<1>4. /\ otBuf' = t \o a /\ Unread' = b /\ saved' \in Seq(Nat) /\ copied' \in Nat /\ Len(saved') <= Len(saved)
      /\ IF saved' = << >> THEN copied' = 0 ELSE copied' < Len(saved')
  <2>0. otBuf' = t \o a
    BY <1>1, <1>2, <1>3 DEF TryReadAndDecode
  <2>1. CASE k = n
    <3>1. saved' = << >> /\ copied' = 0
      BY <1>1, <1>2, <2>1 DEF TryReadAndDecode
    <3>2. Unread' = << >> /\ b = << >>
      <4>1. Unread' = SubSeq(saved', copied' + 1, Len(saved'))
        BY DEF Unread
      <4>2. SubSeq(<< >>, 0 + 1, Len(<< >>)) = << >>
        BY SMT
      <4>3. Len(b) = 0
        BY <1>1, <1>3, <2>1
      <4> QED BY <1>3, <3>1, <4>1, <4>2, <4>3
    <3>3. Len(saved') = 0 /\ Len(saved) \in Nat
      BY <3>1, LenProperties
    <3> QED BY <2>0, <3>1, <3>2, <3>3, EmptySeq
  <2>2. CASE k # n
    <3>1. saved' = saved /\ copied' = copied + k
      BY <1>1, <1>2, <2>2 DEF TryReadAndDecode
    <3>2. k < n /\ Len(saved) \in Nat
      BY <1>1, <1>2, <2>2, LenProperties
    <3>3. copied' \in Nat /\ copied' < Len(saved') /\ copied + k <= Len(saved)
      BY <1>1, <1>2, <3>1, <3>2
    <3>4. Unread' = SubSeq(saved, (copied + k) + 1, Len(saved))
      BY <3>1 DEF Unread
    <3>5. b = SubSeq(SubSeq(saved, copied + 1, Len(saved)), k + 1, Len(saved) - copied)
      BY <1>1, <1>3 DEF Unread
    <3>6. Unread' = b
      BY <1>2, <3>3, <3>4, <3>5, UnreadAfter
    <3>7. saved' # << >>
      BY <3>1, <3>2, <3>3
    <3> QED BY <2>0, <3>1, <3>2, <3>3, <3>6, <3>7
  <2> QED BY <2>1, <2>2
<1>5. t \in Seq(Nat) /\ t \o a \in Seq(Nat) /\ Len(t \o a) = Len(t) + k
  BY <1>1, <1>3, ConcatProperties
<1>6. (t \o a) \o b = t \o s
  <2>1. a \in Seq(Nat) /\ b \in Seq(Nat) /\ t \in Seq(Nat)
    BY <1>3, <1>5
  <2>2. (t \o a) \o b = t \o (a \o b)
    BY <2>1, JoinThree, ZenonT(20)
  <2> QED BY <1>3, <2>2
<1>7. Len(t \o a) * FrameLen <= OtSize
  <2>1. PICK l, f : l = Len(t) /\ f = FrameLen /\ l \in Nat /\ f \in Nat /\ OtSize \in Nat
    BY <1>5, HdlcAssumption, LenProperties
  <2>2. room = OtSize - l * f /\ m * f <= room
    BY <1>1, <2>1
  <2>3. k * f <= m * f
    <3>1. PICK d : d = m - k /\ d \in Nat /\ m = k + d
      BY <1>1, <1>2
    <3>2. (k + d) * f = k * f + d * f /\ d * f \in Nat /\ k * f \in Nat
      <4>1. k \in Nat /\ d \in Nat /\ f \in Nat
        BY <1>1, <1>2, <2>1, <3>1
      <4> QED BY <4>1
    <3> QED BY <3>1, <3>2
  <2>4. (l + k) * f = l * f + k * f /\ l * f \in Nat /\ k * f \in Nat /\ m * f \in Nat
    BY <1>1, <1>2, <2>1
  <2>5. (l + k) * f <= OtSize
    <3>1. PICK lf, kf, mf : lf = l * f /\ kf = k * f /\ mf = m * f
      OBVIOUS
    <3> QED BY <1>1, <2>1, <2>2, <2>3, <2>4, <3>1, SMTT(20)
  <2>6. Len(t \o a) = l + k
    BY <1>5, <2>1
  <2> QED BY <2>1, <2>5, <2>6
<1>9. otBuf' \o Unread' = otBuf \o Unread
  BY <1>1, <1>4, <1>6
<1>10. Unread \in Seq(Nat) /\ Unread' \in Seq(Nat) /\ otBuf' \in Seq(Nat)
  BY <1>1, <1>3, <1>4, <1>5
<1>11. Len(otBuf') * FrameLen <= OtSize
  BY <1>1, <1>4, <1>7
<1> QED BY <1>4, <1>9, <1>10, <1>11

\* There is more room when less is saved.
LEMMA MoreRoom ==
  ASSUME NEW r \in Nat, NEW x \in Nat, NEW y \in Nat, NEW q \in Nat, y <= x, (r - x) - q \in 0 .. r
  PROVE  (r - y) - q \in 0 .. r
OBVIOUS

\* What there was room for fits: a and b are the units before and after, x and y
\* the whole frames of them, s and t the rest; l of room is taken, and k is added.
LEMMA RoomEnough ==
  ASSUME NEW r \in Nat, NEW l \in Nat, NEW k \in Nat, NEW d \in Nat, NEW x \in Nat, NEW y \in Nat,
         NEW s \in Nat, NEW t \in Nat, NEW a \in Nat, NEW b \in Nat, NEW c \in Nat,
         a = x + s, b = y + t, b = a + c, (r - l) - s >= c, y - x = k + d
  PROVE  (r - (l + k)) - t \in 0 .. r
OBVIOUS

\* The transport task's and OpenThread's steps keep it.
LEMMA ReceiveStep == ReceiveInv /\ [ReceiveNext]_receiveVars => ReceiveInv'
<1> SUFFICES ASSUME ReceiveInv, [ReceiveNext]_receiveVars PROVE ReceiveInv'
  OBVIOUS
<1>0. /\ ReceiveTypeOK /\ InOrder
      /\ saved \in Seq(Nat) /\ otBuf \in Seq(Nat) /\ handled \in Seq(Nat) /\ copied \in Nat
      /\ rx # "idle" => arrived + chunk <= Total
  BY DEF ReceiveInv
<1>00. /\ IF saved = << >> THEN copied = 0 ELSE copied < Len(saved)
       /\ copied <= Len(saved)
  BY <1>0, LenProperties DEF ReceiveTypeOK
<1>a. Total \in Nat /\ MaxChunk \in Nat /\ RxSize \in Nat /\ FrameLen \in Nat \ {0} /\ OtSize \in Nat
  <2>1. Len(Kinds) \in Nat
    BY HdlcAssumption, LenProperties
  <2> QED BY <2>1, HdlcAssumption DEF Total
<1>b. isFull \in BOOLEAN /\ token \in BOOLEAN /\ ready \in BOOLEAN /\ signal \in BOOLEAN
  BY <1>0, Zenon DEF ReceiveTypeOK
<1>c. /\ arrived \in 0 .. Total /\ BufferRoom \in 0 .. RxSize /\ rx \in {"idle", "check", "wait"} /\ chunk \in 0 .. MaxChunk
      /\ Len(otBuf) * FrameLen <= OtSize /\ ot \in {"loop", "wait"}
  BY <1>0 DEF ReceiveTypeOK
\* What the types say of flags, of the room and of the rest, after the step.
<1> DEFINE Flags == isFull' \in BOOLEAN /\ token' \in BOOLEAN /\ ready' \in BOOLEAN /\ signal' \in BOOLEAN
           Rest == /\ arrived' \in 0 .. Total /\ rx' \in {"idle", "check", "wait"} /\ chunk' \in 0 .. MaxChunk
                   /\ Len(otBuf') * FrameLen <= OtSize /\ ot' \in {"loop", "wait"}
                   /\ rx' # "idle" => arrived' + chunk' <= Total
           Seqs == /\ saved' \in Seq(Nat) /\ otBuf' \in Seq(Nat) /\ handled' \in Seq(Nat) /\ copied' \in Nat
                   /\ IF saved' = << >> THEN copied' = 0 ELSE copied' < Len(saved')
<1>d. ASSUME Flags, Rest, Seqs, BufferRoom' \in 0 .. RxSize, InOrder' PROVE ReceiveInv'
  <2>1. ({isFull, token, ready, signal} \subseteq BOOLEAN)'
    BY <1>d, Zenon
  <2> HIDE DEF Flags
  <2> QED BY <1>d, <2>1 DEF ReceiveInv, ReceiveTypeOK
<1>e. ASSUME saved' \in Seq(Nat), Len(saved') <= Len(saved), UNCHANGED arrived PROVE BufferRoom' \in 0 .. RxSize
  <2>1. PICK k, l, f, r, q : /\ k = Len(saved') /\ l = Len(saved) /\ f = FrameLen /\ r = RxSize
                             /\ q = arrived % FrameLen
                             /\ k \in Nat /\ l \in Nat /\ f \in Nat /\ r \in Nat /\ q \in Nat
    <3>1. Len(saved') \in Nat /\ Len(saved) \in Nat
      BY <1>0, <1>e, LenProperties
    <3>2. arrived % FrameLen \in Nat
      <4>1. arrived \in Nat
        BY <1>a, <1>c
      <4> QED BY <1>a, <4>1, DivRange
    <3> QED BY <1>a, <3>1, <3>2
  <2>2. r - l * f - q \in 0 .. r
    BY <1>c, <2>1 DEF BufferRoom
  <2>3. PICK d : d \in Nat /\ l = k + d
    BY <1>e, <2>1, l - k \in Nat, l = k + (l - k)
  <2>4. l * f = k * f + d * f /\ d * f \in Nat /\ k * f \in Nat
    BY <2>1, <2>3
  <2>5. r - k * f - q \in 0 .. r
    <3>1. PICK x, y : x = l * f /\ y = k * f /\ x \in Nat /\ y \in Nat /\ y <= x
      <4>1. PICK x, y, z : x = l * f /\ y = k * f /\ z = d * f
        OBVIOUS
      <4>2. x = y + z /\ x \in Nat /\ y \in Nat /\ z \in Nat
        BY <2>1, <2>4, <4>1
      <4> QED BY <4>1, <4>2
    <3>2. (r - x) - q \in 0 .. r
      BY <2>2, <3>1
    <3>3. (r - y) - q \in 0 .. r
      BY <2>1, <3>1, <3>2, MoreRoom
    <3> QED BY <3>1, <3>3
  <2> QED BY <1>e, <2>1, <2>5 DEF BufferRoom
<1>1. ASSUME NEW n \in 1 .. MaxChunk, Receive(n) PROVE ReceiveInv'
  <2>1. Flags /\ Seqs
    BY <1>0, <1>00, <1>b, <1>1, Zenon DEF Receive
  <2>2. Rest
    BY <1>a, <1>c, <1>1 DEF Receive
  <2>3. BufferRoom' \in 0 .. RxSize /\ InOrder'
    BY <1>0, <1>c, <1>1 DEF Receive, BufferRoom, InOrder, Unread
  <2> HIDE DEF Flags, Rest, Seqs
  <2> QED BY <1>d, <2>1, <2>2, <2>3
<1>2. CASE Decode
  <2>0. PICK a, b, c, new, old : /\ a = arrived /\ c = chunk /\ b = a + c /\ new = NewFrames(a, b) /\ old = saved
                            /\ a \in Nat /\ b \in Nat /\ c \in Nat /\ a <= b /\ b <= Total
    <3>1. arrived \in Nat /\ chunk \in Nat /\ arrived + chunk <= Total /\ arrived <= arrived + chunk
      <4>1. rx = "check"
        BY <1>2 DEF Decode
      <4>2. arrived \in Nat /\ chunk \in Nat
        BY <1>a, <1>c
      <4> QED BY <1>0, <4>1, <4>2
    <3> QED BY <3>1
  <2>1. arrived' = b /\ saved' = old \o new
    BY <1>2, <2>0 DEF Decode
  <2>2. /\ NewFrames(0, b) = NewFrames(0, a) \o new /\ new \in Seq(Nat)
        /\ Len(new) <= (b \div FrameLen) - (a \div FrameLen)
    BY <2>0, NewFramesJoin
  <2>3. Flags
    BY <1>b, <1>2, Zenon DEF Decode
  <2>4. Seqs
    <3>1. old \in Seq(Nat)
      BY <1>0, <2>0
    <3>2. old \o new \in Seq(Nat)
      BY <2>2, <3>1, JoinTwo
    <3>3. IF old \o new = << >> THEN copied = 0 ELSE copied < Len(old \o new)
      <4>1. Len(old \o new) = Len(old) + Len(new) /\ Len(old) \in Nat /\ Len(new) \in Nat
        BY <2>2, <3>1, JoinTwo, LenProperties
      <4>2. CASE old = << >>
        <5>1. copied = 0 /\ old \o new = new
          BY <1>00, <2>0, <2>2, <4>2, ConcatEmptySeq
        <5>2. new = << >> \/ Len(new) > 0
          BY <2>2, <4>1, EmptySeq
        <5> QED BY <5>1, <5>2
      <4>3. CASE old # << >>
        <5>1. copied < Len(old) /\ copied < Len(old \o new)
          BY <1>0, <1>00, <2>0, <4>1, <4>3
        <5>2. old \o new # << >>
          BY <1>0, <5>1
        <5> QED BY <5>1, <5>2
      <4> QED BY <4>2, <4>3
    <3> QED BY <1>0, <1>2, <2>1, <3>2, <3>3 DEF Decode
  <2>5. Rest
    BY <1>a, <1>c, <1>2, <2>0, <2>1 DEF Decode
  <2>6. BufferRoom' \in 0 .. RxSize
    <3>1. PICK f, r, l, k, p, q, s, t :
            /\ f = FrameLen /\ r = RxSize /\ l = Len(old) /\ k = Len(new) /\ p = a \div f /\ q = b \div f
            /\ s = a % f /\ t = b % f /\ f \in Nat /\ r \in Nat /\ l \in Nat /\ k \in Nat
            /\ p \in Nat /\ q \in Nat /\ s \in Nat /\ t \in Nat
      <4>1. Len(old) \in Nat /\ Len(new) \in Nat
        BY <1>0, <2>0, <2>2, LenProperties
      <4>2. /\ a % FrameLen \in Nat /\ a \div FrameLen \in Nat
            /\ b % FrameLen \in Nat /\ b \div FrameLen \in Nat
        <5>1. a \in Nat /\ b \in Nat /\ FrameLen \in Nat \ {0}
          BY <1>a, <2>0
        <5>2. a % FrameLen \in Nat /\ b % FrameLen \in Nat
          BY <5>1
        <5> QED BY <5>1, <5>2, DivRange
      <4>3. FrameLen \in Nat /\ RxSize \in Nat
        BY <1>a
      <4> QED BY <4>1, <4>2, <4>3
    <3>2. a = f * p + s /\ b = f * q + t
      BY <1>a, <2>0, <3>1, DivRange
    <3>3. (r - (l * f)) - s >= c
      BY <1>2, <2>0, <3>1 DEF Decode, BufferRoom
    <3>4. PICK d : d \in Nat /\ q - p = k + d
      BY <2>2, <3>1, (q - p) - k \in Nat
    <3>5. PICK x, y, u, v, w : /\ x = f * p /\ y = f * q /\ u = l * f /\ v = k * f /\ w = d * f
                             /\ x \in Nat /\ y \in Nat /\ u \in Nat /\ v \in Nat /\ w \in Nat
                             /\ y - x = v + w /\ (l + k) * f = u + v
      <4>1. q = p + (k + d)
        BY <3>1, <3>4
      <4>2. f * (p + (k + d)) = f * p + (k * f + d * f) /\ (l + k) * f = l * f + k * f
        BY <3>1, <3>4
      <4>3. f * p \in Nat /\ l * f \in Nat /\ k * f \in Nat /\ d * f \in Nat
        BY <3>1, <3>4
      <4>4. PICK x, y, u, v, w, z : x = f * p /\ y = f * q /\ u = l * f /\ v = k * f /\ w = d * f /\ z = (l + k) * f
        OBVIOUS
      <4>5. y = x + (v + w) /\ z = u + v /\ x \in Nat /\ u \in Nat /\ v \in Nat /\ w \in Nat
        BY <4>1, <4>2, <4>3, <4>4
      <4>6. y \in Nat /\ y - x = v + w
        BY <4>5
      <4> QED BY <4>4, <4>5, <4>6
    <3>6. (r - ((l + k) * f)) - t \in 0 .. r
      <4>1. a = x + s /\ b = y + t /\ b = a + c /\ (r - u) - s >= c
        BY <2>0, <3>2, <3>3, <3>5
      <4>2. (r - (u + v)) - t \in 0 .. r
        <5>1. /\ r \in Nat /\ u \in Nat /\ v \in Nat /\ w \in Nat /\ x \in Nat /\ y \in Nat /\ s \in Nat
              /\ t \in Nat /\ a \in Nat /\ b \in Nat /\ c \in Nat /\ y - x = v + w
          BY <2>0, <3>1, <3>5
        <5> QED BY <4>1, <5>1
      <4> QED BY <3>5, <4>2
    <3>7. Len(old \o new) = l + k
      <4>1. old \in Seq(Nat)
        BY <1>0, <2>0
      <4> QED BY <2>2, <3>1, <4>1, JoinTwo
    <3>8. BufferRoom' = (r - ((l + k) * f)) - t
      BY <2>1, <3>1, <3>7 DEF BufferRoom
    <3> QED BY <3>1, <3>6, <3>8
  <2>7. InOrder'
    <3>1. PICK h, o, u : /\ h = handled /\ o = otBuf /\ u = Unread /\ h \in Seq(Nat) /\ o \in Seq(Nat)
                         /\ u \in Seq(Nat)
      BY <1>0, <1>00, UnreadIs DEF Unread
    <3>2. (h \o o) \o u = NewFrames(0, a)
      BY <1>0, <2>0, <3>1 DEF InOrder
    <3>3. h \o o \in Seq(Nat)
      BY <3>1, JoinTwo
    <3>4. (h \o o) \o (u \o new) = NewFrames(0, b)
      <4>0. PICK v, w : v = h \o o /\ w = new /\ v \in Seq(Nat) /\ w \in Seq(Nat)
        BY <2>2, <3>1, <3>3
      <4>01. (v \o u) \o w = v \o (u \o w)
        <5>1. u \in Seq(Nat)
          BY <3>1
        <5> QED BY <4>0, <5>1, JoinThree, ZenonT(20)
      <4>1. (h \o o) \o (u \o new) = ((h \o o) \o u) \o new
        BY <4>0, <4>01
      <4> QED BY <2>2, <3>2, <4>1
    <3>5. Unread' = u \o new
      <4>1. old \in Seq(Nat) /\ copied <= Len(old)
        BY <1>0, <1>00, <2>0
      <4>2. SubSeq(old \o new, copied + 1, Len(old \o new)) = SubSeq(old, copied + 1, Len(old)) \o new
        BY <1>0, <2>2, <4>1, UnreadAppended
      <4>3. Unread' = SubSeq(old \o new, copied + 1, Len(old \o new))
        BY <1>2, <2>1 DEF Unread, Decode
      <4> QED BY <2>0, <3>1, <4>2, <4>3 DEF Unread
    <3> QED BY <1>2, <2>1, <3>1, <3>4, <3>5 DEF InOrder, Decode
  <2> HIDE DEF Flags, Rest, Seqs
  <2> QED BY <1>d, <2>3, <2>4, <2>5, <2>6, <2>7
<1>3. CASE BufferFull \/ Wake
  <2>1. Flags /\ Seqs
    BY <1>0, <1>00, <1>b, <1>3, Zenon DEF BufferFull, Wake
  <2>2. Rest
    BY <1>0, <1>a, <1>c, <1>3 DEF BufferFull, Wake
  <2>3. BufferRoom' \in 0 .. RxSize /\ InOrder'
    BY <1>0, <1>c, <1>3 DEF BufferFull, Wake, BufferRoom, InOrder, Unread
  <2> HIDE DEF Flags, Rest, Seqs
  <2> QED BY <1>d, <2>1, <2>2, <2>3
<1>4. CASE Process \/ FrameReady
  <2>0. TryReadAndDecode /\ UNCHANGED <<arrived, rx, chunk, handled>>
    BY <1>4 DEF Process, FrameReady
  <2>1. /\ saved' \in Seq(Nat) /\ otBuf' \in Seq(Nat) /\ otBuf' \o Unread' = otBuf \o Unread
        /\ Unread \in Seq(Nat) /\ Unread' \in Seq(Nat)
        /\ copied' \in Nat /\ IF saved' = << >> THEN copied' = 0 ELSE copied' < Len(saved')
        /\ Len(saved') <= Len(saved) /\ Len(otBuf') * FrameLen <= OtSize
    BY <1>0, <1>00, <1>c, <2>0, ReadStep
  <2>2. Flags
    <3>1. isFull' \in BOOLEAN /\ token' \in BOOLEAN
      BY <1>b, <2>0, Zenon DEF TryReadAndDecode
    <3>2. ready' \in BOOLEAN /\ signal' \in BOOLEAN
      BY <1>b, <1>4, Zenon DEF Process, FrameReady
    <3> QED BY <3>1, <3>2
  <2>3. Rest
    BY <1>0, <1>a, <1>c, <1>4, <2>0, <2>1 DEF Process, FrameReady
  <2>4. Seqs
    BY <1>0, <2>0, <2>1
  <2>5. InOrder'
    <3>1. PICK h, o, s, p, t : h = handled /\ o = otBuf /\ s = Unread /\ p = otBuf' /\ t = Unread'
                         /\ h \in Seq(Nat) /\ o \in Seq(Nat) /\ s \in Seq(Nat) /\ p \in Seq(Nat) /\ t \in Seq(Nat)
                         /\ p \o t = o \o s
      BY <1>0, <2>1, Zenon
    <3>2. (h \o p) \o t = (h \o o) \o s
      <4>1. h \in Seq(Nat) /\ o \in Seq(Nat) /\ s \in Seq(Nat) /\ p \in Seq(Nat) /\ t \in Seq(Nat)
        BY <3>1
      <4>2. (h \o p) \o t = h \o (p \o t)
        BY <4>1, JoinThree, ZenonT(20)
      <4>3. (h \o o) \o s = h \o (o \o s)
        BY <4>1, JoinThree, ZenonT(20)
      <4> QED BY <3>1, <4>2, <4>3
    <3>3. (h \o o) \o s = NewFrames(0, arrived)
      BY <1>0, <3>1 DEF InOrder
    <3> QED BY <2>0, <3>1, <3>2, <3>3 DEF InOrder
  <2>6. BufferRoom' \in 0 .. RxSize
    BY <1>e, <2>0, <2>1
  <2> HIDE DEF Flags, Rest, Seqs
  <2> QED BY <1>d, <2>2, <2>3, <2>4, <2>5, <2>6
<1>5. CASE Handle
  <2>1. Flags
    BY <1>b, <1>5, Zenon DEF Handle, rxVars
  <2>2. PICK h, o, s : h = handled /\ o = otBuf /\ s = Unread /\ h \in Seq(Nat) /\ o \in Seq(Nat) /\ s \in Seq(Nat)
    BY <1>0, <1>00, UnreadIs DEF Unread
  <2>3. /\ handled' = h \o o /\ otBuf' = << >> /\ saved' = saved /\ copied' = copied /\ arrived' = arrived
        /\ h \o o \in Seq(Nat) /\ Unread' = s
    BY <1>5, <2>2, JoinTwo DEF Handle, rxVars, Unread
  <2>4. Seqs
    BY <1>0, <1>00, <2>2, <2>3, EmptySeq
  <2>5. Rest
    <3>1. Len(otBuf') = 0 /\ 0 * FrameLen = 0
      BY <1>a, <2>3
    <3>2. UNCHANGED <<arrived, rx, chunk, ot>>
      BY <1>5 DEF Handle, rxVars
    <3> QED BY <1>0, <1>a, <1>c, <3>1, <3>2
  <2>6. InOrder'
    <3>1. ((h \o o) \o << >>) \o s = (h \o o) \o s
      BY <2>2, <2>3, ConcatEmptySeq
    <3>2. (h \o o) \o s = NewFrames(0, arrived)
      BY <1>0, <2>2 DEF InOrder
    <3> QED BY <2>3, <3>1, <3>2 DEF InOrder
  <2>7. BufferRoom' \in 0 .. RxSize
    BY <1>c, <2>2, <2>3 DEF BufferRoom
  <2> HIDE DEF Flags, Rest, Seqs
  <2> QED BY <1>d, <2>1, <2>4, <2>5, <2>6, <2>7
<1>6. CASE Timeout \/ WaitForFrame \/ UNCHANGED receiveVars
  <2>1. Flags /\ Seqs
    BY <1>0, <1>00, <1>b, <1>6, Zenon DEF Timeout, WaitForFrame, receiveVars, rxVars
  <2>2. Rest
    BY <1>0, <1>a, <1>c, <1>6 DEF Timeout, WaitForFrame, receiveVars, rxVars
  <2>3. BufferRoom' \in 0 .. RxSize /\ InOrder'
    BY <1>0, <1>c, <1>6 DEF Timeout, WaitForFrame, receiveVars, rxVars, BufferRoom, InOrder, Unread
  <2> HIDE DEF Flags, Rest, Seqs
  <2> QED BY <1>d, <2>1, <2>2, <2>3
<1> QED BY <1>1, <1>2, <1>3, <1>4, <1>5, <1>6 DEF ReceiveNext, RxStep, OtStep

\* It holds when the tasks start.
LEMMA ReceiveStarts == ReceiveInit => ReceiveInv
<1> SUFFICES ASSUME ReceiveInit PROVE ReceiveInv
  OBVIOUS
<1>a. Total \in Nat /\ MaxChunk \in Nat /\ RxSize \in Nat /\ FrameLen \in Nat \ {0} /\ OtSize \in Nat
  <2>1. Len(Kinds) \in Nat
    BY HdlcAssumption, LenProperties
  <2> QED BY <2>1, HdlcAssumption DEF Total
<1>1. saved = << >> /\ copied = 0 /\ Unread = << >> /\ otBuf = << >> /\ handled = << >> /\ arrived = 0 /\ chunk = 0 /\ rx = "idle" /\ ot = "loop"
  <2>1. SubSeq(<< >>, 0 + 1, Len(<< >>)) = << >>
    BY SMT
  <2> QED BY <2>1 DEF ReceiveInit, Unread
<1>2. isFull \in BOOLEAN /\ token \in BOOLEAN /\ ready \in BOOLEAN /\ signal \in BOOLEAN
  BY Zenon DEF ReceiveInit
<1>3. {isFull, token, ready, signal} \subseteq BOOLEAN
  BY <1>2, Zenon
<1>4. 0 \div FrameLen = 0 /\ 0 % FrameLen = 0 /\ 0 * FrameLen = 0
  BY <1>a
<1>5. BufferRoom \in 0 .. RxSize
  BY <1>1, <1>4, <1>a DEF BufferRoom
<1>6. InOrder
  <2>1. NewFrames(0, 0) = FramesAfter(0)[0]
    BY <1>4 DEF NewFrames
  <2>2. PICK o : o = 0 /\ o \in Nat
    OBVIOUS
  <2>3. AreFramesAfter(FramesAfter(o), o)
    BY <2>2, FramesAfterIs
  <2>4. FramesAfter(0)[0] = << >>
    BY <2>2, <2>3 DEF AreFramesAfter
  <2> QED BY <1>1, <2>1, <2>4 DEF InOrder
<1> QED BY <1>1, <1>3, <1>4, <1>5, <1>6, <1>a, EmptySeq DEF ReceiveInv, ReceiveTypeOK


-----------------------------------------------------------------------------
(* SpinelHdlc, reception: the two tasks do not wait for each other.        *)

\* NoLostWakeup, and the event is sent when the flag is taken back, never before.
WakeupInv == NoLostWakeup /\ ~(token /\ isFull)

\* Every step of the receiver keeps a wakeup for bytes that wait.
LEMMA WakeupStep == ReceiveInv /\ WakeupInv /\ [ReceiveNext]_receiveVars => WakeupInv'
<1> SUFFICES ASSUME ReceiveInv, WakeupInv, [ReceiveNext]_receiveVars PROVE WakeupInv'
  OBVIOUS
<1> USE DEF WakeupInv, NoLostWakeup
<1>1. ASSUME NEW n \in 1 .. MaxChunk, Receive(n) PROVE WakeupInv'
  BY <1>1 DEF Receive
<1>2. CASE Decode
  <2> DEFINE more == saved' # saved
  <2>1. rx = "check" /\ rx' = "idle" /\ signal' = (signal \/ more) /\ UNCHANGED <<isFull, token>>
    BY <1>2 DEF Decode
  <2>2. saved' # <<>> => signal'
    BY <2>1
  <2> QED BY <2>1, <2>2
<1>3. CASE BufferFull
  BY <1>3 DEF BufferFull
<1>4. CASE Wake
  BY <1>4 DEF Wake
<1>0. ASSUME saved = << >> PROVE Fitting = Len(Unread)
  <2>1. /\ copied = 0 /\ Len(saved) = 0 /\ saved \in Seq(Nat) /\ otBuf \in Seq(Nat)
        /\ Len(otBuf) * FrameLen <= OtSize
    BY <1>0 DEF ReceiveInv, ReceiveTypeOK
  <2>2. Len(Unread) = 0
    BY <2>1, UnreadIs DEF Unread
  <2>3. Fitting <= Len(Unread) /\ Fitting \in Nat
    BY <2>1, FittingIs
  <2> QED BY <2>2, <2>3
<1>5. ASSUME TryReadAndDecode, UNCHANGED rx, saved' # <<>> => signal'
      PROVE  WakeupInv'
  <2>1. CASE Fitting = Len(Unread)
    <3>1. saved' = << >> /\ isFull' = FALSE /\ token' = (token \/ isFull)
      BY <1>5, <2>1 DEF TryReadAndDecode
    <3> QED BY <1>5, <2>1, <3>1
  <2>2. CASE Fitting # Len(Unread)
    <3>1. UNCHANGED <<saved, isFull, token>>
      BY <1>5, <2>2 DEF TryReadAndDecode
    <3>2. saved' # << >>
      BY <1>0, <2>2, <3>1
    <3> QED BY <1>5, <3>1, <3>2
  <2> QED BY <2>1, <2>2
<1>6. CASE Process
  <2>1. TryReadAndDecode /\ UNCHANGED rx /\ signal' = (saved' # <<>>)
    BY <1>6 DEF Process
  <2> QED BY <1>5, <2>1
<1>7. CASE FrameReady
  <2>1. TryReadAndDecode /\ UNCHANGED rx /\ signal' = (signal \/ saved' # <<>>)
    BY <1>7 DEF FrameReady
  <2> QED BY <1>5, <2>1
<1>8. CASE Handle \/ Timeout \/ WaitForFrame \/ UNCHANGED receiveVars
  <2>1. UNCHANGED rxVars
    BY <1>8 DEF Handle, Timeout, WaitForFrame, receiveVars
  <2> QED BY <2>1 DEF rxVars
<1> QED BY <1>1, <1>2, <1>3, <1>4, <1>6, <1>7, <1>8 DEF ReceiveNext, RxStep, OtStep

\* The transport task and the OpenThread task do not wait for each other, with
\* any frames, chunks and buffers.
THEOREM NoWakeupIsLost == HostSpec => []NoLostWakeup
<1>1. HostInit => WakeupInv
  BY DEF HostInit, ReceiveInit, WakeupInv, NoLostWakeup
<1>2. [HostNext]_hostVars => [ReceiveNext]_receiveVars
  BY HostPartSteps
<1>3. WakeupInv => NoLostWakeup
  BY DEF WakeupInv
<1>4. HostInit => ReceiveInv
  BY ReceiveStarts DEF HostInit
<1> QED BY <1>1, <1>2, <1>3, <1>4, ReceiveStep, WakeupStep, PTL DEF HostSpec

-----------------------------------------------------------------------------
(* SpinelHdlc, sending: the size of what is encoded.                       *)

\* The encoder holds no more than its buffer.
SizeInv ==
  /\ mutex \in Task \cup {NoTask}
  /\ encoder \in Seq([task : Task, part : {"flag", "data", "end"}, size : Int])
  /\ Used <= 2 * MaxFrame

\* An empty encoder uses nothing.
LEMMA NothingUsed == ASSUME encoder = << >> PROVE Used = 0
<1> DEFINE v == [i \in DOMAIN encoder |-> encoder[i].size]
<1>1. v \in [1 .. 0 -> Int]
  BY 1 .. 0 = {}
<1> HIDE DEF v
<1>2. SumFunction(v) = 0
  BY <1>1, SumOfNone
<1> QED BY <1>2 DEF v, Used

\* A part more uses its size more.
LEMMA PartUses ==
  ASSUME NEW t \in Task, NEW name \in {"flag", "data", "end"}, NEW size \in Int,
         encoder \in Seq([task : Task, part : {"flag", "data", "end"}, size : Int]),
         encoder' = Append(encoder, [task |-> t, part |-> name, size |-> size])
  PROVE  /\ encoder' \in Seq([task : Task, part : {"flag", "data", "end"}, size : Int])
         /\ Used \in Int /\ Used' = Used + size
<1> DEFINE T == [task : Task, part : {"flag", "data", "end"}, size : Int]
<1>1. PICK s, u, x, n : /\ s = encoder /\ u = encoder' /\ x = [task |-> t, part |-> name, size |-> size] /\ n = Len(encoder)
  OBVIOUS
<1>2. s \in Seq(T) /\ x \in T /\ n \in Nat /\ n = Len(s) /\ x.size = size
  BY <1>1, LenProperties
<1>3. u = Append(s, x)
  BY <1>1
<1> HIDE DEF T
<1>4. u \in Seq(T) /\ DOMAIN u = 1 .. n + 1 /\ DOMAIN s = 1 .. n /\ u[n + 1] = x /\ \A i \in 1 .. n : u[i] = s[i]
  <2>1. u \in Seq(T) /\ Len(u) = n + 1 /\ u[n + 1] = x /\ \A i \in 1 .. n : u[i] = s[i]
    BY <1>2, <1>3, AppendProperties
  <2> QED BY <1>2, <2>1, LenProperties
<1> DEFINE v == [i \in DOMAIN s |-> s[i].size]
           w == [i \in DOMAIN u |-> u[i].size]
<1>5. v \in [1 .. n -> Int] /\ w \in [1 .. n + 1 -> Int]
  <2>1. \A i \in 1 .. n : s[i] \in T
    BY <1>2, ElementOfSeq
  <2>2. \A i \in 1 .. n + 1 : u[i] \in T
    <3>1. PICK k : k = n + 1 /\ k \in Nat
      BY <1>2
    <3>2. u \in Seq(T) /\ DOMAIN u = 1 .. k
      BY <1>4, <3>1
    <3>3. Len(u) = k
      BY <3>1, <3>2, LenProperties
    <3> QED BY <3>1, <3>2, <3>3, ElementOfSeq
  <2>3. \A y \in T : y.size \in Int
    BY DEF T
  <2> QED BY <1>4, <2>1, <2>2, <2>3
<1>6. (\A i \in 1 .. n : w[i] = v[i]) /\ w[n + 1] = size
  <2>1. n + 1 \in 1 .. n + 1 /\ \A i \in 1 .. n : i \in 1 .. n + 1
    BY <1>2
  <2> QED BY <1>2, <1>4, <2>1
<1> HIDE DEF v, w
<1>7. SumFunction(w) = SumFunction(v) + w[n + 1] /\ SumFunction(v) \in Int
  BY <1>2, <1>5, <1>6, SumOfOneMore
<1>8. Used = SumFunction(v)
  BY <1>1 DEF Used, v
<1>9. Used' = SumFunction(w)
  BY <1>1 DEF Used, w
<1> QED BY <1>1, <1>4, <1>6, <1>7, <1>8, <1>9 DEF T

\* No step of the encoders overruns the buffer.
LEMMA SizeStep == SendTypes /\ SizeInv /\ [SendNext]_sendVars => SizeInv'
<1> USE SendAssumption
<1> SUFFICES ASSUME SendTypes, SizeInv, [SendNext]_sendVars PROVE SizeInv'
  OBVIOUS
<1>0. /\ mutex \in Task \cup {NoTask}
      /\ encoder \in Seq([task : Task, part : {"flag", "data", "end"}, size : Int])
      /\ Used <= 2 * MaxFrame
  BY DEF SizeInv
<1>a. ASSUME UNCHANGED encoder, mutex' \in Task \cup {NoTask} PROVE SizeInv'
  BY <1>0, <1>a DEF SizeInv, Used
<1>1. ASSUME NEW t \in Task, Lock(t) \/ Exit(t) \/ \E f \in Frame : SendFrame(t, f) PROVE SizeInv'
  BY <1>0, <1>a, <1>1 DEF Lock, Exit, SendFrame
<1>2. ASSUME NEW t \in Task, NEW from, NEW name \in {"flag", "data", "end"}, NEW size \in Int, NEW to,
             Part(t, from, name, size, to)
      PROVE  SizeInv'
  <2>1. CASE UNCHANGED encoder
    BY <1>0, <1>2, <1>a, <2>1 DEF Part
  <2>2. CASE EncoderRoom >= size /\ encoder' = Append(encoder, [task |-> t, part |-> name, size |-> size])
    <3>1. /\ encoder' \in Seq([task : Task, part : {"flag", "data", "end"}, size : Int])
          /\ Used \in Int /\ Used' = Used + size
      BY <1>0, <2>2, PartUses
    <3>2. 2 * MaxFrame - Used >= size
      BY <2>2 DEF EncoderRoom
    <3>3. Used' <= 2 * MaxFrame
      <4>1. PICK a, b, m : a = Used /\ b = Used' /\ m = 2 * MaxFrame /\ a \in Int /\ m \in Int /\ b = a + size
        BY <3>1
      <4> QED BY <3>2, <4>1
    <3>4. mutex' = mutex
      BY <1>2 DEF Part
    <3>5. (2 * MaxFrame)' = 2 * MaxFrame
      OBVIOUS
    <3> QED BY <1>0, <3>1, <3>3, <3>4 DEF SizeInv
  <2> QED BY <1>2, <2>1, <2>2 DEF Part
<1>3. ASSUME NEW t \in Task, Encode(t) PROVE SizeInv'
  <2>0. frame[t].len \in Int /\ frame[t].esc \in Int
    BY DEF SendTypes, Frame
  <2>1. Flag \in Int /\ frame[t].len + frame[t].esc \in Int /\ Fcs + Flag \in Int
    BY <2>0
  <2> QED BY <1>2, <1>3, <2>1 DEF Encode
<1>4. ASSUME NEW t \in Task, Write(t) PROVE SizeInv'
  <2>1. encoder' = << >> /\ mutex' = mutex
    BY <1>4 DEF Write
  <2>2. Used' = 0
    <3>1. (encoder = << >>)' => (Used = 0)'
      BY NothingUsed, PTL
    <3> QED BY <2>1, <3>1
  <2>3. 0 <= 2 * MaxFrame
    OBVIOUS
  <2> QED BY <1>0, <2>1, <2>2, <2>3, EmptySeq DEF SizeInv
<1>5. CASE UNCHANGED sendVars
  BY <1>0, <1>5, <1>a DEF sendVars
<1> QED BY <1>1, <1>3, <1>4, <1>5 DEF SendNext, Step

-----------------------------------------------------------------------------
(* RadioCommands: values on their way to the co-processor's radio and back. *)

\* What the radio holds, and what was asked for, by name.
RcRegisters == Int8Registers \cup {"limit", "cca", "eui", "test"}

\* The registers of the commands, and the ranges of what they set.
LEMMA MfgTables ==
  /\ \A id \in DOMAIN MfgGet : MfgGet[id] \in Int8Registers
  /\ \A id \in DOMAIN MfgSet : MfgSet[id].of \in Int8Registers
  /\ \A id \in DOMAIN MfgSet, n \in Int : n \in MfgSet[id].min .. MfgSet[id].max =>
       n \in -128 .. 127 /\ (MfgSet[id].of = "txpower" => n \in -20 .. 63)
  /\ \A r \in Int8Registers : r \notin {"limit", "cca", "eui", "test"}
<1>1. /\ DOMAIN MfgSet = {12, 16, 17, 21, 35, 48, 55, 58}
      /\ MfgSet[12] = [of |-> "channel", min |-> 11, max |-> 26]
      /\ MfgSet[16] = [of |-> "txpower", min |-> -20, max |-> LimitMax \div 2]
      /\ MfgSet[17] = [of |-> "continuous", min |-> 0, max |-> 1]
      /\ MfgSet[21] = [of |-> "size", min |-> 17, max |-> 116]
      /\ MfgSet[35] = [of |-> "duty", min |-> 0, max |-> 1]
      /\ MfgSet[48] = [of |-> "threshold", min |-> -110, max |-> 0]
      /\ MfgSet[55] = [of |-> "edTest", min |-> 0, max |-> 1]
      /\ MfgSet[58] = [of |-> "ackTest", min |-> 0, max |-> 1]
  BY DEF MfgSet
<1>2. Int8Registers = {"channel", "txpower", "continuous", "size", "duty", "threshold", "edTest", "ackTest"}
  <2>1. Int8Registers = {MfgSet[c].of : c \in {12, 16, 17, 21, 35, 48, 55, 58}}
    BY <1>1 DEF Int8Registers
  <2> QED BY <1>1, <2>1
<1>3. \A id \in DOMAIN MfgGet : MfgGet[id] \in Int8Registers
  <2>1. DOMAIN MfgGet = {11, 15, 20, 47}
    BY DEF MfgGet
  <2>2. MfgGet[11] = "channel" /\ MfgGet[15] = "txpower" /\ MfgGet[20] = "size" /\ MfgGet[47] = "threshold"
    BY DEF MfgGet
  <2> QED BY <1>2, <2>1, <2>2
<1>4. \A id \in DOMAIN MfgSet : MfgSet[id].of \in Int8Registers
  BY DEF Int8Registers
<1>5. ASSUME NEW id \in DOMAIN MfgSet, NEW n \in Int, n \in MfgSet[id].min .. MfgSet[id].max
      PROVE  n \in -128 .. 127 /\ (MfgSet[id].of = "txpower" => n \in -20 .. 63)
  <2>1. LimitMax \div 2 \in 0 .. 63
    BY RadioCommandsAssumption
  <2>2. CASE id = 16
    BY <1>1, <1>5, <2>1, <2>2
  <2>3. CASE id \in {12, 17, 21, 35}
    BY <1>1, <1>5, <2>3
  <2>4. CASE id \in {48, 55, 58}
    BY <1>1, <1>5, <2>4
  <2> QED BY <1>1, <2>2, <2>3, <2>4
<1>6. \A r \in Int8Registers : r \notin {"limit", "cca", "eui", "test"}
  BY <1>2
<1> QED BY <1>3, <1>4, <1>5, <1>6

\* What a set command sends is read back by the get command.
LEMMA ByteRoundTrip ==
  ASSUME NEW r, NEW v \in -128 .. 127, r = "txpower" => v \in -20 .. 63
  PROVE  FromByte(r, ToByte(r, v)) = v
<1>1. Uint8(v) = IF v < 0 THEN v + 256 ELSE v
  BY DEF Uint8
<1>2. CASE r = "txpower" /\ HalfDbm
  <2>1. CASE v >= 0
    <3>1. Uint8(2 * Uint8(v)) = 2 * v /\ 2 * v \in 0 .. 126
      BY <1>1, <1>2, <2>1 DEF Uint8
    <3>2. Uint8(2 * v) = 2 * v
      BY <3>1 DEF Uint8
    <3>3. Int8(2 * v) = 2 * v
      BY <3>1, <3>2 DEF Int8
    <3>4. Toward0(2 * v) = v
      BY <3>1 DEF Toward0
    <3> QED BY <1>2, <3>1, <3>3, <3>4 DEF FromByte, ToByte
  <2>2. CASE v < 0
    <3>1. Uint8(2 * Uint8(v)) = 2 * v + 256 /\ 2 * v \in -40 .. -2
      <4>1. v \in -20 .. -1 /\ Uint8(v) = v + 256
        BY <1>1, <1>2, <2>2
      <4>2. (2 * (v + 256)) % 256 = 2 * v + 256
        BY <4>1
      <4> QED BY <4>1, <4>2 DEF Uint8
    <3>2. Uint8(2 * v + 256) = 2 * v + 256
      BY <3>1 DEF Uint8
    <3>3. Int8(2 * v + 256) = 2 * v
      BY <3>1, <3>2 DEF Int8
    <3>4. Toward0(2 * v) = v
      BY <3>1 DEF Toward0
    <3> QED BY <1>2, <3>1, <3>3, <3>4 DEF FromByte, ToByte
  <2> QED BY <2>1, <2>2
<1>3. CASE ~(r = "txpower" /\ HalfDbm)
  <2>1. ToByte(r, v) = Uint8(v)
    BY <1>3 DEF ToByte
  <2>2. Uint8(Uint8(v)) = Uint8(v)
    BY <1>1 DEF Uint8
  <2>3. Int8(Uint8(v)) = v
    BY <1>1, <2>2 DEF Int8
  <2> QED BY <1>3, <2>1, <2>3 DEF FromByte
<1> QED BY <1>2, <1>3

\* What is typed, cut to eight bits with a sign.
LEMMA Int8Range == ASSUME NEW n \in Int PROVE Int8(n) \in -128 .. 127
BY DEF Int8, Uint8

\* An address is the same after both turns.
LEMMA EuiRoundTrip == ASSUME NEW bytes \in [1 .. EuiLen -> EuiBytes] PROVE WriteUint64(ToNumber(bytes)) = bytes
<1>1. ASSUME NEW i \in 1 .. EuiLen PROVE ToNumber(bytes)[EuiLen - i] = bytes[i]
  <2>1. EuiLen - i \in 0 .. EuiLen - 1 /\ EuiLen - (EuiLen - i) = i
    BY RadioCommandsAssumption
  <2> QED BY <2>1 DEF ToNumber
<1> QED BY <1>1 DEF WriteUint64

\* The limit and its flag share a byte.
LEMMA LimitRoundTrip ==
  ASSUME NEW n \in 0 .. 127, NEW clamp \in BOOLEAN
  PROVE  LimitOf(LimitByte(n, clamp)) = [limit |-> n, clamp |-> clamp]
<1>1. CASE clamp
  <2>1. LimitByte(n, clamp) = n + 128
    BY <1>1 DEF LimitByte
  <2>2. (n + 128) % 128 = n /\ n + 128 >= 128
    OBVIOUS
  <2> QED BY <1>1, <2>1, <2>2 DEF LimitOf
<1>2. CASE ~clamp
  <2>1. LimitByte(n, clamp) = n
    BY <1>2 DEF LimitByte
  <2>2. n % 128 = n /\ ~(n >= 128)
    OBVIOUS
  <2> QED BY <1>2, <2>1, <2>2 DEF LimitOf
<1> QED BY <1>1, <1>2

\* Each register has what was asked for.
RcInv ==
  /\ DOMAIN reg = RcRegisters /\ DOMAIN asked = RcRegisters
  /\ \A r \in Int8Registers : FromByte(r, reg[r]) = asked[r]
  /\ LimitOf(reg["limit"]) = asked["limit"] /\ reg["cca"] = asked["cca"] /\ reg["eui"] = asked["eui"]

\* One register set, as it was asked for.
LEMMA RegisterSet ==
  ASSUME RcInv, NEW key \in RcRegisters, NEW value, NEW wanted,
         reg' = [reg EXCEPT ![key] = value], asked' = [asked EXCEPT ![key] = wanted],
         key \in Int8Registers => FromByte(key, value) = wanted,
         key = "limit" => LimitOf(value) = wanted, key \in {"cca", "eui"} => value = wanted
  PROVE  RcInv'
<1>1. DOMAIN reg' = RcRegisters /\ DOMAIN asked' = RcRegisters
  BY DEF RcInv
<1>2. \A r \in RcRegisters : /\ reg'[r] = IF r = key THEN value ELSE reg[r]
                             /\ asked'[r] = IF r = key THEN wanted ELSE asked[r]
  BY DEF RcInv
<1>3. \A r \in Int8Registers : FromByte(r, reg'[r]) = asked'[r]
  <2> TAKE r \in Int8Registers
  <2>1. r \in RcRegisters
    BY DEF RcRegisters
  <2>2. CASE r = key
    BY <1>2, <2>1, <2>2
  <2>3. CASE r # key
    BY <1>2, <2>1, <2>3 DEF RcInv
  <2> QED BY <2>2, <2>3
<1>4. LimitOf(reg'["limit"]) = asked'["limit"]
  <2>1. "limit" \in RcRegisters
    BY DEF RcRegisters
  <2> QED BY <1>2, <2>1 DEF RcInv
<1>5. reg'["cca"] = asked'["cca"] /\ reg'["eui"] = asked'["eui"]
  <2>1. "cca" \in RcRegisters /\ "eui" \in RcRegisters
    BY DEF RcRegisters
  <2> QED BY <1>2, <2>1 DEF RcInv
<1> QED BY <1>1, <1>3, <1>4, <1>5 DEF RcInv

\* So has the co-processor when it starts.
LEMMA RegistersStart == ASSUME reg = Defaults, asked = Told PROVE RcInv
<1>1. "limit" \in RcRegisters /\ "cca" \in RcRegisters /\ "eui" \in RcRegisters /\ Int8Registers \subseteq RcRegisters
  BY DEF RcRegisters
<1>2. DOMAIN Defaults = RcRegisters /\ Defaults["limit"] = 128 + LimitMax
  BY <1>1 DEF Defaults, RcRegisters
<1>3. \A r \in Int8Registers : Defaults[r] = 0
  BY MfgTables DEF Defaults
<1>4. /\ DOMAIN Told = RcRegisters /\ Told["limit"] = [limit |-> LimitMax, clamp |-> TRUE]
      /\ \A r \in RcRegisters : r # "limit" => Told[r] = Defaults[r]
  BY <1>1, <1>2 DEF Told
<1>5. \A r \in Int8Registers : FromByte(r, Defaults[r]) = Told[r]
  <2> TAKE r \in Int8Registers
  <2>1. Told[r] = 0 /\ Defaults[r] = 0
    BY <1>1, <1>3, <1>4, MfgTables
  <2>2. Uint8(0) = 0 /\ Int8(0) = 0 /\ Toward0(0) = 0
    BY DEF Uint8, Int8, Toward0
  <2>3. FromByte(r, 0) = 0
    BY <2>2 DEF FromByte
  <2> QED BY <2>1, <2>3
<1>6. LimitOf(Defaults["limit"]) = Told["limit"]
  <2>1. (128 + LimitMax) % 128 = LimitMax /\ 128 + LimitMax >= 128
    BY RadioCommandsAssumption
  <2> QED BY <1>2, <1>4, <2>1 DEF LimitOf
<1> QED BY <1>1, <1>2, <1>4, <1>5, <1>6 DEF RcInv

\* Every command keeps it, executed or not.
LEMMA CommandStep == RcInv /\ [RcNext]_rcVars => RcInv'
<1> SUFFICES ASSUME RcInv, [RcNext]_rcVars PROVE RcInv'
  OBVIOUS
<1>a. ASSUME UNCHANGED <<reg, asked>> PROVE RcInv'
  BY <1>a DEF RcInv
<1>b. ASSUME Restarts PROVE RcInv'
  <2>1. (reg = Defaults /\ asked = Told)' => RcInv'
    BY RegistersStart, PTL
  <2> QED BY <1>b, <2>1 DEF Restarts
<1>1. ASSUME NEW id \in DOMAIN MfgSet, NEW n \in Numbers, ProcessMfgSetInt8(id, n) PROVE RcInv'
  <2>1. CASE Unexecuted
    BY <1>a, <2>1 DEF Unexecuted
  <2>2. ASSUME ~Unexecuted PROVE RcInv'
    <3>1. PICK r, v : /\ r = MfgSet[id].of /\ v = Int8(n) /\ v \in MfgSet[id].min .. MfgSet[id].max
                      /\ reg' = [reg EXCEPT ![r] = ToByte(r, v)] /\ asked' = [asked EXCEPT ![r] = v]
      BY <1>1, <2>2 DEF ProcessMfgSetInt8, otPlatRadioMfgCommand, VendorCommandHandler
    <3>2. v \in -128 .. 127 /\ (r = "txpower" => v \in -20 .. 63) /\ r \in Int8Registers
      <4>1. v \in -128 .. 127
        BY <3>1, Int8Range, RadioCommandsAssumption
      <4> QED BY <3>1, <4>1, MfgTables
    <3>3. FromByte(r, ToByte(r, v)) = v
      BY <3>2, ByteRoundTrip
    <3>4. r \in RcRegisters /\ r \notin {"limit", "cca", "eui"}
      BY <3>2, MfgTables DEF RcRegisters
    <3> QED BY <3>1, <3>3, <3>4, RegisterSet
  <2> QED BY <2>1, <2>2
<1>2. ASSUME NEW id \in DOMAIN MfgSet, NEW n \in Numbers, MfgDirect(id, n) PROVE RcInv'
  <2>1. CASE Unexecuted
    BY <1>a, <2>1 DEF Unexecuted
  <2>2. ASSUME ~Unexecuted PROVE RcInv'
    <3>1. PICK r, v, w : /\ r = MfgSet[id].of /\ v = Uint8(n) /\ w = FromByte(r, v)
                         /\ reg' = [reg EXCEPT ![r] = v] /\ asked' = [asked EXCEPT ![r] = w]
      BY <1>2, <2>2 DEF MfgDirect, otPlatRadioMfgCommand, VendorCommandHandler
    <3>2. r \in RcRegisters /\ r \notin {"limit", "cca", "eui"}
      BY <3>1, MfgTables DEF RcRegisters
    <3> QED BY <3>1, <3>2, RegisterSet
  <2> QED BY <2>1, <2>2
<1>3. ASSUME NEW id, NEW a, NEW b, MfgTest(id, a, b) PROVE RcInv'
  <2>1. CASE Unexecuted
    BY <1>a, <2>1 DEF Unexecuted
  <2>2. ASSUME ~Unexecuted PROVE RcInv'
    <3>1. PICK r, v : /\ r = "test" /\ v = <<id, a, b>>
                      /\ reg' = [reg EXCEPT ![r] = v] /\ asked' = [asked EXCEPT ![r] = v]
      BY <1>3, <2>2 DEF MfgTest, otPlatRadioMfgCommand, VendorCommandHandler
    <3>2. r \in RcRegisters /\ r \notin {"limit", "cca", "eui"} /\ r \notin Int8Registers
      BY <3>1, MfgTables DEF RcRegisters
    <3> QED BY <3>1, <3>2, RegisterSet
  <2> QED BY <2>1, <2>2
<1>4. CASE ProcessMfgCommands
  BY <1>a, <1>b, <1>1, <1>2, <1>3, <1>4 DEF ProcessMfgCommands, MfgCrash, Unexecuted
<1>5. CASE ProcessTxPowerLimit
  <2>1. PICK n \in Numbers, clamp \in BOOLEAN :
          /\ Uint8(n) \in 1 .. LimitMax
          /\ otPlatRadioSendSetProp("limit", LimitByte(Uint8(n), clamp), [limit |-> Uint8(n), clamp |-> clamp])
    BY <1>5 DEF ProcessTxPowerLimit
  <2>2. PICK r, v, w : r = "limit" /\ v = LimitByte(Uint8(n), clamp) /\ w = [limit |-> Uint8(n), clamp |-> clamp]
    OBVIOUS
  <2>3. LimitOf(v) = w
    <3>0. LimitMax \in 1 .. 127
      BY RadioCommandsAssumption
    <3>1. PICK m \in 0 .. 127 : m = Uint8(n)
      BY <2>1, <3>0
    <3> QED BY <2>2, <3>1, LimitRoundTrip
  <2>4. r \in RcRegisters /\ r \notin {"cca", "eui"} /\ r \notin Int8Registers
    BY <2>2, MfgTables DEF RcRegisters
  <2>5. CASE Unexecuted
    BY <1>a, <2>5 DEF Unexecuted
  <2>6. CASE reg' = [reg EXCEPT ![r] = v] /\ asked' = [asked EXCEPT ![r] = w]
    BY <2>3, <2>4, <2>6, RegisterSet
  <2>7. Unexecuted \/ (reg' = [reg EXCEPT ![r] = v] /\ asked' = [asked EXCEPT ![r] = w])
    BY <2>1, <2>2 DEF otPlatRadioSendSetProp, VendorSetPropertyHandler
  <2> QED BY <2>5, <2>6, <2>7
<1>6. CASE ProcessGetSetCcaCfg
  <2>1. PICK r, v : r = "cca" /\ otPlatRadioSendSetProp(r, v, v)
    BY <1>6 DEF ProcessGetSetCcaCfg
  <2>4. r \in RcRegisters /\ r \notin Int8Registers
    BY <2>1, MfgTables DEF RcRegisters
  <2>5. CASE Unexecuted
    BY <1>a, <2>5 DEF Unexecuted
  <2>6. CASE reg' = [reg EXCEPT ![r] = v] /\ asked' = [asked EXCEPT ![r] = v]
    BY <2>1, <2>4, <2>6, RegisterSet
  <2>7. Unexecuted \/ (reg' = [reg EXCEPT ![r] = v] /\ asked' = [asked EXCEPT ![r] = v])
    BY <2>1 DEF otPlatRadioSendSetProp, VendorSetPropertyHandler
  <2> QED BY <2>5, <2>6, <2>7
<1>7. CASE ProcessSetEui64
  <2>1. PICK bytes \in [1 .. EuiLen -> EuiBytes] : otPlatRadioSendSetProp("eui", ToNumber(bytes), bytes)
    BY <1>7 DEF ProcessSetEui64
  <2>2. PICK r : r = "eui"
    OBVIOUS
  <2>4. r \in RcRegisters /\ r \notin Int8Registers
    BY <2>2, MfgTables DEF RcRegisters
  <2>5. CASE Unexecuted
    BY <1>a, <2>5 DEF Unexecuted
  <2>6. CASE reg' = [reg EXCEPT ![r] = bytes] /\ asked' = [asked EXCEPT ![r] = bytes]
    BY <2>2, <2>4, <2>6, RegisterSet
  <2>7. Unexecuted \/ (reg' = [reg EXCEPT ![r] = bytes] /\ asked' = [asked EXCEPT ![r] = bytes])
    BY <2>1, <2>2, EuiRoundTrip DEF otPlatRadioSendSetProp, VendorSetPropertyHandler
  <2> QED BY <2>5, <2>6, <2>7
<1>8. CASE ProcessIRCmd
  BY <1>b, <1>8 DEF ProcessIRCmd
<1>9. CASE RcRests \/ UNCHANGED rcVars
  BY <1>a, <1>9 DEF RcRests, rcVars
<1> QED BY <1>4, <1>5, <1>6, <1>7, <1>8, <1>9 DEF RcNext

\* What is read is what was set.
LEMMA ShownIsTrue == RcInv => ShownTrue
<1> SUFFICES ASSUME RcInv PROVE ShownTrue
  OBVIOUS
<1>1. \A id \in DOMAIN MfgGet : ProcessMfgGetInt8(id) = asked[MfgGet[id]]
  BY MfgTables DEF RcInv, ProcessMfgGetInt8
<1>2. LimitOf(reg["limit"]) = asked["limit"] /\ reg["cca"] = asked["cca"] /\ reg["eui"] = asked["eui"]
  BY DEF RcInv
<1> QED BY <1>1, <1>2 DEF ShownTrue, VendorGetPropertyHandler

\* Field f begins at position a of payload p.
FieldAt(p, a, f) ==
  /\ p \in Seq(Nat) /\ f \in Seq(Nat) /\ a \in 1 .. Len(p) /\ a + Len(f) <= Len(p)
  /\ p[a] = Len(f) /\ \A j \in 1 .. Len(f) : p[a + j] = f[j]

\* All fields of s are where they were in p.
FieldsKept(s, p) == \A a \in Nat, g \in Seq(Nat) : FieldAt(s, a, g) => FieldAt(p, a, g)

\* A field just added, and one that was there.
LEMMA FieldAdded ==
  ASSUME NEW s \in Seq(Nat), NEW f \in Seq(Nat), NEW p, p = s \o (<<Len(f)>> \o f)
  PROVE  /\ FieldAt(p, Len(s) + 1, f) /\ p \in Seq(Nat) /\ Len(p) = Len(s) + 1 + Len(f)
         /\ FieldsKept(s, p)
<1>1. PICK h, n, m : h = <<Len(f)>> /\ n = Len(s) /\ m = Len(f) /\ n \in Nat /\ m \in Nat
  BY LenProperties
<1>2. h \in Seq(Nat) /\ Len(h) = 1 /\ h[1] = m
  BY <1>1
<1>3. PICK u : u = h \o f
  OBVIOUS
<1>4. u \in Seq(Nat) /\ Len(u) = 1 + m /\ u[1] = m /\ \A j \in 1 .. m : u[1 + j] = f[j]
  <2>1. /\ u \in Seq(Nat) /\ Len(u) = Len(h) + Len(f) /\ \A i \in 1 .. Len(h) : u[i] = h[i]
        /\ \A i \in 1 .. Len(f) : u[Len(h) + i] = f[i]
    BY <1>2, <1>3, JoinedAt
  <2> QED BY <1>1, <1>2, <2>1
<1>5. /\ p \in Seq(Nat) /\ Len(p) = n + (1 + m) /\ \A i \in 1 .. n : p[i] = s[i]
      /\ \A i \in 1 .. 1 + m : p[n + i] = u[i]
  <2>1. /\ s \o u \in Seq(Nat) /\ Len(s \o u) = Len(s) + Len(u) /\ \A i \in 1 .. Len(s) : (s \o u)[i] = s[i]
        /\ \A i \in 1 .. Len(u) : (s \o u)[Len(s) + i] = u[i]
    BY <1>4, JoinedAt
  <2>2. p = s \o u
    BY <1>1, <1>3
  <2> QED BY <1>1, <1>4, <2>1, <2>2
<1>6. FieldAt(p, n + 1, f)
  <2>1. n + 1 \in 1 .. Len(p) /\ (n + 1) + m <= Len(p)
    BY <1>1, <1>5
  <2>2. p[n + 1] = m
    BY <1>1, <1>4, <1>5
  <2>3. ASSUME NEW j \in 1 .. m PROVE p[(n + 1) + j] = f[j]
    <3>1. 1 + j \in 1 .. 1 + m /\ (n + 1) + j = n + (1 + j)
      BY <1>1
    <3>2. p[n + (1 + j)] = u[1 + j]
      BY <1>5, <3>1
    <3> QED BY <1>4, <3>1, <3>2
  <2> QED BY <1>1, <1>5, <2>1, <2>2, <2>3 DEF FieldAt
<1>7. ASSUME NEW a \in Nat, NEW g \in Seq(Nat), FieldAt(s, a, g) PROVE FieldAt(p, a, g)
  <2>0. Len(g) \in Nat
    BY LenProperties
  <2>1. a \in 1 .. n /\ a + Len(g) <= n /\ s[a] = Len(g) /\ \A j \in 1 .. Len(g) : s[a + j] = g[j]
    BY <1>1, <1>7 DEF FieldAt
  <2>2. \A j \in 1 .. Len(g) : a + j \in 1 .. n
    <3>1. PICK l : l = Len(g) /\ l \in Nat /\ a + l <= n /\ a \in 1 .. n
      BY <2>0, <2>1
    <3>2. \A j \in 1 .. l : a + j \in 1 .. n
      BY <1>1, <3>1
    <3> QED BY <3>1, <3>2
  <2>3. p[a] = s[a] /\ \A j \in 1 .. Len(g) : p[a + j] = s[a + j]
    BY <1>5, <2>1, <2>2
  <2>4. a \in 1 .. Len(p) /\ a + Len(g) <= Len(p)
    BY <1>1, <1>5, <2>0, <2>1
  <2>5. p[a] = Len(g) /\ \A j \in 1 .. Len(g) : p[a + j] = g[j]
    BY <2>1, <2>3
  <2>6. p \in Seq(Nat) /\ g \in Seq(Nat)
    BY <1>5
  <2>7. a \in 1 .. Len(p) /\ a + Len(g) <= Len(p) /\ p[a] = Len(g)
    BY <2>4, <2>5
  <2>8. \A j \in 1 .. Len(g) : p[a + j] = g[j]
    BY <2>5
  <2> QED BY <2>6, <2>7, <2>8, Zenon DEF FieldAt
<1>8. FieldsKept(s, p)
  BY <1>7 DEF FieldsKept
<1>9. n + (1 + m) = n + 1 + m
  BY <1>1
<1> QED BY <1>1, <1>5, <1>6, <1>8, <1>9

\* The fields f of a payload p begin where the lengths before them say.
LEMMA UnpackedIs ==
  ASSUME NEW n \in Nat, NEW p, NEW f, DOMAIN f = 1 .. n, f = [i \in 1 .. n |-> f[i]],
         NEW q \in [1 .. n -> Nat], n > 0 => q[1] = 5,
         \A i \in 1 .. n : i # 1 => q[i] = q[i - 1] + Len(f[i - 1]) + 1,
         \A i \in 1 .. n : FieldAt(p, q[i], f[i])
  PROVE  Unpacked(p, n) = f
<1> DEFINE byte(i) == IF i \in DOMAIN p THEN p[i] ELSE 0
           E(at) == [i \in 1 .. n |-> IF i = 1 THEN 5 ELSE at[i - 1] + byte(at[i - 1]) + 1]
           g == CHOOSE at : at = E(at)
<1>1. \A i \in 1 .. n : /\ byte(q[i]) = Len(f[i]) /\ q[i] \in DOMAIN p
                        /\ \A j \in 1 .. Len(f[i]) : byte(q[i] + j) = f[i][j]
  <2> TAKE i \in 1 .. n
  <2>1. FieldAt(p, q[i], f[i])
    OBVIOUS
  <2>2. PICK a, h : a = q[i] /\ h = f[i] /\ FieldAt(p, a, h) /\ a \in Nat
    BY <2>1
  <2>3. /\ p \in Seq(Nat) /\ h \in Seq(Nat) /\ a \in 1 .. Len(p) /\ a + Len(h) <= Len(p)
        /\ p[a] = Len(h) /\ \A j \in 1 .. Len(h) : p[a + j] = h[j]
    BY <2>2 DEF FieldAt
  <2>4. DOMAIN p = 1 .. Len(p) /\ Len(h) \in Nat /\ Len(p) \in Nat
    BY <2>3, LenProperties
  <2>5. \A j \in 1 .. Len(h) : a + j \in DOMAIN p
    <3>1. PICK l, m : l = Len(h) /\ m = Len(p) /\ l \in Nat /\ m \in Nat /\ a + l <= m /\ a \in 1 .. m
      BY <2>3, <2>4
    <3>2. \A j \in 1 .. l : a + j \in 1 .. m
      BY <3>1
    <3> QED BY <2>4, <3>1, <3>2
  <2> QED BY <2>2, <2>3, <2>4, <2>5
<1>2. Unpacked(p, n) = [i \in 1 .. n |-> [j \in 1 .. byte(g[i]) |-> byte(g[i] + j)]]
  BY DEF Unpacked
<1> HIDE DEF byte
<1>3. q = E(q)
  <2>1. ASSUME NEW i \in 1 .. n PROVE q[i] = E(q)[i]
    <3>1. CASE i = 1
      BY <3>1
    <3>2. CASE i # 1
      <4>1. i - 1 \in 1 .. n
        BY <3>2
      <4> QED BY <1>1, <3>2, <4>1
    <3> QED BY <3>1, <3>2
  <2> QED BY <2>1
<1>4. g = E(g)
  BY <1>3
<1> HIDE DEF g
<1>5. \A i \in 1 .. n : g[i] = q[i]
  <2> DEFINE H == {i \in Nat : i \in 1 .. n => g[i] = q[i]}
  <2>1. 0 \in H
    OBVIOUS
  <2>2. ASSUME NEW i \in Nat, i \in H PROVE i + 1 \in H
    <3> SUFFICES ASSUME i + 1 \in 1 .. n PROVE g[i + 1] = q[i + 1]
      OBVIOUS
    <3>1. g[i + 1] = E(g)[i + 1] /\ q[i + 1] = E(q)[i + 1]
      BY <1>3, <1>4
    <3>2. CASE i = 0
      BY <3>1, <3>2
    <3>3. CASE i # 0
      <4>1. i \in 1 .. n /\ (i + 1) - 1 = i /\ i + 1 # 1
        BY <3>3
      <4>2. g[i] = q[i]
        BY <2>2, <4>1
      <4>3. E(g)[i + 1] = g[i] + byte(g[i]) + 1 /\ E(q)[i + 1] = q[i] + byte(q[i]) + 1
        BY <4>1
      <4> QED BY <3>1, <4>2, <4>3
    <3> QED BY <3>2, <3>3
  <2>3. \A i \in Nat : i \in H
    <3> HIDE DEF H
    <3> QED BY <2>1, <2>2, SetInduction
  <2> QED BY <2>3
<1>6. ASSUME NEW i \in 1 .. n PROVE [j \in 1 .. byte(g[i]) |-> byte(g[i] + j)] = f[i]
  <2>1. FieldAt(p, q[i], f[i])
    OBVIOUS
  <2>2. PICK a, h : a = q[i] /\ h = f[i] /\ h \in Seq(Nat)
    BY <2>1 DEF FieldAt
  <2>3. byte(a) = Len(h) /\ \A j \in 1 .. Len(h) : byte(a + j) = h[j]
    BY <1>1, <2>2
  <2>4. [j \in 1 .. Len(h) |-> byte(a + j)] = h
    BY <2>2, <2>3, IsASeq, LenProperties
  <2> QED BY <1>5, <2>2, <2>3, <2>4
<1>7. [i \in 1 .. n |-> [j \in 1 .. byte(g[i]) |-> byte(g[i] + j)]] = [i \in 1 .. n |-> f[i]]
  BY <1>6
<1> QED BY <1>2, <1>7

\* What an argument says is a sequence of bytes.
LEMMA BytesAreNumbers == ASSUME NEW arg \in Args, NEW text \in BOOLEAN PROVE Bytes(arg, text) \in Seq(Nat)
<1>1. PICK c : c = arg.chars /\ c \in Seq(Nat)
  BY RadioCommandsAssumption
<1>2. Len(c) \in Nat /\ \A i \in 1 .. Len(c) : c[i] \in Nat
  BY <1>1, LenProperties, ElementOfSeq
<1>3. CASE arg.hex
  <2>1. PICK m : m = Len(c) \div 2 /\ m \in Nat /\ 2 * m <= Len(c)
    BY <1>2
  <2>2. \A i \in 1 .. m : 16 * c[2 * i - 1] + c[2 * i] \in Nat
    <3> TAKE i \in 1 .. m
    <3>1. 2 * i - 1 \in 1 .. Len(c) /\ 2 * i \in 1 .. Len(c)
      BY <1>2, <2>1
    <3>2. c[2 * i - 1] \in Nat /\ c[2 * i] \in Nat
      BY <1>2, <3>1
    <3> QED BY <3>2
  <2>3. [i \in 1 .. m |-> 16 * c[2 * i - 1] + c[2 * i]] \in Seq(Nat)
    BY <2>1, <2>2
  <2> QED BY <1>1, <1>3, <2>1, <2>3 DEF Bytes
<1>4. CASE ~arg.hex
  <2>1. PICK m : m = (IF text THEN 48 ELSE 0) /\ m \in Nat
    OBVIOUS
  <2>2. [i \in 1 .. Len(c) |-> c[i] + m] \in Seq(Nat)
    BY <1>2, <2>1
  <2> QED BY <1>1, <1>4, <2>1, <2>2 DEF Bytes
<1> QED BY <1>3, <1>4

\* What is unpacked of p, and of r, are these fields.
ReadsBack(p, r, a, b, c, d) == Unpacked(p, 3) = <<a, b, c>> /\ Unpacked(r, 4) = <<a, b, c, d>>

\* Three fields after a head of four bytes, and a fourth, are read back.
LEMMA FieldsReadBack ==
  ASSUME NEW h \in Seq(Nat), Len(h) = 4, NEW a \in Seq(Nat), NEW b \in Seq(Nat), NEW c \in Seq(Nat), NEW d \in Seq(Nat),
         NEW p, NEW r, p = ((h \o (<<Len(a)>> \o a)) \o (<<Len(b)>> \o b)) \o (<<Len(c)>> \o c),
         r = p \o (<<Len(d)>> \o d)
  PROVE  ReadsBack(p, r, a, b, c, d)
<1>1. PICK s, t : s = h \o (<<Len(a)>> \o a) /\ t = s \o (<<Len(b)>> \o b)
  OBVIOUS
<1>2. PICK k, l, m : k = Len(a) /\ l = Len(b) /\ m = Len(c) /\ k \in Nat /\ l \in Nat /\ m \in Nat
  BY LenProperties
<1>3. FieldAt(s, 5, a) /\ s \in Seq(Nat) /\ Len(s) = 5 + k
  <2>1. FieldAt(s, Len(h) + 1, a) /\ s \in Seq(Nat) /\ Len(s) = Len(h) + 1 + Len(a)
    BY <1>1, FieldAdded
  <2>2. Len(h) + 1 = 5
    OBVIOUS
  <2> QED BY <1>2, <2>1, <2>2
<1>4. FieldAt(t, 5, a) /\ FieldAt(t, 6 + k, b) /\ t \in Seq(Nat) /\ Len(t) = 6 + k + l
  <2>1. /\ FieldAt(t, Len(s) + 1, b) /\ t \in Seq(Nat) /\ Len(t) = Len(s) + 1 + Len(b)
        /\ FieldsKept(s, t)
    <3>1. s \in Seq(Nat) /\ t = s \o (<<Len(b)>> \o b)
      BY <1>1, <1>3
    <3> QED BY <3>1, FieldAdded
  <2>2. Len(s) + 1 = 6 + k /\ Len(s) + 1 + Len(b) = 6 + k + l
    BY <1>2, <1>3
  <2>3. 5 \in Nat
    OBVIOUS
  <2> QED BY <1>3, <2>1, <2>2, <2>3 DEF FieldsKept
<1>5. /\ FieldAt(p, 5, a) /\ FieldAt(p, 6 + k, b) /\ FieldAt(p, 7 + k + l, c)
      /\ p \in Seq(Nat) /\ Len(p) = 7 + k + l + m
  <2>1. /\ FieldAt(p, Len(t) + 1, c) /\ p \in Seq(Nat) /\ Len(p) = Len(t) + 1 + Len(c)
        /\ FieldsKept(t, p)
    <3>1. p = t \o (<<Len(c)>> \o c)
      BY <1>1
    <3> QED BY <1>4, <3>1, FieldAdded
  <2>2. Len(t) + 1 = 7 + k + l /\ Len(t) + 1 + Len(c) = 7 + k + l + m
    BY <1>2, <1>4
  <2>3. 5 \in Nat /\ 6 + k \in Nat
    BY <1>2
  <2> QED BY <1>4, <2>1, <2>2, <2>3 DEF FieldsKept
<1>6. FieldAt(r, 5, a) /\ FieldAt(r, 6 + k, b) /\ FieldAt(r, 7 + k + l, c) /\ FieldAt(r, 8 + k + l + m, d)
  <2>0. p \in Seq(Nat) /\ Len(p) = 7 + k + l + m
    BY <1>5
  <2>1. FieldAt(r, Len(p) + 1, d) /\ FieldsKept(p, r)
    BY <2>0, FieldAdded
  <2>2. Len(p) + 1 = 8 + k + l + m
    <3>1. PICK z : z = Len(p) /\ z = 7 + k + l + m
      BY <2>0
    <3>2. k \in Nat /\ l \in Nat /\ m \in Nat /\ z = 7 + k + l + m
      BY <1>2, <3>1
    <3>3. z + 1 = 8 + k + l + m
      BY <3>2
    <3> QED BY <3>1, <3>3
  <2>3. 5 \in Nat /\ 6 + k \in Nat /\ 7 + k + l \in Nat
    BY <1>2
  <2> QED BY <1>5, <2>1, <2>2, <2>3 DEF FieldsKept
<1>7. Unpacked(p, 3) = <<a, b, c>>
  <2>1. PICK n, f, q : n = 3 /\ f = <<a, b, c>> /\ q = <<5, 6 + k, 7 + k + l>>
    OBVIOUS
  <2>6. n \in Nat /\ DOMAIN f = 1 .. n /\ f = [i \in 1 .. n |-> f[i]]
    BY <2>1
  <2>7. DOMAIN q = 1 .. n /\ q = [i \in 1 .. n |-> q[i]] /\ q[1] = 5
    BY <2>1
  <2>8. \A i \in 1 .. n : q[i] \in Nat
    <3>1. q[1] \in Nat
      BY <1>2, <2>1
    <3>2. q[2] \in Nat
      BY <1>2, <2>1
    <3>3. q[3] \in Nat
      BY <1>2, <2>1
    <3>5. \A i \in 1 .. n : i \in {1, 2, 3}
      BY <2>1
    <3> QED BY <3>1, <3>2, <3>3, <3>5
  <2>2. n \in Nat /\ DOMAIN f = 1 .. n /\ f = [i \in 1 .. n |-> f[i]] /\ q \in [1 .. n -> Nat] /\ (n > 0 => q[1] = 5)
    BY <2>6, <2>7, <2>8
  <2>3. \A i \in 1 .. n : i # 1 => q[i] = q[i - 1] + Len(f[i - 1]) + 1
    <3> SUFFICES ASSUME NEW i \in 1 .. n, i # 1 PROVE q[i] = q[i - 1] + Len(f[i - 1]) + 1
      OBVIOUS
    <3>1. CASE i = 2
      <4>1. i - 1 = 1
        BY <3>1
      <4> QED BY <1>2, <2>1, <3>1, <4>1
    <3>2. CASE i = 3
      <4>1. i - 1 = 2
        BY <3>2
      <4> QED BY <1>2, <2>1, <3>2, <4>1
    <3> QED BY <2>1, <3>1, <3>2
  <2>4. \A i \in 1 .. n : FieldAt(p, q[i], f[i])
    <3> SUFFICES ASSUME NEW i \in 1 .. n PROVE FieldAt(p, q[i], f[i])
      OBVIOUS
    <3>1. CASE i = 1
      BY <1>5, <2>1, <3>1
    <3>2. CASE i = 2
      BY <1>5, <2>1, <3>2
    <3>3. CASE i = 3
      BY <1>5, <2>1, <3>3
    <3>4. i = 1 \/ i = 2 \/ i = 3
      BY <2>1
    <3> QED BY <3>1, <3>2, <3>3, <3>4
  <2>5. Unpacked(p, n) = f
    BY <2>2, <2>3, <2>4, UnpackedIs
  <2> QED BY <2>1, <2>5
<1>8. Unpacked(r, 4) = <<a, b, c, d>>
  <2>1. PICK n, f, q : n = 4 /\ f = <<a, b, c, d>> /\ q = <<5, 6 + k, 7 + k + l, 8 + k + l + m>>
    OBVIOUS
  <2>6. n \in Nat /\ DOMAIN f = 1 .. n /\ f = [i \in 1 .. n |-> f[i]]
    BY <2>1
  <2>7. DOMAIN q = 1 .. n /\ q = [i \in 1 .. n |-> q[i]] /\ q[1] = 5
    BY <2>1
  <2>8. \A i \in 1 .. n : q[i] \in Nat
    <3>1. q[1] \in Nat
      BY <1>2, <2>1
    <3>2. q[2] \in Nat
      BY <1>2, <2>1
    <3>3. q[3] \in Nat
      BY <1>2, <2>1
    <3>4. q[4] \in Nat
      BY <1>2, <2>1
    <3>5. \A i \in 1 .. n : i \in {1, 2, 3, 4}
      BY <2>1
    <3> QED BY <3>1, <3>2, <3>3, <3>4, <3>5
  <2>2. n \in Nat /\ DOMAIN f = 1 .. n /\ f = [i \in 1 .. n |-> f[i]] /\ q \in [1 .. n -> Nat] /\ (n > 0 => q[1] = 5)
    BY <2>6, <2>7, <2>8
  <2>3. \A i \in 1 .. n : i # 1 => q[i] = q[i - 1] + Len(f[i - 1]) + 1
    <3> SUFFICES ASSUME NEW i \in 1 .. n, i # 1 PROVE q[i] = q[i - 1] + Len(f[i - 1]) + 1
      OBVIOUS
    <3>1. CASE i = 2
      <4>1. i - 1 = 1
        BY <3>1
      <4> QED BY <1>2, <2>1, <3>1, <4>1
    <3>2. CASE i = 3
      <4>1. i - 1 = 2
        BY <3>2
      <4> QED BY <1>2, <2>1, <3>2, <4>1
    <3>3. CASE i = 4
      <4>1. i - 1 = 3
        BY <3>3
      <4> QED BY <1>2, <2>1, <3>3, <4>1
    <3> QED BY <2>1, <3>1, <3>2, <3>3
  <2>4. \A i \in 1 .. n : FieldAt(r, q[i], f[i])
    <3> SUFFICES ASSUME NEW i \in 1 .. n PROVE FieldAt(r, q[i], f[i])
      OBVIOUS
    <3>1. CASE i = 1
      BY <1>6, <2>1, <3>1
    <3>2. CASE i = 2
      BY <1>6, <2>1, <3>2
    <3>3. CASE i = 3
      BY <1>6, <2>1, <3>3
    <3>4. CASE i = 4
      BY <1>6, <2>1, <3>4
    <3>5. i = 1 \/ i = 2 \/ i = 3 \/ i = 4
      BY <2>1
    <3> QED BY <3>1, <3>2, <3>3, <3>4, <3>5
  <2>5. Unpacked(r, n) = f
    BY <2>2, <2>3, <2>4, UnpackedIs
  <2> QED BY <2>1, <2>5
<1> QED BY <1>7, <1>8 DEF ReadsBack

\* Whatever is typed for encrypt and decrypt arrives.
LEMMA CryptoArrives == CryptoExact
<1> SUFFICES ASSUME NEW key \in Args, NEW nonce \in Args, NEW tag \in Args, NEW text \in Args
             PROVE  LET typed == <<Bytes(key, FALSE), Bytes(nonce, FALSE), Bytes(tag, FALSE), Bytes(text, TRUE)>>
                    IN  /\ Unpacked(ProcessAES128CCMEncrypt(key, nonce, text), 3) = <<typed[1], typed[2], typed[4]>>
                        /\ ProcessAES128CCMDecrypt(key, nonce, tag, text) \in {typed, <<>>}
                        /\ key.hex => mfgGenericCommand(55, key) = <<6, 255, 1, 0, 55, Len(typed[1])>> \o typed[1]
  BY DEF CryptoExact
<1>1. PICK k, n, t, x : k = Bytes(key, FALSE) /\ n = Bytes(nonce, FALSE) /\ t = Bytes(tag, FALSE) /\ x = Bytes(text, TRUE)
  OBVIOUS
<1>2. k \in Seq(Nat) /\ n \in Seq(Nat) /\ t \in Seq(Nat) /\ x \in Seq(Nat)
  BY <1>1, BytesAreNumbers
<1>3. PICK h, g, o : h = <<11, 70, 0, 0>> /\ g = <<11, 71, 1, 0>> /\ o = << >>
  OBVIOUS
<1>3a. h \in Seq(Nat) /\ g \in Seq(Nat) /\ o \in Seq(Nat) /\ Len(h) = 4 /\ Len(g) = 4
  BY <1>3
<1>4. Unpacked(ProcessAES128CCMEncrypt(key, nonce, text), 3) = <<k, n, x>>
  <2>1. PICK p, r : /\ p = ((h \o (<<Len(k)>> \o k)) \o (<<Len(n)>> \o n)) \o (<<Len(x)>> \o x)
                    /\ r = p \o (<<Len(o)>> \o o)
    OBVIOUS
  <2>2a. ReadsBack(p, r, k, n, x, o)
    BY <1>2, <1>3a, <2>1, FieldsReadBack
  <2>2. Unpacked(p, 3) = <<k, n, x>>
    BY <2>2a DEF ReadsBack
  <2>3. p = ProcessAES128CCMEncrypt(key, nonce, text)
    BY <1>1, <1>3, <2>1 DEF ProcessAES128CCMEncrypt, Field
  <2> QED BY <2>2, <2>3
<1>5. Unpacked(Payload(key, nonce, tag, text), 4) = <<k, n, t, x>>
  <2>1. PICK p, r : /\ p = ((g \o (<<Len(k)>> \o k)) \o (<<Len(n)>> \o n)) \o (<<Len(t)>> \o t)
                    /\ r = p \o (<<Len(x)>> \o x)
    OBVIOUS
  <2>2a. ReadsBack(p, r, k, n, t, x)
    BY <1>2, <1>3a, <2>1, FieldsReadBack
  <2>2. Unpacked(r, 4) = <<k, n, t, x>>
    BY <2>2a DEF ReadsBack
  <2>3. r = Payload(key, nonce, tag, text)
    BY <1>1, <1>3, <2>1 DEF Payload, Field
  <2> QED BY <2>2, <2>3
<1>6. ProcessAES128CCMDecrypt(key, nonce, tag, text) \in {<<k, n, t, x>>, <<>>}
  BY <1>5 DEF ProcessAES128CCMDecrypt
<1>7. ASSUME key.hex PROVE mfgGenericCommand(55, key) = <<6, 255, 1, 0, 55, Len(k)>> \o k
  <2>0. PICK l : l = Len(k) /\ l \in Nat
    BY <1>2, LenProperties
  <2>1. PICK u, v : u = <<6, 255, 1, 0, 55>> /\ v = <<Len(k)>>
    OBVIOUS
  <2>1a. u \in Seq(Nat) /\ v \in Seq(Nat)
    BY <2>0, <2>1
  <2>2. mfgGenericCommand(55, key) = u \o (v \o k)
    BY <1>1, <1>7, <2>1 DEF mfgGenericCommand, Field
  <2>3. (u \o v) \o k = u \o (v \o k)
    <3>1. k \in Seq(Nat) /\ u \in Seq(Nat) /\ v \in Seq(Nat)
      BY <1>2, <2>1a
    <3> QED BY <3>1, JoinThree, ZenonT(20)
  <2>4. u \o v = <<6, 255, 1, 0, 55, Len(k)>>
    <3>1. PICK w : w = <<6, 255, 1, 0, 55, l>>
      OBVIOUS
    <3>2. w \in Seq(Nat) /\ Len(w) = 6 /\ w[1] = 6 /\ w[2] = 255 /\ w[3] = 1 /\ w[4] = 0 /\ w[5] = 55 /\ w[6] = l
      BY <2>0, <3>1
    <3>3. Len(u) = 5 /\ u[1] = 6 /\ u[2] = 255 /\ u[3] = 1 /\ u[4] = 0 /\ u[5] = 55 /\ Len(v) = 1 /\ v[1] = l
      BY <2>0, <2>1
    <3>4. /\ u \o v \in Seq(Nat) /\ Len(u \o v) = Len(u) + Len(v)
          /\ \A i \in 1 .. Len(u) : (u \o v)[i] = u[i]
          /\ \A i \in 1 .. Len(v) : (u \o v)[Len(u) + i] = v[i]
      BY <2>1a, JoinedAt
    <3>5. PICK z : z = u \o v
      OBVIOUS
    <3>6. z \in Seq(Nat) /\ Len(z) = 6 /\ \A i \in 1 .. 5 : z[i] = u[i]
      <4>1. Len(u) + Len(v) = 6 /\ 1 .. Len(u) = 1 .. 5
        BY <3>3
      <4> QED BY <3>4, <3>5, <4>1
    <3>7. z[6] = l
      <4>1. 1 \in 1 .. Len(v) /\ Len(u) + 1 = 6
        BY <3>3
      <4> QED BY <3>3, <3>4, <3>5, <4>1, SMTT(20)
    <3>8. z = w
      <4>1. \A i \in 1 .. 6 : z[i] = w[i]
        <5> TAKE i \in 1 .. 6
        <5>1. i = 1 \/ i = 2 \/ i = 3 \/ i = 4 \/ i = 5 \/ i = 6
          OBVIOUS
        <5> QED BY <3>2, <3>3, <3>6, <3>7, <5>1
      <4>2. Len(z) = Len(w) /\ \A i \in 1 .. Len(z) : z[i] = w[i]
        BY <3>2, <3>6, <4>1
      <4>3. z \in Seq(Nat) /\ w \in Seq(Nat)
        BY <3>2, <3>6
      <4> QED BY <4>2, <4>3, SeqEqual
    <3> QED BY <2>0, <3>1, <3>5, <3>8
  <2> QED BY <2>2, <2>3, <2>4
<1> QED BY <1>1, <1>4, <1>6, <1>7

-----------------------------------------------------------------------------
(* The link as a whole.                                                    *)

\* What crosses the link, frames and values, crosses it whole: for any order of
\* the frames, any sizes of chunks and buffers, any tasks that send, any failures
\* of encoding, and any commands and arguments.
THEOREM SpinelIsWhole == HostSpec => []SpinelWhole
<1> DEFINE Inv == ReceiveInv /\ WakeupInv /\ SendInv /\ SizeInv /\ RcInv
<1>1. HostInit => Inv
  <2> SUFFICES ASSUME ReceiveInit, SendInit, RcInit PROVE Inv
    BY DEF HostInit
  <2>1. ReceiveInv
    BY ReceiveStarts
  <2>2. WakeupInv
    BY DEF ReceiveInit, WakeupInv, NoLostWakeup
  <2>3. SendInv
    <3>1. [len |-> 1, esc |-> 0] \in Frame
      BY SendAssumption DEF Frame
    <3>2. SendTypes
      BY <3>1 DEF SendInit, SendTypes, SendLabel
    <3>3. \A t \in Task : pc[t] = "out"
      BY DEF SendInit
    <3> QED BY <3>2, <3>3 DEF SendInit, SendInv, EncoderOf
  <2>4. SizeInv
    <3>1. mutex = NoTask /\ encoder = << >>
      BY DEF SendInit
    <3>2. Used = 0 /\ 0 <= 2 * MaxFrame
      BY <3>1, NothingUsed, SendAssumption
    <3> QED BY <3>1, <3>2, EmptySeq DEF SizeInv
  <2>5. RcInv
    BY RegistersStart DEF RcInit
  <2> QED BY <2>1, <2>2, <2>3, <2>4, <2>5
<1>2. Inv /\ [HostNext]_hostVars => Inv'
  <2> SUFFICES ASSUME Inv, [HostNext]_hostVars PROVE Inv'
    OBVIOUS
  <2>1. [ReceiveNext]_receiveVars /\ [SendNext]_sendVars /\ [RcNext]_rcVars
    BY HostPartSteps
  <2>2. SendTypes
    BY DEF SendInv
  <2> QED BY <2>1, <2>2, ReceiveStep, WakeupStep, SendStep, SizeStep, CommandStep
<1>3. Inv => SpinelWhole
  <2> SUFFICES ASSUME Inv PROVE SpinelWhole
    OBVIOUS
  <2>1. ReceiveTypeOK /\ InOrder /\ NoLostWakeup
    BY DEF ReceiveInv, WakeupInv
  <2>2. SendTypeOK
    BY DEF SizeInv, SendInv, SendTypes, SendLabel, SendTypeOK
  <2>3. WholeFrames
    BY WholeIfInv
  <2>4. ShownTrue /\ CryptoExact
    BY ShownIsTrue, CryptoArrives
  <2> QED BY <2>1, <2>2, <2>3, <2>4 DEF SpinelWhole
<1> QED BY <1>1, <1>2, <1>3, PTL DEF HostSpec

-----------------------------------------------------------------------------
(* NvsSettings: the names of the values.                                   *)

\* The first n names of key k.
FirstNames(k, n) == {<<k, i>> : i \in 0 .. n - 1}

Names(k) == {e \in DOMAIN nsVal : e[1] = k}

\* The values of a key of which none was deleted by its index have the indices
\* from 0 up.
NvsInv == \A k \in NvsKey \ nsHoles : \E n \in Nat : Names(k) = FirstNames(k, n)

\* How many values such a key has.
LEMMA CountNames ==
  ASSUME NEW k, NEW n \in Nat
  PROVE  Cardinality(FirstNames(k, n)) = n
<1> DEFINE f == [i \in 1 .. n |-> <<k, i - 1>>]
<1>1. f \in [1 .. n -> FirstNames(k, n)]
  BY DEF FirstNames
<1>2. \A i, j \in 1 .. n : f[i] = f[j] => i = j
  OBVIOUS
<1>3. \A e \in FirstNames(k, n) : \E i \in 1 .. n : f[i] = e
  <2> SUFFICES ASSUME NEW i \in 0 .. n - 1 PROVE \E j \in 1 .. n : f[j] = <<k, i>>
    BY DEF FirstNames
  <2>1. i + 1 \in 1 .. n /\ (i + 1) - 1 = i
    OBVIOUS
  <2> QED BY <2>1
<1> HIDE DEF f
<1>4. f \in Bijection(1 .. n, FirstNames(k, n))
  BY <1>1, <1>2, <1>3 DEF Bijection, Injection, Surjection, IsInjective
<1> QED BY <1>4, FS_CountingElements DEF ExistsBijection

\* A value more, under the name <<k, i>>.
LEMMA WithNames ==
  ASSUME NEW k, NEW i, NEW v, nsVal' = With(k, i, v)
  PROVE  \A j : Names(j)' = IF j = k THEN Names(j) \cup {<<k, i>>} ELSE Names(j)
<1>1. DOMAIN nsVal' = DOMAIN nsVal \cup {<<k, i>>}
  BY DEF With
<1> QED BY <1>1 DEF Names

\* Only the values of K are kept.
LEMMA KeptNames ==
  ASSUME NEW K, K \subseteq DOMAIN nsVal, Keep(K)
  PROVE  \A j : Names(j)' = Names(j) \cap K
<1>1. DOMAIN nsVal' = K
  BY DEF Keep
<1> QED BY <1>1 DEF Names

\* Every call keeps the names in order.
LEMMA NvsStep == NvsInv /\ [NvsNext]_nsVars => NvsInv'
<1> SUFFICES ASSUME NvsInv, [NvsNext]_nsVars PROVE NvsInv'
  OBVIOUS
<1>1. ASSUME NEW k \in NvsKey, NEW v \in NvsValue, NvsAdd(k, v) PROVE NvsInv'
  <2> SUFFICES ASSUME NEW j \in NvsKey \ nsHoles PROVE \E n \in Nat : Names(j)' = FirstNames(j, n)
    BY <1>1 DEF NvsInv, NvsAdd
  <2>1. PICK n \in Nat : Names(j) = FirstNames(j, n)
    BY DEF NvsInv
  <2>2. Names(j)' = IF j = k THEN Names(j) \cup {<<k, NvsCount(k)>>} ELSE Names(j)
    BY <1>1, WithNames DEF NvsAdd
  <2>3. CASE j # k
    BY <2>1, <2>2, <2>3
  <2>4. CASE j = k
    <3>1. NvsCount(k) = n
      BY <2>1, <2>4, CountNames DEF NvsCount, Names
    <3>2. FirstNames(k, n) \cup {<<k, n>>} = FirstNames(k, n + 1)
      <4>1. 0 .. (n + 1) - 1 = 0 .. n - 1 \cup {n}
        OBVIOUS
      <4> QED BY <4>1 DEF FirstNames
    <3> QED BY <2>1, <2>2, <2>4, <3>1, <3>2
  <2> QED BY <2>3, <2>4
<1>2. ASSUME NEW k \in NvsKey, NEW v \in NvsValue, NvsSet(k, v) PROVE NvsInv'
  <2> SUFFICES ASSUME NEW j \in NvsKey \ nsHoles PROVE \E n \in Nat : Names(j)' = FirstNames(j, n)
    BY <1>2 DEF NvsInv, NvsSet
  <2>1. PICK n \in Nat : Names(j) = FirstNames(j, n)
    BY DEF NvsInv
  <2>2. Names(j)' = IF j = k THEN Names(j) \cup {<<k, 0>>} ELSE Names(j)
    BY <1>2, WithNames DEF NvsSet
  <2>3. CASE j # k
    BY <2>1, <2>2, <2>3
  <2>4. CASE j = k /\ n = 0
    <3>1. FirstNames(k, 0) \cup {<<k, 0>>} = FirstNames(k, 1)
      <4>1. 0 .. 0 - 1 = {} /\ 0 .. 1 - 1 = {0}
        OBVIOUS
      <4> QED BY <4>1 DEF FirstNames
    <3> QED BY <2>1, <2>2, <2>4, <3>1
  <2>5. CASE j = k /\ n # 0
    <3>1. <<k, 0>> \in FirstNames(k, n)
      BY <2>5 DEF FirstNames
    <3> QED BY <2>1, <2>2, <2>5, <3>1
  <2> QED BY <2>3, <2>4, <2>5
<1>3. ASSUME NEW k \in NvsKey, NEW i \in NvsIndices, NvsDelete(k, i) PROVE NvsInv'
  <2> SUFFICES ASSUME NEW j \in NvsKey, j \notin nsHoles' PROVE \E n \in Nat : Names(j)' = FirstNames(j, n)
    BY DEF NvsInv
  <2>1. j \notin nsHoles /\ (j = k => <<k, i>> \notin DOMAIN nsVal)
    BY <1>3 DEF NvsDelete
  <2>2. PICK n \in Nat : Names(j) = FirstNames(j, n)
    BY <2>1 DEF NvsInv
  <2>3. Names(j)' = Names(j) \cap (DOMAIN nsVal \ {<<k, i>>})
    BY <1>3, KeptNames DEF NvsDelete
  <2>4. Names(j)' = Names(j)
    <3>1. <<k, i>> \notin Names(j)
      BY <2>1 DEF Names
    <3> QED BY <2>3, <3>1 DEF Names
  <2> QED BY <2>2, <2>4
<1>4. ASSUME NEW k \in NvsKey, NvsDeleteAll(k) PROVE NvsInv'
  <2> SUFFICES ASSUME NEW j \in NvsKey, j \notin nsHoles' PROVE \E n \in Nat : Names(j)' = FirstNames(j, n)
    BY DEF NvsInv
  <2>1. PICK K \in SUBSET Names(k) :
          /\ Keep({e \in DOMAIN nsVal : e[1] # k} \cup K)
          /\ nsHoles' = IF K = {} THEN nsHoles \ {k} ELSE nsHoles \cup {k}
    BY <1>4 DEF NvsDeleteAll, Names
  <2>2. Names(j)' = Names(j) \cap ({e \in DOMAIN nsVal : e[1] # k} \cup K)
    <3>1. {e \in DOMAIN nsVal : e[1] # k} \cup K \subseteq DOMAIN nsVal
      BY DEF Names
    <3> QED BY <2>1, <3>1, KeptNames
  <2>3. CASE j = k
    <3>1. K = {}
      BY <2>1, <2>3
    <3>2. Names(j)' = {}
      BY <2>2, <2>3, <3>1 DEF Names
    <3>3. FirstNames(j, 0) = {}
      BY DEF FirstNames
    <3> QED BY <3>2, <3>3
  <2>4. CASE j # k
    <3>1. j \notin nsHoles
      BY <2>1, <2>4
    <3>2. Names(j)' = Names(j)
      BY <2>2, <2>4 DEF Names
    <3> QED BY <3>1, <3>2 DEF NvsInv
  <2> QED BY <2>3, <2>4
<1>5. CASE NvsWipe
  <2> SUFFICES ASSUME NEW j \in NvsKey, j \notin nsHoles' PROVE \E n \in Nat : Names(j)' = FirstNames(j, n)
    BY DEF NvsInv
  <2>1. PICK K \in SUBSET DOMAIN nsVal : Keep(K) /\ nsHoles' = {e[1] : e \in K}
    BY <1>5 DEF NvsWipe
  <2>2. Names(j)' = Names(j) \cap K
    BY <2>1, KeptNames
  <2>3. Names(j)' = {}
    BY <2>1, <2>2 DEF Names
  <2>4. FirstNames(j, 0) = {}
    BY DEF FirstNames
  <2> QED BY <2>3, <2>4
<1>6. ASSUME NEW k \in NvsKey, NEW i \in NvsIndices, NvsGet(k, i) PROVE NvsInv'
  BY <1>6 DEF NvsGet, NvsInv, Names
<1>7. CASE UNCHANGED nsVars
  BY <1>7 DEF nsVars, NvsInv, Names
<1> QED BY <1>1, <1>2, <1>3, <1>4, <1>5, <1>6, <1>7 DEF NvsNext

\* An Add replaces no value of a key of which none was deleted by its index: its
\* name, the number of values, is not in use.  For any keys, values and indices,
\* and deletions that stop at an error.
THEOREM AddReplacesNothing == HostSpec => AddKeepsValues
<1>1. HostInit => NvsInv
  <2> SUFFICES ASSUME NvsInit PROVE NvsInv
    BY DEF HostInit
  <2>1. \A k : Names(k) = {} /\ FirstNames(k, 0) = {}
    BY DEF NvsInit, Names, FirstNames
  <2> QED BY <2>1 DEF NvsInv
<1>2. NvsInv /\ [HostNext]_hostVars => NvsInv'
  <2> SUFFICES ASSUME NvsInv, [HostNext]_hostVars PROVE NvsInv'
    OBVIOUS
  <2>1. [NvsNext]_nsVars
    BY HostPartSteps
  <2> QED BY <2>1, NvsStep
<1>3. ASSUME NvsInv, NEW k \in NvsKey, NEW v \in NvsValue, NvsAdd(k, v), k \notin nsHoles,
             NEW e \in DOMAIN nsVal
      PROVE  nsVal'[e] = nsVal[e]
  <2>1. PICK n \in Nat : Names(k) = FirstNames(k, n)
    BY <1>3 DEF NvsInv
  <2>2. NvsCount(k) = n
    BY <2>1, CountNames DEF NvsCount, Names
  <2>3. <<k, n>> \notin DOMAIN nsVal
    <3>1. <<k, n>> \notin FirstNames(k, n)
      BY DEF FirstNames
    <3> QED BY <2>1, <3>1 DEF Names
  <2>4. nsVal' = With(k, n, v)
    BY <1>3, <2>2 DEF NvsAdd
  <2> QED BY <2>3, <2>4 DEF With
<1> DEFINE A == \A k \in NvsKey, v \in NvsValue :
                  NvsAdd(k, v) /\ k \notin nsHoles => \A e \in DOMAIN nsVal : nsVal'[e] = nsVal[e]
<1>4. NvsInv => [A]_nsVars
  BY <1>3
<1> QED BY <1>1, <1>2, <1>4, PTL DEF HostSpec, AddKeepsValues

=============================================================================
