---------------------------- MODULE Mcxw_proofs -----------------------------
(***************************************************************************)
(* Proofs about the parts of the mcxw platform (see MCMcxw): for each an   *)
(* inductive invariant that implies what the run checks on a small         *)
(* instance.                                                               *)
(***************************************************************************)
EXTENDS MCMcxw, FiniteSetTheorems, SequenceTheorems, TLAPS

\* A step of the system is a step of every part, or leaves it alone.
LEMMA McxwPartSteps ==
  ASSUME [McxwNext]_mcxwVars
  PROVE  /\ [AlarmNext]_alarmVars /\ [MuNext]_muVars /\ [NvmNext]_nvVars
         /\ [ServicesNext]_nbuVars
BY DEF McxwNext, mcxwVars, RxRingPart, AlarmPart, UartPart, NvmPart, ServicesPart, SerialPart

-----------------------------------------------------------------------------
(* NvmSettings: a wipe is final.                                           *)

\* What was wiped is in neither copy: the buffer would carry it back to the
\* flash with the next save.
ErasedEverywhere ==
  nvErased \cap Range(nvBuf) = {} /\ nvErased \cap Range(nvFlash) = {}

\* Every step keeps what was wiped out of both copies.
LEMMA ErasedStep == ErasedEverywhere /\ [NvmNext]_nvVars => ErasedEverywhere'
<1> SUFFICES ASSUME ErasedEverywhere, [NvmNext]_nvVars PROVE ErasedEverywhere'
  OBVIOUS
<1>0. Range(<< >>) = {}
  BY DEF Range
<1>1. ASSUME NEW b, NvmSave(b) PROVE ErasedEverywhere'
  BY <1>1 DEF NvmSave, ErasedEverywhere
<1>2. CASE NvmSettingsInit
  BY <1>2 DEF NvmSettingsInit, ErasedEverywhere
<1>3. CASE NvmWipe
  BY <1>0, <1>3 DEF NvmWipe, ErasedEverywhere
<1>4. CASE NvmIdle
  BY <1>4 DEF NvmIdle, ErasedEverywhere
<1>5. CASE NvmPowerLoss
  BY <1>0, <1>5 DEF NvmPowerLoss, ErasedEverywhere
<1>6. ASSUME NEW k \in Key, NEW v \in Value, NvmAdd(k, v) \/ NvmSet(k, v) PROVE ErasedEverywhere'
  BY <1>1, <1>6 DEF NvmAdd, NvmSet
<1>7. ASSUME NEW k \in Key, NEW i \in -1 .. 1, NvmDelete(k, i) PROVE ErasedEverywhere'
  BY <1>1, <1>7 DEF NvmDelete
<1>8. CASE UNCHANGED nvVars
  BY <1>8 DEF nvVars, ErasedEverywhere
<1> QED BY <1>2, <1>3, <1>4, <1>5, <1>6, <1>7, <1>8 DEF NvmNext

\* What otPlatSettingsWipe took out never comes back from the flash, in either
\* build and whenever the power fails: for any keys, values and buffer size.
THEOREM WipeIsFinal == McxwSpec => []WipedForGood
<1>1. McxwInit => ErasedEverywhere
  BY DEF McxwInit, NvmInit, ErasedEverywhere
<1>2. [McxwNext]_mcxwVars => [NvmNext]_nvVars
  BY McxwPartSteps
<1>3. ErasedEverywhere => WipedForGood
  BY DEF ErasedEverywhere, WipedForGood
<1> QED BY <1>1, <1>2, <1>3, ErasedStep, PTL DEF McxwSpec

-----------------------------------------------------------------------------
(* McxwUart: the count of writes in progress.                              *)

MuTypes ==
  /\ muCount \in Nat /\ muStore \in Int /\ muOut \in Nat /\ muRing \in Nat

\* No call of otPlatUartSend is under way.
MuSendIdle == muStore = -1 /\ ~muCounted /\ ~muUndo

\* The count never falls behind the writes in progress: a decrement that falls
\* between the load and the store is lost, which leaves it too high.
CountCovers ==
  /\ muCount >= muOut
  /\ muStore # -1 /\ ~muUndo => muStore > muOut
  /\ muStore # -1 /\ muUndo => muStore >= muOut
  /\ muCounted => muCount > muOut /\ muStore = -1 /\ ~muUndo
  /\ muUndo => muStore # -1
  /\ muFlush => MuSendIdle
  /\ muFlushed => muOut = 0 /\ MuSendIdle

\* The flag holds one sleep lock, and what is in the ring has a reader.
ReaderAwake ==
  /\ muLock = IF muFired THEN 1 ELSE 0
  /\ muRing > 0 => muFired \/ muRead

MuInv == MuTypes /\ CountCovers /\ ReaderAwake

\* Every step keeps the count at the writes in progress.
LEMMA MuStep == MuInv /\ [MuNext]_muVars => MuInv'
<1> SUFFICES ASSUME MuInv, [MuNext]_muVars PROVE MuInv'
  OBVIOUS
<1>0. MuTypes /\ CountCovers /\ ReaderAwake
  BY DEF MuInv
<1>1. ASSUME UNCHANGED muRx PROVE UNCHANGED <<muRing, muFired, muLock, muRead, muTyped, muGot>> /\ ReaderAwake'
  BY <1>0, <1>1 DEF muRx, ReaderAwake
<1>2. ASSUME UNCHANGED muTx
      PROVE  /\ UNCHANGED <<muCount, muStore, muCounted, muUndo, muOut, muSent, muFlush, muFlushed>>
             /\ CountCovers'
  BY <1>0, <1>2 DEF muTx, CountCovers, MuSendIdle
<1>3. CASE MuSend
  <2>1. ReaderAwake' /\ UNCHANGED <<muRing, muFired, muLock, muRead, muTyped, muGot>>
    BY <1>1, <1>3 DEF MuSend
  <2> QED BY <1>0, <1>3, <2>1 DEF MuSend, MuIdle, MuInv, MuTypes, CountCovers, MuSendIdle
<1>4. CASE MuStore
  <2>1. ReaderAwake' /\ UNCHANGED <<muRing, muFired, muLock, muRead, muTyped, muGot>>
    BY <1>1, <1>4 DEF MuStore
  <2>2. (muCounted' <=> ~muUndo) /\ ~muUndo'
    BY <1>4, Zenon DEF MuStore
  <2>3. muStore # -1 /\ muCount' = muStore /\ muStore' = -1 /\ UNCHANGED <<muOut, muFlush, muFlushed>>
    BY <1>4 DEF MuStore
  <2> QED BY <1>0, <2>1, <2>2, <2>3 DEF MuInv, MuTypes, CountCovers, MuSendIdle
<1>5. ASSUME NEW ok \in BOOLEAN, MuWrite(ok) PROVE MuInv'
  <2>1. ReaderAwake' /\ UNCHANGED <<muRing, muFired, muLock, muRead, muTyped, muGot>>
    BY <1>1, <1>5 DEF MuWrite
  <2> QED BY <1>0, <1>5, <2>1 DEF MuWrite, MuInv, MuTypes, CountCovers, MuSendIdle
<1>6. ASSUME NEW again \in BOOLEAN, Uart_TxCallBack(again) PROVE MuInv'
  <2>1. ReaderAwake' /\ UNCHANGED <<muRing, muFired, muLock, muRead, muTyped, muGot>>
    BY <1>1, <1>6 DEF Uart_TxCallBack
  <2>2. muOut > 0 /\ muCount > 0 /\ UNCHANGED <<muStore, muCounted, muUndo, muFlush, muFlushed>>
    BY <1>0, <1>6 DEF Uart_TxCallBack, MuTypes, CountCovers
  <2>3. \/ UNCHANGED <<muCount, muOut>>
        \/ muCount' = muCount - 1 /\ muOut' = muOut - 1
    BY <1>0, <1>6, <2>2 DEF Uart_TxCallBack, MuTypes
  <2> QED BY <1>0, <2>1, <2>2, <2>3 DEF MuInv, MuTypes, CountCovers, MuSendIdle
<1>7. CASE MuFlushBegin
  <2>1. ReaderAwake' /\ UNCHANGED <<muRing, muFired, muLock, muRead, muTyped, muGot>>
    BY <1>1, <1>7 DEF MuFlushBegin
  <2> QED BY <1>0, <1>7, <2>1 DEF MuFlushBegin, MuIdle, MuInv, MuTypes, CountCovers, MuSendIdle
<1>8. ASSUME NEW timeout \in BOOLEAN, MuFlushEnd(timeout) PROVE MuInv'
  <2>1. ReaderAwake' /\ UNCHANGED <<muRing, muFired, muLock, muRead, muTyped, muGot>>
    BY <1>1, <1>8 DEF MuFlushEnd
  <2>2. (muFlushed' <=> ~timeout) /\ ~muFlush'
    BY <1>8, Zenon DEF MuFlushEnd
  <2>3. /\ muFlush /\ (timeout <=> muCount # 0)
        /\ UNCHANGED <<muCount, muStore, muCounted, muUndo, muOut>>
    BY <1>8 DEF MuFlushEnd
  <2> QED BY <1>0, <2>1, <2>2, <2>3 DEF MuInv, MuTypes, CountCovers, MuSendIdle
<1>9. CASE Uart_RxCallBack \/ MuProcess \/ MuTryRead
  <2>1. /\ CountCovers'
        /\ UNCHANGED <<muCount, muStore, muCounted, muUndo, muOut, muSent, muFlush, muFlushed>>
    BY <1>2, <1>9 DEF Uart_RxCallBack, MuProcess, MuTryRead
  <2>2. CASE Uart_RxCallBack
    BY <1>0, <2>1, <2>2 DEF Uart_RxCallBack, MuInv, MuTypes, ReaderAwake
  <2>3. CASE MuProcess
    BY <1>0, <2>1, <2>3 DEF MuProcess, MuInv, MuTypes, ReaderAwake
  <2>4. CASE MuTryRead
    BY <1>0, <2>1, <2>4 DEF MuTryRead, MuInv, MuTypes, ReaderAwake
  <2> QED BY <1>9, <2>2, <2>3, <2>4
<1>10. CASE UNCHANGED muVars
  BY <1>0, <1>1, <1>2, <1>10 DEF muVars, MuInv, MuTypes
<1> QED BY <1>3, <1>4, <1>5, <1>6, <1>7, <1>8, <1>9, <1>10 DEF MuNext, MuRest

\* A flush that ends before its time-out leaves no write in progress, and no
\* received character waits with nobody awake to read it: for any number of
\* writes and characters.
THEOREM McxwUartSound == McxwSpec => []MuSound
<1>1. McxwInit => MuInv
  BY DEF McxwInit, MuInit, MuInv, MuTypes, CountCovers, ReaderAwake, MuSendIdle
<1>2. [McxwNext]_mcxwVars => [MuNext]_muVars
  BY McxwPartSteps
<1>3. MuInv => MuSound
  BY DEF MuInv, CountCovers, ReaderAwake, MuSound
<1> QED BY <1>1, <1>2, <1>3, MuStep, PTL DEF McxwSpec

-----------------------------------------------------------------------------
(* Remainders.                                                             *)

\* The quotient and the remainder, and that there is only one of each.
LEMMA ModRange ==
  ASSUME NEW a \in Int, NEW m \in Nat \ {0}
  PROVE (a % m) \in 0 .. m - 1 /\ a \div m \in Int /\ a = m * (a \div m) + (a % m)
OBVIOUS

\* Quotient and remainder are unique.
LEMMA ModUnique ==
  ASSUME NEW a \in Int, NEW m \in Nat \ {0}, NEW q \in Int, NEW rest \in 0 .. m - 1, a = m * q + rest
  PROVE (a % m) = rest
<1> DEFINE p == a \div m
           s == a % m
<1>1. s \in 0 .. m - 1 /\ p \in Int /\ a = m * p + s
  BY ModRange
<1> HIDE DEF p, s
<1>2. m * (p - q) = rest - s
  BY <1>1
<1>3. p = q
  <2>1. CASE p > q
    <3>1. m * (p - q) >= m
      BY <1>1, <2>1
    <3> QED BY <1>1, <1>2, <3>1
  <2>2. CASE p < q
    <3>1. m * (q - p) >= m
      BY <1>1, <2>2
    <3>2. m * (q - p) = s - rest
      BY <1>1, <1>2
    <3> QED BY <1>1, <3>1, <3>2
  <2> QED BY <1>1, <2>1, <2>2
<1>4. s = rest
  BY <1>1, <1>2, <1>3
<1> QED BY <1>4 DEF s

\* The remainder of the next number.
LEMMA ModNext ==
  ASSUME NEW a \in Int, NEW m \in Nat \ {0}
  PROVE  ((a + 1) % m) = IF (a % m) = m - 1 THEN 0 ELSE (a % m) + 1
<1> DEFINE q == a \div m
           s == a % m
<1>1. s \in 0 .. m - 1 /\ q \in Int /\ a = m * q + s
  BY ModRange
<1> HIDE DEF q, s
<1>2. CASE s = m - 1
  <2>1. a + 1 = m * (q + 1) + 0
    BY <1>1, <1>2
  <2>2. 0 \in 0 .. m - 1 /\ q + 1 \in Int /\ a + 1 \in Int
    BY <1>1
  <2>3. ((a + 1) % m) = 0
    BY <2>1, <2>2, ModUnique
  <2> QED BY <1>2, <2>3 DEF s
<1>3. CASE s # m - 1
  <2>1. a + 1 = m * q + (s + 1) /\ s + 1 \in 0 .. m - 1
    BY <1>1, <1>3
  <2>2. ((a + 1) % m) = s + 1
    BY <1>1, <2>1, ModUnique
  <2> QED BY <1>3, <2>2 DEF s
<1> QED BY <1>2, <1>3

\* The remainder of a number below twice the modulus.
LEMMA ModSmall ==
  ASSUME NEW m \in Nat \ {0}, NEW a \in 0 .. 2 * m - 1
  PROVE  (a % m) = IF a < m THEN a ELSE a - m
<1>1. CASE a < m
  BY <1>1, ModUnique, a = m * 0 + a
<1>2. CASE a >= m
  BY <1>2, ModUnique, a = m * 1 + (a - m)
<1> QED BY <1>1, <1>2

\* A product of positive numbers is positive.
LEMMA ProductPositive == ASSUME NEW m \in Nat \ {0}, NEW k \in Nat \ {0} PROVE m * k \in Nat \ {0}
<1>1. \A x, y \in Int : x > 0 /\ y > 0 => x * y > 0
  OBVIOUS
<1> QED BY <1>1

\* A multiple of a product is one of its factors.
LEMMA ModOfProduct ==
  ASSUME NEW c \in Nat, NEW m \in Nat \ {0}, NEW k \in Nat \ {0}, NEW n, n = m * k, (c % n) = 0
  PROVE  (c % m) = 0
<1> DEFINE q == c \div n
<1>1. n \in Nat \ {0} /\ c \in Int
  <2>1. m * k \in Nat \ {0}
    BY ProductPositive
  <2> QED BY <2>1
<1>2. q \in Int /\ c = n * q + (c % n)
  BY ONLY <1>1, ModRange
<1> HIDE DEF q
<1>3. c = n * q
  <2>1. (c % n) = 0
    OBVIOUS
  <2> QED BY ONLY <1>1, <1>2, <2>1
<1> DEFINE j == k * q
<1>4. j \in Int /\ c = m * j
  BY <1>2, <1>3
<1> HIDE DEF j
<1>5. c = m * j + 0 /\ 0 \in 0 .. m - 1 /\ c \in Int
  BY <1>4
<1> QED BY <1>4, <1>5, ModUnique

-----------------------------------------------------------------------------
(* McxwAlarm: the clock and the alarms.                                    *)

Ticks == {Off} \cup Int

AlTypes ==
  /\ now \in 0 .. Cycle - 1 /\ sw \in 0 .. Cycle - 1 /\ gap \in 0 .. MaxGap /\ hw \in 0 .. Wrap - 1
  /\ irq \subseteq Alarm \cup {"other"} /\ fired \subseteq Alarm
  /\ timer \in [Alarm -> Ticks] /\ want \in [Alarm -> Ticks]
  /\ pc \in {"tasklets", "milli", "micro", "sleep", "wfi", "asleep"}

\* Both readings are gap ticks old.
ClockBehind ==
  /\ sw + gap = now \/ sw + gap = now + Cycle
  /\ hw + gap = (now % Wrap) \/ hw + gap = (now % Wrap) + Wrap

Longest(a) == MaxDt * Unit(a)

\* A timer started for what OpenThread waits for, now or when the alarm turns
\* out to be early, is not longer than the longest delay.
InReach(a) ==
  /\ timer[a] # Off => timer[a] \in 1 .. Longest(a)
  /\ want[a] # Off => want[a] + (now % Unit(a)) <= Longest(a)
  /\ timer[a] # Off /\ want[a] # Off => timer[a] - want[a] \in 0 .. Unit(a) - 1

AlarmInv == AlTypes /\ ClockBehind /\ (\A a \in Alarm : InReach(a)) /\ AwakeForWork

\* What the constants of the alarms are.
LEMMA AlarmNumbers ==
  /\ PerMilli \in Nat \ {0} /\ Wrap \in Nat \ {0} /\ Word \in Nat \ {0} /\ Cycle \in Nat \ {0}
  /\ MaxGap \in Nat /\ MaxDt \in Nat /\ MaxLag \in Nat /\ MaxGap < Wrap /\ Wrap < Cycle /\ MaxLag < Word
  /\ (Cycle % Wrap) = 0 /\ (Cycle % (PerMilli * Word)) = 0 /\ Off \notin Int
BY AlarmAssumption

\* The unit of an alarm divides the clock's cycle.
LEMMA UnitFacts ==
  ASSUME NEW a \in Alarm
  PROVE  Unit(a) \in Nat \ {0} /\ (Cycle % Unit(a)) = 0 /\ Longest(a) \in Nat
<1>1. Unit(a) = PerMilli \/ Unit(a) = 1
  BY DEF Unit
<1>2. (Cycle % PerMilli) = 0
  BY AlarmNumbers, ModOfProduct
<1>3. (Cycle % 1) = 0
  <2>1. Cycle = 1 * Cycle + 0 /\ 0 \in 0 .. 1 - 1 /\ Cycle \in Int /\ 1 \in Nat \ {0}
    BY AlarmNumbers
  <2> QED BY <2>1, ModUnique
<1>4. Unit(a) \in Nat \ {0} /\ (Cycle % Unit(a)) = 0
  BY <1>1, <1>2, <1>3, AlarmNumbers
<1> QED BY <1>4, AlarmNumbers DEF Longest

\* otPlatTimeGet is exact.
LEMMA TimeIsNow ==
  ASSUME AlTypes, ClockBehind
  PROVE  Time = now
<1> DEFINE new == now % Wrap
           wrapped == IF hw > new THEN Wrap ELSE 0
<1>1. new \in 0 .. Wrap - 1
  BY AlarmNumbers, ModRange DEF AlTypes
<1>2. Time = (sw + (new + wrapped - hw)) % Cycle
  BY DEF Time
<1>3. hw + gap = new \/ hw + gap = new + Wrap
  BY DEF ClockBehind
<1> HIDE DEF new
<1>4. new + wrapped - hw = gap
  BY <1>1, <1>3, AlarmNumbers DEF AlTypes
<1> HIDE DEF wrapped
<1>5. sw + gap \in 0 .. 2 * Cycle - 1
  BY AlarmNumbers DEF AlTypes, ClockBehind
<1>6. ((sw + gap) % Cycle) = IF sw + gap < Cycle THEN sw + gap ELSE sw + gap - Cycle
  <2>1. Cycle \in Nat \ {0}
    BY AlarmNumbers
  <2> DEFINE x == sw + gap
  <2>2. x \in 0 .. 2 * Cycle - 1
    BY <1>5
  <2> HIDE DEF x
  <2>3. (x % Cycle) = IF x < Cycle THEN x ELSE x - Cycle
    BY <2>1, <2>2, ModSmall
  <2> QED BY <2>1, <2>2, <2>3 DEF x, AlTypes
<1>7. ((sw + gap) % Cycle) = now
  BY <1>6, AlarmNumbers DEF AlTypes, ClockBehind
<1> QED BY <1>2, <1>4, <1>7

\* Any remainder of the time goes up by one or starts again.
LEMMA TickRemainder ==
  ASSUME AlTypes, NEW m \in Nat \ {0}, (Cycle % m) = 0
  PROVE  /\ ((now + 1) % Cycle) \in 0 .. Cycle - 1
         /\ ((now + 1) % Cycle) = IF now + 1 = Cycle THEN 0 ELSE now + 1
         /\ (((now + 1) % Cycle) % m) = IF (now % m) = m - 1 THEN 0 ELSE (now % m) + 1
<1>0. now \in Int /\ now + 1 \in 0 .. 2 * Cycle - 1 /\ now + 1 <= Cycle /\ now \in Nat
  BY AlarmNumbers DEF AlTypes
<1> DEFINE later == (now + 1) % Cycle
<1>1. later = IF now + 1 < Cycle THEN now + 1 ELSE now + 1 - Cycle
  <2>1. Cycle \in Nat \ {0}
    BY AlarmNumbers
  <2> DEFINE x == now + 1
  <2>2. x \in 0 .. 2 * Cycle - 1
    BY <1>0
  <2> HIDE DEF x
  <2>3. (x % Cycle) = IF x < Cycle THEN x ELSE x - Cycle
    BY <2>1, <2>2, ModSmall
  <2> QED BY <2>1, <2>2, <2>3 DEF x, AlTypes
<1>2. later = (IF now + 1 = Cycle THEN 0 ELSE now + 1) /\ later \in 0 .. Cycle - 1
  BY <1>0, <1>1, AlarmNumbers
<1> HIDE DEF later
<1> DEFINE rest == now % m
<1>3. ((now + 1) % m) = IF rest = m - 1 THEN 0 ELSE rest + 1
  BY <1>0, ModNext
<1>4. rest \in 0 .. m - 1
  BY <1>0, ModRange
<1> HIDE DEF rest
<1>5. (later % m) = IF rest = m - 1 THEN 0 ELSE rest + 1
  <2>1. CASE now + 1 = Cycle
    <3>1. rest = m - 1
      BY <1>3, <1>4, <2>1
    <3>2. (0 % m) = 0
      BY ModSmall, 0 \in 0 .. 2 * m - 1
    <3> QED BY <1>2, <2>1, <3>1, <3>2
  <2>2. CASE now + 1 # Cycle
    BY <1>2, <1>3, <2>2
  <2> QED BY <2>1, <2>2
<1> QED BY <1>2, <1>5 DEF later, rest

\* A start time that lies lag back is seen as such across a wrap.
LEMMA ElapsedIsLag ==
  ASSUME NEW ts \in 0 .. Word - 1, NEW lag \in 0 .. MaxLag
  PROVE  Elapsed(ts, (ts + Word - lag) % Word) = lag
<1> DEFINE t0 == (ts + Word - lag) % Word
<1>1. ts + Word - lag \in 0 .. 2 * Word - 1
  BY AlarmNumbers
<1>2. t0 = IF ts + Word - lag < Word THEN ts + Word - lag ELSE ts + Word - lag - Word
  <2>1. Word \in Nat \ {0}
    BY AlarmNumbers
  <2> DEFINE x == ts + Word - lag
  <2>2. x \in 0 .. 2 * Word - 1
    BY <1>1
  <2> HIDE DEF x
  <2>3. (x % Word) = IF x < Word THEN x ELSE x - Word
    BY <2>1, <2>2, ModSmall
  <2> QED BY <2>1, <2>2, <2>3 DEF x, AlTypes
<1> HIDE DEF t0
<1>3. Elapsed(ts, t0) = lag
  BY <1>2, AlarmNumbers DEF Elapsed
<1> QED BY <1>3 DEF t0

\* The alarms that fired are few: one more, or one less, changes the lock.
LEMMA FiredCounts ==
  ASSUME fired \subseteq Alarm
  PROVE  /\ IsFiniteSet(fired) /\ Cardinality(fired) \in Nat
         /\ Cardinality(fired) = 0 <=> fired = {}
         /\ \A a \in fired : Cardinality(fired \ {a}) = Cardinality(fired) - 1
         /\ \A a : a \notin fired => Cardinality(fired \cup {a}) = Cardinality(fired) + 1
<1>1. IsFiniteSet({"milli", "micro"})
  <2>1. IsFiniteSet({"milli"}) /\ IsFiniteSet({"micro"})
    BY FS_Singleton
  <2>2. IsFiniteSet({"milli"} \cup {"micro"})
    BY <2>1, FS_Union
  <2>3. {"milli"} \cup {"micro"} = {"milli", "micro"}
    OBVIOUS
  <2> QED BY <2>2, <2>3
<1>2. IsFiniteSet(fired)
  BY <1>1, FS_Subset, AlarmAssumption
<1> QED BY <1>2, FS_CardinalityType, FS_EmptySet, FS_AddElement, FS_RemoveElement

\* The clock after a reading.
LEMMA ReadKeepsClock ==
  ASSUME AlTypes, ClockBehind, ReadClock
  PROVE  /\ now' = now /\ sw' \in 0 .. Cycle - 1 /\ gap' \in 0 .. MaxGap /\ hw' \in 0 .. Wrap - 1
         /\ ClockBehind'
<1>1. now' = now /\ sw' = now /\ hw' = (now % Wrap) /\ gap' = 0
  BY TimeIsNow DEF ReadClock
<1>2. (now % Wrap) \in 0 .. Wrap - 1
  <2>1. now \in Int /\ Wrap \in Nat \ {0}
    BY AlarmNumbers DEF AlTypes
  <2> QED BY <2>1, ModRange
<1> QED BY <1>1, <1>2, AlarmNumbers DEF AlTypes, ClockBehind

\* A tick leaves every timer in reach.
LEMMA TickKeeps ==
  ASSUME AlarmInv, Tick
  PROVE  AlarmInv'
<1>0. AlTypes /\ ClockBehind /\ (\A a \in Alarm : InReach(a)) /\ AwakeForWork
  BY DEF AlarmInv
<1> DEFINE w == now % Wrap
<1>1. /\ now' \in 0 .. Cycle - 1 /\ now' = IF now + 1 = Cycle THEN 0 ELSE now + 1
      /\ (now' % Wrap) = IF w = Wrap - 1 THEN 0 ELSE w + 1
  <2>1. Wrap \in Nat \ {0} /\ (Cycle % Wrap) = 0 /\ now' = (now + 1) % Cycle
    BY AlarmNumbers DEF Tick
  <2> QED BY <1>0, <2>1, TickRemainder
<1>2. gap' = gap + 1 /\ gap < MaxGap /\ UNCHANGED <<sw, hw, fired, lock, tasklet, pc>>
  BY DEF Tick
<1>3. ClockBehind'
  <2> HIDE DEF w
  <2>1. hw + gap = w \/ hw + gap = w + Wrap
    BY <1>0 DEF ClockBehind, w
  <2>2. hw' + gap' = (now' % Wrap) \/ hw' + gap' = (now' % Wrap) + Wrap
    <3>1. w \in 0 .. Wrap - 1
      BY <1>0, AlarmNumbers, ModRange DEF AlTypes, w
    <3> DEFINE v == now' % Wrap
    <3>2. v = IF w = Wrap - 1 THEN 0 ELSE w + 1
      BY <1>1
    <3> HIDE DEF v
    <3>3. hw' + gap' = v \/ hw' + gap' = v + Wrap
      BY <1>0, <1>2, <2>1, <3>1, <3>2, AlarmNumbers DEF AlTypes
    <3> QED BY <3>3 DEF v
  <2>3. sw' + gap' = now' \/ sw' + gap' = now' + Cycle
    BY <1>0, <1>1, <1>2, AlarmNumbers DEF AlTypes, ClockBehind
  <2> QED BY <2>2, <2>3 DEF ClockBehind
<1>4. /\ timer' = [a \in Alarm |-> IF timer[a] \in {Off, 1} THEN Off ELSE timer[a] - 1]
      /\ want' = [a \in Alarm |-> IF want[a] = Off THEN Off ELSE want[a] - 1]
      /\ irq' = irq \cup {a \in Alarm : timer[a] = 1}
  BY DEF Tick
<1>5. AlTypes'
  <2>1. timer' \in [Alarm -> Ticks] /\ want' \in [Alarm -> Ticks]
    BY <1>0, <1>4 DEF AlTypes, Ticks
  <2>2. gap' \in 0 .. MaxGap
    BY <1>0, <1>2, AlarmNumbers DEF AlTypes
  <2> QED BY <1>0, <1>1, <1>2, <1>4, <2>1, <2>2 DEF AlTypes
<1>6. ASSUME NEW a \in Alarm PROVE InReach(a)'
  <2> DEFINE u == Unit(a)
             rest == now % u
  <2>0. u \in Nat \ {0} /\ (Cycle % u) = 0 /\ Longest(a) \in Nat
    BY UnitFacts
  <2>1. (now' % u) = IF rest = u - 1 THEN 0 ELSE rest + 1
    <3>1. now' = (now + 1) % Cycle
      BY DEF Tick
    <3> HIDE DEF u
    <3> QED BY <1>0, <2>0, <3>1, TickRemainder
  <2>2. rest \in 0 .. u - 1
    <3>1. now \in Int
      BY <1>0 DEF AlTypes
    <3> HIDE DEF u
    <3> QED BY <2>0, <3>1, ModRange
  <2>3. /\ timer[a] # Off => timer[a] \in 1 .. Longest(a)
        /\ want[a] # Off => want[a] + rest <= Longest(a)
        /\ timer[a] # Off /\ want[a] # Off => timer[a] - want[a] \in 0 .. u - 1
    BY <1>0 DEF InReach
  <2>4. timer[a] \in Ticks /\ want[a] \in Ticks
    BY <1>0 DEF AlTypes
  <2>5. /\ timer'[a] = IF timer[a] \in {Off, 1} THEN Off ELSE timer[a] - 1
        /\ want'[a] = IF want[a] = Off THEN Off ELSE want[a] - 1
    BY <1>4
  <2>6. Unit(a)' = u /\ Longest(a)' = Longest(a)
    BY DEF Unit, Longest
  <2> HIDE DEF u, rest
  <2>7. timer'[a] # Off => timer'[a] \in 1 .. Longest(a)
    BY <2>0, <2>3, <2>4, <2>5 DEF Ticks
  <2>8. want'[a] # Off => want'[a] + (now' % u) <= Longest(a)
    BY <2>0, <2>1, <2>2, <2>3, <2>4, <2>5 DEF Ticks
  <2>9. timer'[a] # Off /\ want'[a] # Off => timer'[a] - want'[a] \in 0 .. u - 1
    BY <2>0, <2>3, <2>4, <2>5 DEF Ticks
  <2> QED BY <2>6, <2>7, <2>8, <2>9 DEF InReach, u
<1>7. AwakeForWork'
  BY <1>0, <1>2 DEF AwakeForWork
<1> QED BY <1>3, <1>5, <1>6, <1>7 DEF AlarmInv

\* The callback of a timer takes one sleep lock for its alarm.
LEMMA CallbackKeepsLock ==
  ASSUME AlTypes, lock = Cardinality(fired), NEW a \in Alarm, TimerCallback(a)
  PROVE  fired' \subseteq Alarm /\ lock' = Cardinality(fired')
<1>1. fired \subseteq Alarm /\ fired' = fired \cup {a}
  BY DEF AlTypes, TimerCallback
<1>2. CASE a \in fired
  <2>1. fired' = fired /\ lock' = lock
    BY <1>1, <1>2 DEF TimerCallback
  <2> QED BY <1>1, <2>1
<1>3. CASE a \notin fired
  <2>1. lock' = lock + 1 /\ Cardinality(fired') = Cardinality(fired) + 1
    BY <1>1, <1>3, FiredCounts DEF TimerCallback
  <2> QED BY <1>1, <2>1
<1> QED BY <1>2, <1>3

\* A timer that is set anew is in reach, those of the other alarms are left.
LEMMA SetTimerKeeps ==
  ASSUME AlTypes, \A b \in Alarm : InReach(b), NEW a \in Alarm, NEW t \in Ticks, NEW w \in Ticks,
         now' = now, timer' = [timer EXCEPT ![a] = t], want' = [want EXCEPT ![a] = w],
         t # Off => t \in 1 .. Longest(a),
         w # Off => w + (now % Unit(a)) <= Longest(a),
         t # Off /\ w # Off => t - w \in 0 .. Unit(a) - 1
  PROVE  /\ timer' \in [Alarm -> Ticks] /\ want' \in [Alarm -> Ticks]
         /\ \A b \in Alarm : InReach(b)'
<1>1. timer' \in [Alarm -> Ticks] /\ want' \in [Alarm -> Ticks]
  BY DEF AlTypes
<1>2. timer'[a] = t /\ want'[a] = w /\ \A b \in Alarm : b # a => timer'[b] = timer[b] /\ want'[b] = want[b]
  BY DEF AlTypes
<1>3. ASSUME NEW b \in Alarm PROVE InReach(b)'
  <2>1. CASE b = a
    BY <1>2, <2>1 DEF InReach, Longest, Unit
  <2>2. CASE b # a
    BY <1>2, <2>2 DEF InReach, Longest, Unit
  <2> QED BY <2>1, <2>2
<1> QED BY <1>1, <1>3

\* An alarm that OpenThread starts is in reach.
LEMMA StartKeepsAlarm ==
  ASSUME AlarmInv, NEW a \in Alarm, NEW lag \in 0 .. MaxLag, NEW dt \in 0 .. MaxDt, StartAt(a, lag, dt)
  PROVE  AlarmInv'
<1>0. AlTypes /\ ClockBehind /\ (\A b \in Alarm : InReach(b)) /\ AwakeForWork
  BY DEF AlarmInv
<1>1. /\ pc = "tasklets" /\ pc' = pc /\ UNCHANGED tasklet /\ ReadClock
      /\ StartTimer(a, (GetNow(a) + Word - lag) % Word, dt)
  BY DEF StartAt, StartTimer
<1> DEFINE u == Unit(a)
           rest == now % u
           left == IF dt >= lag THEN dt - lag ELSE 0
           t == IF left > 0 THEN left * u ELSE Off
           w == (dt - lag) * u - rest
<1>2. u \in Nat \ {0} /\ Longest(a) \in Nat /\ Longest(a) = MaxDt * u
  BY UnitFacts DEF Longest
<1>3. rest \in 0 .. u - 1
  <2>1. now \in Int
    BY <1>0 DEF AlTypes
  <2> HIDE DEF u
  <2> QED BY <1>2, <2>1, ModRange
<1>4. Left(GetNow(a), (GetNow(a) + Word - lag) % Word, dt) = left
  <2> DEFINE ts == GetNow(a)
  <2>1. ts \in 0 .. Word - 1
    <3>1. ts = (now \div u) % Word
      BY <1>0, TimeIsNow DEF GetNow
    <3>2. now \div u \in Int
      BY <1>0, <1>2 DEF AlTypes
    <3>3. Word \in Nat \ {0}
      BY AlarmNumbers
    <3> QED BY <3>1, <3>2, <3>3, ModRange
  <2> HIDE DEF ts
  <2>2. Elapsed(ts, (ts + Word - lag) % Word) = lag
    BY <2>1, ElapsedIsLag
  <2>3. Left(ts, (ts + Word - lag) % Word, dt) = left
    BY <2>2 DEF Left
  <2> QED BY <2>3 DEF ts
<1>5. /\ timer' = [timer EXCEPT ![a] = t] /\ irq' = irq \ {a}
      /\ IF left > 0 THEN UNCHANGED <<fired, lock>> ELSE TimerCallback(a)
  BY <1>1, <1>4 DEF StartTimer
<1>6. want' = [want EXCEPT ![a] = w]
  BY DEF StartAt
<1> HIDE DEF u, rest
<1>7. left \in 0 .. MaxDt /\ left = (IF dt >= lag THEN dt - lag ELSE 0) /\ dt - lag <= MaxDt /\ dt - lag \in Int
  BY AlarmNumbers
<1>8. (dt - lag) * u <= Longest(a) /\ (dt - lag) * u \in Int
  BY <1>2, <1>7, AlarmNumbers
<1>9. left > 0 => left * u \in 1 .. Longest(a) /\ left * u = (dt - lag) * u
  BY <1>2, <1>7, <1>8
<1> DEFINE z == (dt - lag) * u
<1>10. /\ w = z - rest /\ z \in Int /\ z <= Longest(a)
       /\ t = Off \/ (t = z /\ z \in 1 .. Longest(a))
  BY <1>8, <1>9
<1> HIDE DEF z, w, t, left
<1>11. t \in Ticks /\ w \in Ticks /\ w \in Int
  BY <1>3, <1>10 DEF Ticks
<1>12. t # Off => t \in 1 .. Longest(a)
  BY <1>10
<1>13. w + rest <= Longest(a)
  BY <1>2, <1>3, <1>10
<1>14. t # Off => t - w \in 0 .. u - 1
  BY <1>2, <1>3, <1>10
<1>15. /\ now' = now /\ sw' \in 0 .. Cycle - 1 /\ gap' \in 0 .. MaxGap /\ hw' \in 0 .. Wrap - 1
       /\ ClockBehind'
  BY <1>0, <1>1, ReadKeepsClock
<1>16. /\ timer' \in [Alarm -> Ticks] /\ want' \in [Alarm -> Ticks]
       /\ \A b \in Alarm : InReach(b)'
  BY <1>0, <1>5, <1>6, <1>11, <1>12, <1>13, <1>14, <1>15, SetTimerKeeps DEF u, rest
<1>17. fired' \subseteq Alarm /\ lock' = Cardinality(fired')
  <2>1. CASE left > 0
    BY <1>0, <1>5, <2>1 DEF AlTypes, AwakeForWork
  <2>2. CASE ~(left > 0)
    BY <1>0, <1>5, <2>2, CallbackKeepsLock DEF AwakeForWork
  <2> QED BY <2>1, <2>2
<1>18. AlTypes'
  BY <1>0, <1>1, <1>5, <1>15, <1>16, <1>17 DEF AlTypes
<1>19. AwakeForWork'
  BY <1>1, <1>17 DEF AwakeForWork
<1> QED BY <1>15, <1>16, <1>18, <1>19 DEF AlarmInv

\* The steps that start no timer and do not let time pass.
LEMMA OthersKeepAlarm ==
  ASSUME AlarmInv,
         \/ OtherInterrupt \/ Post \/ TimeGet \/ RunTasklets \/ CheckSleep \/ Wfi \/ WakeUp
         \/ (\E a \in {"milli", "micro"} : ProcessNothing(a))
         \/ (\E a \in Alarm : TimerInterrupt(a) \/ Stop(a))
  PROVE  AlarmInv'
<1>0. AlTypes /\ ClockBehind /\ (\A b \in Alarm : InReach(b)) /\ AwakeForWork
  BY DEF AlarmInv
<1>1. ASSUME UNCHANGED <<now, timer, want>> PROVE \A b \in Alarm : InReach(b)'
  BY <1>0, <1>1 DEF InReach, Longest, Unit
<1>2. ASSUME UNCHANGED clock PROVE UNCHANGED <<now, gap, sw, hw>> /\ ClockBehind'
  BY <1>0, <1>2 DEF clock, ClockBehind
<1>3. CASE OtherInterrupt \/ Post
  <2>1. /\ UNCHANGED <<clock, timer, fired, lock, want, pc>> /\ irq' \subseteq irq \cup {"other"}
        /\ pc \in {"wfi", "asleep"} => UNCHANGED tasklet
    BY <1>3 DEF OtherInterrupt, Post
  <2> QED BY <1>0, <1>1, <1>2, <2>1 DEF AlarmInv, AlTypes, AwakeForWork
<1>4. CASE TimeGet
  <2>1. /\ ReadClock /\ UNCHANGED <<timer, irq, fired, lock, want, tasklet, pc>>
    BY <1>4 DEF TimeGet
  <2>2. /\ now' = now /\ sw' \in 0 .. Cycle - 1 /\ gap' \in 0 .. MaxGap /\ hw' \in 0 .. Wrap - 1
        /\ ClockBehind'
    BY <1>0, <2>1, ReadKeepsClock
  <2> QED BY <1>0, <1>1, <2>1, <2>2 DEF AlarmInv, AlTypes, AwakeForWork
<1>5. CASE RunTasklets \/ Wfi \/ WakeUp \/ (\E a \in {"milli", "micro"} : ProcessNothing(a))
  <2>1. /\ UNCHANGED <<clock, timer, irq, fired, lock, want>>
        /\ pc' \in {"tasklets", "milli", "micro", "sleep", "wfi", "asleep"}
        /\ pc' \in {"wfi", "asleep"} => pc = "wfi" /\ UNCHANGED tasklet
    BY <1>5 DEF RunTasklets, Wfi, WakeUp, ProcessNothing, After
  <2> QED BY <1>0, <1>1, <1>2, <2>1 DEF AlarmInv, AlTypes, AwakeForWork
<1>6. CASE CheckSleep
  <2>1. /\ UNCHANGED <<clock, timer, irq, fired, lock, want, tasklet>>
        /\ pc' = IF tasklet \/ lock > 0 THEN "tasklets" ELSE "wfi"
    BY <1>6 DEF CheckSleep
  <2>2. ~(lock > 0) => fired = {}
    BY <1>0, FiredCounts DEF AlTypes, AwakeForWork
  <2> QED BY <1>0, <1>1, <1>2, <2>1, <2>2 DEF AlarmInv, AlTypes, AwakeForWork
<1>7. ASSUME NEW a \in Alarm, TimerInterrupt(a) PROVE AlarmInv'
  <2>1. /\ UNCHANGED <<clock, timer, want, tasklet, pc>> /\ irq' = irq \ {a}
        /\ pc \notin {"wfi", "asleep"} /\ TimerCallback(a)
    BY <1>7 DEF TimerInterrupt
  <2>2. fired' \subseteq Alarm /\ lock' = Cardinality(fired')
    BY <1>0, <2>1, CallbackKeepsLock DEF AwakeForWork
  <2> QED BY <1>0, <1>1, <1>2, <2>1, <2>2 DEF AlarmInv, AlTypes, AwakeForWork
<1>8. ASSUME NEW a \in Alarm, Stop(a) PROVE AlarmInv'
  <2>1. /\ timer' = [timer EXCEPT ![a] = Off] /\ want' = [want EXCEPT ![a] = Off] /\ irq' = irq \ {a}
        /\ UNCHANGED <<clock, fired, lock, tasklet, pc>>
    BY <1>8 DEF Stop
  <2>2. /\ timer' \in [Alarm -> Ticks] /\ want' \in [Alarm -> Ticks]
        /\ \A b \in Alarm : InReach(b)'
    BY <1>0, <1>2, <2>1, SetTimerKeeps, Off \in Ticks DEF Ticks
  <2> QED BY <1>0, <1>2, <2>1, <2>2 DEF AlarmInv, AlTypes, AwakeForWork
<1> QED BY <1>3, <1>4, <1>5, <1>6, <1>7, <1>8

\* A timer that the main loop processes leaves the alarms in reach.
LEMMA ProcessKeepsAlarm ==
  ASSUME AlarmInv, NEW a \in {"milli", "micro"}, Process(a)
  PROVE  AlarmInv'
<1>0. AlTypes /\ ClockBehind /\ (\A b \in Alarm : InReach(b)) /\ AwakeForWork
  BY DEF AlarmInv
<1>1. /\ a \in fired /\ fired' = fired \ {a} /\ lock' = lock - 1 /\ UNCHANGED tasklet
      /\ pc' \in {"micro", "sleep"}
  BY DEF Process, After
<1>2. a \in Alarm
  BY <1>0, <1>1 DEF AlTypes
<1>3. fired' \subseteq Alarm /\ lock' = Cardinality(fired')
  BY <1>0, <1>1, FiredCounts DEF AlTypes, AwakeForWork
<1>4. CASE Due(a)
  <2>1. want' = [want EXCEPT ![a] = Off] /\ UNCHANGED <<clock, timer, irq>>
    BY <1>4 DEF Process
  <2>2. UNCHANGED <<now, gap, sw, hw>> /\ ClockBehind'
    BY <1>0, <2>1 DEF clock, ClockBehind
  <2>3. timer' = [timer EXCEPT ![a] = timer[a]] /\ timer[a] \in Ticks /\ Off \in Ticks
    BY <1>0, <1>2, <2>1 DEF AlTypes, Ticks
  <2>4. /\ timer' \in [Alarm -> Ticks] /\ want' \in [Alarm -> Ticks]
        /\ \A b \in Alarm : InReach(b)'
    <3>1. timer[a] # Off => timer[a] \in 1 .. Longest(a)
      BY <1>0, <1>2 DEF InReach
    <3> QED BY <1>0, <1>2, <2>1, <2>2, <2>3, <3>1, SetTimerKeeps
  <2> QED BY <1>0, <1>1, <1>3, <2>1, <2>2, <2>4 DEF AlarmInv, AlTypes, AwakeForWork
<1>5. CASE ~Due(a)
  <2> DEFINE u == Unit(a)
             rest == now % u
             w == want[a]
             t == w + rest
  <2>1. /\ ReadClock /\ timer' = [timer EXCEPT ![a] = t] /\ irq' = irq \ {a}
        /\ UNCHANGED want
    BY <1>5 DEF Process
  <2>2. /\ now' = now /\ sw' \in 0 .. Cycle - 1 /\ gap' \in 0 .. MaxGap /\ hw' \in 0 .. Wrap - 1
        /\ ClockBehind'
    BY <1>0, <2>1, ReadKeepsClock
  <2>3. u \in Nat \ {0} /\ Longest(a) \in Nat
    BY <1>2, UnitFacts
  <2>4. rest \in 0 .. u - 1
    <3>1. now \in Int
      BY <1>0 DEF AlTypes
    <3> HIDE DEF u
    <3> QED BY <2>3, <3>1, ModRange
  <2>5. w \in Int /\ w > 0 /\ w + rest <= Longest(a)
    <3>1. w \in Ticks /\ w # Off
      BY <1>0, <1>2, <1>5 DEF AlTypes, Due
    <3>2. w \in Int /\ ~(w <= 0)
      BY <1>5, <3>1 DEF Ticks, Due
    <3>3. w + rest <= Longest(a)
      BY <1>0, <1>2, <3>1 DEF InReach
    <3> HIDE DEF w, rest
    <3> QED BY <3>2, <3>3
  <2>6. want' = [want EXCEPT ![a] = w]
    BY <1>0, <1>2, <2>1 DEF AlTypes
  <2> HIDE DEF u, rest, w
  <2>7. t \in Ticks /\ w \in Ticks /\ t \in 1 .. Longest(a) /\ t - w \in 0 .. u - 1
    BY <2>3, <2>4, <2>5 DEF Ticks
  <2> HIDE DEF t
  <2>8. /\ timer' \in [Alarm -> Ticks] /\ want' \in [Alarm -> Ticks]
        /\ \A b \in Alarm : InReach(b)'
    BY <1>0, <1>2, <2>1, <2>2, <2>5, <2>6, <2>7, SetTimerKeeps DEF u, rest
  <2> QED BY <1>0, <1>1, <1>3, <2>1, <2>2, <2>8 DEF AlarmInv, AlTypes, AwakeForWork
<1> QED BY <1>4, <1>5

\* Every step keeps the alarms exact.
LEMMA AlarmStep == AlarmInv /\ [AlarmNext]_alarmVars => AlarmInv'
<1> SUFFICES ASSUME AlarmInv, [AlarmNext]_alarmVars PROVE AlarmInv'
  OBVIOUS
<1>1. CASE UNCHANGED alarmVars
  BY <1>1 DEF alarmVars, clock, AlarmInv, AlTypes, ClockBehind, InReach, Longest, Unit, AwakeForWork
<1>2. CASE AlarmNext
  BY <1>2, TickKeeps, StartKeepsAlarm, OthersKeepAlarm, ProcessKeepsAlarm DEF AlarmNext, LoopStep
<1> QED BY <1>1, <1>2

\* The alarms are exact, for any counter width, any length of the 32-bit times
\* and any delays, as long as the clock is read within a wrap of the counter.
THEOREM AlarmsAreExact == McxwSpec => []AlarmsExact
<1>1. McxwInit => AlarmInv
  <2> SUFFICES ASSUME AlarmInit PROVE AlarmInv
    BY DEF McxwInit
  <2>1. (0 % Wrap) = 0
    <3>1. Wrap \in Nat \ {0} /\ 0 \in 0 .. 2 * Wrap - 1
      BY AlarmNumbers
    <3> QED BY <3>1, ModSmall
  <2>2. AlTypes
    BY AlarmNumbers DEF AlarmInit, AlTypes, Ticks
  <2>3. ClockBehind
    BY <2>1 DEF AlarmInit, ClockBehind
  <2>4. AwakeForWork
    BY FS_EmptySet DEF AlarmInit, AwakeForWork
  <2> QED BY <2>2, <2>3, <2>4 DEF AlarmInv, AlarmInit, InReach
<1>2. [McxwNext]_mcxwVars => [AlarmNext]_alarmVars
  BY McxwPartSteps
<1>3. AlarmInv => AlarmsExact
  <2> SUFFICES ASSUME AlarmInv PROVE AlarmsExact
    OBVIOUS
  <2>1. AlarmTypeOK
    BY DEF AlarmInv, AlTypes, InReach, Longest, AlarmTypeOK
  <2>2. TimeTrue
    <3> DEFINE x == sw + gap
    <3>1. Cycle \in Nat \ {0} /\ x \in 0 .. 2 * Cycle - 1
      BY AlarmNumbers DEF AlarmInv, AlTypes, ClockBehind
    <3> HIDE DEF x
    <3>2. (x % Cycle) = IF x < Cycle THEN x ELSE x - Cycle
      BY <3>1, ModSmall
    <3>3. (x % Cycle) = now
      BY <3>1, <3>2 DEF x, AlarmInv, AlTypes, ClockBehind
    <3> QED BY <3>3 DEF x, TimeTrue
  <2>3. OnTime
    BY DEF AlarmInv, InReach, OnTime
  <2> QED BY <2>1, <2>2, <2>3 DEF AlarmInv, AlarmsExact
<1> QED BY <1>1, <1>2, <1>3, AlarmStep, PTL DEF McxwSpec

-----------------------------------------------------------------------------
(* NbuSystem: the stream of text and requests, and the settings.           *)

StreamByte == Request \cup {Text}
NoRequest == "none"

\* Byte i of a stream of n characters, then request a, then request b.
At(n, a, b, i) ==
  IF a # NoRequest /\ i = n + 1 THEN a
  ELSE IF b # NoRequest /\ i = n + ReqLen + 1 THEN b ELSE Text

\* s holds the bytes of that stream after the first m.
Follows(s, m, n, a, b) == \A j \in 1 .. Len(s) : s[j] = At(n, a, b, m + j)

LenOf(req) == IF req # NoRequest THEN ReqLen ELSE 0

Pending == nbText - mcText

\* What the two cores hold of the stream, from its oldest byte.
Shape(a, b) ==
  /\ Follows(mcCmd, 0, Pending, a, b)
  /\ Follows(mcHand, Len(mcCmd), Pending, a, b)
  /\ Follows(svRing, Len(mcCmd) + Len(mcHand), Pending, a, b)
  /\ Follows(svWire, Len(mcCmd) + Len(mcHand) + Len(svRing), Pending, a, b)
  /\ Len(mcCmd) + Len(mcHand) + Len(svRing) + Len(svWire) = Pending + LenOf(a) + LenOf(b)

\* The requests in the stream are those the radio core waits for, and one for
\* a reset before them.
Owed(a, b) ==
  \/ a = NoRequest /\ b = NoRequest /\ (nbPc \in {"off", "run"} \/ nbDone)
  \/ a = "reset" /\ b = NoRequest /\ nbPc = "off"
  \/ a = "reset" /\ b = "addr" /\ nbPc = "addr" /\ ~nbDone
  \/ a \in {"addr", "load", "save"} /\ b = NoRequest /\ nbPc = a /\ ~nbDone

\* A request is collected only when no character is before it.
Collected(a) ==
  mcCmd = << >> \/ (Pending = 0 /\ a # NoRequest /\ Len(mcCmd) < ReqLen)

StreamTypes ==
  /\ mcCmd \in Seq(StreamByte) /\ mcHand \in Seq(StreamByte)
  /\ svRing \in Seq(StreamByte) /\ svWire \in Seq(StreamByte)
  /\ nbText \in Nat /\ mcText \in Nat /\ Pending \in Nat
  /\ nbPc \in {"off", "addr", "load", "save", "run"}
  /\ mcPc \in {"loop", "read", "parse", "sync"}
  /\ nbDone \in BOOLEAN
  /\ mcPc \in {"loop", "read"} => mcHand = << >>
  /\ mcPc = "parse" => mcHand # << >>

InStream(a, b) == Shape(a, b) /\ Owed(a, b) /\ Collected(a)

StreamInv ==
  /\ StreamTypes
  /\ \E a, b \in Request \cup {NoRequest} : InStream(a, b)

\* What the radio core holds is what the main core stored for it.
Stored(x) == x = mcSet \/ (mcSet = NoData /\ x = << >>)

DataInv ==
  /\ mcPc # "sync" => mcNvm = mcSet
  /\ nbPc = "run" \/ (nbPc \in {"load", "save"} /\ nbDone) => Stored(nbBuf)
  /\ nbPc = "load" /\ ~nbDone => nbBuf = << >>
  /\ nbKept # NoData =>
       /\ nbPc # "save" /\ Stored(nbKept)
       /\ nbPc = "run" \/ (nbPc = "load" /\ nbDone) => nbBuf = nbKept

NbuInv == StreamInv /\ DataInv

\* A request as a sequence of bytes.
LEMMA RequestBytes ==
  ASSUME NEW req \in Request
  PROVE  /\ Bytes(req) \in Seq(StreamByte) /\ Len(Bytes(req)) = ReqLen
         /\ \A i \in 1 .. ReqLen : Bytes(req)[i] = IF i = 1 THEN req ELSE Text
<1> DEFINE x == <<req>>
           y == [i \in 1 .. ReqLen - 1 |-> Text]
<1>1. x \in Seq(StreamByte) /\ Len(x) = 1 /\ x[1] = req
  BY DEF StreamByte
<1>2. y \in Seq(StreamByte) /\ Len(y) = ReqLen - 1 /\ \A i \in 1 .. ReqLen - 1 : y[i] = Text
  BY NbuAssumption DEF StreamByte
<1> HIDE DEF x, y
<1>3. /\ x \o y \in Seq(StreamByte) /\ Len(x \o y) = Len(x) + Len(y)
      /\ \A i \in 1 .. Len(x) + Len(y) : (x \o y)[i] = IF i <= Len(x) THEN x[i] ELSE y[i - Len(x)]
  <2>1. x \in Seq(StreamByte) /\ y \in Seq(StreamByte)
    BY <1>1, <1>2
  <2> QED BY ONLY <2>1, ConcatProperties
<1>4. ASSUME NEW i \in 1 .. ReqLen
      PROVE  (x \o y)[i] = IF i = 1 THEN req ELSE Text
  <2>1. i \in 1 .. Len(x) + Len(y) /\ (i <= Len(x) <=> i = 1)
    BY <1>1, <1>2, NbuAssumption
  <2>2. CASE i = 1
    BY <1>1, <1>3, <2>1, <2>2
  <2>3. CASE i # 1
    <3>1. i - Len(x) \in 1 .. ReqLen - 1
      BY <1>1, <2>3, NbuAssumption
    <3> QED BY <1>2, <1>3, <2>1, <2>3, <3>1
  <2> QED BY <2>2, <2>3
<1>5. Len(x \o y) = ReqLen
  BY <1>1, <1>2, <1>3, NbuAssumption
<1> QED BY <1>3, <1>4, <1>5 DEF Bytes, x, y

\* Bytes are added to the end of a part of the stream.
LEMMA PartGrows ==
  ASSUME NEW s \in Seq(StreamByte), NEW t \in Seq(StreamByte), NEW m \in Nat, NEW n \in Nat, NEW a, NEW b,
         Follows(s, m, n, a, b), Follows(t, m + Len(s), n, a, b)
  PROVE  s \o t \in Seq(StreamByte) /\ Len(s \o t) = Len(s) + Len(t) /\ Follows(s \o t, m, n, a, b)
<1>1. s \o t \in Seq(StreamByte) /\ Len(s \o t) = Len(s) + Len(t) /\ Len(s) \in Nat /\ Len(t) \in Nat
  OBVIOUS
<1>2. ASSUME NEW j \in 1 .. Len(s \o t)
      PROVE  (s \o t)[j] = At(n, a, b, m + j)
  <2>1. CASE j <= Len(s)
    BY <1>1, <2>1 DEF Follows
  <2>2. CASE j > Len(s)
    <3> DEFINE i == j - Len(s)
    <3>1. i \in 1 .. Len(t) /\ (s \o t)[j] = t[i]
      BY <1>1, <2>2
    <3>2. t[i] = At(n, a, b, m + Len(s) + i)
      BY <3>1 DEF Follows
    <3>3. m + Len(s) + i = m + j
      BY <1>1
    <3> QED BY <3>1, <3>2, <3>3
  <2> QED BY <1>1, <2>1, <2>2
<1> QED BY <1>1, <1>2 DEF Follows

\* A part of the stream is cut in two.
LEMMA PartCut ==
  ASSUME NEW s \in Seq(StreamByte), NEW c \in 1 .. Len(s), NEW m \in Nat, NEW n \in Nat, NEW a, NEW b,
         Follows(s, m, n, a, b)
  PROVE  /\ SubSeq(s, 1, c) \in Seq(StreamByte) /\ Len(SubSeq(s, 1, c)) = c
         /\ SubSeq(s, c + 1, Len(s)) \in Seq(StreamByte) /\ Len(SubSeq(s, c + 1, Len(s))) = Len(s) - c
         /\ Follows(SubSeq(s, 1, c), m, n, a, b)
         /\ Follows(SubSeq(s, c + 1, Len(s)), m + c, n, a, b)
<1> DEFINE x == SubSeq(s, 1, c)
           y == SubSeq(s, c + 1, Len(s))
<1>1. Len(s) \in Nat
  OBVIOUS
<1>2. x \in Seq(StreamByte) /\ Len(x) = c /\ \A i \in 1 .. c : x[i] = s[i]
  OBVIOUS
<1>3. y \in Seq(StreamByte) /\ Len(y) = Len(s) - c /\ \A i \in 1 .. Len(s) - c : y[i] = s[c + i]
  OBVIOUS
<1> HIDE DEF x, y
<1>4. Follows(x, m, n, a, b)
  BY <1>1, <1>2 DEF Follows
<1>5. ASSUME NEW j \in 1 .. Len(y)
      PROVE  y[j] = At(n, a, b, m + c + j)
  <2>1. c + j \in 1 .. Len(s) /\ m + c + j = m + (c + j)
    BY <1>1, <1>3
  <2> QED BY <1>3, <2>1 DEF Follows
<1> QED BY <1>2, <1>3, <1>4, <1>5 DEF x, y, Follows

\* The first byte of a part leaves it.
LEMMA PartTail ==
  ASSUME NEW s \in Seq(StreamByte), s # << >>, NEW m \in Nat, NEW n \in Nat, NEW a, NEW b,
         Follows(s, m, n, a, b)
  PROVE  /\ Tail(s) \in Seq(StreamByte) /\ Len(Tail(s)) = Len(s) - 1 /\ Len(s) \in Nat \ {0}
         /\ Head(s) \in StreamByte /\ Head(s) = At(n, a, b, m + 1)
         /\ Follows(Tail(s), m + 1, n, a, b)
<1>1. /\ Len(s) \in Nat \ {0} /\ Tail(s) \in Seq(StreamByte) /\ Len(Tail(s)) = Len(s) - 1
      /\ Head(s) \in StreamByte /\ Head(s) = s[1] /\ \A i \in 1 .. Len(s) - 1 : Tail(s)[i] = s[i + 1]
  OBVIOUS
<1>2. ASSUME NEW j \in 1 .. Len(Tail(s))
      PROVE  Tail(s)[j] = At(n, a, b, m + 1 + j)
  <2>1. j + 1 \in 1 .. Len(s) /\ m + 1 + j = m + (j + 1)
    BY <1>1
  <2> QED BY <1>1, <2>1 DEF Follows
<1>3. Head(s) = At(n, a, b, m + 1)
  BY <1>1 DEF Follows
<1> QED BY <1>1, <1>2, <1>3 DEF Follows

\* The bytes that the radio core adds are the next of the stream.
LEMMA SendGrows ==
  ASSUME NEW t \in Seq(StreamByte), NEW n \in Nat, NEW m \in Nat, NEW a, NEW b, NEW c, NEW d,
         StreamTypes, Shape(a, b), Pending = n, Pending' = m,
         UNCHANGED <<svRing, mcHand, mcCmd>>, svWire' = svWire \o t,
         \A i \in 1 .. n + LenOf(a) + LenOf(b) : At(m, c, d, i) = At(n, a, b, i),
         Follows(t, n + LenOf(a) + LenOf(b), m, c, d),
         n + LenOf(a) + LenOf(b) + Len(t) = m + LenOf(c) + LenOf(d)
  PROVE  Shape(c, d)' /\ svWire' \in Seq(StreamByte)
<1> DEFINE all == n + LenOf(a) + LenOf(b)
           lc == Len(mcCmd)
           lh == Len(mcHand)
           lr == Len(svRing)
           lw == Len(svWire)
<1>0. lc \in Nat /\ lh \in Nat /\ lr \in Nat /\ lw \in Nat /\ all = lc + lh + lr + lw /\ Len(t) \in Nat
  BY DEF StreamTypes, Shape
<1>1. Follows(mcCmd, 0, m, c, d)
  BY <1>0 DEF Shape, Follows
<1>2. Follows(mcHand, lc, m, c, d)
  <2> SUFFICES ASSUME NEW j \in 1 .. Len(mcHand)
               PROVE  mcHand[j] = At(m, c, d, lc + j)
    BY DEF Follows
  <2>1. lc + j \in 1 .. all
    BY <1>0
  <2>2. mcHand[j] = At(n, a, b, lc + j)
    BY DEF Shape, Follows
  <2> QED BY <2>1, <2>2
<1>3. Follows(svRing, lc + lh, m, c, d)
  <2> SUFFICES ASSUME NEW j \in 1 .. Len(svRing)
               PROVE  svRing[j] = At(m, c, d, lc + lh + j)
    BY DEF Follows
  <2>1. lc + lh + j \in 1 .. all
    BY <1>0
  <2>2. svRing[j] = At(n, a, b, lc + lh + j)
    BY DEF Shape, Follows
  <2> QED BY <2>1, <2>2
<1>4. Follows(svWire, lc + lh + lr, m, c, d)
  <2> SUFFICES ASSUME NEW j \in 1 .. Len(svWire)
               PROVE  svWire[j] = At(m, c, d, lc + lh + lr + j)
    BY DEF Follows
  <2>1. lc + lh + lr + j \in 1 .. all
    BY <1>0
  <2>2. svWire[j] = At(n, a, b, lc + lh + lr + j)
    BY DEF Shape, Follows
  <2> QED BY <2>1, <2>2
<1>5. lc + lh + lr \in Nat /\ lc + lh + lr + lw = all
  BY <1>0
<1>6. /\ svWire \o t \in Seq(StreamByte) /\ Len(svWire \o t) = lw + Len(t)
      /\ Follows(svWire \o t, lc + lh + lr, m, c, d)
  <2> DEFINE q == lc + lh + lr
  <2>1. q \in Nat /\ Follows(svWire, q, m, c, d) /\ Follows(t, q + Len(svWire), m, c, d)
    BY <1>4, <1>5
  <2> HIDE DEF q
  <2>2. /\ svWire \o t \in Seq(StreamByte) /\ Len(svWire \o t) = Len(svWire) + Len(t)
        /\ Follows(svWire \o t, q, m, c, d)
    BY <2>1, PartGrows DEF StreamTypes
  <2> QED BY <2>2 DEF q
<1>7. lc + lh + lr + Len(svWire \o t) = m + LenOf(c) + LenOf(d)
  BY <1>0, <1>6
<1>8. Shape(c, d)'
  BY <1>1, <1>2, <1>3, <1>6, <1>7 DEF Shape, Follows, At, LenOf
<1> QED BY <1>6, <1>8

\* No byte is in the stream when the radio core waits for nothing and asks.
LEMMA AskKeeps ==
  ASSUME NEW req \in {"addr", "load", "save"}, StreamInv,
         (nbPc = "off" /\ req = "addr") \/ (nbPc = "addr" /\ nbDone) \/ nbPc = "run",
         Asks(req, req), UNCHANGED <<svRing, mcPc, mcHand, mcCmd, nbText, mcText>>
  PROVE  StreamInv'
<1> PICK a, b \in Request \cup {NoRequest} : InStream(a, b)
  BY DEF StreamInv
<1> DEFINE n == Pending
           t == Bytes(req)
<1>1. n \in Nat /\ Pending' = n /\ StreamTypes /\ Shape(a, b)
  BY DEF StreamInv, StreamTypes, InStream, Pending
<1>2. t \in Seq(StreamByte) /\ Len(t) = ReqLen /\ \A i \in 1 .. ReqLen : t[i] = IF i = 1 THEN req ELSE Text
  BY RequestBytes DEF Request
<1>3. svWire' = svWire \o t /\ nbDone' = FALSE /\ nbPc' = req
  BY DEF Asks, Send
<1>4. ReqLen \in Nat /\ ReqLen > 1
  BY NbuAssumption
<1> HIDE DEF n, t
<1>5. CASE a = NoRequest /\ b = NoRequest
  <2>1. \A i \in 1 .. n + LenOf(a) + LenOf(b) : At(n, req, NoRequest, i) = At(n, a, b, i)
    BY <1>1, <1>5 DEF LenOf, At, NoRequest
  <2>2. Follows(t, n + LenOf(a) + LenOf(b), n, req, NoRequest)
    BY <1>1, <1>2, <1>4, <1>5 DEF LenOf, At, NoRequest, Follows
  <2>3. n + LenOf(a) + LenOf(b) + Len(t) = n + LenOf(req) + LenOf(NoRequest)
    BY <1>1, <1>2, <1>4, <1>5 DEF LenOf, NoRequest
  <2>4. Shape(req, NoRequest)' /\ svWire' \in Seq(StreamByte)
    BY <1>1, <1>2, <1>3, <2>1, <2>2, <2>3, SendGrows DEF n
  <2>5. Owed(req, NoRequest)'
    BY <1>3 DEF Owed
  <2>6. Collected(req)'
    BY <1>1, <1>5 DEF InStream, Collected, NoRequest, n
  <2>7. StreamTypes'
    BY <1>1, <1>3, <2>4 DEF StreamTypes, n
  <2> QED BY <2>4, <2>5, <2>6, <2>7 DEF StreamInv, InStream, Request
<1>6. CASE a = "reset" /\ b = NoRequest
  <2>0. nbPc = "off" /\ req = "addr"
    BY <1>6 DEF InStream, Owed, NoRequest
  <2>1. \A i \in 1 .. n + LenOf(a) + LenOf(b) : At(n, a, req, i) = At(n, a, b, i)
    BY <1>1, <1>4, <1>6 DEF LenOf, At, NoRequest
  <2>2. Follows(t, n + LenOf(a) + LenOf(b), n, a, req)
    BY <1>1, <1>2, <1>4, <1>6 DEF LenOf, At, NoRequest, Follows
  <2>3. n + LenOf(a) + LenOf(b) + Len(t) = n + LenOf(a) + LenOf(req)
    BY <1>1, <1>2, <1>4, <1>6 DEF LenOf, NoRequest
  <2>4. Shape(a, req)' /\ svWire' \in Seq(StreamByte)
    BY <1>1, <1>2, <1>3, <2>1, <2>2, <2>3, SendGrows DEF n
  <2>5. Owed(a, req)'
    BY <1>3, <1>6, <2>0 DEF Owed
  <2>6. Collected(a)'
    BY <1>1, <1>6 DEF InStream, Collected, NoRequest, n
  <2>7. StreamTypes'
    BY <1>1, <1>3, <2>4 DEF StreamTypes, n
  <2> QED BY <2>4, <2>5, <2>6, <2>7 DEF StreamInv, InStream, Request
<1>7. (a = NoRequest /\ b = NoRequest) \/ (a = "reset" /\ b = NoRequest)
  BY DEF InStream, Owed, NoRequest
<1> QED BY <1>5, <1>6, <1>7

\* The radio core prints, or asks for a reset.
LEMMA RunKeeps ==
  ASSUME StreamInv, otPlatUartSend \/ otPlatReset
  PROVE  StreamInv'
<1> PICK a, b \in Request \cup {NoRequest} : InStream(a, b)
  BY DEF StreamInv
<1> DEFINE n == Pending
           t == Bytes("reset")
           u == <<Text>>
<1>0. nbPc = "run" /\ a = NoRequest /\ b = NoRequest
  BY DEF InStream, Owed, NoRequest, otPlatUartSend, otPlatReset
<1>1. n \in Nat /\ StreamTypes /\ Shape(a, b)
  BY DEF StreamInv, StreamTypes, InStream
<1>2. t \in Seq(StreamByte) /\ Len(t) = ReqLen /\ \A i \in 1 .. ReqLen : t[i] = IF i = 1 THEN "reset" ELSE Text
  BY RequestBytes DEF Request
<1>3. u \in Seq(StreamByte) /\ Len(u) = 1 /\ u[1] = Text
  BY DEF StreamByte
<1>4. ReqLen \in Nat /\ ReqLen > 1
  BY NbuAssumption
<1>5. CASE otPlatUartSend
  <2>0. /\ svWire' = svWire \o u /\ Pending' = n + 1 /\ UNCHANGED <<svRing, mcPc, mcHand, mcCmd, mcText, nbPc, nbDone>>
        /\ nbText' = nbText + 1
    BY <1>1, <1>5 DEF otPlatUartSend, Send, mcVars, nbVars, Pending, StreamTypes
  <2> HIDE DEF n, u
  <2>1. \A i \in 1 .. n + LenOf(a) + LenOf(b) : At(n + 1, a, b, i) = At(n, a, b, i)
    BY <1>0 DEF At
  <2>2. Follows(u, n + LenOf(a) + LenOf(b), n + 1, a, b)
    BY <1>0, <1>3 DEF At, Follows
  <2>3. n + LenOf(a) + LenOf(b) + Len(u) = n + 1 + LenOf(a) + LenOf(b)
    BY <1>0, <1>1, <1>3 DEF LenOf
  <2>4. Shape(a, b)' /\ svWire' \in Seq(StreamByte)
    <3> DEFINE m == n + 1
    <3>1. m \in Nat
      BY <1>1
    <3>2. n + LenOf(a) + LenOf(b) + Len(u) = m + LenOf(a) + LenOf(b)
      BY <2>3
    <3>3. Pending' = m /\ Pending = n /\ UNCHANGED <<svRing, mcHand, mcCmd>>
      BY <2>0 DEF n
    <3> HIDE DEF m
    <3>4. /\ \A i \in 1 .. n + LenOf(a) + LenOf(b) : At(m, a, b, i) = At(n, a, b, i)
          /\ Follows(u, n + LenOf(a) + LenOf(b), m, a, b)
      BY <2>1, <2>2 DEF m
    <3> QED BY <1>1, <1>3, <2>0, <3>1, <3>2, <3>3, <3>4, SendGrows
  <2>5. Owed(a, b)'
    BY <1>0, <2>0 DEF Owed
  <2>6. Collected(a)'
    BY <1>0, <2>0 DEF InStream, Collected
  <2>7. StreamTypes'
    BY <1>1, <2>0, <2>4 DEF StreamTypes, n
  <2> QED BY <2>4, <2>5, <2>6, <2>7 DEF StreamInv, InStream
<1>6. CASE otPlatReset
  <2>0. /\ svWire' = svWire \o t /\ Pending' = n /\ UNCHANGED <<svRing, mcPc, mcHand, mcCmd, mcText, nbText, nbDone>>
        /\ nbPc' = "off"
    BY <1>1, <1>6 DEF otPlatReset, Send, mcVars, Pending, StreamTypes
  <2> DEFINE req == "reset"
  <2> HIDE DEF n, t
  <2>1. \A i \in 1 .. n + LenOf(a) + LenOf(b) : At(n, req, NoRequest, i) = At(n, a, b, i)
    BY <1>0, <1>1 DEF LenOf, At, NoRequest
  <2>2. Follows(t, n + LenOf(a) + LenOf(b), n, req, NoRequest)
    BY <1>0, <1>1, <1>2, <1>4 DEF LenOf, At, NoRequest, Follows
  <2>3. n + LenOf(a) + LenOf(b) + Len(t) = n + LenOf(req) + LenOf(NoRequest)
    BY <1>0, <1>1, <1>2, <1>4 DEF LenOf, NoRequest
  <2>4. Shape(req, NoRequest)' /\ svWire' \in Seq(StreamByte)
    BY <1>1, <1>2, <2>0, <2>1, <2>2, <2>3, SendGrows DEF n
  <2>5. Owed(req, NoRequest)'
    BY <2>0 DEF Owed
  <2>6. Collected(req)'
    BY <1>0, <2>0 DEF InStream, Collected
  <2>7. StreamTypes'
    BY <1>1, <2>0, <2>4 DEF StreamTypes, n
  <2> QED BY <2>4, <2>5, <2>6, <2>7 DEF StreamInv, InStream, Request
<1> QED BY <1>5, <1>6

\* Bytes reach the ring buffer.
LEMMA RxKeeps ==
  ASSUME StreamInv, rx_cb
  PROVE  StreamInv'
<1> PICK a, b \in Request \cup {NoRequest} : InStream(a, b)
  BY DEF StreamInv
<1> PICK c \in 1 .. Len(svWire) :
      /\ svRing' = svRing \o SubSeq(svWire, 1, c)
      /\ svWire' = SubSeq(svWire, c + 1, Len(svWire))
  BY DEF rx_cb
<1>0. UNCHANGED <<nbPc, nbDone, nbText, mcText, mcPc, mcHand, mcCmd, Pending>>
  BY DEF rx_cb, nbVars, mcVars, hsVars, Pending
<1> DEFINE n == Pending
           x == SubSeq(svWire, 1, c)
           y == SubSeq(svWire, c + 1, Len(svWire))
           m == Len(mcCmd) + Len(mcHand)
           k == m + Len(svRing)
<1>1. /\ n \in Nat /\ m \in Nat /\ k \in Nat /\ Len(svWire) \in Nat /\ Len(svRing) \in Nat
      /\ svWire \in Seq(StreamByte) /\ svRing \in Seq(StreamByte)
      /\ Follows(svWire, k, n, a, b) /\ Follows(svRing, m, n, a, b)
  BY DEF StreamInv, StreamTypes, InStream, Shape
<1> HIDE DEF n, m, k
<1>2. /\ x \in Seq(StreamByte) /\ Len(x) = c /\ y \in Seq(StreamByte) /\ Len(y) = Len(svWire) - c
      /\ Follows(x, k, n, a, b) /\ Follows(y, k + c, n, a, b)
  BY <1>1, PartCut
<1> HIDE DEF x, y
<1>3. /\ svRing \o x \in Seq(StreamByte) /\ Len(svRing \o x) = Len(svRing) + Len(x)
      /\ Follows(svRing \o x, m, n, a, b)
  BY <1>1, <1>2, PartGrows DEF k
<1>4. svRing' = svRing \o x /\ svWire' = y
  BY DEF x, y
<1>5. m + Len(svRing \o x) = k + c
  BY <1>1, <1>2, <1>3 DEF k
<1>6. Follows(svRing', m, n, a, b) /\ Follows(svWire', m + Len(svRing'), n, a, b)
  BY <1>2, <1>3, <1>4, <1>5
<1>7. m + Len(svRing') + Len(svWire') = m + Len(svRing) + Len(svWire)
  <2>1. Len(svRing') = Len(svRing) + c
    BY <1>2, <1>3, <1>4
  <2>2. Len(svWire') = Len(svWire) - c
    BY <1>2, <1>4
  <2>3. c \in Int
    OBVIOUS
  <2>4. m \in Int /\ Len(svRing) \in Int /\ Len(svWire) \in Int
    BY <1>1
  <2> DEFINE p == Len(svRing)
             q == Len(svWire)
  <2> HIDE DEF p, q
  <2>5. m + (p + c) + (q - c) = m + p + q
    BY ONLY <2>3, <2>4 DEF p, q
  <2> QED BY <2>1, <2>2, <2>5 DEF p, q
<1>8. Shape(a, b)'
  BY <1>0, <1>6, <1>7 DEF InStream, Shape, m, n, Follows, At, LenOf
<1>9. StreamTypes' /\ Owed(a, b)' /\ Collected(a)'
  BY <1>0, <1>2, <1>3, <1>4 DEF StreamInv, StreamTypes, InStream, Owed, Collected
<1> QED BY <1>8, <1>9 DEF StreamInv, InStream

\* The main core reads all of the ring buffer.
LEMMA ReadKeeps ==
  ASSUME StreamInv, SerialManager_TryRead
  PROVE  StreamInv'
<1> PICK a, b \in Request \cup {NoRequest} : InStream(a, b)
  BY DEF StreamInv
<1>0. /\ UNCHANGED <<nbPc, nbDone, nbText, mcText, svWire, mcCmd, Pending>>
      /\ mcHand = << >> /\ mcHand' = svRing /\ svRing' = << >>
      /\ mcPc' = IF svRing = << >> THEN "loop" ELSE "parse"
  BY DEF SerialManager_TryRead, nbVars, hsVars, Pending, StreamInv, StreamTypes
<1>1. /\ Len(mcHand) = 0 /\ Len(svRing') = 0 /\ << >> \in Seq(StreamByte)
      /\ Len(mcCmd) \in Nat /\ Len(svRing) \in Nat /\ Len(svWire) \in Nat
  BY <1>0 DEF StreamInv, StreamTypes
<1>2. /\ Len(mcCmd) + Len(mcHand) = Len(mcCmd)
      /\ Len(mcCmd) + Len(mcHand) + Len(svRing) = Len(mcCmd)' + Len(mcHand)' + Len(svRing')
      /\ Len(mcCmd) + Len(svRing) = Len(mcCmd)' + Len(mcHand')
  BY <1>0, <1>1
<1>3. Follows(mcHand', Len(mcCmd)', Pending', a, b)
  BY <1>0, <1>2 DEF InStream, Shape
<1>4. Follows(svRing', Len(mcCmd)' + Len(mcHand'), Pending', a, b)
  BY <1>1 DEF Follows
<1>5. Follows(svWire', Len(mcCmd)' + Len(mcHand') + Len(svRing'), Pending', a, b)
  BY <1>0, <1>1, <1>2 DEF InStream, Shape
<1>6. Shape(a, b)'
  BY <1>0, <1>1, <1>2, <1>3, <1>4, <1>5 DEF InStream, Shape, Follows, At, LenOf
<1>7. StreamTypes'
  BY <1>0, <1>1 DEF StreamInv, StreamTypes
<1>8. Owed(a, b)' /\ Collected(a)'
  BY <1>0 DEF InStream, Owed, Collected
<1> QED BY <1>6, <1>7, <1>8 DEF StreamInv, InStream

\* What the main core parses: the oldest byte that is not in tmp_cmd.
LEMMA Oldest ==
  ASSUME StreamInv, mcPc = "parse",
         NEW a \in Request \cup {NoRequest}, NEW b \in Request \cup {NoRequest}, InStream(a, b)
  PROVE  /\ Head(mcHand) = At(Pending, a, b, Len(mcCmd) + 1)
         /\ Collects => Pending = 0 /\ a # NoRequest
         /\ ~Collects => Pending > 0 /\ mcCmd = << >>
         /\ mcCmd # << >> => mcCmd[1] = a
<1>0. /\ mcHand \in Seq(StreamByte) /\ mcHand # << >> /\ Len(mcCmd) \in Nat /\ Pending \in Nat
      /\ Len(mcHand) \in Nat \ {0} /\ Len(svRing) \in Nat /\ Len(svWire) \in Nat
      /\ Follows(mcHand, Len(mcCmd), Pending, a, b) /\ mcCmd \in Seq(StreamByte)
      /\ Follows(mcCmd, 0, Pending, a, b)
  BY DEF StreamInv, StreamTypes, InStream, Shape
<1>1. Head(mcHand) = At(Pending, a, b, Len(mcCmd) + 1)
  BY <1>0, PartTail
<1>2. ReqLen \in Nat /\ ReqLen > 1
  BY NbuAssumption
<1>3. a = NoRequest => b = NoRequest
  BY DEF InStream, Owed, NoRequest
<1>4. mcCmd # << >> => Pending = 0 /\ a # NoRequest
  BY DEF InStream, Collected
<1>5. mcCmd = << >> => Len(mcCmd) = 0
  OBVIOUS
<1>6. mcCmd = << >> /\ Head(mcHand) \in Request => Pending = 0 /\ a # NoRequest
  <2> SUFFICES ASSUME mcCmd = << >>, Head(mcHand) \in Request
               PROVE  Pending = 0 /\ a # NoRequest
    OBVIOUS
  <2>1. At(Pending, a, b, 1) # Text
    BY <1>0, <1>1, <1>5 DEF Request, Text
  <2> QED BY <1>0, <1>2, <1>3, <2>1 DEF At
<1>7. mcCmd = << >> /\ Head(mcHand) \notin Request => Pending > 0
  <2> SUFFICES ASSUME mcCmd = << >>, Head(mcHand) \notin Request, Pending = 0
               PROVE  FALSE
    BY <1>0
  <2>1. CASE a = NoRequest
    BY <1>0, <1>3, <1>5, <2>1 DEF InStream, Shape, LenOf
  <2>2. CASE a # NoRequest
    BY <1>0, <1>1, <1>5, <2>2 DEF At
  <2> QED BY <2>1, <2>2
<1>8. mcCmd # << >> => mcCmd[1] = a
  <2> SUFFICES ASSUME mcCmd # << >>
               PROVE  mcCmd[1] = a
    OBVIOUS
  <2>1. 1 \in 1 .. Len(mcCmd)
    BY <1>0
  <2>2. mcCmd[1] = At(0, a, b, 0 + 1)
    BY <1>0, <1>4, <2>1 DEF Follows
  <2> QED BY <1>4, <2>2 DEF At
<1> QED BY <1>1, <1>4, <1>6, <1>7, <1>8 DEF Collects

\* A byte of a request is collected.
LEMMA FillKeeps ==
  ASSUME StreamInv, FillCommand
  PROVE  StreamInv'
<1> PICK a, b \in Request \cup {NoRequest} : InStream(a, b)
  BY DEF StreamInv
<1>0. /\ UNCHANGED <<nbPc, nbDone, nbText, mcText, svWire, svRing, Pending>>
      /\ mcPc = "parse" /\ Collects /\ Len(mcCmd) + 1 < ReqLen
      /\ mcHand' = Tail(mcHand) /\ mcCmd' = Append(mcCmd, Head(mcHand))
      /\ mcPc' = IF Len(mcHand) = 1 THEN "loop" ELSE "parse"
  BY DEF FillCommand, Collects, Took, ParsesOn, nbVars, svVars, hsVars, Pending
<1> DEFINE n == Pending
           lc == Len(mcCmd)
           e == Head(mcHand)
           t == Tail(mcHand)
           d == Append(mcCmd, e)
<1>1. n = 0 /\ a # NoRequest /\ e = At(n, a, b, lc + 1)
  BY <1>0, Oldest
<1>2. /\ n \in Nat /\ lc \in Nat /\ Len(svRing) \in Nat /\ Len(svWire) \in Nat
      /\ mcHand \in Seq(StreamByte) /\ mcHand # << >> /\ mcCmd \in Seq(StreamByte)
      /\ Follows(mcHand, lc, n, a, b) /\ Follows(mcCmd, 0, n, a, b)
      /\ Follows(svRing, lc + Len(mcHand), n, a, b)
      /\ Follows(svWire, lc + Len(mcHand) + Len(svRing), n, a, b)
  BY <1>0 DEF StreamInv, StreamTypes, InStream, Shape
<1>3. /\ t \in Seq(StreamByte) /\ Len(t) = Len(mcHand) - 1 /\ Len(mcHand) \in Nat \ {0}
      /\ e \in StreamByte /\ Follows(t, lc + 1, n, a, b)
  BY <1>2, PartTail
<1> HIDE DEF n, e, t
<1>4. d \in Seq(StreamByte) /\ Len(d) = lc + 1 /\ d[lc + 1] = e /\ \A i \in 1 .. lc : d[i] = mcCmd[i]
  BY <1>2, <1>3
<1> HIDE DEF d
<1>5. Follows(d, 0, n, a, b)
  <2> SUFFICES ASSUME NEW j \in 1 .. Len(d)
               PROVE  d[j] = At(n, a, b, 0 + j)
    BY DEF Follows
  <2>1. CASE j = lc + 1
    BY <1>1, <1>2, <1>4, <2>1
  <2>2. CASE j # lc + 1
    <3>1. j \in 1 .. lc
      BY <1>2, <1>4, <2>2
    <3>2. mcCmd[j] = At(n, a, b, 0 + j)
      BY <1>2, <3>1 DEF Follows
    <3> QED BY <1>4, <3>1, <3>2
  <2> QED BY <2>1, <2>2
<1>6. mcHand' = t /\ mcCmd' = d /\ Pending' = n
  BY <1>0 DEF t, d, e, n
<1>7. /\ Follows(mcHand', Len(mcCmd'), n, a, b)
      /\ Follows(svRing', Len(mcCmd') + Len(mcHand'), n, a, b)
      /\ Follows(svWire', Len(mcCmd') + Len(mcHand') + Len(svRing'), n, a, b)
      /\ Len(mcCmd') + Len(mcHand') = lc + Len(mcHand)
  <2>0. Len(mcCmd') = lc + 1 /\ Len(mcHand') = Len(mcHand) - 1
    BY <1>3, <1>4, <1>6
  <2>1. Len(mcCmd') = lc + 1 /\ Len(mcCmd') + Len(mcHand') = lc + Len(mcHand)
    BY <1>2, <1>3, <2>0
  <2>2. svRing' = svRing /\ svWire' = svWire
    BY <1>0
  <2> HIDE DEF lc
  <2> QED BY <1>2, <1>3, <1>6, <2>1, <2>2
<1>8. Shape(a, b)'
  <2>1. Len(mcCmd') + Len(mcHand') + Len(svRing') + Len(svWire') = n + LenOf(a) + LenOf(b)
    BY <1>0, <1>7 DEF InStream, Shape, n
  <2> QED BY <1>5, <1>6, <1>7, <2>1 DEF Shape, Follows, At, LenOf
<1>9. StreamTypes'
  <2>1. Len(mcHand) = 1 => t = << >>
    BY <1>3
  <2>2. Len(mcHand) # 1 => t # << >>
    BY <1>3
  <2> QED BY <1>0, <1>3, <1>4, <1>6, <2>1, <2>2 DEF StreamInv, StreamTypes
<1>10. Owed(a, b)'
  BY <1>0 DEF InStream, Owed
<1>11. Collected(a)'
  BY <1>0, <1>1, <1>4, <1>6 DEF Collected, n
<1> QED BY <1>8, <1>9, <1>10, <1>11 DEF StreamInv, InStream

\* A character is printed.
LEMMA PrintKeeps ==
  ASSUME StreamInv, PrintText
  PROVE  StreamInv'
<1> PICK a, b \in Request \cup {NoRequest} : InStream(a, b)
  BY DEF StreamInv
<1>0. /\ UNCHANGED <<nbPc, nbDone, nbText, svWire, svRing, mcCmd>> /\ mcText' = mcText + 1
      /\ mcPc = "parse" /\ ~Collects /\ mcHand' = Tail(mcHand)
      /\ mcPc' = IF Len(mcHand) = 1 THEN "loop" ELSE "parse"
  BY DEF PrintText, Took, ParsesOn, nbVars, svVars
<1> DEFINE n == Pending
           m == n - 1
           t == Tail(mcHand)
           lh == Len(mcHand)
           lr == Len(svRing)
<1>1. n > 0 /\ mcCmd = << >> /\ Len(mcCmd) = 0
  BY <1>0, Oldest
<1>2. /\ n \in Nat /\ lr \in Nat /\ Len(svWire) \in Nat
      /\ mcHand \in Seq(StreamByte) /\ mcHand # << >>
      /\ Follows(mcHand, 0, n, a, b)
      /\ Follows(svRing, 0 + lh, n, a, b)
      /\ Follows(svWire, 0 + lh + lr, n, a, b)
  BY <1>0, <1>1 DEF StreamInv, StreamTypes, InStream, Shape
<1>3. /\ t \in Seq(StreamByte) /\ Len(t) = lh - 1 /\ lh \in Nat \ {0} /\ Follows(t, 1, n, a, b)
  BY <1>2, PartTail
<1>4. m \in Nat /\ Pending' = m /\ nbText \in Nat /\ mcText \in Nat /\ ReqLen \in Nat
  BY <1>0, <1>1, <1>2, NbuAssumption DEF Pending, StreamInv, StreamTypes
<1>5. n = m + 1
  BY <1>2, <1>4
<1> HIDE DEF n, m, t
<1>6. \A i \in Nat : At(n, a, b, i + 1) = At(m, a, b, i)
  BY <1>4, <1>5 DEF At
<1>7. Follows(t, 0, m, a, b)
  <2> SUFFICES ASSUME NEW j \in 1 .. Len(t)
               PROVE  t[j] = At(m, a, b, 0 + j)
    BY DEF Follows
  <2>1. t[j] = At(n, a, b, 1 + j) /\ 1 + j = j + 1 /\ 0 + j = j /\ j \in Nat
    BY <1>3 DEF Follows
  <2> QED BY <1>6, <2>1
<1>8. Follows(svRing, 0 + Len(t), m, a, b)
  <2> SUFFICES ASSUME NEW j \in 1 .. Len(svRing)
               PROVE  svRing[j] = At(m, a, b, 0 + Len(t) + j)
    BY DEF Follows
  <2>1. svRing[j] = At(n, a, b, 0 + lh + j)
    BY <1>2 DEF Follows
  <2>2. 0 + lh + j = (0 + Len(t) + j) + 1 /\ 0 + Len(t) + j \in Nat
    BY <1>2, <1>3
  <2> QED BY <1>6, <2>1, <2>2
<1>9. Follows(svWire, 0 + Len(t) + lr, m, a, b)
  <2> SUFFICES ASSUME NEW j \in 1 .. Len(svWire)
               PROVE  svWire[j] = At(m, a, b, 0 + Len(t) + lr + j)
    BY DEF Follows
  <2>1. svWire[j] = At(n, a, b, 0 + lh + lr + j)
    BY <1>2 DEF Follows
  <2>2. 0 + lh + lr + j = (0 + Len(t) + lr + j) + 1 /\ 0 + Len(t) + lr + j \in Nat
    BY <1>2, <1>3
  <2> QED BY <1>6, <2>1, <2>2
<1>10. mcHand' = t /\ UNCHANGED <<mcCmd, svRing, svWire>>
  BY <1>0 DEF t
<1>11. 0 + Len(t) + lr + Len(svWire) = m + LenOf(a) + LenOf(b)
  <2>1. 0 + lh + lr + Len(svWire) = n + LenOf(a) + LenOf(b)
    BY <1>1 DEF InStream, Shape, n
  <2>2. LenOf(a) \in Nat /\ LenOf(b) \in Nat
    BY <1>4 DEF LenOf
  <2> QED BY <1>2, <1>3, <1>4, <1>5, <2>1, <2>2
<1>12. Shape(a, b)'
  <2>1. Follows(mcCmd, 0, m, a, b)
    BY <1>1 DEF Follows
  <2> QED BY <1>1, <1>4, <1>7, <1>8, <1>9, <1>10, <1>11, <2>1 DEF Shape, Follows, At, LenOf
<1>13. StreamTypes'
  <2>1. Len(mcHand) = 1 => t = << >>
    BY <1>3
  <2>2. Len(mcHand) # 1 => t # << >>
    BY <1>3
  <2> QED BY <1>0, <1>3, <1>4, <1>10, <2>1, <2>2 DEF StreamInv, StreamTypes
<1>14. Owed(a, b)' /\ Collected(a)'
  BY <1>0, <1>1 DEF InStream, Owed, Collected
<1> QED BY <1>12, <1>13, <1>14 DEF StreamInv, InStream

\* The last byte of a request other than a reset ends the stream.
LEMMA RequestEnds ==
  ASSUME StreamInv, NEW req \in {"addr", "load", "save"}, Complete(req), Took, mcCmd' = << >>, nbDone' = TRUE,
         UNCHANGED <<nbPc, nbText, mcText, svWire, svRing>>, mcPc' \in {"loop", "sync"}
  PROVE  StreamInv'
<1> PICK a, b \in Request \cup {NoRequest} : InStream(a, b)
  BY DEF StreamInv
<1> DEFINE n == Pending
           t == Tail(mcHand)
<1>0. mcPc = "parse" /\ Collects /\ Len(mcCmd) + 1 = ReqLen /\ mcCmd[1] = req /\ ReqLen \in Nat /\ ReqLen > 1
  BY NbuAssumption DEF Complete, Collects
<1>1. /\ Len(mcCmd) \in Nat /\ Len(mcHand) \in Nat \ {0} /\ Len(svRing) \in Nat /\ Len(svWire) \in Nat
      /\ mcHand \in Seq(StreamByte) /\ svRing \in Seq(StreamByte) /\ svWire \in Seq(StreamByte)
  BY <1>0 DEF StreamInv, StreamTypes
<1>2. mcCmd # << >>
  BY <1>0, <1>1
<1>3. n = 0 /\ a = req
  BY <1>0, <1>2, Oldest
<1>4. b = NoRequest /\ nbPc = req
  BY <1>3 DEF InStream, Owed, NoRequest
<1>5. Len(mcCmd) + Len(mcHand) + Len(svRing) + Len(svWire) = ReqLen
  BY <1>0, <1>3, <1>4 DEF InStream, Shape, LenOf, NoRequest
<1>6. Len(mcHand) = 1 /\ Len(svRing) = 0 /\ Len(svWire) = 0
  <2> DEFINE lc == Len(mcCmd)
             lh == Len(mcHand)
             lr == Len(svRing)
             lw == Len(svWire)
  <2>1. /\ lc \in Nat /\ lh \in Nat \ {0} /\ lr \in Nat /\ lw \in Nat /\ ReqLen \in Nat
        /\ lc + 1 = ReqLen /\ lc + lh + lr + lw = ReqLen
    BY <1>0, <1>1, <1>5
  <2> HIDE DEF lc, lh, lr, lw
  <2>2. lh = 1 /\ lr = 0 /\ lw = 0
    BY ONLY <2>1
  <2> QED BY <2>2 DEF lh, lr, lw
<1>7. t = << >> /\ svRing = << >> /\ svWire = << >> /\ Len(<< >>) = 0 /\ << >> \in Seq(StreamByte)
  <2>1. svRing = << >> /\ svWire = << >>
    BY <1>1, <1>6, EmptySeq
  <2>2. Tail(mcHand) \in Seq(StreamByte) /\ Len(Tail(mcHand)) = 0
    <3>1. mcHand # << >>
      BY <1>1
    <3>2. Tail(mcHand) \in Seq(StreamByte) /\ Len(Tail(mcHand)) = Len(mcHand) - 1
      BY <1>1, <3>1, HeadTailProperties
    <3> QED BY <1>6, <3>2
  <2>3. Tail(mcHand) = << >>
    BY <2>2, EmptySeq
  <2>4. Len(<< >>) = 0 /\ << >> \in Seq(StreamByte)
    OBVIOUS
  <2> QED BY <2>1, <2>3, <2>4
<1>8. mcHand' = << >> /\ svRing' = << >> /\ svWire' = << >> /\ mcCmd' = << >> /\ Pending' = 0
  BY <1>3, <1>7 DEF Took, Pending
<1>9. Shape(NoRequest, NoRequest)'
  BY <1>7, <1>8 DEF Shape, Follows, LenOf
<1>10. StreamTypes'
  BY <1>7, <1>8, <1>4 DEF StreamInv, StreamTypes
<1>11. Owed(NoRequest, NoRequest)' /\ Collected(NoRequest)'
  BY <1>8 DEF Owed, Collected
<1> QED BY <1>9, <1>10, <1>11 DEF StreamInv, InStream

\* When a request other than a reset is complete it is the one the radio core
\* waits for, and its last byte is the last of the data.
LEMMA RequestIs ==
  ASSUME StreamInv, NEW req \in {"addr", "load", "save"}, Complete(req)
  PROVE  nbPc = req /\ ~nbDone /\ mcPc = "parse" /\ Len(mcHand) = 1
<1> PICK a, b \in Request \cup {NoRequest} : InStream(a, b)
  BY DEF StreamInv
<1>0. mcPc = "parse" /\ Collects /\ Len(mcCmd) + 1 = ReqLen /\ mcCmd[1] = req /\ ReqLen \in Nat /\ ReqLen > 1
  BY NbuAssumption DEF Complete, Collects
<1>1. Len(mcCmd) \in Nat /\ Len(mcHand) \in Nat \ {0} /\ Len(svRing) \in Nat /\ Len(svWire) \in Nat
  BY <1>0 DEF StreamInv, StreamTypes
<1>2. mcCmd # << >>
  BY <1>0, <1>1
<1>3. Pending = 0 /\ a = req
  BY <1>0, <1>2, Oldest
<1>4. b = NoRequest /\ nbPc = req /\ ~nbDone
  BY <1>3 DEF InStream, Owed, NoRequest
<1>5. Len(mcCmd) + Len(mcHand) + Len(svRing) + Len(svWire) = ReqLen
  BY <1>0, <1>3, <1>4 DEF InStream, Shape, LenOf, NoRequest
<1>6. Len(mcHand) = 1
  <2> DEFINE lc == Len(mcCmd)
             lh == Len(mcHand)
             lr == Len(svRing)
             lw == Len(svWire)
  <2>1. /\ lc \in Nat /\ lh \in Nat \ {0} /\ lr \in Nat /\ lw \in Nat /\ ReqLen \in Nat
        /\ lc + 1 = ReqLen /\ lc + lh + lr + lw = ReqLen
    BY <1>0, <1>1, <1>5
  <2> HIDE DEF lc, lh, lr, lw
  <2>2. lh = 1
    BY ONLY <2>1
  <2> QED BY <2>2 DEF lh
<1> QED BY <1>0, <1>4, <1>6

\* Both cores start again with an empty stream.
LEMMA RestartKeeps ==
  ASSUME NEW d, Restart(d)
  PROVE  StreamInv'
<1>1. Len(<< >>) = 0 /\ << >> \in Seq(StreamByte)
  OBVIOUS
<1>2. /\ mcHand' = << >> /\ svRing' = << >> /\ svWire' = << >> /\ mcCmd' = << >> /\ Pending' = 0
      /\ nbText' = 0 /\ mcText' = 0 /\ nbPc' = "off" /\ mcPc' = "loop" /\ nbDone' = FALSE
  BY DEF Restart, Pending
<1>3. Shape(NoRequest, NoRequest)'
  BY <1>1, <1>2 DEF Shape, Follows, LenOf
<1>4. StreamTypes'
  BY <1>1, <1>2 DEF StreamTypes
<1>5. Owed(NoRequest, NoRequest)' /\ Collected(NoRequest)'
  BY <1>2 DEF Owed, Collected
<1> QED BY <1>3, <1>4, <1>5 DEF StreamInv, InStream

\* Steps that move no byte and ask for nothing.
LEMMA QuietKeeps ==
  ASSUME StreamInv, UNCHANGED <<svRing, svWire, mcHand, mcCmd, nbText, mcText>>,
         nbPc' = nbPc \/ (nbPc \in {"load", "save"} /\ nbDone /\ nbPc' = "run"), nbDone' = nbDone,
         mcPc' = mcPc \/ (mcPc = "loop" /\ mcPc' = "read")
                      \/ (mcPc = "sync" /\ mcPc' = IF mcHand = << >> THEN "loop" ELSE "parse")
  PROVE  StreamInv'
<1> PICK a, b \in Request \cup {NoRequest} : InStream(a, b)
  BY DEF StreamInv
<1>1. UNCHANGED Pending
  BY DEF Pending
<1>2. Shape(a, b)'
  BY <1>1 DEF InStream, Shape, Follows, At, LenOf
<1>3. StreamTypes'
  BY <1>1 DEF StreamInv, StreamTypes
<1>4. Owed(a, b)'
  <2>1. CASE nbPc' = nbPc
    BY <2>1 DEF InStream, Owed
  <2>2. CASE nbPc \in {"load", "save"} /\ nbDone /\ nbPc' = "run"
    BY <2>2 DEF InStream, Owed
  <2> QED BY <2>1, <2>2
<1>5. Collected(a)'
  BY <1>1 DEF InStream, Collected
<1> QED BY <1>2, <1>3, <1>4, <1>5 DEF StreamInv, InStream

\* The settings in a save, whatever the call that makes it.
LEMMA SaveKeeps ==
  ASSUME NbuInv, NEW s, plat_settings_save(s)
  PROVE  NbuInv'
<1>1. /\ nbPc = "run" /\ nbPc' = "save" /\ nbBuf' = s /\ nbDone' = FALSE /\ nbKept' = NoData
      /\ UNCHANGED <<svRing, mcPc, mcHand, mcCmd, mcSet, mcNvm, nbText, mcText>> /\ Asks("save", "save")
  BY DEF plat_settings_save, Asks, mcVars
<1>2. StreamInv'
  BY <1>1, AskKeeps DEF NbuInv
<1>3. DataInv'
  BY <1>1 DEF NbuInv, DataInv
<1> QED BY <1>2, <1>3 DEF NbuInv

\* Every step of the two cores keeps the stream and the settings.
LEMMA NbuInductive == NbuInv /\ [ServicesNext]_nbuVars => NbuInv'
<1> SUFFICES ASSUME NbuInv, [ServicesNext]_nbuVars PROVE NbuInv'
  OBVIOUS
<1>0. StreamInv /\ DataInv
  BY DEF NbuInv
<1>1. CASE rx_cb
  <2>1. DataInv'
    BY <1>0, <1>1 DEF rx_cb, DataInv, Stored, nbVars, mcVars, hsVars
  <2> QED BY <1>0, <1>1, <2>1, RxKeeps DEF NbuInv
<1>2. CASE serial_rpmsg_process
  <2>1. StreamInv'
    BY <1>0, <1>2, QuietKeeps DEF serial_rpmsg_process, nbVars, hsVars
  <2>2. DataInv'
    BY <1>0, <1>2 DEF serial_rpmsg_process, DataInv, Stored, nbVars, hsVars
  <2> QED BY <2>1, <2>2 DEF NbuInv
<1>3. CASE SerialManager_TryRead
  <2>1. DataInv'
    BY <1>0, <1>3 DEF SerialManager_TryRead, DataInv, Stored, nbVars, hsVars
  <2> QED BY <1>0, <1>3, <2>1, ReadKeeps DEF NbuInv
<1>4. CASE FillCommand
  <2>1. DataInv'
    BY <1>0, <1>4 DEF FillCommand, Collects, ParsesOn, DataInv, Stored, nbVars, hsVars
  <2> QED BY <1>0, <1>4, <2>1, FillKeeps DEF NbuInv
<1>5. CASE PrintText
  <2>1. DataInv'
    BY <1>0, <1>5 DEF PrintText, ParsesOn, DataInv, Stored, nbVars
  <2> QED BY <1>0, <1>5, <2>1, PrintKeeps DEF NbuInv
<1>6. CASE CmdReset
  <2>1. StreamInv'
    BY <1>6, RestartKeeps DEF CmdReset
  <2>2. DataInv'
    BY <1>0, <1>6 DEF CmdReset, Complete, Collects, Restart, DataInv, Stored
  <2> QED BY <2>1, <2>2 DEF NbuInv
<1>7. CASE CmdAddr
  <2>1. nbPc = "addr" /\ ~nbDone /\ mcPc = "parse" /\ Len(mcHand) = 1
    BY <1>0, <1>7, RequestIs DEF CmdAddr
  <2>2. mcPc' = "loop" /\ nbDone' = TRUE /\ UNCHANGED <<nbPc, nbBuf, mcSet, mcNvm, nbKept>>
    BY <1>7, <2>1 DEF CmdAddr, ParsesOn, hsVars
  <2>3. StreamInv'
    BY <1>0, <1>7, <2>2, RequestEnds DEF CmdAddr, svVars, hsVars
  <2>4. DataInv'
    BY <1>0, <2>1, <2>2 DEF DataInv, Stored
  <2> QED BY <2>3, <2>4 DEF NbuInv
<1>8. CASE CmdLoad
  <2>1. nbPc = "load" /\ ~nbDone /\ mcPc = "parse" /\ Len(mcHand) = 1
    BY <1>0, <1>8, RequestIs DEF CmdLoad
  <2>2. /\ mcPc' = "loop" /\ nbDone' = TRUE /\ UNCHANGED <<nbPc, mcSet, mcNvm, nbKept>>
        /\ nbBuf' = IF mcSet # NoData THEN mcSet ELSE nbBuf
    BY <1>8, <2>1 DEF CmdLoad, ParsesOn, hsVars
  <2>3. StreamInv'
    BY <1>0, <1>8, <2>2, RequestEnds DEF CmdLoad, svVars, hsVars
  <2>4. DataInv'
    BY <1>0, <2>1, <2>2 DEF DataInv, Stored
  <2> QED BY <2>3, <2>4 DEF NbuInv
<1>9. CASE CmdSave
  <2>1. nbPc = "save" /\ ~nbDone /\ mcPc = "parse" /\ Len(mcHand) = 1
    BY <1>0, <1>9, RequestIs DEF CmdSave
  <2>2. /\ mcPc' = "sync" /\ nbDone' = TRUE /\ UNCHANGED <<nbPc, nbBuf, mcNvm, nbKept>> /\ mcSet' = nbBuf
    BY <1>9 DEF CmdSave, hsVars
  <2>3. StreamInv'
    BY <1>0, <1>9, <2>2, RequestEnds DEF CmdSave, svVars, hsVars
  <2>4. DataInv'
    BY <1>0, <2>1, <2>2 DEF DataInv, Stored
  <2> QED BY <2>3, <2>4 DEF NbuInv
<1>10. CASE NvSyncSave
  <2>1. StreamInv'
    BY <1>0, <1>10, QuietKeeps DEF NvSyncSave, nbVars, svVars, hsVars
  <2>2. DataInv'
    BY <1>0, <1>10 DEF NvSyncSave, DataInv, Stored, nbVars, hsVars
  <2> QED BY <2>1, <2>2 DEF NbuInv
<1>11. CASE plat_init_ieee_802_15_4_addr
  <2>1. /\ nbPc = "off" /\ Asks("addr", "addr") /\ nbPc' = "addr"
        /\ UNCHANGED <<nbBuf, svRing, mcPc, mcHand, mcCmd, mcSet, mcNvm, nbText, mcText, nbKept>>
    BY <1>11 DEF plat_init_ieee_802_15_4_addr, Asks, mcVars, hsVars
  <2>2. StreamInv'
    <3> DEFINE req == "addr"
    <3>1. req \in {"addr", "load", "save"}
      OBVIOUS
    <3>2. (nbPc = "off" /\ req = "addr") \/ (nbPc = "addr" /\ nbDone) \/ nbPc = "run"
      BY <2>1
    <3>3. Asks(req, req)
      BY <2>1
    <3>4. UNCHANGED <<svRing, mcPc, mcHand, mcCmd, nbText, mcText>>
      BY <2>1
    <3> HIDE DEF req
    <3> QED BY ONLY <1>0, <3>1, <3>2, <3>3, <3>4, AskKeeps
  <2>3. DataInv'
    BY <1>0, <2>1 DEF DataInv, Stored
  <2> QED BY <2>2, <2>3 DEF NbuInv
<1>12. CASE plat_settings_load
  <2>1. /\ nbPc = "addr" /\ nbDone /\ Asks("load", "load") /\ nbPc' = "load" /\ nbDone' = FALSE /\ nbBuf' = << >>
        /\ UNCHANGED <<svRing, mcPc, mcHand, mcCmd, mcSet, mcNvm, nbText, mcText, nbKept>>
    BY <1>12 DEF plat_settings_load, Asks, mcVars, hsVars
  <2>2. StreamInv'
    BY <1>0, <2>1, AskKeeps
  <2>3. DataInv'
    BY <1>0, <2>1 DEF DataInv, Stored
  <2> QED BY <2>2, <2>3 DEF NbuInv
<1>13. CASE Answered
  <2>1. StreamInv'
    BY <1>0, <1>13, QuietKeeps DEF Answered, svVars, mcVars, hsVars
  <2>2. DataInv'
    BY <1>0, <1>13 DEF Answered, DataInv, Stored, mcVars, hsVars
  <2> QED BY <2>1, <2>2 DEF NbuInv
<1>14. CASE NbuPowerLoss
  <2>1. StreamInv'
    BY <1>14, RestartKeeps DEF NbuPowerLoss
  <2>2. DataInv'
    BY <1>0, <1>14 DEF NbuPowerLoss, Restart, DataInv, Stored
  <2> QED BY <2>1, <2>2 DEF NbuInv
<1>15. CASE otPlatReset
  <2>1. DataInv'
    BY <1>0, <1>15 DEF otPlatReset, DataInv, Stored, mcVars
  <2> QED BY <1>0, <1>15, <2>1, RunKeeps DEF NbuInv
<1>16. CASE otPlatUartSend
  <2>1. DataInv'
    BY <1>0, <1>16 DEF otPlatUartSend, DataInv, Stored, nbVars, mcVars
  <2> QED BY <1>0, <1>16, <2>1, RunKeeps DEF NbuInv
<1>17. CASE NbuWipe
  BY <1>17, SaveKeeps DEF NbuWipe
<1>18. CASE \E k \in Key, v \in Value : NbuAdd(k, v) \/ NbuSet(k, v)
  BY <1>18, SaveKeeps DEF NbuAdd, NbuSet
<1>19. CASE \E k \in Key, i \in {-1, 0} : NbuDelete(k, i)
  BY <1>19, SaveKeeps DEF NbuDelete
<1>20. CASE UNCHANGED nbuVars
  <2>1. StreamInv'
    BY <1>0, <1>20, QuietKeeps DEF nbuVars, nbVars, svVars, mcVars, hsVars
  <2>2. DataInv'
    BY <1>0, <1>20 DEF nbuVars, nbVars, svVars, mcVars, hsVars, DataInv, Stored
  <2> QED BY <2>1, <2>2 DEF NbuInv
<1> QED BY <1>1, <1>2, <1>3, <1>4, <1>5, <1>6, <1>7, <1>8, <1>9, <1>10, <1>11, <1>12, <1>13, <1>14,
           <1>15, <1>16, <1>17, <1>18, <1>19, <1>20 DEF ServicesNext, McStep, NbuStep

\* Console text and requests share one stream and are never taken for each
\* other, however it is cut and however long a request is, and OpenThread finds
\* after a reset it asked for the settings it had before it.
THEOREM StreamIsWhole == McxwSpec => []NbuSound
<1>1. McxwInit => NbuInv
  <2> SUFFICES ASSUME ServicesInit PROVE NbuInv
    BY DEF McxwInit
  <2>1. Len(<< >>) = 0 /\ << >> \in Seq(StreamByte)
    OBVIOUS
  <2>2. /\ mcHand = << >> /\ svRing = << >> /\ svWire = << >> /\ mcCmd = << >> /\ Pending = 0
        /\ nbText = 0 /\ mcText = 0 /\ nbPc = "off" /\ mcPc = "loop" /\ nbDone = FALSE
    BY DEF ServicesInit, Start, Pending
  <2>3. Shape(NoRequest, NoRequest)
    BY <2>1, <2>2 DEF Shape, Follows, LenOf
  <2>4. StreamTypes
    BY <2>1, <2>2 DEF StreamTypes
  <2>5. Owed(NoRequest, NoRequest) /\ Collected(NoRequest)
    BY <2>2 DEF Owed, Collected
  <2>6. DataInv
    BY DEF ServicesInit, Start, DataInv
  <2> QED BY <2>3, <2>4, <2>5, <2>6 DEF NbuInv, StreamInv, InStream
<1>2. [McxwNext]_mcxwVars => [ServicesNext]_nbuVars
  BY McxwPartSteps
<1>3. NbuInv => NbuSound
  <2> SUFFICES ASSUME NbuInv PROVE NbuSound
    OBVIOUS
  <2>1. NbuResetKeeps
    BY DEF NbuInv, DataInv, NbuResetKeeps
  <2>2. ASSUME svWire \o svRing \o mcHand = << >>
        PROVE  mcText = nbText /\ mcCmd = << >>
    <3> PICK a, b \in Request \cup {NoRequest} : InStream(a, b)
      BY DEF NbuInv, StreamInv
    <3>1. /\ Len(mcCmd) \in Nat /\ Pending \in Nat /\ nbText \in Nat /\ mcText \in Nat
          /\ mcCmd \in Seq(StreamByte) /\ ReqLen \in Nat /\ ReqLen > 1
          /\ mcHand \in Seq(StreamByte) /\ svRing \in Seq(StreamByte) /\ svWire \in Seq(StreamByte)
      BY NbuAssumption DEF NbuInv, StreamInv, StreamTypes
    <3>2. svWire = << >> /\ svRing = << >> /\ mcHand = << >>
      <4> DEFINE x == svWire \o svRing
      <4>1. x \in Seq(StreamByte) /\ Len(x) = Len(svWire) + Len(svRing)
        BY ONLY <3>1, ConcatProperties
      <4> HIDE DEF x
      <4>2. Len(x \o mcHand) = Len(x) + Len(mcHand)
        BY ONLY <3>1, <4>1, ConcatProperties
      <4>3. Len(x \o mcHand) = 0
        BY <2>2 DEF x
      <4>4. Len(svWire) \in Nat /\ Len(svRing) \in Nat /\ Len(mcHand) \in Nat
        BY <3>1
      <4>5. Len(svWire) = 0 /\ Len(svRing) = 0 /\ Len(mcHand) = 0
        BY <4>1, <4>2, <4>3, <4>4
      <4> QED BY <3>1, <4>5
    <3>3. Len(mcCmd) = Pending + LenOf(a) + LenOf(b)
      BY <3>1, <3>2 DEF InStream, Shape
    <3>4. mcCmd = << >>
      BY <3>1, <3>3 DEF InStream, Collected, LenOf
    <3>5. Pending = 0
      BY <3>1, <3>3, <3>4 DEF LenOf
    <3> QED BY <3>1, <3>4, <3>5 DEF Pending
  <2> QED BY <2>1, <2>2 DEF NbuSound, ConsoleWhole
<1> QED BY <1>1, <1>2, <1>3, NbuInductive, PTL DEF McxwSpec

=============================================================================
