---------------------------- MODULE K32w_proofs -----------------------------
(***************************************************************************)
(* Proofs about the parts of the K32W0 platform (see MCK32w): for each an  *)
(* inductive invariant that implies what the run checks on a small         *)
(* instance.                                                               *)
(***************************************************************************)
EXTENDS MCK32w, Recursion, FiniteSetTheorems, SequenceTheorems, NaturalsInduction, WellFoundedInduction, TLAPS

\* A step of the system is a step of every part, or leaves it alone.
LEMMA K32wPartSteps ==
  ASSUME [K32wNext]_k32wVars
  PROVE  /\ [RadioNext]_radioVars /\ [TableNext]_tableVars /\ [KaNext]_kaVars
         /\ [KuNext]_kuVars /\ [SlNext]_slVars /\ [HookNext]_hookVars
         /\ [PdmNext]_pdmVars /\ [QueueNext]_queueVars /\ [PagesNext]_pagesVars
BY DEF K32wNext, k32wVars, HookPart, Driver, FramePending, FrameCounter, PdmPart, QueuePart,
       PagesPart, UartPart, AlarmPart, SlavePart, TableNext

-----------------------------------------------------------------------------
(* Remainders.                                                             *)

\* There is only one quotient and one remainder.
LEMMA ModUnique ==
  ASSUME NEW a \in Int, NEW m \in Nat \ {0}, NEW q \in Int, NEW r \in 0 .. m - 1, a = m * q + r
  PROVE (a % m) = r
<1> DEFINE p == a \div m
           s == a % m
<1>1. s \in 0 .. m - 1 /\ p \in Int /\ a = m * p + s
  OBVIOUS
<1> HIDE DEF p, s
<1>2. m * (p - q) = r - s
  BY <1>1
<1>3. p = q
  <2>1. CASE p > q
    <3>1. m * (p - q) >= m
      BY <1>1, <2>1
    <3> QED BY <1>1, <1>2, <3>1
  <2>2. CASE p < q
    <3>1. m * (q - p) >= m
      BY <1>1, <2>2
    <3>2. m * (q - p) = s - r
      BY <1>1, <1>2
    <3> QED BY <1>1, <3>1, <3>2
  <2> QED BY <1>1, <2>1, <2>2
<1>4. s = r
  BY <1>1, <1>2, <1>3
<1> QED BY <1>4 DEF s

\* The remainder of a number below three times the modulus.
LEMMA ModSmall ==
  ASSUME NEW m \in Nat \ {0}, NEW a \in 0 .. 3 * m - 1
  PROVE  (a % m) = IF a < m THEN a ELSE IF a < 2 * m THEN a - m ELSE a - 2 * m
<1>1. CASE a < m
  BY <1>1, ModUnique, a = m * 0 + a
<1>2. CASE a >= m /\ a < 2 * m
  BY <1>2, ModUnique, a = m * 1 + (a - m)
<1>3. CASE a >= 2 * m
  BY <1>3, ModUnique, a = m * 2 + (a - 2 * m)
<1> QED BY <1>1, <1>2, <1>3

-----------------------------------------------------------------------------
(* K32wAlarm: no alarm is late.                                            *)

KaTypes ==
  /\ kaNow \in 0 .. KaWord - 1
  /\ kaTimer \in [KaAlarm -> {KaOff} \cup (Nat \ {0})]
  /\ kaWant \in [KaAlarm -> {KaOff} \cup Int]
  /\ kaExpired \subseteq KaAlarm /\ kaFired \subseteq KaAlarm /\ kaStopped \subseteq KaAlarm

\* What is wanted lies less than a wrap ahead, and an alarm that is being
\* stopped is not wanted.
KaInReach ==
  \A a \in KaAlarm :
    /\ kaWant[a] # KaOff => kaWant[a] <= KaDt + KaLag
    /\ a \in kaStopped => kaWant[a] = KaOff

KaInv == KaTypes /\ KaInReach /\ KaNeverLate

\* The difference of two words.
LEMMA DiffIs ==
  ASSUME NEW a \in 0 .. KaWord - 1, NEW b \in 0 .. KaWord - 1
  PROVE  Diff(a, b) = IF a >= b THEN a - b ELSE a - b + KaWord
<1> DEFINE x == a - b + KaWord
<1>1. KaWord \in Nat \ {0} /\ x \in 0 .. 3 * KaWord - 1
  BY KaAssumption
<1>2. Diff(a, b) = (x % KaWord)
  BY DEF Diff
<1> HIDE DEF x
<1>3. (x % KaWord) = IF x < KaWord THEN x ELSE IF x < 2 * KaWord THEN x - KaWord ELSE x - 2 * KaWord
  BY <1>1, ModSmall
<1> QED BY <1>1, <1>2, <1>3 DEF x

\* The time left of an interval that starts off from now is 0 or ends with it.
LEMMA TargetInTime ==
  ASSUME KaTypes, NEW off \in Int, NEW dt \in Nat, - KaLag <= off, off <= KaLag,
         off + dt <= KaDt + KaLag, NEW t0, t0 = (kaNow + off + KaWord) % KaWord, dt < KaWord
  PROVE  Target(t0, dt) \in Nat /\ (Target(t0, dt) = 0 \/ Target(t0, dt) <= off + dt)
<1> USE KaAssumption
<1> DEFINE x == kaNow + off + KaWord
           y == t0 + dt
           t1 == y % KaWord
<1>1. x \in 0 .. 3 * KaWord - 1
  BY DEF KaTypes
<1>2. t0 = IF x < KaWord THEN x ELSE IF x < 2 * KaWord THEN x - KaWord ELSE x - 2 * KaWord
  <2> HIDE DEF x
  <2>1. (x % KaWord) = IF x < KaWord THEN x ELSE IF x < 2 * KaWord THEN x - KaWord ELSE x - 2 * KaWord
    BY <1>1, ModSmall
  <2> QED BY <2>1 DEF x
<1>3. t0 \in 0 .. KaWord - 1
  BY <1>1, <1>2
<1>4. t1 \in 0 .. KaWord - 1 /\ t1 = IF y < KaWord THEN y ELSE y - KaWord
  <2>1. y \in 0 .. 3 * KaWord - 1 /\ y < 2 * KaWord
    BY <1>3
  <2> HIDE DEF y
  <2>2. t1 = IF y < KaWord THEN y ELSE IF y < 2 * KaWord THEN y - KaWord ELSE y - 2 * KaWord
    BY <2>1, ModSmall
  <2> QED BY <2>1, <2>2
<1>5. Target(t0, dt) = IF (Diff(kaNow, t0) <= dt /\ Diff(t1, kaNow) <= dt) \/ Diff(kaNow, t1) > Diff(t0, kaNow)
                       THEN Diff(t1, kaNow) ELSE 0
  BY DEF Target
<1>6. kaNow \in 0 .. KaWord - 1
  BY DEF KaTypes
<1> HIDE DEF t1
<1>7. /\ Diff(kaNow, t0) = IF kaNow >= t0 THEN kaNow - t0 ELSE kaNow - t0 + KaWord
      /\ Diff(t1, kaNow) = IF t1 >= kaNow THEN t1 - kaNow ELSE t1 - kaNow + KaWord
      /\ Diff(kaNow, t1) = IF kaNow >= t1 THEN kaNow - t1 ELSE kaNow - t1 + KaWord
      /\ Diff(t0, kaNow) = IF t0 >= kaNow THEN t0 - kaNow ELSE t0 - kaNow + KaWord
  BY <1>3, <1>4, <1>6, DiffIs
<1>8. CASE off + dt >= 0
  <2>1. Diff(t1, kaNow) = off + dt
    BY <1>2, <1>3, <1>4, <1>6, <1>7, <1>8
  <2> QED BY <1>5, <1>8, <2>1
<1>9. CASE off + dt < 0
  <2>1. Diff(kaNow, t0) = - off
    BY <1>2, <1>3, <1>6, <1>7, <1>9
  <2>2. Diff(t0, kaNow) = off + KaWord
    BY <1>2, <1>3, <1>6, <1>7, <1>9
  <2>3. Diff(kaNow, t1) = - (off + dt)
    BY <1>2, <1>3, <1>4, <1>6, <1>7, <1>9
  <2>4. Target(t0, dt) = 0
    BY <1>5, <1>9, <2>1, <2>2, <2>3
  <2> QED BY <2>4
<1> QED BY <1>8, <1>9

\* A timer set from a time left does not run longer.
LEMMA TicksInTime ==
  ASSUME NEW t \in Nat, Ticks(t) > 0
  PROVE  Ticks(t) * KaTick \in Nat \ {0} /\ Ticks(t) * KaTick <= t
<1> USE KaAssumption
<1> DEFINE q == t \div KaTick
           r == t % KaTick
<1>1. q \in Int /\ r \in 0 .. KaTick - 1 /\ t = KaTick * q + r
  OBVIOUS
<1>2. Ticks(t) = IF q > KaMax THEN KaMax ELSE q
  BY DEF Ticks
<1> HIDE DEF q, r
<1>3. Ticks(t) \in Nat \ {0} /\ Ticks(t) <= q
  BY <1>1, <1>2
<1> DEFINE n == Ticks(t)
<1> HIDE DEF n
<1>4. n \in Nat \ {0} /\ n <= q
  BY <1>3 DEF n
<1>5. n * KaTick \in Nat \ {0}
  BY <1>4
<1>6. n * KaTick <= q * KaTick
  BY <1>1, <1>4
<1>7. n * KaTick <= t
  BY <1>1, <1>4, <1>6
<1> QED BY <1>5, <1>7 DEF n

\* No alarm is set at first.
LEMMA KaInitially == KaInit => KaInv
<1> SUFFICES ASSUME KaInit PROVE KaInv
  OBVIOUS
<1>1. KaTypes
  BY KaAssumption DEF KaInit, KaTypes
<1>2. \A a \in KaAlarm : kaWant[a] = KaOff
  BY DEF KaInit
<1> QED BY <1>1, <1>2 DEF KaInv, KaInReach, KaNeverLate

\* What is owed to an alarm: KaNeverLate for one of them.
KaOwed(a) ==
  kaWant[a] # KaOff =>
    \/ a \in kaFired \cup kaExpired
    \/ kaTimer[a] # KaOff /\ kaTimer[a] <= kaWant[a]

\* Every step keeps the alarms in time.
LEMMA KaStep == KaInv /\ [KaNext]_kaVars => KaInv'
<1> USE KaAssumption
<1> SUFFICES ASSUME KaInv, [KaNext]_kaVars PROVE KaInv'
  OBVIOUS
<1>0. KaTypes /\ KaInReach /\ \A b \in KaAlarm : KaOwed(b)
  BY DEF KaInv, KaNeverLate, KaOwed
<1> DEFINE Fine == KaTypes' /\ KaInReach' /\ \A b \in KaAlarm : KaOwed(b)'
<1>a. Fine => KaInv'
  BY DEF KaInv, KaNeverLate, KaOwed
<1>1. ASSUME KaTime PROVE Fine
  <2>1. KaTypes'
    <3>1. kaNow' \in 0 .. KaWord - 1
      BY <1>0, <1>1 DEF KaTime, KaTypes
    <3>2. kaTimer' \in [KaAlarm -> {KaOff} \cup (Nat \ {0})]
      BY <1>0, <1>1 DEF KaTime, KaTypes
    <3>3. kaWant' \in [KaAlarm -> {KaOff} \cup Int]
      BY <1>0, <1>1 DEF KaTime, KaTypes
    <3> QED BY <1>0, <1>1, <3>1, <3>2, <3>3 DEF KaTime, KaTypes
  <2>2. KaInReach'
    BY <1>0, <1>1 DEF KaTime, KaTypes, KaInReach
  <2>3. ASSUME NEW b \in KaAlarm PROVE KaOwed(b)'
    <3>1. CASE kaWant[b] = KaOff
      BY <1>1, <3>1 DEF KaTime, KaOwed
    <3>2. CASE kaWant[b] # KaOff /\ b \in kaFired \cup kaExpired
      BY <1>1, <3>2 DEF KaTime, KaOwed
    <3>3. CASE kaWant[b] # KaOff /\ kaTimer[b] # KaOff /\ kaTimer[b] <= kaWant[b]
      <4>1. CASE kaTimer[b] = 1
        BY <1>1, <4>1 DEF KaTime, KaOwed
      <4>2. CASE kaTimer[b] # 1
        <5>1. kaTimer'[b] = kaTimer[b] - 1 /\ kaWant'[b] = kaWant[b] - 1
          BY <1>1, <3>3, <4>2 DEF KaTime
        <5>2. kaTimer[b] \in Nat \ {0} /\ kaWant[b] \in Int
          BY <1>0, <3>3 DEF KaTypes
        <5> QED BY <5>1, <5>2, <3>3 DEF KaOwed
      <4> QED BY <4>1, <4>2
    <3> QED BY <1>0, <3>1, <3>2, <3>3 DEF KaOwed
  <2> QED BY <2>1, <2>2, <2>3
<1>2. ASSUME TMR_eRemoveActivity PROVE Fine
  <2>1. KaTypes'
    <3>1. kaTimer' \in [KaAlarm -> {KaOff} \cup (Nat \ {0})]
      BY <1>0, <1>2 DEF TMR_eRemoveActivity, KaTypes
    <3> QED BY <1>0, <1>2, <3>1 DEF TMR_eRemoveActivity, KaTypes
  <2>2. KaInReach'
    BY <1>0, <1>2 DEF TMR_eRemoveActivity, KaInReach
  <2>3. ASSUME NEW b \in KaAlarm PROVE KaOwed(b)'
    <3>1. CASE b \in kaStopped
      BY <1>0, <1>2, <3>1 DEF TMR_eRemoveActivity, KaInReach, KaOwed
    <3>2. CASE b \notin kaStopped
      BY <1>0, <1>2, <3>2 DEF TMR_eRemoveActivity, KaOwed
    <3> QED BY <3>1, <3>2
  <2> QED BY <2>1, <2>2, <2>3
<1>3. ASSUME NEW a \in KaAlarm, NEW off \in -KaLag .. KaLag, NEW dt \in 0 .. KaDt, KaStartAt(a, off, dt)
      PROVE Fine
  <2> DEFINE t0 == (kaNow + off + KaWord) % KaWord
             tt == Target(t0, dt)
  <2>1. tt \in Nat /\ (tt = 0 \/ tt <= off + dt)
    BY <1>0, TargetInTime
  <2>2. alarmStartAt(a, t0, dt) /\ kaStopped = {} /\ kaWant' = [kaWant EXCEPT ![a] = off + dt]
        /\ UNCHANGED <<kaNow, kaStopped>>
    BY <1>3 DEF KaStartAt
  <2>3. IF Ticks(tt) > 0
        THEN /\ kaTimer' = [kaTimer EXCEPT ![a] = Ticks(tt) * KaTick]
             /\ kaExpired' = kaExpired \ {a} /\ UNCHANGED kaFired
        ELSE kaFired' = kaFired \cup {a} /\ UNCHANGED <<kaTimer, kaExpired>>
    BY <2>2 DEF alarmStartAt
  <2> HIDE DEF t0, tt
  <2>4. Ticks(0) = 0
    BY DEF Ticks
  <2>5. Ticks(tt) > 0 => Ticks(tt) * KaTick \in Nat \ {0} /\ Ticks(tt) * KaTick <= off + dt
    BY <2>1, <2>4, TicksInTime
  <2> DEFINE n == Ticks(tt) * KaTick
  <2>6. KaTypes' /\ KaInReach'
    BY <1>0, <2>2, <2>3, <2>5 DEF KaTypes, KaInReach
  <2>7. KaOwed(a)'
    <3>1. kaWant'[a] = off + dt
      BY <1>0, <2>2 DEF KaTypes
    <3>2. CASE Ticks(tt) > 0
      <4>1. kaTimer'[a] = n
        BY <1>0, <2>3, <3>2 DEF KaTypes
      <4> QED BY <2>5, <3>1, <3>2, <4>1 DEF KaOwed
    <3>3. CASE ~(Ticks(tt) > 0)
      BY <2>3, <3>3 DEF KaOwed
    <3> QED BY <3>2, <3>3
  <2>8. ASSUME NEW b \in KaAlarm, b # a PROVE KaOwed(b)'
    <3>1. kaWant'[b] = kaWant[b] /\ kaTimer'[b] = kaTimer[b]
      BY <1>0, <2>2, <2>3, <2>8 DEF KaTypes
    <3>2. b \in kaFired \cup kaExpired => b \in kaFired' \cup kaExpired'
      BY <2>3, <2>8
    <3> QED BY <1>0, <3>1, <3>2 DEF KaOwed
  <2> QED BY <2>6, <2>7, <2>8
<1>4. ASSUME NEW a \in KaAlarm, KaStop(a) PROVE Fine
  <2>1. KaTypes' /\ KaInReach'
    BY <1>0, <1>4 DEF KaStop, KaTypes, KaInReach
  <2>2. ASSUME NEW b \in KaAlarm PROVE KaOwed(b)'
    <3>1. CASE b = a
      BY <1>0, <1>4, <3>1 DEF KaStop, KaTypes, KaOwed
    <3>2. CASE b # a
      BY <1>0, <1>4, <3>2 DEF KaStop, KaTypes, KaOwed
    <3> QED BY <3>1, <3>2
  <2> QED BY <2>1, <2>2
<1>5. ASSUME NEW a \in KaAlarm, ActivityCallback(a) PROVE Fine
  BY <1>0, <1>5 DEF ActivityCallback, KaTypes, KaInReach, KaOwed
<1>6. ASSUME NEW a \in KaAlarm, K32WAlarmProcess(a) PROVE Fine
  <2>0. kaStopped = {} /\ UNCHANGED <<kaNow, kaStopped>>
    BY <1>6 DEF K32WAlarmProcess
  <2>1. CASE KaDue(a) /\ kaWant' = [kaWant EXCEPT ![a] = KaOff] /\ kaFired' = kaFired \ {a}
             /\ UNCHANGED <<kaTimer, kaExpired>>
    <3>1. KaTypes' /\ KaInReach'
      BY <1>0, <2>0, <2>1 DEF KaTypes, KaInReach
    <3>2. ASSUME NEW b \in KaAlarm PROVE KaOwed(b)'
      <4>1. CASE b = a
        BY <1>0, <2>1, <4>1 DEF KaTypes, KaOwed
      <4>2. CASE b # a
        BY <1>0, <2>1, <4>2 DEF KaTypes, KaOwed
      <4> QED BY <4>1, <4>2
    <3> QED BY <3>1, <3>2
  <2>2. CASE UNCHANGED <<kaTimer, kaExpired, kaFired, kaWant>>
    BY <1>0, <2>0, <2>2 DEF KaTypes, KaInReach, KaOwed
  <2> DEFINE w == kaWant[a]
             tt == Target(kaNow, w)
  <2>3. CASE /\ ~KaDue(a) /\ Ticks(tt) > 0
             /\ kaTimer' = [kaTimer EXCEPT ![a] = Ticks(tt) * KaTick]
             /\ kaExpired' = kaExpired \ {a} /\ kaFired' = kaFired \ {a} /\ UNCHANGED kaWant
    <3>1. w \in Nat /\ w > 0 /\ w <= KaDt + KaLag /\ w # KaOff
      BY <1>0, <2>3 DEF KaDue, KaTypes, KaInReach
    <3>2. kaNow = (kaNow + 0 + KaWord) % KaWord
      <4>1. kaNow + 0 + KaWord \in Int /\ kaNow + 0 + KaWord = KaWord * 1 + kaNow /\ kaNow \in 0 .. KaWord - 1
        BY <1>0 DEF KaTypes
      <4> QED BY <4>1, ModUnique
    <3>3. tt \in Nat /\ (tt = 0 \/ tt <= 0 + w)
      <4>1. 0 \in Int /\ -KaLag <= 0 /\ 0 <= KaLag /\ 0 + w <= KaDt + KaLag /\ w < KaWord
        BY <3>1
      <4> HIDE DEF w
      <4> QED BY <1>0, <3>1, <3>2, <4>1, TargetInTime
    <3> HIDE DEF tt
    <3>4. Ticks(0) = 0
      BY DEF Ticks
    <3>5. Ticks(tt) * KaTick \in Nat \ {0} /\ Ticks(tt) * KaTick <= w
      BY <2>3, <3>1, <3>3, <3>4, TicksInTime
    <3> DEFINE n == Ticks(tt) * KaTick
    <3>6. KaTypes' /\ KaInReach'
      BY <1>0, <2>0, <2>3, <3>5 DEF KaTypes, KaInReach
    <3>7. KaOwed(a)'
      <4>1. kaTimer'[a] = n /\ kaWant'[a] = w
        BY <1>0, <2>3 DEF KaTypes
      <4> QED BY <3>5, <4>1 DEF KaOwed
    <3>8. ASSUME NEW b \in KaAlarm, b # a PROVE KaOwed(b)'
      BY <1>0, <2>3, <3>8 DEF KaTypes, KaOwed
    <3> QED BY <3>6, <3>7, <3>8
  <2> QED BY <1>6, <2>1, <2>2, <2>3 DEF K32WAlarmProcess
<1>7. ASSUME UNCHANGED <<kaNow, kaTimer, kaExpired, kaFired, kaStopped, kaWant>> PROVE Fine
  BY <1>0, <1>7 DEF KaTypes, KaInReach, KaOwed
<1>8. ASSUME K32wProcessDrivers PROVE Fine
  <2> HIDE DEF Fine
  <2> QED BY <1>6, <1>7, <1>8 DEF K32wProcessDrivers
<1>9. CASE UNCHANGED kaVars
  <2> HIDE DEF Fine
  <2> QED BY <1>7, <1>9, <1>a DEF kaVars
<1> HIDE DEF Fine
<1> QED BY <1>1, <1>2, <1>3, <1>4, <1>5, <1>8, <1>9, <1>a DEF KaNext

\* An alarm OpenThread waits for has fired or its timer ends in time: for any
\* clock, tick and length of the wake timer, with delays shorter than a wrap.
THEOREM AlarmsInTime == K32wSpec => []KaNeverLate
<1>1. K32wInit => KaInv
  BY KaInitially DEF K32wInit
<1>2. [K32wNext]_k32wVars => [KaNext]_kaVars
  BY K32wPartSteps
<1>3. KaInv => KaNeverLate
  BY DEF KaInv
<1> QED BY <1>1, <1>2, <1>3, KaStep, PTL DEF K32wSpec

-----------------------------------------------------------------------------
(* K32wTables: the tables of children with data pending.                   *)

\* A nonempty set of naturals has a least element, and Min is it.
LEMMA MinOfNaturals ==
  ASSUME NEW S \in SUBSET Nat, S # {}
  PROVE  Min(S) \in S
<1>1. PICK x \in S : \A y \in S : ~(<<y, x>> \in OpToRel(<, Nat))
  BY NatLessThanWellFounded, WFMin
<1>2. \A y \in S : ~(y < x)
  BY <1>1 DEF OpToRel
<1>3. \E z \in S : \A y \in S : z <= y
  BY <1>2
<1> QED BY <1>3, Zenon DEF Min

FpTypes ==
  /\ fpEnabled \in BOOLEAN
  /\ fpAddr \in [Kinds -> [Entries -> Child \cup {NoChild}]]
  /\ fpMask \in [Kinds -> SUBSET Entries]
  /\ pendingFor \in [Kinds -> SUBSET Child]
  /\ adding = NotAdding \/ adding \in [kind : Kinds, entry : Entries, child : Child]

\* The entry that is being added is not visible yet, and its child is in no other.
AddingApart ==
  adding # NotAdding =>
    /\ adding.entry \notin fpMask[adding.kind]
    /\ fpAddr[adding.kind][adding.entry] = adding.child
    /\ adding.child \in pendingFor[adding.kind]
    /\ ~InTable(adding.kind, adding.child)

\* A table holds announced children, each once, and with matching on all of them
\* but the one that is being added.
TableOf(k) ==
  /\ \A i \in fpMask[k] : fpAddr[k][i] \in pendingFor[k]
  /\ \A i, j \in fpMask[k] : fpAddr[k][i] = fpAddr[k][j] => i = j
  /\ fpEnabled => \A c \in pendingFor[k] :
       InTable(k, c) \/ (adding # NotAdding /\ adding.kind = k /\ adding.child = c)

FpInv == FpTypes /\ AddingApart /\ (\A k \in Kinds : TableOf(k)) /\ FpExact

\* The answer of the handler is the one that is due.
LEMMA AnswerExact ==
  ASSUME FpInv, NEW k \in Kinds, NEW c \in Child, K32WProcessMacHeader(k, c)
  PROVE  FpExact'
<1> DEFINE told == K32WCheckIfFpRequired(k, c)
           due == ~fpEnabled \/ c \in pendingFor[k]
           busy == adding # NotAdding
<1>1. answer' = [told |-> told, due |-> due, adding |-> busy]
  BY DEF K32WProcessMacHeader
<1>2. told => due
  BY DEF FpInv, TableOf, K32WCheckIfFpRequired, InTable
<1>3. due /\ ~told => busy
  BY DEF FpInv, TableOf, K32WCheckIfFpRequired
<1>4. told \in BOOLEAN /\ due \in BOOLEAN /\ busy \in BOOLEAN
  BY DEF K32WCheckIfFpRequired
<1> HIDE DEF told, due, busy
<1>5. (told = due) \/ (busy /\ due)
  <2>1. CASE due /\ told
    <3>1. told = TRUE /\ due = TRUE
      BY <1>4, <2>1
    <3> QED BY <3>1
  <2>2. CASE ~due
    <3>1. told = FALSE /\ due = FALSE
      BY <1>2, <1>4, <2>2
    <3> QED BY <3>1
  <2>3. CASE due /\ ~told
    BY <1>3, <2>3
  <2> QED BY <2>1, <2>2, <2>3
<1>6. answer'.told = told /\ answer'.due = due /\ answer'.adding = busy
  BY <1>1
<1> QED BY <1>5, <1>6, Zenon DEF FpExact

\* The call that adds an entry starts with a free one.
LEMMA StartAddingKeeps ==
  ASSUME FpInv, NEW k \in Kinds, NEW c \in Child, StartAdding(k, c)
  PROVE  FpInv'
<1> USE K32wTablesAssumption
<1>0. FpTypes /\ AddingApart /\ (\A l \in Kinds : TableOf(l)) /\ FpExact /\ adding = NotAdding
  BY DEF FpInv, StartAdding, MainFree
<1>1. /\ c \notin pendingFor[k] /\ pendingFor' = [pendingFor EXCEPT ![k] = @ \cup {c}]
      /\ UNCHANGED <<fpMask, answer>>
  BY DEF StartAdding
<1>2. FpExact'
  BY <1>0, <1>1 DEF FpExact
<1>3. CASE fpMask[k] = Entries
  <2>1. fpEnabled' = FALSE /\ UNCHANGED <<fpAddr, adding>>
    BY <1>3 DEF StartAdding
  <2>2. FpTypes' /\ AddingApart'
    BY <1>0, <1>1, <2>1 DEF FpTypes, AddingApart
  <2>3. \A l \in Kinds : TableOf(l)'
    BY <1>0, <1>1, <2>1 DEF FpTypes, TableOf
  <2> QED BY <1>2, <2>2, <2>3 DEF FpInv
<1>4. CASE fpMask[k] # Entries
  <2> DEFINE i == Min(Entries \ fpMask[k])
  <2>1. /\ adding' = [kind |-> k, entry |-> i, child |-> c]
        /\ fpAddr' = [fpAddr EXCEPT ![k][i] = c] /\ UNCHANGED fpEnabled
    BY <1>4 DEF StartAdding
  <2>2. i \in Entries /\ i \notin fpMask[k]
    <3>0. Entries \in SUBSET Nat /\ fpMask[k] \in SUBSET Entries
      BY <1>0 DEF Entries, FpTypes
    <3>1. Entries \ fpMask[k] \in SUBSET Nat /\ Entries \ fpMask[k] # {}
      BY <1>4, <3>0
    <3>2. i \in Entries \ fpMask[k]
      BY <3>1, MinOfNaturals
    <3> QED BY <3>2
  <2> HIDE DEF i
  <2>3. FpTypes'
    <3>1. fpAddr' \in [Kinds -> [Entries -> Child \cup {NoChild}]]
      BY <1>0, <2>1, <2>2 DEF FpTypes
    <3>2. adding' \in [kind : Kinds, entry : Entries, child : Child]
      BY <2>1, <2>2
    <3>3. pendingFor' \in [Kinds -> SUBSET Child]
      BY <1>0, <1>1 DEF FpTypes
    <3> QED BY <1>0, <1>1, <2>1, <3>1, <3>2, <3>3 DEF FpTypes
  <2>4. \A l \in Kinds : \A j \in fpMask[l] : fpAddr'[l][j] = fpAddr[l][j]
    BY <1>0, <2>1, <2>2 DEF FpTypes
  <2>5. \A l \in Kinds : \A d : InTable(l, d)' <=> InTable(l, d)
    BY <1>1, <2>4 DEF InTable
  <2>6. adding'.kind = k /\ adding'.entry = i /\ adding'.child = c
    BY <2>1
  <2>7. AddingApart'
    <3>1. fpAddr'[k][i] = c
      BY <1>0, <2>1, <2>2 DEF FpTypes
    <3>2. c \in pendingFor'[k]
      BY <1>0, <1>1 DEF FpTypes
    <3>3. ~InTable(k, c)
      BY <1>0, <1>1 DEF TableOf, InTable
    <3> QED BY <1>1, <2>2, <2>5, <2>6, <3>1, <3>2, <3>3 DEF AddingApart
  <2>8. ASSUME NEW l \in Kinds PROVE TableOf(l)'
    <3>1. pendingFor'[l] = IF l = k THEN pendingFor[k] \cup {c} ELSE pendingFor[l]
      BY <1>0, <1>1 DEF FpTypes
    <3>2. adding' # NotAdding
      <4>1. k # "none"
        BY DEF Kinds
      <4> QED BY <2>6, <4>1 DEF NotAdding
    <3>3. \A j \in fpMask'[l] : fpAddr'[l][j] \in pendingFor'[l]
      BY <1>0, <1>1, <2>4, <3>1 DEF TableOf
    <3>4. \A h, j \in fpMask'[l] : fpAddr'[l][h] = fpAddr'[l][j] => h = j
      BY <1>0, <1>1, <2>4 DEF TableOf
    <3>5. ASSUME fpEnabled', NEW d \in pendingFor'[l]
          PROVE InTable(l, d)' \/ (adding' # NotAdding /\ adding'.kind = l /\ adding'.child = d)
      <4>1. CASE l = k /\ d = c
        BY <2>6, <3>2, <4>1
      <4>2. CASE d \in pendingFor[l]
        BY <1>0, <2>1, <2>5, <3>5, <4>2 DEF TableOf
      <4> QED BY <3>1, <3>5, <4>1, <4>2
    <3> QED BY <3>3, <3>4, <3>5 DEF TableOf
  <2> QED BY <1>2, <2>3, <2>7, <2>8 DEF FpInv
<1> QED BY <1>3, <1>4

\* The entry is complete when its bit is set.
LEMMA FinishAddingKeeps ==
  ASSUME FpInv, FinishAdding
  PROVE  FpInv'
<1>0. FpTypes /\ AddingApart /\ (\A l \in Kinds : TableOf(l)) /\ FpExact /\ adding # NotAdding
  BY DEF FpInv, FinishAdding
<1> DEFINE k == adding.kind
           i == adding.entry
           c == adding.child
<1>1. k \in Kinds /\ i \in Entries /\ c \in Child
  BY <1>0 DEF FpTypes
<1>2. /\ fpMask' = [fpMask EXCEPT ![k] = @ \cup {i}] /\ adding' = NotAdding
      /\ UNCHANGED <<fpEnabled, fpAddr, pendingFor, answer>>
  BY DEF FinishAdding
<1>3. i \notin fpMask[k] /\ fpAddr[k][i] = c /\ c \in pendingFor[k] /\ ~InTable(k, c)
  BY <1>0 DEF AddingApart
<1>4. FpTypes'
  BY <1>0, <1>1, <1>2 DEF FpTypes
<1>5. AddingApart' /\ FpExact'
  BY <1>0, <1>2 DEF AddingApart, FpExact
<1>6. ASSUME NEW l \in Kinds PROVE TableOf(l)'
  <2>1. \A d \in pendingFor[l] : (adding.kind = l /\ adding.child = d) <=> (l = k /\ d = c)
    OBVIOUS
  <2> HIDE DEF k, i, c
  <2>2. fpMask'[l] = IF l = k THEN fpMask[k] \cup {i} ELSE fpMask[l]
    BY <1>0, <1>2 DEF FpTypes
  <2>3. \A j \in fpMask'[l] : fpAddr'[l][j] \in pendingFor'[l]
    BY <1>0, <1>2, <1>3, <2>2 DEF TableOf
  <2>4. \A h, j \in fpMask'[l] : fpAddr'[l][h] = fpAddr'[l][j] => h = j
    BY <1>0, <1>2, <1>3, <2>2 DEF TableOf, InTable
  <2>5. ASSUME fpEnabled', NEW d \in pendingFor'[l] PROVE InTable(l, d)'
    BY <1>0, <1>2, <1>3, <2>1, <2>2, <2>5 DEF TableOf, InTable
  <2> QED BY <2>3, <2>4, <2>5 DEF TableOf
<1> QED BY <1>4, <1>5, <1>6 DEF FpInv

\* Entries go only with their children.
LEMMA RemovingKeeps ==
  ASSUME FpInv, adding = NotAdding, NEW k \in Kinds, NEW gone \in SUBSET Child,
         pendingFor' = [pendingFor EXCEPT ![k] = @ \ gone],
         fpMask' = [fpMask EXCEPT ![k] = {i \in fpMask[k] : fpAddr[k][i] \notin gone}],
         UNCHANGED <<fpEnabled, fpAddr, adding, answer>>
  PROVE  FpInv'
<1>0. FpTypes /\ AddingApart /\ (\A l \in Kinds : TableOf(l)) /\ FpExact
  BY DEF FpInv
<1>1. FpTypes'
  BY <1>0 DEF FpTypes
<1>2. AddingApart' /\ FpExact'
  BY <1>0 DEF AddingApart, FpExact
<1>3. ASSUME NEW l \in Kinds PROVE TableOf(l)'
  <2>1. /\ pendingFor'[l] = IF l = k THEN pendingFor[k] \ gone ELSE pendingFor[l]
        /\ fpMask'[l] = IF l = k THEN {i \in fpMask[k] : fpAddr[k][i] \notin gone} ELSE fpMask[l]
    BY <1>0 DEF FpTypes
  <2>2. \A j \in fpMask'[l] : fpAddr'[l][j] \in pendingFor'[l]
    BY <1>0, <2>1 DEF TableOf
  <2>3. \A h, j \in fpMask'[l] : fpAddr'[l][h] = fpAddr'[l][j] => h = j
    BY <1>0, <2>1 DEF TableOf
  <2>4. ASSUME fpEnabled', NEW d \in pendingFor'[l] PROVE InTable(l, d)'
    BY <1>0, <2>1, <2>4 DEF TableOf, InTable
  <2> QED BY <2>2, <2>3, <2>4 DEF TableOf
<1> QED BY <1>1, <1>2, <1>3 DEF FpInv

\* An entry that is cleared leaves the others.
LEMMA ClearEntryKeeps ==
  ASSUME FpInv, NEW k \in Kinds, NEW c \in Child, ClearEntry(k, c)
  PROVE  FpInv'
<1>0. FpTypes /\ (\A l \in Kinds : TableOf(l)) /\ adding = NotAdding
  BY DEF FpInv, ClearEntry, MainFree
<1>1. /\ pendingFor' = [pendingFor EXCEPT ![k] = @ \ {c}]
      /\ UNCHANGED <<fpEnabled, fpAddr, adding, answer>>
  BY DEF ClearEntry
<1> DEFINE Left == {i \in fpMask[k] : fpAddr[k][i] \notin {c}}
<1>2. fpMask' = [fpMask EXCEPT ![k] = Left]
  <2>1. CASE InTable(k, c)
    <3> DEFINE P == {i \in fpMask[k] : fpAddr[k][i] = c}
    <3>1. fpMask' = [fpMask EXCEPT ![k] = @ \ {Min(P)}]
      BY <1>0, <2>1 DEF ClearEntry, FpTypes
    <3>2. P \in SUBSET Nat /\ P # {}
      BY <1>0, <2>1 DEF InTable, FpTypes, Entries
    <3>3. Min(P) \in P
      BY <3>2, MinOfNaturals
    <3>4. fpMask[k] \ {Min(P)} = Left
      <4> DEFINE m == Min(P)
      <4>1. m \in fpMask[k] /\ fpAddr[k][m] = c
        BY <3>3
      <4> HIDE DEF m
      <4>2. \A j \in fpMask[k] : fpAddr[k][j] = c => j = m
        BY <1>0, <4>1 DEF TableOf
      <4>3. fpMask[k] \ {m} = Left
        BY <4>1, <4>2
      <4> QED BY <4>3 DEF m
    <3> QED BY <1>0, <3>1, <3>4 DEF FpTypes
  <2>2. CASE ~InTable(k, c)
    <3>1. fpMask' = fpMask
      BY <2>2 DEF ClearEntry
    <3>2. Left = fpMask[k]
      BY <2>2 DEF InTable
    <3> QED BY <1>0, <3>1, <3>2 DEF FpTypes
  <2> QED BY <2>1, <2>2
<1>3. {c} \in SUBSET Child
  OBVIOUS
<1> QED BY <1>0, <1>1, <1>2, <1>3, RemovingKeeps

\* Tables that are cleared hold nothing.
LEMMA ClearEntriesKeeps ==
  ASSUME FpInv, NEW k \in Kinds, ClearEntries(k)
  PROVE  FpInv'
<1>0. FpTypes /\ (\A l \in Kinds : TableOf(l)) /\ adding = NotAdding
  BY DEF FpInv, ClearEntries, MainFree
<1>1. UNCHANGED <<fpEnabled, fpAddr, adding, answer>>
  BY DEF ClearEntries
<1>2. {i \in fpMask[k] : fpAddr[k][i] \notin Child} = {}
  BY <1>0 DEF TableOf, FpTypes
<1>3. fpMask' = [fpMask EXCEPT ![k] = {i \in fpMask[k] : fpAddr[k][i] \notin Child}]
  BY <1>2 DEF ClearEntries
<1>4. pendingFor' = [pendingFor EXCEPT ![k] = @ \ Child]
  BY <1>0 DEF ClearEntries, FpTypes
<1>5. Child \in SUBSET Child
  OBVIOUS
<1> QED BY <1>0, <1>1, <1>3, <1>4, <1>5, RemovingKeeps

\* Every step keeps the tables as OpenThread filled them.
LEMMA FpStep == FpInv /\ FpNext => FpInv'
<1> SUFFICES ASSUME FpInv, FpNext PROVE FpInv'
  OBVIOUS
<1>0. "short" \in Kinds /\ "ext" \in Kinds
  BY DEF Kinds
<1>1. CASE otPlatRadioEnableSrcMatch
  BY <1>1 DEF otPlatRadioEnableSrcMatch, MainFree, FpInv, FpTypes, AddingApart, TableOf, FpExact, InTable
<1>2. ASSUME NEW c \in Child, otPlatRadioAddSrcMatchShortEntry(c) \/ otPlatRadioAddSrcMatchExtEntry(c)
      PROVE FpInv'
  BY <1>0, <1>2, StartAddingKeeps DEF otPlatRadioAddSrcMatchShortEntry, otPlatRadioAddSrcMatchExtEntry
<1>3. ASSUME NEW c \in Child, otPlatRadioClearSrcMatchShortEntry(c) \/ otPlatRadioClearSrcMatchExtEntry(c)
      PROVE FpInv'
  BY <1>0, <1>3, ClearEntryKeeps DEF otPlatRadioClearSrcMatchShortEntry, otPlatRadioClearSrcMatchExtEntry
<1>4. ASSUME NEW c \in Child, NEW k \in Kinds, K32WProcessMacHeader(k, c) PROVE FpInv'
  <2>1. FpExact'
    BY <1>4, AnswerExact
  <2>2. UNCHANGED <<fpEnabled, fpAddr, fpMask, adding, pendingFor>>
    BY <1>4 DEF K32WProcessMacHeader
  <2> QED BY <2>1, <2>2 DEF FpInv, FpTypes, AddingApart, TableOf, InTable
<1>5. CASE FinishAdding
  BY <1>5, FinishAddingKeeps
<1>6. CASE otPlatRadioClearSrcMatchShortEntries \/ otPlatRadioClearSrcMatchExtEntries
  BY <1>0, <1>6, ClearEntriesKeeps DEF otPlatRadioClearSrcMatchShortEntries, otPlatRadioClearSrcMatchExtEntries
<1> QED BY <1>1, <1>2, <1>3, <1>4, <1>5, <1>6 DEF FpNext

-----------------------------------------------------------------------------
(* K32wTables: the frame counter.                                          *)

\* The two counters agree, unless the main loop is between the two, or an
\* acknowledgement cut in on a store.
CountersAgree ==
  /\ setting \in [pc : {"no", "driver", "radio"}, value : Nat]
  /\ sending.pc # "no" => setting.pc = "no"
  /\ sending.pc = "no" => sending = NotSending
  /\ ~cut => /\ ~Between => counter = macCounter
             /\ setting.pc = "radio" => counter = setting.value
             /\ sending.pc # "no" => macCounter = counter + 1
             /\ sending.pc = "loaded" => sending.loaded = counter

CounterInv == CountersAgree /\ AckCounterTrue

\* Every step keeps the driver's frame counter and the MAC's in agreement.
LEMMA CounterStep == CounterInv /\ CounterNext => CounterInv'
<1> USE K32wTablesAssumption
<1> SUFFICES ASSUME CounterInv, CounterNext PROVE CounterInv'
  OBVIOUS
<1>0. CountersAgree /\ AckCounterTrue
  BY DEF CounterInv
<1>1. CASE SendSecured
  <2>1. setting = NotSetting /\ sending = NotSending
        /\ UNCHANGED <<counter, setting, ackCounter, cut>> /\ macCounter' = macCounter + 1
    BY <1>1 DEF SendSecured, MainFree
  <2>2. sending' = [pc |-> "sent", loaded |-> 0]
    BY <1>1 DEF SendSecured, NotSending
  <2>3. ~cut => counter = macCounter
    BY <1>0, <2>1 DEF CountersAgree, Between, NotSetting
  <2> QED BY <1>0, <2>1, <2>2, <2>3 DEF CounterInv, CountersAgree, AckCounterTrue, Between, NotSetting, NotSending
<1>5. CASE CountSecured
  <2>1. CASE /\ sending.pc = "sent" /\ sending' = [pc |-> "loaded", loaded |-> counter]
             /\ UNCHANGED <<counter, macCounter, setting, ackCounter, cut>>
    BY <1>0, <2>1 DEF CounterInv, CountersAgree, AckCounterTrue, Between, NotSending
  <2>2. CASE /\ sending.pc = "loaded" /\ counter' = sending.loaded + 1 /\ sending' = NotSending
             /\ UNCHANGED <<macCounter, setting, ackCounter, cut>>
    BY <1>0, <2>2 DEF CounterInv, CountersAgree, AckCounterTrue, Between, NotSending
  <2> QED BY <1>5, <2>1, <2>2 DEF CountSecured
<1>2. CASE K32WGetRxFrameInfo
  <2> DEFINE sure == ~cut /\ ~Between
  <2>1. ackCounter' = [told |-> counter, sent |-> macCounter, sure |-> sure]
    BY <1>2 DEF K32WGetRxFrameInfo
  <2>2. sure => counter = macCounter
    BY <1>0 DEF CountersAgree
  <2>3. CountersAgree'
    <3>1. counter' = counter + 1 /\ macCounter' = macCounter + 1 /\ UNCHANGED <<setting, sending>>
          /\ cut' = (cut \/ setting.pc = "radio" \/ sending.pc = "loaded")
      BY <1>2 DEF K32WGetRxFrameInfo
    <3> QED BY <1>0, <3>1 DEF CountersAgree, Between
  <2> HIDE DEF sure
  <2>4. ackCounter'.told = counter /\ ackCounter'.sent = macCounter /\ ackCounter'.sure = sure
    BY <2>1
  <2> QED BY <2>2, <2>3, <2>4, Zenon DEF CounterInv, AckCounterTrue
<1>3. ASSUME NEW v \in 1 .. MaxCounter, otPlatRadioSetMacFrameCounterIfLarger(v) PROVE CounterInv'
  BY <1>0, <1>3 DEF otPlatRadioSetMacFrameCounterIfLarger, MainFree, NotSetting, NotSending, CounterInv,
     CountersAgree, AckCounterTrue, Between
<1>4. CASE otPlatRadioSetMacFrameCounter
  <2>1. CASE /\ setting.pc = "driver" /\ counter' = setting.value
             /\ setting' = [setting EXCEPT !.pc = "radio"] /\ cut' = FALSE
             /\ UNCHANGED <<sending, ackCounter>>
    <3>1. setting' \in [pc : {"no", "driver", "radio"}, value : Nat] /\ setting'.pc = "radio"
          /\ setting'.value = setting.value
      BY <1>0, <2>1 DEF CountersAgree
    <3>2. sending.pc = "no"
      BY <1>0, <2>1 DEF CountersAgree
    <3> QED BY <1>0, <2>1, <3>1, <3>2 DEF CounterInv, CountersAgree, AckCounterTrue, Between
  <2>2. CASE /\ setting.pc = "radio" /\ macCounter' = setting.value /\ setting' = NotSetting
             /\ UNCHANGED <<counter, sending, ackCounter, cut>>
    BY <1>0, <2>2 DEF NotSetting, CounterInv, CountersAgree, AckCounterTrue, Between
  <2> QED BY <1>4, <2>1, <2>2 DEF otPlatRadioSetMacFrameCounter
<1> QED BY <1>1, <1>2, <1>3, <1>4, <1>5 DEF CounterNext

-----------------------------------------------------------------------------
\* The tables are empty at first.
LEMMA TableInitially == TableInit => FpInv /\ CounterInv
<1> SUFFICES ASSUME TableInit PROVE FpInv /\ CounterInv
  OBVIOUS
<1>1. FpTypes
  BY DEF TableInit, FpTypes
<1>2. AddingApart
  BY DEF TableInit, AddingApart
<1>3. \A k \in Kinds : fpMask[k] = {} /\ pendingFor[k] = {}
  BY DEF TableInit
<1>4. \A k \in Kinds : TableOf(k)
  BY <1>3 DEF TableOf
<1>5. FpExact /\ CounterInv
  BY DEF TableInit, NotSetting, NotSending, FpExact, CounterInv, CountersAgree, AckCounterTrue, Between
<1> QED BY <1>1, <1>2, <1>4, <1>5 DEF FpInv

\* Every step of the tables keeps both invariants.
LEMMA TableStep == FpInv /\ CounterInv /\ [TableNext]_tableVars => (FpInv /\ CounterInv)'
<1> SUFFICES ASSUME FpInv, CounterInv, [TableNext]_tableVars PROVE (FpInv /\ CounterInv)'
  OBVIOUS
<1>1. ASSUME UNCHANGED fpVars PROVE FpInv'
  BY <1>1 DEF fpVars, FpInv, FpTypes, AddingApart, TableOf, FpExact, InTable
<1>2. ASSUME UNCHANGED counterVars PROVE CounterInv'
  BY <1>2 DEF counterVars, CounterInv, CountersAgree, AckCounterTrue, Between
<1>3. CASE FpNext
  <2>1. UNCHANGED counterVars
    BY <1>3 DEF FpNext, otPlatRadioEnableSrcMatch, otPlatRadioAddSrcMatchShortEntry, otPlatRadioAddSrcMatchExtEntry,
       StartAdding, otPlatRadioClearSrcMatchShortEntry, otPlatRadioClearSrcMatchExtEntry, ClearEntry,
       K32WProcessMacHeader, FinishAdding, otPlatRadioClearSrcMatchShortEntries,
       otPlatRadioClearSrcMatchExtEntries, ClearEntries
  <2> QED BY <1>2, <1>3, <2>1, FpStep
<1>4. CASE CounterNext
  <2>1. UNCHANGED fpVars
    BY <1>4 DEF CounterNext, SendSecured, CountSecured, K32WGetRxFrameInfo, otPlatRadioSetMacFrameCounterIfLarger,
       otPlatRadioSetMacFrameCounter
  <2> QED BY <1>1, <1>4, <2>1, CounterStep
<1>5. CASE UNCHANGED tableVars
  BY <1>1, <1>2, <1>5 DEF tableVars
<1> QED BY <1>3, <1>4, <1>5 DEF TableNext

\* The handler answers a child as is due and reports the counter that was sent,
\* while the main loop changes both: for any children, table and counters.
THEOREM HandlerReadsTrue == K32wSpec => []TablesExact
<1>1. K32wInit => FpInv /\ CounterInv
  BY TableInitially DEF K32wInit
<1>2. [K32wNext]_k32wVars => [TableNext]_tableVars
  BY K32wPartSteps
<1>3. FpInv /\ CounterInv => TablesExact
  BY DEF FpInv, CounterInv, TablesExact
<1> QED BY <1>1, <1>2, <1>3, TableStep, PTL DEF K32wSpec

-----------------------------------------------------------------------------
(* K32wRadio: the ring of receive buffers.                                 *)

RingIndex == 0 .. RingLen - 1

\* The number of buffers with a frame, and the i-th of them.
Filled == IF ringHead >= ringTail THEN ringHead - ringTail ELSE ringHead - ringTail + RingLen
Slot(i) == IF ringTail + i < RingLen THEN ringTail + i ELSE ringTail + i - RingLen

RingFull == RingAfter(ringHead) = ringTail

RingTypes ==
  /\ ringHead \in RingIndex /\ ringTail \in RingIndex /\ ringNext \in RingIndex /\ ringLast \in RingIndex
  /\ bufs \in [RingIndex -> Nat] /\ waiting \in Seq(Nat) /\ rxCount \in Nat

\* The buffers between tail and head hold the frames that wait, in their order.
RingHolds == Len(waiting) = Filled /\ \A i \in 1 .. Filled : waiting[i] = bufs[Slot(i)]

\* The radio receives into the buffer after head, which is free.
RingFed ==
  /\ kState = "receive" => mmac = "rx" /\ ringNext = RingAfter(ringHead) /\ ~RingFull
  /\ kState # "receive" => mmac # "rx"
  /\ kState = "rxdisabled" /\ procPc # "restart" => RingFull

\* The main loop has the oldest frame in its hands.
RingTaken == procPc = "deliver" => waiting # <<>> /\ ringLast = RingAfter(ringTail)

RingInv == RingTypes /\ RingHolds /\ RingFed /\ RingTaken

\* The next index of the ring.
LEMMA AfterIs ==
  ASSUME NEW i \in RingIndex
  PROVE  RingAfter(i) = (IF i = RingLen - 1 THEN 0 ELSE i + 1) /\ RingAfter(i) \in RingIndex
<1> USE K32wRadioAssumption
<1> DEFINE x == i + 1
           y == RingAfter(i)
<1>1. RingLen \in Nat \ {0} /\ x \in 0 .. 3 * RingLen - 1
  BY DEF RingIndex
<1>2. y = x % RingLen
  BY DEF RingAfter
<1>3. x = i + 1
  OBVIOUS
<1> HIDE DEF x, y
<1>4. (x % RingLen) = IF x < RingLen THEN x ELSE IF x < 2 * RingLen THEN x - RingLen ELSE x - 2 * RingLen
  BY <1>1, ModSmall
<1>5. y = (IF i = RingLen - 1 THEN 0 ELSE i + 1) /\ y \in RingIndex
  BY <1>1, <1>2, <1>3, <1>4 DEF RingIndex
<1> QED BY <1>5 DEF y

\* A ring that is full holds all but one buffer; one that is empty holds none.
LEMMA FilledFacts ==
  ASSUME RingTypes
  PROVE  /\ Filled \in 0 .. RingLen - 1
         /\ RingFull <=> Filled = RingLen - 1
         /\ Filled = 0 <=> ringHead = ringTail
         /\ RingAfter(ringHead) = RingAfter(ringTail) <=> ringHead = ringTail
         /\ \A i \in 1 .. Filled : Slot(i) \in RingIndex
         /\ ~RingFull => Slot(Filled + 1) = RingAfter(ringHead)
         /\ ~RingFull => \A i \in 1 .. Filled : Slot(i) # RingAfter(ringHead)
<1> USE K32wRadioAssumption
<1>1. /\ RingAfter(ringHead) = IF ringHead = RingLen - 1 THEN 0 ELSE ringHead + 1
      /\ RingAfter(ringTail) = IF ringTail = RingLen - 1 THEN 0 ELSE ringTail + 1
  BY AfterIs DEF RingTypes
<1>2. ringHead \in 0 .. RingLen - 1 /\ ringTail \in 0 .. RingLen - 1
  BY DEF RingTypes, RingIndex
<1>3. Filled \in 0 .. RingLen - 1
  BY <1>2 DEF Filled
<1>4. RingFull <=> Filled = RingLen - 1
  BY <1>1, <1>2 DEF Filled, RingFull
<1>5. /\ Filled = 0 <=> ringHead = ringTail
      /\ RingAfter(ringHead) = RingAfter(ringTail) <=> ringHead = ringTail
  BY <1>1, <1>2 DEF Filled
<1>6. \A i \in 1 .. Filled : Slot(i) \in RingIndex
  BY <1>2, <1>3 DEF Slot, RingIndex
<1>7. ~RingFull => Slot(Filled + 1) = RingAfter(ringHead)
  BY <1>1, <1>2, <1>4 DEF Slot, Filled
<1>8. ~RingFull => \A i \in 1 .. Filled : Slot(i) # RingAfter(ringHead)
  BY <1>1, <1>2, <1>4 DEF Slot, Filled
<1> QED BY <1>3, <1>4, <1>5, <1>6, <1>7, <1>8

\* How the state of the radio may change with the ring left alone.
Retuned ==
  \/ K32WEnableReceive(ringHead)
  \/ UNCHANGED <<kState, mmac, ringNext>> /\ (procPc' = procPc \/ procPc # "restart" \/ kState # "rxdisabled")
  \/ kState' \in {"sleep", "transmit", "disabled"} /\ mmac' \in {"off", "tx"} /\ UNCHANGED ringNext

\* K32WEnableReceive gives the MAC the next buffer, or none when the ring is full.
LEMMA EnableFeeds ==
  ASSUME NEW h \in RingIndex, RingTypes, ringHead' = h, ringTail' = ringTail, K32WEnableReceive(h)
  PROVE  RingFed' /\ ringNext' \in RingIndex
<1>1. RingFull' <=> RingAfter(h) = ringTail
  BY DEF RingFull, RingAfter
<1>2. RingAfter(h) \in RingIndex
  BY AfterIs
<1>3. CASE RingAfter(h) = ringTail
  <2>1. kState' = "rxdisabled" /\ mmac' = "off" /\ UNCHANGED ringNext
    BY <1>3 DEF K32WEnableReceive
  <2> QED BY <1>1, <1>3, <2>1 DEF RingFed, RingTypes
<1>4. CASE RingAfter(h) # ringTail
  <2>1. kState' = "receive" /\ mmac' = "rx" /\ ringNext' = RingAfter(h)
    BY <1>4 DEF K32WEnableReceive
  <2>2. RingAfter(ringHead)' = RingAfter(h)
    BY DEF RingAfter
  <2> QED BY <1>1, <1>2, <1>4, <2>1, <2>2 DEF RingFed
<1> QED BY <1>3, <1>4

\* What changes the state of the radio only keeps the ring.
LEMMA RetunedKeeps ==
  ASSUME RingInv, Retuned, UNCHANGED <<ringHead, ringTail, ringLast, bufs, waiting, rxCount>>,
         procPc' = "deliver" => procPc = "deliver"
  PROVE  RingInv'
<1>0. RingTypes /\ RingHolds /\ RingFed /\ RingTaken
  BY DEF RingInv
<1>1. RingHolds'
  BY <1>0 DEF RingHolds, Filled, Slot
<1>2. RingTaken'
  BY <1>0 DEF RingTaken, RingAfter
<1>3. RingFed' /\ ringNext' \in RingIndex
  <2>1. CASE K32WEnableReceive(ringHead)
    BY <1>0, <2>1, EnableFeeds DEF RingTypes
  <2>2. CASE UNCHANGED <<kState, mmac, ringNext>> /\ (procPc' = procPc \/ procPc # "restart" \/ kState # "rxdisabled")
    BY <1>0, <2>2 DEF RingFed, RingFull, RingTypes, RingAfter
  <2>3. CASE kState' \in {"sleep", "transmit", "disabled"} /\ mmac' \in {"off", "tx"} /\ UNCHANGED ringNext
    BY <1>0, <2>3 DEF RingFed, RingTypes
  <2> QED BY <2>1, <2>2, <2>3 DEF Retuned
<1>4. RingTypes'
  BY <1>0, <1>3 DEF RingTypes
<1> QED BY <1>1, <1>2, <1>3, <1>4 DEF RingInv

\* A frame that arrives is put into the ring.
LEMMA RxCompleteKeeps ==
  ASSUME RingInv, RxComplete
  PROVE  RingInv'
<1> USE K32wRadioAssumption
<1>0. RingTypes /\ RingHolds /\ RingFed /\ RingTaken /\ kState = "receive"
  BY DEF RingInv, RxComplete
<1> DEFINE n == ringNext
           x == rxCount + 1
<1>1. n = RingAfter(ringHead) /\ ~RingFull /\ n \in RingIndex /\ x \in Nat
  BY <1>0 DEF RingFed, RingTypes
<1>2. /\ rxCount' = x /\ bufs' = [bufs EXCEPT ![n] = x] /\ waiting' = Append(waiting, x)
      /\ ringHead' = n /\ K32WEnableReceive(n) /\ UNCHANGED <<ringTail, ringLast, procPc>>
  BY DEF RxComplete
<1> HIDE DEF n, x
<1>3. RingFed' /\ ringNext' \in RingIndex
  BY <1>0, <1>1, <1>2, EnableFeeds
<1>4. RingTypes'
  BY <1>0, <1>1, <1>2, <1>3 DEF RingTypes
<1>5. Filled' = Filled + 1 /\ Filled \in 0 .. RingLen - 1 /\ Filled # RingLen - 1
  <2>1. n = IF ringHead = RingLen - 1 THEN 0 ELSE ringHead + 1
    BY <1>0, <1>1, AfterIs DEF RingTypes
  <2>2. Filled \in 0 .. RingLen - 1 /\ Filled # RingLen - 1
    BY <1>0, <1>1, FilledFacts
  <2> QED BY <1>0, <1>2, <2>1, <2>2 DEF Filled, RingTypes, RingIndex
<1>6. \A i : Slot(i)' = Slot(i)
  BY <1>2 DEF Slot
<1>7. RingHolds'
  <2>1. Len(waiting') = Filled + 1
    BY <1>0, <1>1, <1>2 DEF RingHolds, RingTypes
  <2>2. ASSUME NEW i \in 1 .. Filled PROVE waiting'[i] = bufs'[Slot(i)]
    <3>1. waiting'[i] = waiting[i]
      BY <1>0, <1>1, <1>2, <1>5 DEF RingHolds, RingTypes
    <3>2. Slot(i) \in RingIndex /\ Slot(i) # n
      BY <1>0, <1>1, FilledFacts
    <3>3. bufs'[Slot(i)] = bufs[Slot(i)]
      BY <1>0, <1>2, <3>2 DEF RingTypes
    <3> QED BY <1>0, <3>1, <3>3 DEF RingHolds
  <2>3. waiting'[Filled + 1] = bufs'[Slot(Filled + 1)]
    <3>1. Slot(Filled + 1) = n
      BY <1>0, <1>1, FilledFacts
    <3>2. bufs'[n] = x
      BY <1>0, <1>1, <1>2 DEF RingTypes
    <3>3. waiting'[Filled + 1] = x
      BY <1>0, <1>1, <1>2, <1>5 DEF RingHolds, RingTypes
    <3> QED BY <3>1, <3>2, <3>3
  <2>4. ASSUME NEW i \in 1 .. Filled' PROVE waiting'[i] = bufs'[Slot(i)']
    <3>1. i \in 1 .. Filled \/ i = Filled + 1
      BY <1>5
    <3> QED BY <1>6, <2>2, <2>3, <3>1
  <2> QED BY <1>5, <2>1, <2>4 DEF RingHolds
<1>8. RingTaken'
  <2>1. RingAfter(ringTail)' = RingAfter(ringTail)
    BY <1>2 DEF RingAfter
  <2>2. waiting' # <<>>
    BY <1>0, <1>1, <1>2 DEF RingTypes
  <2> QED BY <1>0, <1>2, <2>1, <2>2 DEF RingTaken
<1> QED BY <1>3, <1>4, <1>7, <1>8 DEF RingInv

\* A frame in error leaves the ring.
LEMMA RxErrorKeeps ==
  ASSUME RingInv, RxError
  PROVE  RingInv'
<1>0. RingTypes /\ RingHolds /\ RingFed /\ RingTaken /\ kState = "receive"
  BY DEF RingInv, RxError
<1>1. ringNext = RingAfter(ringHead) /\ ~RingFull
  BY <1>0 DEF RingFed
<1>2. /\ bufs' = [bufs EXCEPT ![ringNext] = 0] /\ K32WEnableReceive(ringHead)
      /\ UNCHANGED <<ringHead, ringTail, ringLast, waiting, procPc, rxCount>>
  BY DEF RxError
<1>3. RingFed' /\ ringNext' \in RingIndex
  BY <1>0, <1>2, EnableFeeds DEF RingTypes
<1>4. RingTypes'
  BY <1>0, <1>2, <1>3 DEF RingTypes
<1>5. Filled' = Filled /\ \A i : Slot(i)' = Slot(i)
  BY <1>2 DEF Filled, Slot
<1>6. \A i \in 1 .. Filled : bufs'[Slot(i)] = bufs[Slot(i)]
  <2>1. \A i \in 1 .. Filled : Slot(i) \in RingIndex /\ Slot(i) # ringNext
    BY <1>0, <1>1, FilledFacts
  <2> QED BY <1>0, <1>2, <2>1 DEF RingTypes
<1>7. RingHolds'
  BY <1>0, <1>2, <1>5, <1>6 DEF RingHolds
<1>8. RingTaken'
  BY <1>0, <1>2 DEF RingTaken, RingAfter
<1> QED BY <1>3, <1>4, <1>7, <1>8 DEF RingInv

\* K32WResetRxRingBuffer empties the ring.
LEMMA ResetKeeps ==
  ASSUME RingInv, K32WResetRxRingBuffer, kState' \in {"sleep", "disabled"},
         mmac' = "off" \/ (kState # "receive" /\ UNCHANGED mmac), UNCHANGED <<procPc, rxCount>>, procPc # "deliver"
  PROVE  RingInv'
<1> USE K32wRadioAssumption
<1>1. RingTypes'
  <2>1. <<>> \in Seq(Nat)
    OBVIOUS
  <2> QED BY <2>1 DEF K32WResetRxRingBuffer, RingInv, RingTypes, RingIndex
<1>2. Filled' = 0
  BY DEF K32WResetRxRingBuffer, Filled
<1>3. RingHolds'
  BY <1>2 DEF K32WResetRxRingBuffer, RingHolds
<1> QED BY <1>1, <1>3 DEF RingInv, RingFed, RingTaken

\* K32WGetRxRingBuffer takes the oldest frame.
LEMMA GetKeeps ==
  ASSUME RingInv, K32WGetRxRingBuffer
  PROVE  RingInv'
<1>0. RingTypes /\ RingHolds /\ RingFed /\ RingTaken /\ procPc = "rx"
  BY DEF RingInv, K32WGetRxRingBuffer
<1>1. UNCHANGED <<kState, ringHead, ringTail, ringNext, bufs, waiting, mmac, rxCount>>
  BY DEF K32WGetRxRingBuffer
<1>2. RingHolds'
  BY <1>0, <1>1 DEF RingHolds, Filled, Slot
<1>3. procPc' \in {"end", "deliver"}
  BY DEF K32WGetRxRingBuffer
<1>4. RingFed'
  BY <1>0, <1>1, <1>3 DEF RingFed, RingFull, RingAfter
<1>5. CASE ringTail = ringHead
  <2>1. procPc' = "end" /\ UNCHANGED ringLast
    BY <1>5 DEF K32WGetRxRingBuffer
  <2>2. RingTypes' /\ RingTaken'
    BY <1>0, <1>1, <2>1 DEF RingTypes, RingTaken
  <2> QED BY <1>2, <1>4, <2>2 DEF RingInv
<1>6. CASE ringTail # ringHead
  <2>1. ringLast' = RingAfter(ringTail)
    BY <1>6 DEF K32WGetRxRingBuffer
  <2>2. RingAfter(ringTail) \in RingIndex
    BY <1>0, AfterIs DEF RingTypes
  <2>3. RingTypes'
    BY <1>0, <1>1, <2>1, <2>2 DEF RingTypes
  <2>4. waiting # <<>>
    <3>1. Filled # 0
      BY <1>0, <1>6, FilledFacts
    <3> QED BY <1>0, <3>1 DEF RingHolds
  <2>5. RingTaken'
    BY <1>1, <2>1, <2>4 DEF RingTaken, RingAfter
  <2> QED BY <1>2, <1>4, <2>3, <2>5 DEF RingInv
<1> QED BY <1>5, <1>6

\* K32WPopRxRingBuffer gives its buffer back.
LEMMA PopKeeps ==
  ASSUME RingInv, K32WPopRxRingBuffer
  PROVE  RingInv'
<1> USE K32wRadioAssumption
<1>0. RingTypes /\ RingHolds /\ RingFed /\ RingTaken /\ procPc = "deliver" /\ procPc' = "restart"
  BY DEF RingInv, K32WPopRxRingBuffer, ProcGoes
<1>1. /\ ringTail' = ringLast /\ waiting' = Tail(waiting)
      /\ UNCHANGED <<kState, ringHead, ringNext, ringLast, bufs, mmac, rxCount>>
  BY DEF K32WPopRxRingBuffer
<1>2. waiting # <<>> /\ ringLast = RingAfter(ringTail)
  BY <1>0 DEF RingTaken
<1>3. waiting' \in Seq(Nat) /\ Len(waiting') = Len(waiting) - 1 /\ Len(waiting) \in Nat \ {0}
      /\ \A i \in 1 .. Len(waiting) - 1 : waiting'[i] = waiting[i + 1]
  <2> DEFINE w == waiting
  <2>1. w \in Seq(Nat) /\ w # <<>>
    BY <1>0, <1>2 DEF RingTypes
  <2> HIDE DEF w
  <2>2. Tail(w) \in Seq(Nat) /\ Len(Tail(w)) = Len(w) - 1 /\ Len(w) \in Nat \ {0}
        /\ \A i \in 1 .. Len(w) - 1 : Tail(w)[i] = w[i + 1]
    BY <2>1
  <2> QED BY <1>1, <2>2 DEF w
<1>4. RingTypes'
  BY <1>0, <1>1, <1>3 DEF RingTypes
<1>5. ringLast = (IF ringTail = RingLen - 1 THEN 0 ELSE ringTail + 1) /\ Filled # 0
  BY <1>0, <1>2, <1>3, AfterIs DEF RingTypes, RingHolds
<1>6. Filled' = Filled - 1 /\ Filled \in Nat
  BY <1>0, <1>1, <1>5 DEF Filled, RingTypes, RingIndex
<1>7. \A i \in 1 .. Filled - 1 : Slot(i)' = Slot(i + 1)
  <2>1. Filled \in 0 .. RingLen - 1
    BY <1>0, FilledFacts
  <2> QED BY <1>0, <1>1, <1>5, <2>1 DEF Slot, RingTypes, RingIndex
<1>8. RingHolds'
  <2>1. ASSUME NEW i \in 1 .. Filled' PROVE waiting'[i] = bufs'[Slot(i)']
    <3>1. i \in 1 .. Filled - 1 /\ i + 1 \in 1 .. Filled
      BY <1>6
    <3>2. waiting[i + 1] = bufs[Slot(i + 1)]
      BY <1>0, <3>1 DEF RingHolds
    <3>3. waiting'[i] = waiting[i + 1]
      BY <1>0, <1>3, <3>1 DEF RingHolds
    <3> QED BY <1>1, <1>7, <3>1, <3>2, <3>3
  <2> QED BY <1>0, <1>3, <1>6, <2>1 DEF RingHolds
<1>9. RingFed'
  <2>1. kState = "receive" => RingAfter(ringHead) # ringLast
    BY <1>0, <1>2, <1>5, FilledFacts
  <2> QED BY <1>0, <1>1, <2>1 DEF RingFed, RingFull, RingAfter
<1> QED BY <1>0, <1>4, <1>8, <1>9 DEF RingInv, RingTaken

\* Every step of the radio keeps the ring.
LEMMA RingStep == RingInv /\ [RadioNext]_radioVars => RingInv'
<1> SUFFICES ASSUME RingInv, [RadioNext]_radioVars PROVE RingInv'
  OBVIOUS
<1> DEFINE Kept == UNCHANGED <<ringHead, ringTail, ringLast, bufs, waiting, rxCount>>
<1>0. ASSUME NEW c, Receive(c), procPc # "restart"
      PROVE  Retuned
  BY <1>0 DEF Receive, Retuned
<1>1. CASE RxComplete
  BY <1>1, RxCompleteKeeps
<1>2. CASE RxError
  BY <1>2, RxErrorKeeps
<1>3. CASE TxComplete
  <2>1. K32WEnableReceive(ringHead) /\ Kept /\ UNCHANGED procPc
    BY <1>3 DEF TxComplete
  <2> QED BY <2>1, RetunedKeeps DEF Retuned
<1>4. CASE procPc \in {"idle", "reported"} /\ Call
  <2>0. procPc' = procPc
    BY <1>4 DEF Call, otPlatRadioReceive, otPlatRadioSleep, otPlatRadioEnable, otPlatRadioDisable,
       otPlatRadioTransmit, otPlatRadioGetRssi, otPlatRadioSetTransmitPower
  <2>1. ASSUME NEW c \in Channels, otPlatRadioReceive(c) PROVE RingInv'
    <3>1. Retuned /\ Kept
      BY <1>0, <1>4, <2>1 DEF otPlatRadioReceive
    <3> QED BY <2>0, <3>1, RetunedKeeps
  <2>2. CASE otPlatRadioSleep
    <3>1. Retuned /\ Kept
      BY <2>2 DEF otPlatRadioSleep, Retuned, ringVars
    <3> QED BY <2>0, <3>1, RetunedKeeps
  <2>3. CASE otPlatRadioEnable
    BY <1>4, <2>3, ResetKeeps DEF otPlatRadioEnable
  <2>4. CASE otPlatRadioDisable
    BY <1>4, <2>4, ResetKeeps DEF otPlatRadioDisable
  <2>5. ASSUME NEW f \in Frames, otPlatRadioTransmit(f) PROVE RingInv'
    <3>1. Retuned /\ Kept
      BY <2>5 DEF otPlatRadioTransmit, Retuned, ringVars
    <3> QED BY <2>0, <3>1, RetunedKeeps
  <2>6. ASSUME Restart, Kept PROVE RingInv'
    <3>1. Retuned
      BY <1>4, <2>6 DEF Restart, Retuned
    <3> QED BY <2>0, <2>6, <3>1, RetunedKeeps
  <2>7. CASE otPlatRadioGetRssi
    BY <2>6, <2>7 DEF otPlatRadioGetRssi
  <2>8. CASE otPlatRadioSetTransmitPower
    BY <2>6, <2>8 DEF otPlatRadioSetTransmitPower
  <2> QED BY <1>4, <2>1, <2>2, <2>3, <2>4, <2>5, <2>7, <2>8 DEF Call
<1>5. CASE RevertChannel
  <2>1. Kept /\ procPc = "idle" /\ procPc' = "tx"
    BY <1>5 DEF RevertChannel, ProcGoes
  <2>2. Receive(prevRxChannel) \/ UNCHANGED <<kState, mmac, ringNext>>
    BY <1>5 DEF RevertChannel
  <2>3. Retuned
    BY <1>0, <2>1, <2>2 DEF Retuned
  <2> QED BY <2>1, <2>3, RetunedKeeps
<1>6. ASSUME UNCHANGED <<kState, ringVars, mmac, rxCount>>, procPc # "restart", procPc' # "deliver"
      PROVE  RingInv'
  BY <1>6, RetunedKeeps DEF Retuned, ringVars
<1>7. CASE K32WProcessTxFrame
  BY <1>6, <1>7 DEF K32WProcessTxFrame, ProcGoes
<1>8. CASE TxDoneCallback
  BY <1>6, <1>8 DEF TxDoneCallback, ProcGoes
<1>9. CASE TxDoneReturns
  BY <1>6, <1>9 DEF TxDoneReturns, ProcGoes
<1>10. CASE K32WGetRxRingBuffer
  BY <1>10, GetKeeps
<1>11. CASE K32WPopRxRingBuffer
  BY <1>11, PopKeeps
<1>12. CASE K32WProcessRxFrames
  <2>1. Kept /\ procPc' # "deliver"
    BY <1>12 DEF K32WProcessRxFrames, ProcGoes
  <2>2. Retuned
    BY <1>12 DEF K32WProcessRxFrames, Retuned
  <2> QED BY <2>1, <2>2, RetunedKeeps
<1>13. CASE UNCHANGED radioVars
  BY <1>13, RetunedKeeps DEF radioVars, ringVars, Retuned
<1> QED BY <1>1, <1>2, <1>3, <1>4, <1>5, <1>7, <1>8, <1>9, <1>10, <1>11, <1>12, <1>13
        DEF RadioNext, K32WISR, K32WRadioProcess

-----------------------------------------------------------------------------
(* K32wRadio: the channel, and the report of a transmission.               *)

OnChannel == kState \in {"receive", "rxdisabled", "transmit"}

\* The radio is on the driver's channel whenever it may be used, and all
\* channels are set once OpenThread has asked for one.
ChanInv ==
  /\ askedChannel # 0 => sChan # 0 /\ prevRxChannel # 0 /\ mmacChannel = sChan
  /\ OnChannel => askedChannel # 0
  /\ revert => askedChannel # 0

\* Every step of the radio keeps it on the driver's channel.
LEMMA ChanStep == ChanInv /\ [RadioNext]_radioVars => ChanInv'
<1> USE K32wRadioAssumption
<1> SUFFICES ASSUME ChanInv, [RadioNext]_radioVars PROVE ChanInv'
  OBVIOUS
<1>0. ASSUME NEW h, K32WEnableReceive(h) PROVE kState' \in {"receive", "rxdisabled"}
  BY <1>0 DEF K32WEnableReceive
<1>1. CASE RxComplete \/ RxError \/ TxComplete
  <2>1. OnChannel /\ UNCHANGED <<mmacChannel, sChan, prevRxChannel, askedChannel>>
    BY <1>1 DEF RxComplete, RxError, TxComplete, OnChannel, chanVars
  <2> QED BY <2>1 DEF ChanInv
<1>2. CASE Call
  <2>1. ASSUME NEW c \in Channels, otPlatRadioReceive(c) PROVE ChanInv'
    <3>1. c # 0 /\ askedChannel' = c /\ Receive(c)
      BY <2>1 DEF otPlatRadioReceive
    <3>2. CASE UNCHANGED <<kState, sChan, prevRxChannel, mmacChannel>> /\ sChan = c /\ OnChannel
      BY <3>1, <3>2 DEF ChanInv, OnChannel
    <3>3. CASE sChan' = c /\ prevRxChannel' = c /\ mmacChannel' = c
      BY <3>1, <3>3 DEF ChanInv, OnChannel
    <3> QED BY <3>1, <3>2, <3>3 DEF Receive, OnChannel
  <2>2. CASE otPlatRadioSleep \/ otPlatRadioEnable \/ otPlatRadioDisable
    BY <2>2 DEF otPlatRadioSleep, otPlatRadioEnable, otPlatRadioDisable, chanVars, ChanInv, OnChannel
  <2>3. ASSUME NEW f \in Frames, otPlatRadioTransmit(f) PROVE ChanInv'
    <3>1. f.channel # 0
      BY DEF Frames
    <3> QED BY <2>3, <3>1 DEF otPlatRadioTransmit, ChanInv, OnChannel
  <2>4. CASE otPlatRadioGetRssi
    <3>1. UNCHANGED chanVars /\ (OnChannel' => OnChannel)
      BY <1>0, <2>4 DEF otPlatRadioGetRssi, Restart, OnChannel
    <3> QED BY <3>1 DEF ChanInv, chanVars
  <2>5. CASE otPlatRadioSetTransmitPower
    <3>1. UNCHANGED <<sChan, prevRxChannel, revert, askedChannel>> /\ (OnChannel' => OnChannel)
          /\ mmacChannel' = IF sChan # 0 THEN sChan ELSE 11
      BY <1>0, <2>5 DEF otPlatRadioSetTransmitPower, Restart, OnChannel
    <3> QED BY <3>1 DEF ChanInv
  <2> QED BY <1>2, <2>1, <2>2, <2>3, <2>4, <2>5 DEF Call
<1>3. CASE RevertChannel
  <2>1. CASE revert /\ Receive(prevRxChannel) /\ UNCHANGED askedChannel
    <3>1. CASE UNCHANGED <<kState, mmacChannel, sChan, prevRxChannel, revert>>
      BY <2>1, <3>1 DEF ChanInv, OnChannel
    <3>2. CASE sChan' = prevRxChannel /\ prevRxChannel' = prevRxChannel /\ mmacChannel' = prevRxChannel
      BY <2>1, <3>2 DEF ChanInv, OnChannel
    <3> QED BY <2>1, <3>1, <3>2 DEF Receive
  <2>2. CASE UNCHANGED <<kState, mmacChannel, sChan, prevRxChannel, revert, askedChannel>>
    BY <2>2 DEF ChanInv, OnChannel
  <2> QED BY <1>3, <2>1, <2>2 DEF RevertChannel
<1>4. CASE K32WProcessRxFrames
  <2>1. UNCHANGED chanVars /\ (OnChannel' => OnChannel)
    BY <1>0, <1>4 DEF K32WProcessRxFrames, OnChannel
  <2> QED BY <2>1 DEF ChanInv, chanVars
<1>5. CASE K32WProcessTxFrame \/ TxDoneCallback \/ TxDoneReturns \/ K32WGetRxRingBuffer \/ K32WPopRxRingBuffer
  <2>1. UNCHANGED <<kState, chanVars>>
    BY <1>5 DEF K32WProcessTxFrame, TxDoneCallback, TxDoneReturns, K32WGetRxRingBuffer, K32WPopRxRingBuffer
  <2> QED BY <2>1 DEF ChanInv, OnChannel, chanVars
<1>6. CASE UNCHANGED radioVars
  BY <1>6 DEF radioVars, chanVars, ChanInv, OnChannel
<1> QED BY <1>1, <1>2, <1>3, <1>4, <1>5, <1>6 DEF RadioNext, K32WISR, K32WRadioProcess

\* A report that is not stale is of the frame that is open, and that frame is
\* out of the air; a frame in the air has no report yet.
ReportInv ==
  /\ (kTxDone \/ procPc = "report") /\ ~staleDone => kState # "transmit" /\ txOpen
  /\ kState = "transmit" /\ ~staleDone => txOpen

\* Every step of the radio keeps the report of a transmission.
LEMMA ReportStep == ReportInv /\ [RadioNext]_radioVars => ReportInv'
<1> SUFFICES ASSUME ReportInv, [RadioNext]_radioVars PROVE ReportInv'
  OBVIOUS
<1>0. ASSUME NEW h, K32WEnableReceive(h) PROVE kState' # "transmit"
  BY <1>0 DEF K32WEnableReceive
<1>1. ASSUME UNCHANGED txVars, kState' = "transmit" => kState = "transmit",
             procPc' = "report" => procPc = "report"
      PROVE  ReportInv'
  BY <1>1 DEF ReportInv, txVars
<1>2. CASE RxComplete \/ RxError
  BY <1>0, <1>1, <1>2 DEF RxComplete, RxError
<1>3. CASE TxComplete
  <2>1. kState = "transmit" /\ kState' # "transmit" /\ UNCHANGED <<txOpen, staleDone, procPc>>
    BY <1>0, <1>3 DEF TxComplete
  <2> QED BY <2>1 DEF ReportInv
<1>4. CASE procPc \in {"idle", "reported"} /\ Call
  <2>0. procPc' = procPc
    BY <1>4 DEF Call, otPlatRadioReceive, otPlatRadioSleep, otPlatRadioEnable, otPlatRadioDisable,
       otPlatRadioTransmit, otPlatRadioGetRssi, otPlatRadioSetTransmitPower
  <2>1. ASSUME NEW c \in Channels, otPlatRadioReceive(c) PROVE ReportInv'
    BY <1>0, <1>1, <2>0, <2>1 DEF otPlatRadioReceive, Receive
  <2>2. CASE otPlatRadioSleep \/ otPlatRadioEnable
    BY <1>1, <2>0, <2>2 DEF otPlatRadioSleep, otPlatRadioEnable
  <2>3. CASE otPlatRadioDisable
    <3>1. /\ kState' = "disabled" /\ UNCHANGED kTxDone /\ staleDone' = (staleDone \/ kTxDone)
      BY <2>3 DEF otPlatRadioDisable
    <3> QED BY <1>4, <2>0, <3>1 DEF ReportInv
  <2>4. ASSUME NEW f \in Frames, otPlatRadioTransmit(f) PROVE ReportInv'
    <3>1. ~txOpen /\ txOpen' = TRUE /\ UNCHANGED <<kTxDone, staleDone>>
      BY <2>4 DEF otPlatRadioTransmit
    <3> QED BY <1>4, <2>0, <3>1 DEF ReportInv
  <2>5. CASE otPlatRadioGetRssi \/ otPlatRadioSetTransmitPower
    BY <1>0, <1>1, <2>0, <2>5 DEF otPlatRadioGetRssi, otPlatRadioSetTransmitPower, Restart
  <2> QED BY <1>4, <2>1, <2>2, <2>3, <2>4, <2>5 DEF Call
<1>5. CASE RevertChannel
  BY <1>0, <1>1, <1>5 DEF RevertChannel, Receive, ProcGoes
<1>6. CASE K32WProcessTxFrame
  BY <1>6 DEF K32WProcessTxFrame, ProcGoes, ReportInv
<1>7. CASE TxDoneCallback
  BY <1>7 DEF TxDoneCallback, ProcGoes, ReportInv
<1>8. CASE TxDoneReturns \/ K32WGetRxRingBuffer \/ K32WPopRxRingBuffer
  BY <1>1, <1>8 DEF TxDoneReturns, K32WGetRxRingBuffer, K32WPopRxRingBuffer, ProcGoes
<1>9. CASE K32WProcessRxFrames
  BY <1>0, <1>1, <1>9 DEF K32WProcessRxFrames, ProcGoes
<1>10. CASE UNCHANGED radioVars
  BY <1>1, <1>10 DEF radioVars
<1> QED BY <1>2, <1>3, <1>4, <1>5, <1>6, <1>7, <1>8, <1>9, <1>10 DEF RadioNext, K32WISR, K32WRadioProcess

-----------------------------------------------------------------------------
\* The radio is off and the ring empty at first.
LEMMA RadioInitially == RadioInit => RingInv /\ ChanInv /\ ReportInv
<1> USE K32wRadioAssumption
<1> SUFFICES ASSUME RadioInit PROVE RingInv /\ ChanInv /\ ReportInv
  OBVIOUS
<1>1. RingTypes
  <2>1. <<>> \in Seq(Nat)
    OBVIOUS
  <2> QED BY <2>1 DEF RadioInit, RingTypes, RingIndex
<1>2. Filled = 0
  BY DEF RadioInit, Filled
<1>3. RingHolds
  BY <1>2 DEF RadioInit, RingHolds
<1>4. RingFed /\ RingTaken
  BY DEF RadioInit, RingFed, RingTaken
<1>5. ChanInv /\ ReportInv
  BY DEF RadioInit, ChanInv, OnChannel, ReportInv
<1> QED BY <1>1, <1>3, <1>4, <1>5 DEF RingInv

\* What the run checks of the ring, the reception and the reports.
LEMMA RadioInvImplies ==
  ASSUME RingInv, ChanInv, ReportInv
  PROVE  HandedOver /\ HearsOrWillHear
<1> USE K32wRadioAssumption
<1>0. RingTypes /\ RingHolds /\ RingFed /\ RingTaken
  BY DEF RingInv
<1>1. ASSUME procPc = "deliver"
      PROVE bufs[ringLast] = Head(waiting) /\ ~(mmac = "rx" /\ ringNext = ringLast)
  <2>1. waiting # <<>> /\ ringLast = RingAfter(ringTail)
    BY <1>0, <1>1 DEF RingTaken
  <2>2. Len(waiting) \in Nat \ {0} /\ Head(waiting) = waiting[1]
    <3> DEFINE w == waiting
    <3>1. w \in Seq(Nat) /\ w # <<>>
      BY <1>0, <2>1 DEF RingTypes
    <3> HIDE DEF w
    <3>2. Len(w) \in Nat \ {0} /\ Head(w) = w[1]
      BY <3>1
    <3> QED BY <3>2 DEF w
  <2>3. Filled \in Nat \ {0}
    BY <1>0, <2>2 DEF RingHolds
  <2>4. waiting[1] = bufs[Slot(1)]
    BY <1>0, <2>3 DEF RingHolds
  <2>5. ringTail \in RingIndex /\ ringLast = IF ringTail = RingLen - 1 THEN 0 ELSE ringTail + 1
    BY <1>0, <2>1, AfterIs DEF RingTypes
  <2>6. Slot(1) = ringLast
    BY <2>5 DEF Slot, RingIndex
  <2>7. ringHead # ringTail
    BY <1>0, <2>3, FilledFacts
  <2>8. ~(mmac = "rx" /\ ringNext = ringLast)
    BY <1>0, <2>1, <2>7, FilledFacts DEF RingFed
  <2> QED BY <2>2, <2>4, <2>6, <2>8
<1>2. RingIsFifo
  BY <1>0, <1>1 DEF RingIsFifo, RingFed, RingFull
<1>3. DoneWhenOver
  BY DEF ReportInv, DoneWhenOver
<1>4. kState = "rxdisabled" /\ procPc # "restart" => waiting # <<>>
  <2>1. RingFull => Filled = RingLen - 1
    BY <1>0, FilledFacts
  <2>2. RingFull => Len(waiting) # 0
    BY <1>0, <2>1 DEF RingHolds
  <2> QED BY <1>0, <2>2 DEF RingFed
<1>5. HearsOrWillHear
  BY <1>0, <1>4 DEF HearsOrWillHear, RingFed, ChanInv, OnChannel
<1> QED BY <1>2, <1>3, <1>5 DEF HandedOver

\* The K32W0's radio invariant holds in every state.
LEMMA RadioInvHolds ==
  K32wInit /\ [][K32wNext]_k32wVars => [](RingInv /\ ChanInv /\ ReportInv)
<1>1. K32wInit => RingInv /\ ChanInv /\ ReportInv
  BY RadioInitially DEF K32wInit
<1>2. [K32wNext]_k32wVars => [RadioNext]_radioVars
  BY K32wPartSteps
<1> QED BY <1>1, <1>2, RingStep, ChanStep, ReportStep, PTL

\* The ring hands the frames over in order and the buffer OpenThread reads is
\* not written meanwhile, and a transmission is reported when it is over: for
\* any ring of more than two buffers, with the interrupt handler between any
\* two steps of the main loop.
THEOREM FramesHandedOver == K32wSpec => []HandedOver
<1>1. RingInv /\ ChanInv /\ ReportInv => HandedOver
  BY RadioInvImplies
<1> QED BY <1>1, RadioInvHolds, PTL DEF K32wSpec

\* The driver is never deaf by mistake, for any ring and channels.
THEOREM NeverDeafByMistake == K32wSpec => []HearsOrWillHear
<1>1. RingInv /\ ChanInv /\ ReportInv => HearsOrWillHear
  BY RadioInvImplies
<1> QED BY <1>1, RadioInvHolds, PTL DEF K32wSpec

-----------------------------------------------------------------------------
(* K32wSerial: the ring of received characters.                            *)

KuSlot == 0 .. KuSize - 1
KuRead == [char : Nat, due : Nat, torn : BOOLEAN]

KuTypes ==
  /\ kuBuf \in [KuSlot -> Nat] /\ kuHead \in KuSlot /\ kuTail \in KuSlot
  /\ kuFull \in BOOLEAN /\ kuWasFull \in BOOLEAN
  /\ kuPtr \in KuSlot \cup {-1} /\ kuDue \in Nat /\ kuTorn \in BOOLEAN
  /\ kuRx \in Seq(KuRead) /\ kuNext \in Nat /\ kuPassed \in Nat /\ kuGiven \in Nat
  /\ kuOverrun \in Nat /\ kuOverwritten \in Nat
  /\ kuTx \in Nat /\ kuDone \in BOOLEAN /\ kuFlush \in BOOLEAN
  /\ kuSent \in Nat /\ kuTold \in Nat

\* How far slot i is from the tail; the nearest slots are filled.
KuPlace(i) == IF i >= kuTail THEN i - kuTail ELSE i - kuTail + KuSize
KuFilled == {i \in KuSlot : KuPlace(i) < KuWaiting}

\* The last character collected or passed on, and the last one popped.
KuLast == IF kuRx = << >> THEN kuGiven ELSE kuRx[Len(kuRx)].due
KuPopped == IF kuPtr = -1 THEN KuLast ELSE kuDue

\* The characters collected, the one just popped and those in the ring follow each
\* other, and the slot of the one just popped holds it until it is written again.
KuOrder ==
  /\ kuFull => kuHead = kuTail
  /\ CharactersInOrder /\ CharactersWhole
  /\ KuLast < kuNext
  /\ kuPtr # -1 => /\ KuLast < kuDue /\ kuDue < kuNext
                   /\ kuTorn \/ kuBuf[kuPtr] = kuDue
  /\ \A i \in KuFilled : KuPopped < kuBuf[i] /\ kuBuf[i] < kuNext
  /\ \A i, j \in KuFilled : KuPlace(i) < KuPlace(j) => kuBuf[i] < kuBuf[j]

\* A ring that has never been full has a free slot, and the slot of the character
\* just popped is the last the interrupt reaches.
KuNeverFull ==
  /\ ~kuFull /\ kuOverwritten = 0
  /\ \A i \in DOMAIN kuRx : ~kuRx[i].torn
  /\ kuPtr # -1 => ~kuTorn /\ KuAfter(kuPtr) = kuTail

\* Each buffer that is being sent or waits to be reported is not reported yet.
KuReports ==
  /\ kuTold <= kuSent
  /\ kuTx > 0 \/ kuDone => kuTold + 1 <= kuSent
  /\ kuTx > 0 /\ kuDone => kuTold + 2 <= kuSent

KuInv ==
  /\ KuTypes /\ KuReports
  /\ KuOrder /\ CharactersAccounted
  /\ ~kuWasFull => KuNeverFull

\* The slot after another, without the remainder.
LEMMA KuAfterIs ==
  ASSUME NEW i \in KuSlot
  PROVE  KuAfter(i) = (IF i + 1 = KuSize THEN 0 ELSE i + 1) /\ KuAfter(i) \in KuSlot
<1> USE KuAssumption DEF KuSlot
<1>1. CASE i + 1 = KuSize
  BY <1>1 DEF KuAfter
<1>2. CASE i + 1 < KuSize
  BY <1>2 DEF KuAfter
<1> QED BY <1>1, <1>2

\* The ring starts empty, and nothing is being sent.
LEMMA KuInitially == KuInit => KuInv
<1> SUFFICES ASSUME KuInit PROVE KuInv
  OBVIOUS
<1> USE KuAssumption DEF KuInit
<1>1. KuTypes
  <2>1. 0 \in KuSlot /\ kuBuf \in [KuSlot -> Nat]
    BY DEF KuSlot
  <2> QED BY <2>1 DEF KuTypes
<1>2. KuReports
  BY DEF KuReports
<1>3. KuFilled = {} /\ KuLast = 0 /\ KuWaiting = 0
  <2>1. KuWaiting = 0
    BY DEF KuWaiting
  <2>2. \A i \in KuSlot : ~(KuPlace(i) < 0)
    BY DEF KuPlace, KuSlot
  <2> QED BY <2>1, <2>2 DEF KuFilled, KuLast
<1>4. CharactersInOrder /\ CharactersWhole /\ DOMAIN kuRx = {} /\ Len(kuRx) = 0
  BY DEF CharactersInOrder, CharactersWhole
<1>5. CharactersAccounted
  BY <1>3, <1>4 DEF CharactersAccounted
<1>6. KuOrder
  BY <1>3, <1>4 DEF KuOrder
<1> QED BY <1>1, <1>2, <1>4, <1>5, <1>6 DEF KuInv, KuNeverFull

\* The characters that wait fill the slots from the tail on, and the interrupt's
\* slot is behind them unless the ring is full.
LEMMA KuFilledIs ==
  ASSUME KuTypes, kuFull => kuHead = kuTail
  PROVE  /\ KuWaiting \in 0 .. KuSize
         /\ kuFull <=> KuWaiting = KuSize
         /\ kuFull => KuFilled = KuSlot
         /\ ~kuFull => KuWaiting = KuPlace(kuHead) /\ kuHead \notin KuFilled
         /\ kuTail \in KuFilled <=> ~KuEmpty
         /\ KuPlace(kuTail) = 0
         /\ \A i \in KuSlot : KuPlace(i) \in 0 .. KuSize - 1 /\ (i # kuTail => KuPlace(i) > 0)
         /\ \A i, j \in KuSlot : KuPlace(i) = KuPlace(j) => i = j
BY KuAssumption DEF KuTypes, KuSlot, KuPlace, KuFilled, KuWaiting, KuEmpty

\* A character is put into the ring; in a full one it takes the place of the
\* oldest.
LEMMA KuPushKeeps ==
  ASSUME KuInv, K32WPushRxRingBuffer
  PROVE  KuInv'
<1> USE KuAssumption
<1> DEFINE next == KuAfter(kuHead)
<1>1. /\ KuTypes /\ KuReports /\ KuOrder /\ CharactersAccounted
      /\ ~kuWasFull => KuNeverFull
      /\ kuFull => kuHead = kuTail
  BY DEF KuInv, KuOrder
<1>2. KuTypes' /\ KuReports'
  <2>1. KuAfter(kuHead) \in KuSlot /\ KuAfter(kuTail) \in KuSlot
    BY <1>1, KuAfterIs DEF KuTypes
  <2>2. /\ kuTail' \in KuSlot /\ kuFull' \in BOOLEAN /\ kuWasFull' \in BOOLEAN /\ kuTorn' \in BOOLEAN
        /\ kuOverwritten' \in Nat /\ kuBuf' \in [KuSlot -> Nat]
    BY <1>1, <2>1 DEF KuTypes, K32WPushRxRingBuffer
  <2> QED BY <1>1, <2>1, <2>2 DEF KuTypes, KuReports, K32WPushRxRingBuffer, kuTxVars
<1>3. /\ next = (IF kuHead + 1 = KuSize THEN 0 ELSE kuHead + 1) /\ next \in KuSlot
      /\ kuHead' = next /\ kuBuf' = [kuBuf EXCEPT ![kuHead] = kuNext] /\ kuNext' = kuNext + 1
      /\ kuTail' = (IF kuFull THEN next ELSE kuTail) /\ kuFull' = (kuHead' = kuTail')
      /\ kuWasFull' = (kuWasFull \/ kuFull') /\ kuTorn' = (kuTorn \/ kuHead = kuPtr)
      /\ kuOverwritten' = kuOverwritten + (IF kuFull THEN 1 ELSE 0)
      /\ UNCHANGED <<kuPtr, kuDue, kuRx, kuPassed, kuGiven, kuOverrun>>
  <2>1. kuFull => KuAfter(kuTail) = next
    BY <1>1
  <2> QED BY <1>1, <2>1, KuAfterIs DEF KuTypes, K32WPushRxRingBuffer
<1> HIDE DEF next
<1>4. KuWaiting' = KuWaiting + (IF kuFull THEN 0 ELSE 1)
  BY <1>1, <1>3 DEF KuWaiting, KuTypes, KuSlot
<1>5. CharactersAccounted'
  <2> DEFINE rest == kuPassed + Len(kuRx) + (IF kuPtr = -1 THEN 0 ELSE 1)
  <2>1. rest' = rest /\ rest \in Int
    BY <1>1, <1>3 DEF KuTypes
  <2>2. KuWaiting \in Int
    BY <1>1 DEF KuWaiting, KuTypes, KuSlot
  <2> HIDE DEF rest
  <2>3. kuNext - 1 = rest + KuWaiting + kuOverrun + kuOverwritten
    BY <1>1 DEF CharactersAccounted, rest
  <2>4. kuNext' - 1 = rest' + KuWaiting' + kuOverrun' + kuOverwritten'
    BY <1>1, <1>3, <1>4, <2>1, <2>2, <2>3 DEF KuTypes
  <2> QED BY <2>4 DEF CharactersAccounted, rest
<1>6. ASSUME NEW i \in KuSlot
      PROVE  /\ i \in KuFilled' <=> i \in KuFilled \/ i = kuHead
             /\ i # kuHead => KuPlace(i)' = KuPlace(i) - (IF kuFull THEN 1 ELSE 0)
             /\ i = kuHead => KuPlace(i)' = KuWaiting' - 1
             /\ i \in KuFilled' => KuPlace(i)' <= KuWaiting' - 1
             /\ i # kuHead => kuBuf'[i] = kuBuf[i]
             /\ kuBuf'[kuHead] = kuNext
  <2>1. /\ KuSize \in Nat \ {0} /\ i \in 0 .. KuSize - 1 /\ kuHead \in 0 .. KuSize - 1
        /\ kuTail \in 0 .. KuSize - 1 /\ next \in 0 .. KuSize - 1
    BY <1>1, <1>3 DEF KuTypes, KuSlot
  <2>2. (i # kuHead => kuBuf'[i] = kuBuf[i]) /\ kuBuf'[kuHead] = kuNext
    BY <1>1, <1>3 DEF KuTypes
  <2>3. /\ KuPlace(i) \in 0 .. KuSize - 1 /\ KuPlace(kuHead) \in 0 .. KuSize - 1
        /\ KuPlace(i) = KuPlace(kuHead) => i = kuHead
    BY <2>1 DEF KuPlace
  <2>4. /\ i \in KuFilled <=> KuPlace(i) < KuWaiting
        /\ i \in KuFilled' <=> KuPlace(i)' < KuWaiting'
    BY DEF KuFilled
  <2>5. CASE kuFull
    <3>1. kuTail' = next /\ kuTail = kuHead /\ KuWaiting = KuSize /\ KuWaiting' = KuSize
      BY <1>1, <1>3, <1>4, <2>5 DEF KuWaiting
    <3>2. KuPlace(i)' = (IF i = kuHead THEN KuSize - 1 ELSE KuPlace(i) - 1)
      BY <1>3, <2>1, <3>1 DEF KuPlace
    <3> QED BY <2>1, <2>2, <2>3, <2>4, <2>5, <3>1, <3>2
  <2>6. CASE ~kuFull
    <3>1. KuPlace(i)' = KuPlace(i) /\ KuWaiting = KuPlace(kuHead) /\ KuWaiting' = KuPlace(kuHead) + 1
      BY <1>3, <1>4, <2>6 DEF KuPlace, KuWaiting
    <3> QED BY <2>1, <2>2, <2>3, <2>4, <2>6, <3>1
  <2> QED BY <2>5, <2>6
<1>7. KuOrder'
  <2>1. /\ KuLast' = KuLast /\ KuPopped' = KuPopped
        /\ CharactersInOrder' /\ CharactersWhole'
    BY <1>1, <1>3 DEF KuLast, KuPopped, CharactersInOrder, CharactersWhole, KuOrder
  <2>2. KuLast < kuNext /\ KuPopped < kuNext /\ KuLast \in Nat /\ KuPopped \in Nat /\ kuNext \in Nat
    <3>1. kuRx # << >> => kuRx[Len(kuRx)] \in KuRead
      BY <1>1 DEF KuTypes
    <3>2. KuLast \in Nat /\ KuPopped \in Nat
      BY <1>1, <3>1 DEF KuLast, KuPopped, KuTypes, KuRead
    <3> QED BY <1>1, <3>2 DEF KuOrder, KuPopped, KuTypes
  <2>3. kuPtr' # -1 => KuLast' < kuDue' /\ kuDue' < kuNext' /\ (kuTorn' \/ kuBuf'[kuPtr'] = kuDue')
    <3> SUFFICES ASSUME kuPtr # -1
                 PROVE  KuLast < kuDue /\ kuDue < kuNext + 1 /\ (kuTorn' \/ kuBuf'[kuPtr] = kuDue)
      BY <1>3, <2>1
    <3>1. kuPtr \in KuSlot /\ kuDue \in Nat
      BY <1>1 DEF KuTypes
    <3>2. KuLast < kuDue /\ kuDue < kuNext /\ (kuTorn \/ kuBuf[kuPtr] = kuDue)
      BY <1>1 DEF KuOrder
    <3>3. kuTorn' \/ kuBuf'[kuPtr] = kuDue
      <4>1. CASE kuPtr = kuHead
        BY <1>3, <4>1
      <4>2. CASE kuPtr # kuHead
        BY <1>1, <1>3, <1>6, <3>1, <3>2, <4>2 DEF KuTypes
      <4> QED BY <4>1, <4>2
    <3> QED BY <2>2, <3>1, <3>2, <3>3
  <2>4. \A i \in KuFilled' : KuPopped' < kuBuf'[i] /\ kuBuf'[i] < kuNext'
    <3> SUFFICES ASSUME NEW i \in KuFilled' PROVE KuPopped < kuBuf'[i] /\ kuBuf'[i] < kuNext + 1
      BY <1>3, <2>1
    <3>1. i \in KuSlot /\ kuBuf[i] \in Nat
      BY <1>1 DEF KuFilled, KuTypes
    <3>2. CASE i = kuHead
      BY <1>6, <2>2, <3>1, <3>2
    <3>3. CASE i # kuHead
      <4>1. i \in KuFilled /\ kuBuf'[i] = kuBuf[i]
        BY <1>6, <3>1, <3>3
      <4>2. KuPopped < kuBuf[i] /\ kuBuf[i] < kuNext
        BY <1>1, <4>1 DEF KuOrder
      <4> QED BY <2>2, <3>1, <4>1, <4>2
    <3> QED BY <3>2, <3>3
  <2>5. \A i, j \in KuFilled' : KuPlace(i)' < KuPlace(j)' => kuBuf'[i] < kuBuf'[j]
    <3> SUFFICES ASSUME NEW i \in KuFilled', NEW j \in KuFilled', KuPlace(i)' < KuPlace(j)'
                 PROVE  kuBuf'[i] < kuBuf'[j]
      OBVIOUS
    <3>1. i \in KuSlot /\ j \in KuSlot
      BY DEF KuFilled
    <3>2. KuPlace(i)' \in Int /\ KuPlace(j)' \in Int /\ KuPlace(i) \in Int /\ KuPlace(j) \in Int
      <4>1. /\ KuSize \in Int /\ i \in Int /\ j \in Int /\ kuTail \in Int /\ kuTail' \in Int
        BY <1>1, <1>2, <3>1 DEF KuTypes, KuSlot
      <4> QED BY <4>1 DEF KuPlace
    <3>3. i # kuHead
      <4> SUFFICES ASSUME i = kuHead PROVE FALSE
        OBVIOUS
      <4>1. KuPlace(i)' = KuWaiting' - 1 /\ KuPlace(j)' <= KuWaiting' - 1
        BY <1>6, <3>1
      <4>2. KuWaiting' \in Int
        <5>1. KuWaiting \in Int
          BY <1>1 DEF KuWaiting, KuTypes, KuSlot
        <5> QED BY <1>4, <5>1
      <4> QED BY <3>2, <4>1, <4>2
    <3>4. i \in KuFilled /\ kuBuf'[i] = kuBuf[i]
      BY <1>6, <3>1, <3>3
    <3>5. kuBuf[i] < kuNext
      BY <1>1, <3>4 DEF KuOrder
    <3>6. CASE j = kuHead
      BY <1>6, <3>1, <3>4, <3>5, <3>6
    <3>7. CASE j # kuHead
      <4>1. j \in KuFilled /\ kuBuf'[j] = kuBuf[j]
        BY <1>6, <3>1, <3>7
      <4>2. KuPlace(i) < KuPlace(j)
        BY <1>6, <3>1, <3>2, <3>3, <3>7
      <4> QED BY <1>1, <3>4, <4>1, <4>2 DEF KuOrder
    <3> QED BY <3>6, <3>7
  <2>6. kuFull' => kuHead' = kuTail'
    BY <1>3
  <2>7. KuLast' < kuNext'
    BY <1>3, <2>1, <2>2
  <2> QED BY <2>1, <2>3, <2>4, <2>5, <2>6, <2>7 DEF KuOrder
<1>8. ASSUME ~kuWasFull' PROVE KuNeverFull'
  <2>1. ~kuWasFull /\ ~kuFull' /\ KuNeverFull
    BY <1>1, <1>3, <1>8
  <2>2. kuTail' = kuTail /\ next # kuTail /\ kuOverwritten' = 0 /\ UNCHANGED <<kuPtr, kuRx>>
    <3>1. ~kuFull /\ kuOverwritten = 0
      BY <2>1 DEF KuNeverFull
    <3>2. kuTail' = kuTail /\ kuOverwritten' = 0
      BY <1>3, <3>1
    <3>3. next # kuTail
      BY <1>3, <2>1, <3>2
    <3> QED BY <1>3, <3>2, <3>3
  <2>3. kuPtr # -1 => kuHead # kuPtr
    BY <2>1, <2>2 DEF KuNeverFull, next
  <2>4. kuPtr # -1 => ~kuTorn' /\ KuAfter(kuPtr)' = kuTail'
    BY <1>1, <1>3, <2>1, <2>2, <2>3 DEF KuNeverFull, KuAfter, KuTypes
  <2>5. \A i \in DOMAIN kuRx' : ~kuRx'[i].torn
    BY <2>1, <2>2 DEF KuNeverFull
  <2> QED BY <2>1, <2>2, <2>4, <2>5 DEF KuNeverFull
<1> QED BY <1>2, <1>5, <1>7, <1>8 DEF KuInv

\* The oldest character is popped, and the rest stays as it is.
LEMMA KuPopKeeps ==
  ASSUME KuInv, UartPopRxRingBuffer
  PROVE  KuInv'
<1> USE KuAssumption
<1> DEFINE next == KuAfter(kuTail)
<1>1. /\ KuTypes /\ KuReports /\ KuOrder /\ CharactersAccounted
      /\ ~kuWasFull => KuNeverFull
      /\ kuFull => kuHead = kuTail
  BY DEF KuInv, KuOrder
<1>2. kuTail \in KuSlot /\ kuBuf[kuTail] \in Nat
  BY <1>1 DEF KuTypes
<1>3. KuTypes' /\ KuReports'
  <2>1. next \in KuSlot /\ kuTail \in KuSlot \cup {-1}
    BY <1>2, KuAfterIs
  <2> QED BY <1>1, <1>2, <2>1 DEF KuTypes, KuReports, UartPopRxRingBuffer, kuTxVars
<1>4. /\ next = (IF kuTail + 1 = KuSize THEN 0 ELSE kuTail + 1) /\ next \in KuSlot
      /\ kuTail' = next /\ kuFull' = FALSE /\ kuPtr = -1 /\ kuPtr' = kuTail /\ ~KuEmpty
      /\ kuDue' = kuBuf[kuTail] /\ kuTorn' = FALSE
      /\ UNCHANGED <<kuBuf, kuHead, kuWasFull, kuNext, kuOverrun, kuOverwritten, kuRx, kuPassed, kuGiven>>
  BY <1>2, KuAfterIs DEF UartPopRxRingBuffer
<1>a. next = KuAfter(kuTail)
  OBVIOUS
<1> HIDE DEF next
<1>5. /\ KuSize \in Nat \ {0} /\ kuHead \in 0 .. KuSize - 1
      /\ kuTail \in 0 .. KuSize - 1 /\ next \in 0 .. KuSize - 1 /\ kuTail # -1
  BY <1>1, <1>4 DEF KuTypes, KuSlot
<1>6. KuWaiting' = KuWaiting - 1 /\ KuWaiting \in Int
  BY <1>1, <1>4, <1>5 DEF KuWaiting, KuEmpty
<1>7. CharactersAccounted'
  <2> DEFINE rest == kuPassed + Len(kuRx)
  <2>1. rest' = rest /\ rest \in Int /\ kuNext \in Int /\ kuOverrun \in Int /\ kuOverwritten \in Int
    BY <1>1, <1>4 DEF KuTypes
  <2> HIDE DEF rest
  <2>2. kuNext - 1 = rest + 0 + KuWaiting + kuOverrun + kuOverwritten
    BY <1>1, <1>4 DEF CharactersAccounted, rest
  <2>3. kuNext' - 1 = rest' + 1 + KuWaiting' + kuOverrun' + kuOverwritten'
    BY <1>4, <1>6, <2>1, <2>2
  <2> QED BY <1>4, <1>5, <2>3 DEF CharactersAccounted, rest
<1>8. ASSUME NEW i \in KuSlot
      PROVE  /\ i \in KuFilled' => i \in KuFilled /\ i # kuTail /\ KuPlace(i)' = KuPlace(i) - 1
             /\ i = kuTail => KuPlace(i) = 0 /\ i \in KuFilled
             /\ i # kuTail => KuPlace(i) > 0
             /\ KuPlace(i) \in Int
  <2>1. i \in 0 .. KuSize - 1
    BY DEF KuSlot
  <2>2. /\ i \in KuFilled <=> KuPlace(i) < KuWaiting
        /\ i \in KuFilled' <=> KuPlace(i)' < KuWaiting'
    BY DEF KuFilled
  <2>3. KuPlace(i)' = (IF i = kuTail THEN KuSize - 1 ELSE KuPlace(i) - 1)
    BY <1>4, <1>5, <2>1 DEF KuPlace
  <2>4. KuWaiting <= KuSize /\ KuWaiting > 0
    BY <1>1, <1>4, <1>5 DEF KuWaiting, KuEmpty
  <2>5. KuPlace(i) \in Int /\ (i = kuTail <=> KuPlace(i) = 0) /\ KuPlace(i) >= 0
    BY <1>5, <2>1 DEF KuPlace
  <2> QED BY <1>5, <1>6, <2>2, <2>3, <2>4, <2>5
<1>9. KuOrder'
  <2>1. /\ KuLast' = KuLast /\ KuPopped = KuLast /\ KuPopped' = kuBuf[kuTail]
        /\ CharactersInOrder' /\ CharactersWhole'
    BY <1>1, <1>4, <1>5 DEF KuLast, KuPopped, CharactersInOrder, CharactersWhole, KuOrder
  <2>2. kuTail \in KuFilled /\ KuLast < kuBuf[kuTail] /\ kuBuf[kuTail] < kuNext
    BY <1>1, <1>2, <1>8, <2>1 DEF KuOrder
  <2>3. \A i \in KuFilled' : KuPopped' < kuBuf'[i] /\ kuBuf'[i] < kuNext'
    <3> SUFFICES ASSUME NEW i \in KuFilled' PROVE kuBuf[kuTail] < kuBuf[i] /\ kuBuf[i] < kuNext
      BY <1>4, <2>1
    <3>1. i \in KuSlot
      BY DEF KuFilled
    <3>2. i \in KuFilled /\ KuPlace(kuTail) < KuPlace(i)
      BY <1>2, <1>8, <3>1
    <3> QED BY <1>1, <2>2, <3>2 DEF KuOrder
  <2>4. \A i, j \in KuFilled' : KuPlace(i)' < KuPlace(j)' => kuBuf'[i] < kuBuf'[j]
    <3> SUFFICES ASSUME NEW i \in KuFilled', NEW j \in KuFilled', KuPlace(i)' < KuPlace(j)'
                 PROVE  kuBuf[i] < kuBuf[j]
      BY <1>4
    <3>1. i \in KuSlot /\ j \in KuSlot
      BY DEF KuFilled
    <3>2. i \in KuFilled /\ j \in KuFilled /\ KuPlace(i) < KuPlace(j)
      BY <1>8, <3>1
    <3> QED BY <1>1, <3>2 DEF KuOrder
  <2>5. KuLast' < kuNext'
    BY <1>1, <1>4, <2>1 DEF KuOrder
  <2>6. kuPtr' # -1 => KuLast' < kuDue' /\ kuDue' < kuNext' /\ (kuTorn' \/ kuBuf'[kuPtr'] = kuDue')
    BY <1>4, <2>1, <2>2
  <2> QED BY <1>4, <2>1, <2>3, <2>4, <2>5, <2>6 DEF KuOrder
<1>10. ASSUME ~kuWasFull' PROVE KuNeverFull'
  <2>1. KuNeverFull
    BY <1>1, <1>4, <1>10
  <2>2. KuAfter(kuPtr)' = kuTail'
    <3>1. KuAfter(kuPtr)' = KuAfter(kuTail)
      BY <1>4 DEF KuAfter
    <3> QED BY <1>4, <1>a, <3>1
  <2>3. (\A i \in DOMAIN kuRx' : ~kuRx'[i].torn) /\ kuOverwritten' = 0
    BY <1>4, <2>1 DEF KuNeverFull
  <2> QED BY <1>4, <2>2, <2>3 DEF KuNeverFull
<1> QED BY <1>3, <1>7, <1>9, <1>10 DEF KuInv

\* The popped character is collected.
LEMMA KuReadKeeps ==
  ASSUME KuInv, ReadCharacter
  PROVE  KuInv'
<1> DEFINE c == [char |-> kuBuf[kuPtr], due |-> kuDue, torn |-> kuTorn]
<1>1. /\ KuTypes /\ KuReports /\ KuOrder /\ CharactersAccounted
      /\ ~kuWasFull => KuNeverFull
  BY DEF KuInv
<1>2. /\ kuRx' = Append(kuRx, c) /\ kuPtr' = -1 /\ kuPtr # -1
      /\ UNCHANGED <<kuBuf, kuHead, kuTail, kuFull, kuWasFull, kuNext, kuOverrun, kuOverwritten>>
      /\ UNCHANGED <<kuDue, kuTorn, kuPassed, kuGiven, kuTxVars>>
  BY DEF ReadCharacter, kuRingVars
<1>3. /\ c \in KuRead /\ c.due = kuDue /\ c.torn = kuTorn /\ kuDue \in Nat
      /\ c.char = kuDue \/ c.torn
  <2>1. kuBuf[kuPtr] \in Nat /\ kuDue \in Nat /\ kuTorn \in BOOLEAN
    BY <1>1, <1>2 DEF KuTypes
  <2>2. kuTorn \/ kuBuf[kuPtr] = kuDue
    BY <1>1, <1>2 DEF KuOrder
  <2> QED BY <2>1, <2>2 DEF KuRead
<1> HIDE DEF c
<1>4. /\ kuRx \in Seq(KuRead) /\ kuRx' \in Seq(KuRead)
      /\ Len(kuRx') = Len(kuRx) + 1 /\ Len(kuRx) \in Nat
      /\ kuRx' # << >> /\ kuRx'[Len(kuRx) + 1] = c
      /\ DOMAIN kuRx = 1 .. Len(kuRx) /\ DOMAIN kuRx' = 1 .. Len(kuRx) + 1
      /\ \A i \in 1 .. Len(kuRx) : kuRx'[i] = kuRx[i] /\ kuRx[i] \in KuRead
  <2>1. kuRx \in Seq(KuRead)
    BY <1>1 DEF KuTypes
  <2> QED BY <1>2, <1>3, <2>1
<1>5. KuTypes' /\ KuReports'
  BY <1>1, <1>2, <1>4 DEF KuTypes, KuReports, kuTxVars
<1>6. KuWaiting' = KuWaiting /\ KuFilled' = KuFilled /\ \A i : KuPlace(i)' = KuPlace(i)
  BY <1>2 DEF KuWaiting, KuFilled, KuPlace
<1>7. CharactersAccounted'
  <2> DEFINE rest == KuWaiting + kuOverrun + kuOverwritten
  <2>1. rest' = rest
    BY <1>2, <1>6
  <2>2. KuWaiting \in Int /\ kuOverrun \in Int /\ kuOverwritten \in Int /\ kuPassed \in Int
    BY <1>1, KuAssumption DEF KuWaiting, KuTypes, KuSlot
  <2>3. rest \in Int
    BY <2>2
  <2>4. kuNext - 1 = kuPassed + Len(kuRx) + 1 + rest
    BY <1>1, <1>2, <1>4, <2>2 DEF CharactersAccounted
  <2> HIDE DEF rest
  <2>5. kuNext' - 1 = kuPassed' + Len(kuRx') + 0 + rest'
    BY <1>2, <1>4, <2>1, <2>2, <2>3, <2>4
  <2>6. KuWaiting' \in Int /\ kuOverrun' \in Int /\ kuOverwritten' \in Int /\ kuPassed' \in Int /\ Len(kuRx') \in Int
    BY <1>2, <1>4, <1>6, <2>2
  <2>7. rest' = KuWaiting' + kuOverrun' + kuOverwritten'
    BY DEF rest
  <2> QED BY <1>2, <2>5, <2>6, <2>7 DEF CharactersAccounted
<1>8. KuOrder'
  <2>1. KuLast' = kuDue /\ KuPopped' = kuDue /\ KuPopped = kuDue
    BY <1>2, <1>3, <1>4 DEF KuLast, KuPopped
  <2>2. KuLast < kuDue /\ kuDue < kuNext
    BY <1>1, <1>2 DEF KuOrder
  <2>3. \A i \in 1 .. Len(kuRx) : kuRx[i].due \in Nat
    BY <1>4 DEF KuRead
  <2>4. \A i \in 1 .. Len(kuRx) : kuRx[i].due <= KuLast
    <3> SUFFICES ASSUME NEW i \in 1 .. Len(kuRx) PROVE kuRx[i].due <= KuLast
      OBVIOUS
    <3>1. kuRx # << >> /\ KuLast = kuRx[Len(kuRx)].due /\ Len(kuRx) \in 1 .. Len(kuRx)
      BY <1>4 DEF KuLast
    <3>2. i < Len(kuRx) => kuRx[i].due < kuRx[Len(kuRx)].due
      BY <1>1, <1>4, <3>1 DEF KuOrder, CharactersInOrder
    <3> QED BY <1>4, <2>3, <3>1, <3>2
  <2>5. kuGiven <= KuLast /\ KuLast \in Nat /\ kuGiven \in Nat
    <3>1. CASE kuRx = << >>
      BY <1>1, <3>1 DEF KuLast, KuTypes
    <3>2. CASE kuRx # << >>
      <4>1. 1 \in 1 .. Len(kuRx) /\ Len(kuRx) \in 1 .. Len(kuRx)
        BY <1>4, <3>2
      <4>2. kuGiven < kuRx[1].due /\ kuGiven \in Nat
        BY <1>1, <3>2 DEF KuOrder, CharactersInOrder, KuTypes
      <4>3. kuRx[1].due <= KuLast /\ kuRx[1].due \in Nat /\ KuLast \in Nat
        BY <2>3, <2>4, <3>2, <4>1 DEF KuLast
      <4> QED BY <4>2, <4>3
    <3> QED BY <3>1, <3>2
  <2>6. CharactersInOrder'
    <3>1. \A i, j \in DOMAIN kuRx' : i < j => kuRx'[i].due < kuRx'[j].due
      <4> SUFFICES ASSUME NEW i \in 1 .. Len(kuRx) + 1, NEW j \in 1 .. Len(kuRx) + 1, i < j
                   PROVE  kuRx'[i].due < kuRx'[j].due
        BY <1>4
      <4>1. i \in 1 .. Len(kuRx) /\ kuRx'[i] = kuRx[i]
        BY <1>4
      <4>2. CASE j = Len(kuRx) + 1
        BY <1>3, <1>4, <2>2, <2>3, <2>4, <2>5, <4>1, <4>2
      <4>3. CASE j \in 1 .. Len(kuRx)
        BY <1>1, <1>4, <4>1, <4>3 DEF KuOrder, CharactersInOrder
      <4> QED BY <1>4, <4>2, <4>3
    <3>2. kuGiven' < kuRx'[1].due
      <4>1. CASE Len(kuRx) = 0
        BY <1>2, <1>3, <1>4, <2>2, <2>5, <4>1
      <4>2. CASE Len(kuRx) > 0
        <5>1. 1 \in 1 .. Len(kuRx) /\ kuRx # << >>
          BY <1>4, <4>2
        <5> QED BY <1>1, <1>2, <1>4, <5>1 DEF KuOrder, CharactersInOrder
      <4> QED BY <4>1, <4>2, <1>4
    <3> QED BY <3>1, <3>2 DEF CharactersInOrder
  <2>7. CharactersWhole'
    <3> SUFFICES ASSUME NEW i \in 1 .. Len(kuRx) + 1
                 PROVE  kuRx'[i].char = kuRx'[i].due \/ kuRx'[i].torn
      BY <1>4 DEF CharactersWhole
    <3>1. CASE i = Len(kuRx) + 1
      BY <1>3, <1>4, <3>1
    <3>2. CASE i \in 1 .. Len(kuRx)
      BY <1>1, <1>4, <3>2 DEF KuOrder, CharactersWhole
    <3> QED BY <1>4, <3>1, <3>2
  <2> QED BY <1>1, <1>2, <1>6, <2>1, <2>2, <2>6, <2>7 DEF KuOrder
<1>9. ASSUME ~kuWasFull' PROVE KuNeverFull'
  <2>1. KuNeverFull /\ ~kuTorn
    BY <1>1, <1>2, <1>9 DEF KuNeverFull
  <2>2. \A i \in 1 .. Len(kuRx) + 1 : ~kuRx'[i].torn
    <3> SUFFICES ASSUME NEW i \in 1 .. Len(kuRx) + 1 PROVE ~kuRx'[i].torn
      OBVIOUS
    <3>1. CASE i = Len(kuRx) + 1
      BY <1>3, <1>4, <2>1, <3>1
    <3>2. CASE i \in 1 .. Len(kuRx)
      BY <1>4, <2>1, <3>2 DEF KuNeverFull
    <3> QED BY <1>4, <3>1, <3>2
  <2> QED BY <1>2, <1>4, <2>1, <2>2 DEF KuNeverFull
<1> QED BY <1>5, <1>7, <1>8, <1>9 DEF KuInv

\* What was collected is passed on.
LEMMA KuGiveKeeps ==
  ASSUME KuInv, K32WProcessReceive
  PROVE  KuInv'
<1>1. /\ KuTypes /\ KuReports /\ KuOrder /\ CharactersAccounted
      /\ ~kuWasFull => KuNeverFull
  BY DEF KuInv
<1>2. /\ kuRx # << >> /\ kuGiven' = kuRx[Len(kuRx)].due /\ kuRx' = << >>
      /\ kuPassed' = kuPassed + Len(kuRx) /\ kuPtr = -1
      /\ UNCHANGED <<kuBuf, kuHead, kuTail, kuFull, kuWasFull, kuNext, kuOverrun, kuOverwritten>>
      /\ UNCHANGED <<kuPtr, kuDue, kuTorn, kuTxVars>>
  BY DEF K32WProcessReceive, kuRingVars
<1>3. /\ Len(kuRx) \in Nat /\ kuRx[Len(kuRx)] \in KuRead /\ kuRx[Len(kuRx)].due \in Nat
      /\ kuRx' \in Seq(KuRead) /\ Len(kuRx') = 0 /\ DOMAIN kuRx' = {}
  <2>1. Len(kuRx) \in Nat /\ kuRx[Len(kuRx)] \in KuRead
    BY <1>1, <1>2 DEF KuTypes
  <2> QED BY <1>2, <2>1 DEF KuRead
<1>4. KuTypes' /\ KuReports'
  BY <1>1, <1>2, <1>3 DEF KuTypes, KuReports, kuTxVars
<1>5. /\ KuLast' = KuLast /\ KuPopped' = KuPopped
      /\ KuWaiting' = KuWaiting /\ KuFilled' = KuFilled /\ \A i : KuPlace(i)' = KuPlace(i)
  BY <1>2 DEF KuLast, KuPopped, KuWaiting, KuFilled, KuPlace
<1>6. CharactersInOrder' /\ CharactersWhole'
  BY <1>2, <1>3 DEF CharactersInOrder, CharactersWhole
<1>7. CharactersAccounted'
  <2>1. KuWaiting \in Int /\ kuOverrun \in Int /\ kuOverwritten \in Int /\ kuPassed \in Int
    BY <1>1, KuAssumption DEF KuWaiting, KuTypes, KuSlot
  <2>2. kuNext - 1 = kuPassed + Len(kuRx) + 0 + KuWaiting + kuOverrun + kuOverwritten
    BY <1>1, <1>2 DEF CharactersAccounted
  <2>3. kuNext' - 1 = kuPassed' + Len(kuRx') + 0 + KuWaiting' + kuOverrun' + kuOverwritten'
    BY <1>2, <1>3, <1>5, <2>1, <2>2
  <2> QED BY <1>2, <2>3 DEF CharactersAccounted
<1>8. KuOrder'
  BY <1>1, <1>2, <1>5, <1>6 DEF KuOrder
<1>9. ~kuWasFull' => KuNeverFull'
  BY <1>1, <1>2, <1>3 DEF KuNeverFull
<1> QED BY <1>4, <1>7, <1>8, <1>9 DEF KuInv

\* A character the hardware loses is counted and nothing else changes.
LEMMA KuOverrunKeeps ==
  ASSUME KuInv, RxOverrun
  PROVE  KuInv'
<1>1. /\ KuTypes /\ KuReports /\ KuOrder /\ CharactersAccounted
      /\ ~kuWasFull => KuNeverFull
  BY DEF KuInv
<1>2. /\ kuNext' = kuNext + 1 /\ kuOverrun' = kuOverrun + 1
      /\ UNCHANGED <<kuBuf, kuHead, kuTail, kuFull, kuWasFull, kuOverwritten, kuReadVars, kuTxVars>>
  BY DEF RxOverrun
<1>3. KuTypes' /\ KuReports'
  BY <1>1, <1>2 DEF KuTypes, KuReports, kuReadVars, kuTxVars
<1>4. /\ KuLast' = KuLast /\ KuPopped' = KuPopped /\ UNCHANGED <<kuPtr, kuDue, kuTorn, kuRx, kuPassed>>
      /\ KuWaiting' = KuWaiting /\ KuFilled' = KuFilled /\ \A i : KuPlace(i)' = KuPlace(i)
      /\ CharactersInOrder' = CharactersInOrder /\ CharactersWhole' = CharactersWhole
  BY <1>2 DEF KuLast, KuPopped, KuWaiting, KuFilled, KuPlace, CharactersInOrder, CharactersWhole, kuReadVars
<1>5. CharactersAccounted'
  <2> DEFINE rest == kuPassed + Len(kuRx) + (IF kuPtr = -1 THEN 0 ELSE 1) + KuWaiting
  <2>1. rest' = rest
    BY <1>4
  <2>2. rest \in Int /\ kuOverrun \in Int /\ kuOverwritten \in Int /\ kuNext \in Int
    BY <1>1, KuAssumption DEF KuWaiting, KuTypes, KuSlot
  <2> HIDE DEF rest
  <2>3. kuNext - 1 = rest + kuOverrun + kuOverwritten
    BY <1>1 DEF CharactersAccounted, rest
  <2>4. kuNext' - 1 = rest' + kuOverrun' + kuOverwritten'
    BY <1>2, <2>1, <2>2, <2>3
  <2> QED BY <2>4 DEF CharactersAccounted, rest
<1>6. KuOrder'
  <2>1. KuLast \in Nat /\ kuNext \in Nat /\ kuDue \in Nat
    <3>1. kuRx # << >> => kuRx[Len(kuRx)] \in KuRead
      BY <1>1 DEF KuTypes
    <3> QED BY <1>1, <3>1 DEF KuTypes, KuLast, KuRead
  <2>2. \A i \in KuFilled : kuBuf[i] \in Nat
    BY <1>1 DEF KuTypes, KuFilled
  <2>3. KuLast < kuNext + 1 /\ (kuDue < kuNext => kuDue < kuNext + 1)
    BY <1>1, <2>1 DEF KuOrder
  <2>4. \A i \in KuFilled : KuPopped < kuBuf[i] /\ kuBuf[i] < kuNext + 1
    BY <1>1, <2>1, <2>2 DEF KuOrder
  <2> QED BY <1>1, <1>2, <1>4, <2>3, <2>4 DEF KuOrder
<1>7. ~kuWasFull' => KuNeverFull'
  BY <1>1, <1>2, <1>4 DEF KuNeverFull, KuAfter
<1> QED BY <1>3, <1>5, <1>6, <1>7 DEF KuInv

\* Every step of the serial port keeps the order, the account and the reports.
LEMMA KuStep == KuInv /\ [KuNext]_kuVars => KuInv'
<1> SUFFICES ASSUME KuInv, [KuNext]_kuVars PROVE KuInv'
  OBVIOUS
<1>0. /\ KuTypes /\ KuReports /\ KuOrder /\ CharactersAccounted
      /\ ~kuWasFull => KuNeverFull
  BY DEF KuInv
<1>1. ASSUME UNCHANGED kuRxVars, KuTypes', KuReports' PROVE KuInv'
  <2>0. /\ UNCHANGED <<kuBuf, kuHead, kuTail, kuFull, kuWasFull, kuNext, kuOverrun, kuOverwritten>>
        /\ UNCHANGED <<kuPtr, kuDue, kuTorn, kuRx, kuPassed, kuGiven>>
    BY <1>1 DEF kuRxVars, kuRingVars, kuReadVars
  <2>1. /\ KuLast' = KuLast /\ KuPopped' = KuPopped
        /\ KuWaiting' = KuWaiting /\ KuFilled' = KuFilled /\ \A i : KuPlace(i)' = KuPlace(i)
        /\ CharactersInOrder' = CharactersInOrder /\ CharactersWhole' = CharactersWhole
    BY <2>0 DEF KuLast, KuPopped, KuWaiting, KuFilled, KuPlace, CharactersInOrder, CharactersWhole
  <2>2. KuOrder'
    BY <1>0, <2>0, <2>1 DEF KuOrder
  <2>3. CharactersAccounted' /\ (~kuWasFull' => KuNeverFull')
    BY <1>0, <2>0, <2>1 DEF CharactersAccounted, KuNeverFull, KuAfter
  <2> QED BY <1>1, <2>2, <2>3 DEF KuInv
<1>2. CASE K32WPushRxRingBuffer
  BY <1>2, KuPushKeeps
<1>3. CASE UartPopRxRingBuffer
  BY <1>3, KuPopKeeps
<1>4. CASE ReadCharacter
  BY <1>4, KuReadKeeps
<1>5. CASE K32WProcessReceive
  BY <1>5, KuGiveKeeps
<1>6. CASE RxOverrun
  BY <1>6, KuOverrunKeeps
<1>a. ASSUME UNCHANGED kuRxVars, kuTx' \in Nat, kuDone' \in BOOLEAN, kuFlush' \in BOOLEAN,
             kuSent' \in Nat, kuTold' \in Nat
      PROVE  KuTypes'
  BY <1>0, <1>a DEF KuTypes, kuRxVars, kuRingVars, kuReadVars
<1>7. CASE KuSend
  <2>1. KuTypes'
    BY <1>0, <1>7, <1>a, KuAssumption DEF KuSend, KuTypes
  <2>2. KuReports'
    BY <1>0, <1>7, KuAssumption DEF KuSend, KuTypes, KuReports
  <2> QED BY <1>1, <1>7, <2>1, <2>2 DEF KuSend
<1>8. CASE USART0_IRQHandler
  <2>1. KuTypes'
    BY <1>0, <1>8, <1>a DEF USART0_IRQHandler, KuTypes
  <2>2. KuReports'
    <3>1. CASE kuTx = 1
      BY <1>0, <1>8, <3>1 DEF USART0_IRQHandler, KuTypes, KuReports
    <3>2. CASE kuTx > 1
      BY <1>0, <1>8, <3>2 DEF USART0_IRQHandler, KuTypes, KuReports
    <3> QED BY <1>0, <1>8, <3>1, <3>2 DEF USART0_IRQHandler, KuTypes
  <2> QED BY <1>1, <1>8, <2>1, <2>2 DEF USART0_IRQHandler
<1>9. CASE K32WProcessTransmit
  <2>1. kuDone /\ kuDone' = FALSE /\ (kuTold' = kuTold \/ kuTold' = kuTold + 1)
        /\ UNCHANGED <<kuRxVars, kuTx, kuFlush, kuSent>>
    <3>1. kuTold' = kuTold \/ kuTold' = kuTold + 1
      <4>1. kuTold' = IF kuFlush THEN kuTold ELSE kuTold + 1
        BY <1>9 DEF K32WProcessTransmit
      <4> QED BY <4>1, Zenon
    <3> QED BY <1>9, <3>1 DEF K32WProcessTransmit
  <2>2. KuTypes'
    <3>1. kuTx' \in Nat /\ kuSent' \in Nat /\ kuTold' \in Nat
      BY <1>0, <2>1 DEF KuTypes
    <3>2. kuDone' \in BOOLEAN /\ kuFlush' \in BOOLEAN
      BY <1>0, <2>1, Zenon DEF KuTypes
    <3> QED BY <1>a, <2>1, <3>1, <3>2
  <2>3. KuReports'
    <3>1. kuTold + 1 <= kuSent /\ (kuTx > 0 => kuTold + 2 <= kuSent)
      BY <1>0, <2>1 DEF KuReports
    <3>2. ~kuDone' /\ kuTx' = kuTx /\ kuSent' = kuSent
      BY <2>1
    <3>3. kuTold \in Nat /\ kuSent \in Nat
      BY <1>0 DEF KuTypes
    <3>4. kuTold' <= kuSent' /\ (kuTx' > 0 => kuTold' + 1 <= kuSent')
      <4>1. CASE kuTold' = kuTold
        BY <3>1, <3>2, <3>3, <4>1
      <4>2. CASE kuTold' = kuTold + 1
        BY <3>1, <3>2, <3>3, <4>2
      <4> QED BY <2>1, <4>1, <4>2
    <3> QED BY <3>2, <3>4 DEF KuReports
  <2> QED BY <1>1, <2>1, <2>2, <2>3
<1>10. CASE FlushStart \/ \E late \in BOOLEAN : FlushStop(late)
  <2>1. kuFlush' \in BOOLEAN /\ UNCHANGED <<kuRxVars, kuTx, kuDone, kuSent, kuTold>>
    BY <1>10 DEF FlushStart, FlushStop
  <2>2. KuTypes'
    BY <1>0, <1>a, <2>1 DEF KuTypes
  <2>3. KuReports'
    BY <1>0, <2>1 DEF KuReports
  <2> QED BY <1>1, <2>1, <2>2, <2>3
<1>11. CASE UNCHANGED kuVars
  <2>1. UNCHANGED <<kuRxVars, kuTx, kuDone, kuFlush, kuSent, kuTold>>
    BY <1>11 DEF kuVars, kuTxVars
  <2>2. KuTypes' /\ KuReports'
    BY <1>0, <1>a, <2>1 DEF KuTypes, KuReports
  <2> QED BY <1>1, <2>1, <2>2
<1> QED BY <1>2, <1>3, <1>4, <1>5, <1>6, <1>7, <1>8, <1>9, <1>10, <1>11 DEF KuNext, KuRest

\* The invariant says what the run checks.
LEMMA KuInvSound == KuInv => KuSound
<1> SUFFICES ASSUME KuInv PROVE KuSound
  OBVIOUS
<1>1. CharactersInOrder /\ CharactersWhole /\ CharactersAccounted
  BY DEF KuInv, KuOrder
<1>2. ~kuWasFull => kuOverwritten = 0 /\ \A i \in DOMAIN kuRx : ~kuRx[i].torn
  BY DEF KuInv, KuNeverFull
<1>3. kuTold <= kuSent - (IF kuTx > 0 THEN 1 ELSE 0)
  BY DEF KuInv, KuReports, KuTypes
<1> QED BY <1>1, <1>2, <1>3 DEF KuSound

-----------------------------------------------------------------------------
(* K32wSerial: the packets of the SPI slave.                               *)

SlSlot == 0 .. SlRing - 1

SlTypes ==
  /\ slBuf \in [SlSlot -> Nat] /\ slDma \in SlSlot /\ slIn \in SlSlot
  /\ slWire \in Seq(Nat) /\ slUnread \in Nat
  /\ slUnread + Len(slWire) < SlRing
  /\ slDma = IF slIn + slUnread < SlRing THEN slIn + slUnread ELSE slIn + slUnread - SlRing
  /\ slSent \in Seq(Seq(Nat)) /\ slGot \in Seq(Seq(Nat)) /\ Len(slGot) <= Len(slSent)

\* The slot of the i-th byte after rxIn.
SlPlace(i) == IF slIn + i < SlRing THEN slIn + i ELSE slIn + i - SlRing

\* The bytes after rxIn that have come, and after them those on the wire.
SlBytes == slUnread + Len(slWire)
SlByte(i) == IF i < slUnread THEN slBuf[SlPlace(i)] ELSE slWire[i - slUnread + 1]

SlCut(d) == SubSeq(d, 1, IF Len(d) + SlHeader > SlInput THEN SlInput - SlHeader ELSE Len(d))

\* The packets that have been given are those sent first, cut.
SlGiven == \A i \in 1 .. Len(slGot) : slGot[i] = SlCut(slSent[i])

\* pos[p] says where packet p starts: a flag, its length and its data, and zeros
\* up to the next one, or up to the end of what was sent.
SlLaid(pos) ==
  /\ pos \in [Len(slGot) + 1 .. Len(slSent) + 1 -> Nat]
  /\ pos[Len(slSent) + 1] = SlBytes
  /\ \A p, q \in Len(slGot) + 1 .. Len(slSent) + 1 : p <= q => pos[p] <= pos[q]
  /\ \A i \in 0 .. pos[Len(slGot) + 1] - 1 : SlByte(i) = 0
  /\ \A p \in Len(slGot) + 1 .. Len(slSent) :
       /\ pos[p] + SlHeader + Len(slSent[p]) <= pos[p + 1]
       /\ SlByte(pos[p]) = SlFlag
       /\ SlByte(pos[p] + 1) = Len(slSent[p])
       /\ \A i \in 1 .. Len(slSent[p]) : SlByte(pos[p] + 1 + i) = slSent[p][i]
       /\ \A i \in pos[p] + SlHeader + Len(slSent[p]) .. pos[p + 1] - 1 : SlByte(i) = 0

SlInv == SlTypes /\ SlGiven /\ \E pos : SlLaid(pos)

\* Nothing has been sent.
LEMMA SlInitially == SlInit => SlInv
<1> SUFFICES ASSUME SlInit PROVE SlInv
  OBVIOUS
<1> USE SlAssumption
<1>1. /\ slBuf = [i \in 0 .. SlRing - 1 |-> 0] /\ slDma = 0 /\ slIn = 0
      /\ slWire = << >> /\ slUnread = 0 /\ slSent = << >> /\ slGot = << >>
  BY DEF SlInit
<1>2. Len(slWire) = 0 /\ Len(slSent) = 0 /\ Len(slGot) = 0
  BY <1>1
<1>3. SlTypes
  BY <1>1, <1>2 DEF SlTypes, SlSlot
<1>4. SlGiven
  BY <1>2 DEF SlGiven
<1>5. SlLaid([p \in 1 .. 1 |-> 0])
  BY <1>1, <1>2 DEF SlLaid, SlBytes
<1> QED BY <1>3, <1>4, <1>5 DEF SlInv


\* What is laid out concerns the bytes that were sent and nothing else.
LEMMA SlLaidKept ==
  ASSUME SlTypes, NEW pos, SlLaid(pos), UNCHANGED <<slSent, slGot>>,
         SlBytes' = SlBytes, \A i \in 0 .. SlBytes - 1 : SlByte(i)' = SlByte(i)
  PROVE  SlLaid(pos)'
<1> DEFINE g == Len(slGot)
           s == Len(slSent)
           L(p) == Len(slSent[p])
           T == SlBytes
<1>1. /\ g \in Nat /\ s \in Nat /\ g <= s
      /\ \A p \in g + 1 .. s : L(p) \in Nat
      /\ SlHeader = 2 /\ T \in Nat
  BY SMTT(20) DEF SlTypes, SlHeader, SlBytes
<1>2. /\ pos[s + 1] = T
      /\ \A p \in g + 1 .. s + 1 : pos[p] \in Nat /\ pos[p] <= T
      /\ \A p \in g + 1 .. s : pos[p] + 2 + L(p) <= pos[p + 1]
  BY <1>1 DEF SlLaid
<1>3. \A i \in 0 .. pos[g + 1] - 1 : SlByte(i)' = 0
  BY <1>1, <1>2 DEF SlLaid
<1>4. ASSUME NEW p \in g + 1 .. s
      PROVE  /\ SlByte(pos[p])' = SlFlag
             /\ SlByte(pos[p] + 1)' = L(p)
             /\ \A i \in 1 .. L(p) : SlByte(pos[p] + 1 + i)' = slSent[p][i]
             /\ \A i \in pos[p] + 2 + L(p) .. pos[p + 1] - 1 : SlByte(i)' = 0
  <2>1. /\ SlByte(pos[p]) = SlFlag
        /\ SlByte(pos[p] + 1) = L(p)
        /\ \A i \in 1 .. L(p) : SlByte(pos[p] + 1 + i) = slSent[p][i]
        /\ \A i \in pos[p] + 2 + L(p) .. pos[p + 1] - 1 : SlByte(i) = 0
    BY <1>1 DEF SlLaid
  <2>2. /\ pos[p] \in Nat /\ L(p) \in Nat /\ pos[p + 1] \in Nat
        /\ pos[p] + 2 + L(p) <= pos[p + 1] /\ pos[p + 1] <= T
    BY <1>1, <1>2
  <2> HIDE DEF g, s, L, T
  <2>3. \A i \in 0 .. T - 1 : SlByte(i)' = SlByte(i)
    BY DEF T
  <2> QED BY <1>1, <2>1, <2>2, <2>3
<1> QED BY <1>1, <1>3, <1>4 DEF SlLaid

\* A byte moves from the wire to the ring: it stays where it is in the stream.
LEMMA SlDmaKeeps == SlInv /\ DmaByte => SlInv'
<1> SUFFICES ASSUME SlInv, DmaByte PROVE SlInv'
  OBVIOUS
<1> USE SlAssumption
<1>1. PICK pos : SlLaid(pos)
  BY DEF SlInv
<1> DEFINE u == slUnread
           w == slWire
<1>2. /\ w # << >> /\ w' = Tail(w) /\ u' = u + 1
      /\ slBuf' = [slBuf EXCEPT ![slDma] = Head(w)]
      /\ slDma' = (slDma + 1) % SlRing
      /\ UNCHANGED <<slIn, slSent, slGot>>
  BY DEF DmaByte
<1>3. SlTypes
  BY DEF SlInv
<1>4. /\ w' \in Seq(Nat) /\ Len(w) \in Nat \ {0} /\ Len(w') = Len(w) - 1
      /\ \A i \in 1 .. Len(w) - 1 : w'[i] = w[i + 1]
      /\ Head(w) = w[1] /\ w[1] \in Nat
  BY <1>2, <1>3 DEF SlTypes
<1>5. slDma' = IF slDma + 1 < SlRing THEN slDma + 1 ELSE 0
  <2> DEFINE x == slDma + 1
  <2>1. x \in 0 .. 3 * SlRing - 1 /\ x <= SlRing
    BY <1>3 DEF SlTypes, SlSlot
  <2> HIDE DEF x
  <2>2. (x % SlRing) = IF x < SlRing THEN x ELSE IF x < 2 * SlRing THEN x - SlRing ELSE x - 2 * SlRing
    BY <2>1, ModSmall
  <2>3. (x % SlRing) = IF x < SlRing THEN x ELSE 0
    BY <2>1, <2>2
  <2> QED BY <1>2, <2>3 DEF x
<1>6. SlTypes'
  <2>1. /\ u \in Nat /\ slIn \in 0 .. SlRing - 1 /\ u + Len(w) < SlRing /\ slDma \in 0 .. SlRing - 1
        /\ slDma = IF slIn + u < SlRing THEN slIn + u ELSE slIn + u - SlRing
    BY <1>3 DEF SlTypes, SlSlot
  <2>2. u + 1 \in Nat /\ (u + 1) + (Len(w) - 1) < SlRing
    BY <1>4, <2>1
  <2>3. /\ slDma' \in 0 .. SlRing - 1
        /\ slDma' = IF slIn + (u + 1) < SlRing THEN slIn + (u + 1) ELSE slIn + (u + 1) - SlRing
    BY <1>4, <1>5, <2>1
  <2>4. slBuf' \in [SlSlot -> Nat]
    BY <1>2, <1>3, <1>4 DEF SlTypes, SlSlot
  <2>5. u' \in Nat /\ u' + Len(w') < SlRing
    BY <1>2, <1>4, <2>2
  <2>6. slDma' = IF slIn' + u' < SlRing THEN slIn' + u' ELSE slIn' + u' - SlRing
    BY <1>2, <2>3
  <2> QED BY <1>2, <1>3, <1>4, <2>3, <2>4, <2>5, <2>6 DEF SlTypes, SlSlot
<1>7. SlBytes' = SlBytes /\ SlBytes \in Nat
  BY <1>2, <1>3, <1>4 DEF SlBytes, SlTypes
<1>8. ASSUME NEW i \in 0 .. SlBytes - 1 PROVE SlByte(i)' = SlByte(i)
  <2>0. /\ u \in Nat /\ slIn \in 0 .. SlRing - 1 /\ u + Len(w) < SlRing
        /\ slBuf \in [0 .. SlRing - 1 -> Nat] /\ slDma = SlPlace(u)
    BY <1>3 DEF SlTypes, SlSlot, SlPlace
  <2>a. i \in Nat /\ i < u + Len(w)
    BY <1>7 DEF SlBytes
  <2>b. SlPlace(i) \in 0 .. SlRing - 1
    BY <1>4, <2>0, <2>a DEF SlPlace
  <2>c. SlPlace(i)' = SlPlace(i)
    BY <1>2 DEF SlPlace
  <2>1. /\ i \in Nat /\ i < u + Len(w) /\ u \in Nat /\ slIn \in 0 .. SlRing - 1 /\ u + Len(w) < SlRing
        /\ slDma = SlPlace(u) /\ SlPlace(i) \in 0 .. SlRing - 1 /\ SlPlace(i)' = SlPlace(i)
        /\ slBuf \in [0 .. SlRing - 1 -> Nat]
    BY <2>0, <2>a, <2>b, <2>c
  <2>2. CASE i < u
    <3>1. SlPlace(i) # slDma
      BY <2>1, <2>2 DEF SlPlace
    <3> QED BY <1>2, <2>1, <2>2, <3>1 DEF SlByte
  <2>3. CASE i = u
    <3>1. slDma \in 0 .. SlRing - 1
      BY <2>1, <2>3
    <3> QED BY <1>2, <1>4, <2>1, <2>3, <3>1 DEF SlByte
  <2>4. CASE i > u
    BY <1>2, <1>4, <2>1, <2>4 DEF SlByte
  <2> QED BY <2>1, <2>2, <2>3, <2>4
<1>9. SlLaid(pos)'
  BY <1>1, <1>2, <1>3, <1>7, <1>8, SlLaidKept
<1>10. SlGiven'
  BY <1>2 DEF SlInv, SlGiven, SlCut
<1> QED BY <1>6, <1>9, <1>10 DEF SlInv

\* Two sequences one after the other.
LEMMA SlJoined ==
  ASSUME NEW a \in Seq(Nat), NEW b \in Seq(Nat)
  PROVE  /\ a \o b \in Seq(Nat) /\ Len(a \o b) = Len(a) + Len(b)
         /\ \A i \in 1 .. Len(a) : (a \o b)[i] = a[i]
         /\ \A i \in 1 .. Len(b) : (a \o b)[Len(a) + i] = b[i]
OBVIOUS

\* A transaction adds a packet and its zeros at the end of the stream.
LEMMA SlTransactionKeeps ==
  ASSUME SlInv, NEW len \in 0 .. SlData, NEW pad \in 0 .. SlPad, Transaction(len, pad)
  PROVE  SlInv'
<1> USE SlAssumption
<1>0. PICK s, g, u : s = Len(slSent) /\ g = Len(slGot) /\ u = slUnread
  OBVIOUS
<1> DEFINE data == [i \in 1 .. len |-> s + 1]
           zeros == [i \in 1 .. pad |-> 0]
           bytes == <<SlFlag, len>> \o data \o zeros
<1>1. PICK pos : SlLaid(pos)
  BY DEF SlInv
<1>2. SlTypes
  BY DEF SlInv
<1>3. /\ slWire = << >> /\ u + Len(bytes) < SlRing
      /\ slWire' = bytes /\ slSent' = Append(slSent, data)
      /\ UNCHANGED <<slBuf, slDma, slIn, slUnread, slGot>>
  BY <1>0 DEF Transaction
<1>4. len \in Nat /\ pad \in Nat /\ s \in Nat /\ g \in Nat /\ g <= s /\ u \in Nat
  BY <1>0, <1>2 DEF SlTypes
<1>5. /\ data \in Seq(Nat) /\ Len(data) = len /\ \A i \in 1 .. len : data[i] = s + 1
      /\ zeros \in Seq(Nat) /\ Len(zeros) = pad /\ \A i \in 1 .. pad : zeros[i] = 0
  BY <1>4
<1> HIDE DEF data, zeros
<1>6. /\ bytes \in Seq(Nat) /\ Len(bytes) = 2 + len + pad
      /\ bytes[1] = SlFlag /\ bytes[2] = len
      /\ \A i \in 1 .. len : bytes[2 + i] = data[i]
      /\ \A i \in 1 .. pad : bytes[2 + len + i] = 0
  <2>0. PICK head : head = <<SlFlag, len>>
    OBVIOUS
  <2>a. PICK tail : tail = data
    OBVIOUS
  <2>b. PICK pads : pads = zeros
    OBVIOUS
  <2>1. head \in Seq(Nat) /\ Len(head) = 2 /\ head[1] = SlFlag /\ head[2] = len
    BY <1>4, <2>0 DEF SlFlag
  <2>2. PICK front : /\ front = head \o tail
                     /\ front \in Seq(Nat) /\ Len(front) = 2 + len
                     /\ \A i \in 1 .. 2 : front[i] = head[i]
                     /\ \A i \in 1 .. len : front[2 + i] = tail[i]
    <3>1. tail \in Seq(Nat) /\ Len(tail) = len
      BY <1>5, <2>a
    <3>2. /\ head \o tail \in Seq(Nat) /\ Len(head \o tail) = Len(head) + Len(tail)
          /\ \A i \in 1 .. Len(head) : (head \o tail)[i] = head[i]
          /\ \A i \in 1 .. Len(tail) : (head \o tail)[Len(head) + i] = tail[i]
      BY <2>1, <3>1, SlJoined
    <3> DEFINE f == head \o tail
    <3> HIDE DEF f
    <3>3. f \in Seq(Nat) /\ Len(f) = 2 + len
      BY <2>1, <3>1, <3>2 DEF f
    <3>4. \A i \in 1 .. 2 : f[i] = head[i]
      BY <2>1, <3>2 DEF f
    <3>5. \A i \in 1 .. len : f[2 + i] = tail[i]
      BY <2>1, <3>1, <3>2 DEF f
    <3> QED BY <3>3, <3>4, <3>5 DEF f
  <2>3. bytes = front \o pads
    BY <2>0, <2>a, <2>b, <2>2
  <2> HIDE DEF bytes
  <2>4. /\ bytes \in Seq(Nat) /\ Len(bytes) = 2 + len + pad
        /\ \A i \in 1 .. 2 + len : bytes[i] = front[i]
        /\ \A i \in 1 .. pad : bytes[2 + len + i] = pads[i]
    <3>1. pads \in Seq(Nat) /\ Len(pads) = pad
      BY <1>5, <2>b
    <3>2. /\ front \o pads \in Seq(Nat) /\ Len(front \o pads) = Len(front) + Len(pads)
          /\ \A i \in 1 .. Len(front) : (front \o pads)[i] = front[i]
          /\ \A i \in 1 .. Len(pads) : (front \o pads)[Len(front) + i] = pads[i]
      BY <2>2, <3>1, SlJoined
    <3>3. bytes \in Seq(Nat) /\ Len(bytes) = 2 + len + pad
      BY <2>2, <2>3, <3>1, <3>2
    <3>4. \A i \in 1 .. 2 + len : bytes[i] = front[i]
      BY <2>2, <2>3, <3>2
    <3>5. \A i \in 1 .. pad : bytes[2 + len + i] = pads[i]
      BY <2>2, <2>3, <3>1, <3>2
    <3> QED BY <3>3, <3>4, <3>5
  <2>5. bytes[1] = front[1] /\ bytes[2] = front[2] /\ front[1] = head[1] /\ front[2] = head[2]
    <3>1. 1 \in 1 .. 2 + len /\ 2 \in 1 .. 2 + len
      BY <1>4
    <3>2. 1 \in 1 .. 2 /\ 2 \in 1 .. 2
      OBVIOUS
    <3> QED BY <2>2, <2>4, <3>1, <3>2
  <2>6. \A i \in 1 .. len : bytes[2 + i] = front[2 + i]
    <3> SUFFICES ASSUME NEW i \in 1 .. len PROVE bytes[2 + i] = front[2 + i]
      OBVIOUS
    <3>1. 2 + i \in 1 .. 2 + len
      BY <1>4
    <3> QED BY <2>4, <3>1
  <2>7. \A i \in 1 .. len : front[2 + i] = data[i]
    BY <2>2, <2>a
  <2>8. \A i \in 1 .. pad : bytes[2 + len + i] = 0
    BY <1>5, <2>4, <2>b
  <2>9. bytes[1] = SlFlag /\ bytes[2] = len
    BY <2>1, <2>5
  <2> QED BY <2>4, <2>6, <2>7, <2>8, <2>9
<1> HIDE DEF bytes
<1>7. /\ slSent' \in Seq(Seq(Nat)) /\ Len(slSent') = s + 1
      /\ \A p \in 1 .. s : slSent'[p] = slSent[p]
      /\ slSent'[s + 1] = data
  BY <1>0, <1>2, <1>3, <1>5 DEF SlTypes
<1>8. SlTypes'
  <2>1. slUnread' + Len(slWire') < SlRing /\ slUnread' \in Nat /\ slWire' \in Seq(Nat)
    BY <1>0, <1>3, <1>4, <1>6
  <2>2. Len(slGot') <= Len(slSent')
    BY <1>0, <1>3, <1>4, <1>7
  <2> QED BY <1>2, <1>3, <1>7, <2>1, <2>2 DEF SlTypes, SlSlot
<1>9. SlGiven'
  <2>1. \A p \in 1 .. g : slSent'[p] = slSent[p] /\ slGot'[p] = slGot[p] /\ slGot[p] = SlCut(slSent[p])
    BY <1>0, <1>3, <1>4, <1>7 DEF SlInv, SlGiven
  <2> QED BY <1>0, <1>3, <2>1 DEF SlGiven, SlCut
<1>10. SlBytes = u /\ SlBytes' = u + 2 + len + pad
  BY <1>0, <1>3, <1>4, <1>6 DEF SlBytes
<1>11. \A i \in 0 .. u - 1 : SlByte(i)' = SlByte(i)
  BY <1>0, <1>3, <1>4 DEF SlByte, SlPlace
<1>12. \A i \in 0 .. 1 + len + pad : SlByte(u + i)' = bytes[i + 1]
  BY <1>0, <1>3, <1>4, <1>6 DEF SlByte
<1> DEFINE T == u + 2 + len + pad
<1>13. /\ pos \in [g + 1 .. s + 1 -> Nat] /\ pos[s + 1] = u
       /\ \A p, r \in g + 1 .. s + 1 : p <= r => pos[p] <= pos[r]
       /\ \A i \in 0 .. pos[g + 1] - 1 : SlByte(i) = 0
       /\ \A p \in g + 1 .. s :
            /\ pos[p] + 2 + Len(slSent[p]) <= pos[p + 1]
            /\ SlByte(pos[p]) = SlFlag
            /\ SlByte(pos[p] + 1) = Len(slSent[p])
            /\ \A i \in 1 .. Len(slSent[p]) : SlByte(pos[p] + 1 + i) = slSent[p][i]
            /\ \A i \in pos[p] + 2 + Len(slSent[p]) .. pos[p + 1] - 1 : SlByte(i) = 0
  BY <1>0, <1>1, <1>10 DEF SlLaid, SlHeader
<1>14. \A p \in g + 1 .. s + 1 : pos[p] \in Nat /\ pos[p] <= u
  BY <1>4, <1>13
<1>15. PICK q : /\ q \in [g + 1 .. s + 2 -> Nat] /\ q[s + 2] = T /\ q[s + 1] = u
                /\ \A p \in g + 1 .. s + 1 : q[p] = pos[p]
  <2> DEFINE q == [p \in g + 1 .. s + 2 |-> IF p <= s + 1 THEN pos[p] ELSE T]
  <2>1. /\ q \in [g + 1 .. s + 2 -> Nat] /\ q[s + 2] = T /\ q[s + 1] = u
        /\ \A p \in g + 1 .. s + 1 : q[p] = pos[p]
    BY <1>4, <1>13
  <2> QED BY <2>1
<1>16. \A p, r \in g + 1 .. s + 2 : p <= r => q[p] <= q[r]
  <2> SUFFICES ASSUME NEW p \in g + 1 .. s + 2, NEW r \in g + 1 .. s + 2, p <= r PROVE q[p] <= q[r]
    OBVIOUS
  <2>1. CASE r = s + 2 /\ p = s + 2
    BY <1>4, <1>15, <2>1
  <2>2. CASE r = s + 2 /\ p # s + 2
    <3>1. p \in g + 1 .. s + 1
      BY <1>4, <2>2
    <3>2. q[p] = pos[p] /\ pos[p] \in Nat /\ pos[p] <= u /\ q[r] = u + 2 + len + pad
      BY <1>14, <1>15, <2>2, <3>1
    <3> QED BY <1>4, <3>2
  <2>3. CASE r # s + 2
    <3>1. p \in g + 1 .. s + 1 /\ r \in g + 1 .. s + 1
      BY <1>4, <2>3
    <3> QED BY <1>13, <1>15, <3>1
  <2> QED BY <2>1, <2>2, <2>3
<1>17. \A i \in 0 .. q[g + 1] - 1 : SlByte(i)' = 0
  BY <1>4, <1>11, <1>13, <1>14, <1>15
<1>18. ASSUME NEW p \in g + 1 .. s + 1
       PROVE  /\ q[p] + 2 + Len(slSent'[p]) <= q[p + 1]
              /\ SlByte(q[p])' = SlFlag
              /\ SlByte(q[p] + 1)' = Len(slSent'[p])
              /\ \A i \in 1 .. Len(slSent'[p]) : SlByte(q[p] + 1 + i)' = slSent'[p][i]
              /\ \A i \in q[p] + 2 + Len(slSent'[p]) .. q[p + 1] - 1 : SlByte(i)' = 0
  <2>1. CASE p \in g + 1 .. s
    <3>1. /\ slSent'[p] = slSent[p] /\ Len(slSent[p]) \in Nat
          /\ q[p] = pos[p] /\ q[p + 1] = pos[p + 1]
          /\ pos[p] \in Nat /\ pos[p + 1] \in Nat /\ pos[p + 1] <= u
      <4>1. p \in 1 .. s /\ p \in g + 1 .. s + 1 /\ p + 1 \in g + 1 .. s + 1
        BY <1>4, <2>1
      <4>2. Len(slSent[p]) \in Nat
        BY <1>0, <1>2, <4>1, SMTT(20) DEF SlTypes
      <4> QED BY <1>7, <1>14, <1>15, <4>1, <4>2
    <3> DEFINE d == slSent[p]
    <3>2. /\ pos[p] + 2 + Len(d) <= pos[p + 1]
          /\ SlByte(pos[p]) = SlFlag
          /\ SlByte(pos[p] + 1) = Len(d)
          /\ \A i \in 1 .. Len(d) : SlByte(pos[p] + 1 + i) = d[i]
          /\ \A i \in pos[p] + 2 + Len(d) .. pos[p + 1] - 1 : SlByte(i) = 0
      BY <1>13, <2>1
    <3> HIDE DEF d
    <3>3. \A i \in 0 .. u - 1 : SlByte(i)' = SlByte(i)
      BY <1>11
    <3>4. Len(d) \in Nat
      BY <3>1 DEF d
    <3>5. /\ SlByte(pos[p])' = SlFlag
          /\ SlByte(pos[p] + 1)' = Len(d)
          /\ \A i \in 1 .. Len(d) : SlByte(pos[p] + 1 + i)' = d[i]
          /\ \A i \in pos[p] + 2 + Len(d) .. pos[p + 1] - 1 : SlByte(i)' = 0
      <4>0. PICK n, a, b : n = Len(d) /\ a = pos[p] /\ b = pos[p + 1]
        OBVIOUS
      <4>9. n \in Nat /\ a \in Nat /\ b \in Nat /\ a + 2 + n <= b /\ b <= u
        BY <3>1, <3>2, <3>4, <4>0
      <4>1. pos[p] \in 0 .. u - 1 /\ pos[p] + 1 \in 0 .. u - 1
        <5>1. a \in 0 .. u - 1 /\ a + 1 \in 0 .. u - 1
          BY <1>4, <4>9
        <5> QED BY <4>0, <5>1
      <4>2. \A i \in 1 .. n : a + 1 + i \in 0 .. u - 1
        BY <1>4, <4>9
      <4>3. \A i \in pos[p] + 2 + Len(d) .. pos[p + 1] - 1 : i \in 0 .. u - 1
        <5> SUFFICES ASSUME NEW i \in a + 2 + n .. b - 1 PROVE i \in 0 .. u - 1
          BY <4>0
        <5> QED BY <1>4, <4>9
      <4>4. \A i \in 1 .. Len(d) : SlByte(pos[p] + 1 + i)' = d[i]
        BY <3>2, <3>3, <4>0, <4>2
      <4>5. SlByte(pos[p])' = SlFlag /\ SlByte(pos[p] + 1)' = Len(d)
        BY <3>2, <3>3, <4>1
      <4>6. \A i \in pos[p] + 2 + Len(d) .. pos[p + 1] - 1 : SlByte(i)' = 0
        BY <3>2, <3>3, <4>3
      <4> QED BY <4>4, <4>5, <4>6
    <3> QED BY <3>1, <3>2, <3>5 DEF d
  <2>2. CASE p = s + 1
    <3>1. q[p] = u /\ q[p + 1] = T /\ slSent'[p] = data
      BY <1>4, <1>7, <1>15, <2>2
    <3>2. SlByte(u)' = SlFlag /\ SlByte(u + 1)' = len
      <4>1. SlByte(u + 0)' = bytes[0 + 1] /\ SlByte(u + 1)' = bytes[1 + 1]
        BY <1>4, <1>12
      <4> QED BY <1>4, <1>6, <4>1
    <3>3. \A i \in 1 .. len : SlByte(u + 1 + i)' = data[i]
      <4> SUFFICES ASSUME NEW i \in 1 .. len PROVE SlByte(u + 1 + i)' = data[i]
        OBVIOUS
      <4>1. SlByte(u + (i + 1))' = bytes[(i + 1) + 1]
        BY <1>4, <1>12
      <4>2. u + (i + 1) = u + 1 + i /\ (i + 1) + 1 = 2 + i
        BY <1>4
      <4> QED BY <1>6, <4>1, <4>2
    <3>4. \A i \in u + 2 + len .. T - 1 : SlByte(i)' = 0
      <4> SUFFICES ASSUME NEW i \in u + 2 + len .. T - 1 PROVE SlByte(i)' = 0
        OBVIOUS
      <4>1. i - u \in 0 .. 1 + len + pad /\ u + (i - u) = i /\ (i - u) + 1 = 2 + len + (i - u - 1 - len)
            /\ i - u - 1 - len \in 1 .. pad
        BY <1>4
      <4>2. SlByte(u + (i - u))' = bytes[(i - u) + 1]
        BY <1>12, <4>1
      <4> QED BY <1>6, <4>1, <4>2
    <3> QED BY <1>4, <1>5, <3>1, <3>2, <3>3, <3>4
  <2> QED BY <1>4, <2>1, <2>2
<1>19. SlLaid(q)'
  <2>1. Len(slGot') = g /\ Len(slSent') + 1 = s + 2 /\ Len(slSent') = s + 1
    BY <1>0, <1>3, <1>4, <1>7
  <2> QED BY <1>0, <1>10, <1>15, <1>16, <1>17, <1>18, <2>1 DEF SlLaid, SlHeader
<1> QED BY <1>8, <1>9, <1>19 DEF SlInv

\* The slot of a byte, without the remainder.
LEMMA SlPlaceIs ==
  ASSUME SlTypes, NEW i \in 0 .. SlRing - 1
  PROVE  (slIn + i) % SlRing = SlPlace(i) /\ SlPlace(i) \in SlSlot
<1> USE SlAssumption
<1>0. PICK x : x = slIn + i
  OBVIOUS
<1>1. x \in 0 .. 3 * SlRing - 1 /\ x < 2 * SlRing
  BY <1>0 DEF SlTypes, SlSlot
<1>2. (x % SlRing) = IF x < SlRing THEN x ELSE IF x < 2 * SlRing THEN x - SlRing ELSE x - 2 * SlRing
  BY <1>1, ModSmall
<1>3. (x % SlRing) = (IF x < SlRing THEN x ELSE x - SlRing)
  BY <1>1, <1>2
<1>4. (x % SlRing) \in 0 .. SlRing - 1
  BY <1>1, <1>3
<1>5. SlPlace(i) = (IF x < SlRing THEN x ELSE x - SlRing)
  <2>1. SlPlace(i) = (IF slIn + i < SlRing THEN slIn + i ELSE (slIn + i) - SlRing)
    BY DEF SlPlace, SlTypes, SlSlot
  <2> QED BY <1>0, <2>1
<1>6. SlPlace(i) = (x % SlRing)
  BY <1>3, <1>5
<1> QED BY <1>0, <1>4, <1>6 DEF SlSlot

\* The ring holds the bytes that have come and were not taken.
LEMMA SlReceived ==
  ASSUME SlTypes
  PROVE  Received = slUnread /\ \A i \in 0 .. slUnread - 1 : At(i) = SlByte(i)
<1> USE SlAssumption
<1>1. Received = slUnread
  <2> DEFINE x == slDma - slIn + SlRing
  <2>1. /\ x \in 0 .. 3 * SlRing - 1 /\ slUnread \in Nat /\ slUnread < SlRing
        /\ x = slUnread \/ (x = slUnread + SlRing)
    BY DEF SlTypes, SlSlot
  <2>2. Received = x % SlRing
    BY DEF Received
  <2> HIDE DEF x
  <2>3. (x % SlRing) = IF x < SlRing THEN x ELSE IF x < 2 * SlRing THEN x - SlRing ELSE x - 2 * SlRing
    BY <2>1, ModSmall
  <2> QED BY <2>1, <2>2, <2>3
<1>2. ASSUME NEW i \in 0 .. slUnread - 1 PROVE At(i) = SlByte(i)
  <2>1. i \in 0 .. SlRing - 1 /\ i < slUnread
    BY DEF SlTypes
  <2> QED BY <2>1, SlPlaceIs DEF At, SlByte
<1> QED BY <1>1, <1>2

\* Zeros are skipped up to the next packet, or as far as bytes have come.
LEMMA SlSkips ==
  ASSUME SlTypes, NEW pos, SlLaid(pos)
  PROVE  /\ Skipped = IF pos[Len(slGot) + 1] < slUnread THEN pos[Len(slGot) + 1] ELSE slUnread
         /\ pos[Len(slGot) + 1] \in Nat
         /\ pos[Len(slGot) + 1] < slUnread => Len(slGot) < Len(slSent)
<1>0. PICK u, g, s, c : u = slUnread /\ g = Len(slGot) /\ s = Len(slSent) /\ c = pos[g + 1]
  OBVIOUS
<1>1. u \in Nat /\ g \in Nat /\ s \in Nat /\ g <= s /\ SlBytes >= u
  BY <1>0 DEF SlTypes, SlBytes
<1>2. c \in Nat /\ (g = s => c >= u) /\ \A i \in 0 .. c - 1 : SlByte(i) = 0
  BY <1>0, <1>1 DEF SlLaid
<1>3. c < u => g < s /\ SlByte(c) = SlFlag
  BY <1>0, <1>1, <1>2 DEF SlLaid
<1>4. Received = u /\ \A i \in 0 .. u - 1 : At(i) = SlByte(i)
  BY <1>0, SlReceived
<1> DEFINE Stops(k) == /\ \A i \in 0 .. k - 1 : At(i) = 0
                       /\ k < u => At(k) # 0
<1>5. Skipped = CHOOSE k \in 0 .. u : Stops(k)
  BY <1>4 DEF Skipped
<1>6. CASE c >= u
  <2>1. Stops(u)
    BY <1>1, <1>2, <1>4, <1>6
  <2>2. ASSUME NEW k \in 0 .. u, Stops(k) PROVE k = u
    BY <1>1, <1>2, <1>4, <1>6, <2>2
  <2>3. u \in 0 .. u
    BY <1>1
  <2> HIDE DEF Stops
  <2>4. Skipped = u
    BY <1>5, <2>1, <2>2, <2>3
  <2> QED BY <1>0, <1>1, <1>2, <1>6, <2>4
<1>7. CASE c < u
  <2>1. Stops(c)
    BY <1>1, <1>2, <1>3, <1>4, <1>7 DEF SlFlag
  <2>2. ASSUME NEW k \in 0 .. u, Stops(k) PROVE k = c
    <3>1. CASE k < c
      BY <1>1, <1>2, <1>4, <1>7, <2>2, <3>1
    <3>2. CASE k > c
      <4>1. At(c) = 0
        <5>1. c \in 0 .. k - 1
          BY <1>1, <1>2, <3>2
        <5> QED BY <2>2, <5>1
      <4>2. At(c) = SlFlag
        BY <1>1, <1>2, <1>3, <1>4, <1>7
      <4> QED BY <4>1, <4>2 DEF SlFlag
    <3> QED BY <1>1, <1>2, <3>1, <3>2
  <2>3. c \in 0 .. u
    BY <1>1, <1>2, <1>7
  <2> HIDE DEF Stops
  <2>4. Skipped = c
    BY <1>5, <2>1, <2>2, <2>3
  <2> QED BY <1>0, <1>1, <1>2, <1>3, <1>7, <2>4
<1> QED BY <1>1, <1>2, <1>6, <1>7

\* Either nothing but zeros is taken, or the next packet, whole and cut.
LEMMA SlTakes ==
  ASSUME SlTypes, NEW pos, SlLaid(pos), NEW d, d = slSent[Len(slGot) + 1]
  PROVE  \/ /\ ~Complete
            /\ BytesTaken \in 0 .. slUnread /\ BytesTaken <= pos[Len(slGot) + 1]
         \/ /\ Complete /\ Len(slGot) < Len(slSent)
            /\ BytesTaken = pos[Len(slGot) + 1] + SlHeader + Len(d)
            /\ BytesTaken <= slUnread
            /\ Packet = SlCut(d)
<1> USE SlAssumption DEF SlHeader
<1>0. PICK u, g, s, c, k, L : /\ u = slUnread /\ g = Len(slGot) /\ s = Len(slSent) /\ c = pos[g + 1]
                              /\ k = Skipped /\ L = Len(d)
  OBVIOUS
<1>1. /\ u \in Nat /\ g \in Nat /\ s \in Nat /\ g <= s
      /\ c \in Nat /\ k = (IF c < u THEN c ELSE u) /\ (c < u => g < s)
  BY <1>0, SlSkips DEF SlTypes
<1>2. Received = u /\ \A i \in 0 .. u - 1 : At(i) = SlByte(i)
  BY <1>0, SlReceived
<1>3. /\ Complete <=> u - k >= 2 /\ u - k >= At(k + 1) + 2
      /\ BytesTaken = IF u - k < 2 \/ u - k < At(k + 1) + 2 THEN k ELSE k + 2 + At(k + 1)
      /\ Packet = [i \in 1 .. IF At(k + 1) + 2 > SlInput THEN SlInput - 2 ELSE At(k + 1) |-> At(k + 2 + i - 1)]
  BY <1>0, <1>2 DEF Complete, BytesTaken, Packet
<1>4. CASE u - k < 2
  BY <1>0, <1>1, <1>3, <1>4, SMTT(20)
<1>5. CASE u - k >= 2
  <2>1. k = c /\ c + 1 \in 0 .. u - 1 /\ c < u /\ g < s
    BY <1>1, <1>5
  <2>2. /\ L \in Nat /\ SlByte(c + 1) = L /\ d \in Seq(Nat)
        /\ \A i \in 1 .. L : SlByte(c + 1 + i) = d[i]
    <3>1. g + 1 \in g + 1 .. s /\ g + 1 \in 1 .. s
      BY <1>1, <2>1
    <3>2. d \in Seq(Nat) /\ L \in Nat
      BY <1>0, <3>1 DEF SlTypes
    <3>3. SlByte(c + 1) = L /\ \A i \in 1 .. L : SlByte(c + 1 + i) = d[i]
      BY <1>0, <3>1 DEF SlLaid
    <3> QED BY <3>2, <3>3
  <2>3. At(k + 1) = L
    BY <1>2, <2>1, <2>2
  <2>4. CASE u - k < L + 2
    <3>1. BytesTaken = k
      BY <1>3, <2>3, <2>4
    <3>2. ~Complete
      BY <1>1, <1>3, <2>1, <2>2, <2>3, <2>4
    <3> QED BY <1>0, <1>1, <2>1, <3>1, <3>2, SMTT(20)
  <2>5. CASE u - k >= L + 2
    <3>1. Complete /\ BytesTaken = c + 2 + L /\ c + 2 + L <= u
      BY <1>1, <1>3, <1>5, <2>1, <2>2, <2>3, <2>5
    <3>2. PICK e : e = IF L + 2 > SlInput THEN SlInput - 2 ELSE L
      OBVIOUS
    <3>3. e \in 0 .. L
      BY <2>2, <3>2
    <3>4. Packet = [i \in 1 .. e |-> At(c + 2 + i - 1)]
      BY <1>3, <2>1, <2>3, <3>2
    <3>5. \A i \in 1 .. e : At(c + 2 + i - 1) = d[i]
      <4> SUFFICES ASSUME NEW i \in 1 .. e PROVE At(c + 2 + i - 1) = d[i]
        OBVIOUS
      <4>1. c + 2 + i - 1 = c + 1 + i /\ c + 1 + i \in 0 .. u - 1 /\ i \in 1 .. L
        BY <1>1, <2>2, <3>1, <3>3
      <4> QED BY <1>2, <2>2, <4>1
    <3>6. SlCut(d) = [i \in 1 .. e |-> d[i]]
      <4>1. SlCut(d) = SubSeq(d, 1, e)
        BY <1>0, <3>2 DEF SlCut
      <4>2. SubSeq(d, 1, e) = [i \in 1 .. e |-> d[i]]
        BY <1>0, <2>2, <3>3
      <4> QED BY <4>1, <4>2
    <3>7. Packet = SlCut(d)
      BY <3>4, <3>5, <3>6
    <3> QED BY <1>0, <2>1, <3>1, <3>7
  <2> QED BY <1>1, <1>5, <2>1, <2>2, <2>4, <2>5
<1> QED BY <1>1, <1>4, <1>5

\* The main loop takes zeros, or one packet, off the front of the stream.
LEMMA SlProcessKeeps == SlInv /\ K32WSpiSlaveProcess => SlInv'
<1> SUFFICES ASSUME SlInv, K32WSpiSlaveProcess PROVE SlInv'
  OBVIOUS
<1> USE SlAssumption
<1>1. PICK pos : SlLaid(pos)
  BY DEF SlInv
<1>2. SlTypes
  BY DEF SlInv
<1>3. UNCHANGED <<slBuf, slDma, slWire, slSent>>
  BY DEF K32WSpiSlaveProcess
<1>4. CASE InProgress
  <2>1. UNCHANGED <<slIn, slUnread, slGot>>
    BY <1>4 DEF K32WSpiSlaveProcess
  <2>2. SlTypes' /\ SlGiven' /\ SlBytes' = SlBytes
    BY <1>2, <1>3, <2>1 DEF SlInv, SlTypes, SlGiven, SlCut, SlBytes
  <2>3. \A i \in 0 .. SlBytes - 1 : SlByte(i)' = SlByte(i)
    BY <1>3, <2>1 DEF SlByte, SlPlace
  <2> QED BY <1>1, <1>2, <1>3, <2>1, <2>2, <2>3, SlLaidKept DEF SlInv
<1>5. CASE ~InProgress
  <2>0. PICK u, g, s, t, T : u = slUnread /\ g = Len(slGot) /\ s = Len(slSent) /\ t = BytesTaken /\ T = SlBytes
    OBVIOUS
  <2>1. /\ u \in Nat /\ g \in Nat /\ s \in Nat /\ g <= s /\ T \in Nat /\ u <= T /\ T < SlRing
        /\ T = u + Len(slWire) /\ Len(slWire) \in Nat
    BY <1>2, <2>0 DEF SlTypes, SlBytes
  <2>2. /\ slIn' = (slIn + t) % SlRing /\ slUnread' = u - t
        /\ IF Complete THEN slGot' = Append(slGot, Packet) ELSE slGot' = slGot
    BY <1>5, <2>0 DEF K32WSpiSlaveProcess
  <2>3. /\ pos \in [g + 1 .. s + 1 -> Nat] /\ pos[s + 1] = T
        /\ \A p, r \in g + 1 .. s + 1 : p <= r => pos[p] <= pos[r]
        /\ \A i \in 0 .. pos[g + 1] - 1 : SlByte(i) = 0
        /\ \A p \in g + 1 .. s :
             /\ pos[p] + 2 + Len(slSent[p]) <= pos[p + 1]
             /\ SlByte(pos[p]) = SlFlag
             /\ SlByte(pos[p] + 1) = Len(slSent[p])
             /\ \A i \in 1 .. Len(slSent[p]) : SlByte(pos[p] + 1 + i) = slSent[p][i]
             /\ \A i \in pos[p] + 2 + Len(slSent[p]) .. pos[p + 1] - 1 : SlByte(i) = 0
    BY <1>1, <2>0 DEF SlLaid, SlHeader
  <2>4. PICK h : /\ h \in g .. s /\ Len(slGot') = h /\ slGot' \in Seq(Seq(Nat))
                 /\ t \in 0 .. u /\ t <= pos[h + 1]
                 /\ \A i \in t .. pos[h + 1] - 1 : SlByte(i) = 0
                 /\ \A i \in 1 .. h : slGot'[i] = SlCut(slSent[i])
    <3>0. PICK d : d = slSent[g + 1]
      OBVIOUS
    <3>1. \A i \in 1 .. g : slGot[i] = SlCut(slSent[i])
      BY <2>0 DEF SlInv, SlGiven
    <3>2. slGot \in Seq(Seq(Nat)) /\ slSent \in Seq(Seq(Nat))
      BY <1>2 DEF SlTypes
    <3>3. pos[g + 1] \in Nat
      BY <2>1, <2>3
    <3>4. CASE ~Complete
      <4>1. t \in 0 .. u /\ t <= pos[g + 1]
        BY <1>1, <1>2, <2>0, <3>0, <3>4, SlTakes
      <4>2. slGot' = slGot
        BY <2>2, <3>4
      <4>3. \A i \in t .. pos[g + 1] - 1 : SlByte(i) = 0
        BY <2>1, <2>3, <3>3, <4>1
      <4>4. g \in g .. s /\ Len(slGot') = g /\ slGot' \in Seq(Seq(Nat)) /\ \A i \in 1 .. g : slGot'[i] = SlCut(slSent[i])
        BY <2>0, <2>1, <3>1, <3>2, <4>2
      <4> QED BY <4>1, <4>3, <4>4
    <3>5. CASE Complete
      <4>1. g < s /\ t = pos[g + 1] + 2 + Len(d) /\ t <= u /\ Packet = SlCut(d)
        BY <1>1, <1>2, <2>0, <3>0, <3>5, SlTakes DEF SlHeader
      <4>2. d \in Seq(Nat) /\ Len(d) \in Nat
        BY <2>0, <2>1, <3>0, <3>2, <4>1
      <4>3. SlCut(d) \in Seq(Nat)
        BY <4>2 DEF SlCut, SlHeader
      <4>4. slGot' = Append(slGot, SlCut(d))
        BY <2>2, <3>5, <4>1
      <4>5. /\ slGot' \in Seq(Seq(Nat)) /\ Len(slGot') = g + 1
            /\ (\A i \in 1 .. g : slGot'[i] = slGot[i]) /\ slGot'[g + 1] = SlCut(d)
        BY <2>0, <3>2, <4>3, <4>4
      <4>6. g + 1 \in g + 1 .. s /\ g + 1 \in g .. s
        BY <2>1, <4>1
      <4>7. t <= pos[(g + 1) + 1] /\ \A i \in t .. pos[(g + 1) + 1] - 1 : SlByte(i) = 0
        BY <2>3, <3>0, <4>1, <4>6
      <4>8. t \in 0 .. u
        BY <2>1, <3>3, <4>1, <4>2
      <4>9. \A i \in 1 .. g + 1 : slGot'[i] = SlCut(slSent[i])
        <5> SUFFICES ASSUME NEW i \in 1 .. g + 1 PROVE slGot'[i] = SlCut(slSent[i])
          OBVIOUS
        <5>1. i \in 1 .. g \/ i = g + 1
          BY <2>1
        <5> QED BY <3>0, <3>1, <4>5, <5>1
      <4> QED BY <4>5, <4>6, <4>7, <4>8, <4>9
    <3> QED BY <3>4, <3>5
  <2>5. slIn' = SlPlace(t) /\ SlPlace(t) \in SlSlot
    <3>1. t \in 0 .. SlRing - 1
      BY <2>1, <2>4
    <3> QED BY <1>2, <2>2, <3>1, SlPlaceIs
  <2>6. SlTypes'
    <3>1. slIn \in 0 .. SlRing - 1 /\ slDma = IF slIn + u < SlRing THEN slIn + u ELSE slIn + u - SlRing
      BY <1>2, <2>0 DEF SlTypes, SlSlot
    <3>2. PICK a : a = slIn'
      OBVIOUS
    <3>3. a = IF slIn + t < SlRing THEN slIn + t ELSE slIn + t - SlRing
      BY <2>5, <3>2 DEF SlPlace
    <3>4. slDma = IF a + (u - t) < SlRing THEN a + (u - t) ELSE a + (u - t) - SlRing
      BY <2>1, <2>4, <3>1, <3>3
    <3>5. u - t \in Nat /\ (u - t) + Len(slWire) < SlRing
      BY <2>1, <2>4
    <3>6. slUnread' \in Nat /\ slUnread' + Len(slWire') < SlRing
      BY <1>3, <2>2, <3>5
    <3>7. slDma' = IF slIn' + slUnread' < SlRing THEN slIn' + slUnread' ELSE slIn' + slUnread' - SlRing
      BY <1>3, <2>2, <3>2, <3>4
    <3>8. Len(slGot') <= Len(slSent')
      BY <1>3, <2>0, <2>1, <2>4
    <3> QED BY <1>2, <1>3, <2>4, <2>5, <3>6, <3>7, <3>8 DEF SlTypes, SlSlot
  <2>7. SlBytes' = T - t
    BY <1>3, <2>1, <2>2, <2>4 DEF SlBytes
  <2>8. \A i \in 0 .. T - t - 1 : SlByte(i)' = SlByte(i + t)
    <3> SUFFICES ASSUME NEW i \in 0 .. T - t - 1 PROVE SlByte(i)' = SlByte(i + t)
      OBVIOUS
    <3>1. CASE i < u - t
      <4>1. i + t < u
        BY <2>1, <2>4, <3>1
      <4>2. SlPlace(i)' = SlPlace(i + t)
        <5>1. slIn \in 0 .. SlRing - 1
          BY <1>2 DEF SlTypes, SlSlot
        <5>2. PICK a : a = slIn'
          OBVIOUS
        <5>3. a = IF slIn + t < SlRing THEN slIn + t ELSE slIn + t - SlRing
          BY <2>5, <5>2 DEF SlPlace
        <5>4. (IF a + i < SlRing THEN a + i ELSE a + i - SlRing) = (IF slIn + (i + t) < SlRing THEN slIn + (i + t) ELSE slIn + (i + t) - SlRing)
          BY <2>1, <2>4, <3>1, <5>1, <5>3
        <5> QED BY <5>2, <5>4 DEF SlPlace
      <4> QED BY <1>3, <2>0, <2>2, <3>1, <4>1, <4>2 DEF SlByte
    <3>2. CASE i >= u - t
      <4>1. ~(i + t < u) /\ i - (u - t) + 1 = i + t - u + 1 /\ ~(i < u - t)
        BY <2>1, <2>4, <3>2
      <4>2. SlByte(i)' = slWire[i - (u - t) + 1]
        BY <1>3, <2>2, <4>1 DEF SlByte
      <4>3. SlByte(i + t) = slWire[(i + t) - u + 1]
        BY <2>0, <4>1 DEF SlByte
      <4>4. (i + t) - u + 1 = i - (u - t) + 1
        BY <2>1, <2>4
      <4> QED BY <4>2, <4>3, <4>4
    <3> QED BY <2>1, <2>4, <3>1, <3>2
  <2>9. \A p \in h + 1 .. s + 1 : pos[p] \in Nat /\ pos[p] - t \in Nat /\ pos[p] <= T
    <3> SUFFICES ASSUME NEW p \in h + 1 .. s + 1 PROVE pos[p] \in Nat /\ pos[p] - t \in Nat /\ pos[p] <= T
      OBVIOUS
    <3>1. /\ p \in g + 1 .. s + 1 /\ h + 1 \in g + 1 .. s + 1 /\ s + 1 \in g + 1 .. s + 1
          /\ h + 1 <= p /\ p <= s + 1
      BY <2>1, <2>4
    <3>2. pos[h + 1] <= pos[p] /\ pos[p] <= pos[s + 1] /\ pos[h + 1] \in Nat /\ pos[p] \in Nat
      BY <2>3, <3>1
    <3>3. pos[p] <= T /\ t <= pos[p] /\ t \in Nat
      <4>1. t \in Nat /\ t <= pos[h + 1] /\ pos[s + 1] = T
        BY <2>1, <2>3, <2>4
      <4>2. PICK a, b : a = pos[h + 1] /\ b = pos[p]
        OBVIOUS
      <4>3. a \in Nat /\ b \in Nat /\ a <= b /\ b <= T /\ t <= a /\ t \in Nat
        BY <3>2, <4>1, <4>2
      <4>4. t <= b
        BY <4>3
      <4> QED BY <4>1, <4>2, <4>3, <4>4
    <3> QED BY <3>2, <3>3
  <2>10. PICK q : q \in [h + 1 .. s + 1 -> Nat] /\ \A p \in h + 1 .. s + 1 : q[p] = pos[p] - t
    <3> DEFINE q == [p \in h + 1 .. s + 1 |-> pos[p] - t]
    <3>1. q \in [h + 1 .. s + 1 -> Nat] /\ \A p \in h + 1 .. s + 1 : q[p] = pos[p] - t
      BY <2>9
    <3> QED BY <3>1
  <2>11. q[s + 1] = T - t
    BY <2>1, <2>3, <2>4, <2>10
  <2>12. \A p, r \in h + 1 .. s + 1 : p <= r => q[p] <= q[r]
    <3> SUFFICES ASSUME NEW p \in h + 1 .. s + 1, NEW r \in h + 1 .. s + 1, p <= r PROVE q[p] <= q[r]
      OBVIOUS
    <3>1. p \in g + 1 .. s + 1 /\ r \in g + 1 .. s + 1
      BY <2>1, <2>4
    <3>2. pos[p] <= pos[r]
      BY <2>3, <3>1
    <3> QED BY <2>4, <2>9, <2>10, <3>2
  <2>13. \A i \in 0 .. q[h + 1] - 1 : SlByte(i)' = 0
    <3> SUFFICES ASSUME NEW i \in 0 .. q[h + 1] - 1 PROVE SlByte(i)' = 0
      OBVIOUS
    <3>1. h + 1 \in h + 1 .. s + 1 /\ q[h + 1] = pos[h + 1] - t /\ pos[h + 1] \in Nat /\ pos[h + 1] <= T
      BY <2>1, <2>4, <2>9, <2>10
    <3>2. i \in 0 .. T - t - 1 /\ i + t \in t .. pos[h + 1] - 1
      BY <2>1, <2>4, <3>1
    <3> QED BY <2>4, <2>8, <3>2
  <2>14. ASSUME NEW p \in h + 1 .. s
         PROVE  /\ q[p] + 2 + Len(slSent[p]) <= q[p + 1]
                /\ SlByte(q[p])' = SlFlag
                /\ SlByte(q[p] + 1)' = Len(slSent[p])
                /\ \A i \in 1 .. Len(slSent[p]) : SlByte(q[p] + 1 + i)' = slSent[p][i]
                /\ \A i \in q[p] + 2 + Len(slSent[p]) .. q[p + 1] - 1 : SlByte(i)' = 0
    <3>0. PICK d, n, a, b : d = slSent[p] /\ n = Len(d) /\ a = pos[p] /\ b = pos[p + 1]
      OBVIOUS
    <3>1. p \in g + 1 .. s /\ p \in h + 1 .. s + 1 /\ p + 1 \in h + 1 .. s + 1 /\ p \in 1 .. s
      BY <2>1, <2>4
    <3>2. /\ a + 2 + n <= b /\ SlByte(a) = SlFlag /\ SlByte(a + 1) = n
          /\ \A i \in 1 .. n : SlByte(a + 1 + i) = d[i]
          /\ \A i \in a + 2 + n .. b - 1 : SlByte(i) = 0
      BY <2>3, <3>0, <3>1
    <3>3. n \in Nat
      BY <1>2, <2>0, <3>0, <3>1 DEF SlTypes
    <3>4. a \in Nat /\ b \in Nat /\ a - t \in Nat /\ b <= T /\ q[p] = a - t /\ q[p + 1] = b - t
      BY <2>9, <2>10, <3>0, <3>1
    <3>5. SlByte(a - t)' = SlFlag /\ SlByte(a - t + 1)' = n
      <4>1. a - t \in 0 .. T - t - 1 /\ a - t + 1 \in 0 .. T - t - 1 /\ (a - t) + t = a /\ (a - t + 1) + t = a + 1
        BY <2>1, <2>4, <3>2, <3>3, <3>4, SMTT(20)
      <4>2. SlByte(a - t)' = SlByte((a - t) + t) /\ SlByte(a - t + 1)' = SlByte((a - t + 1) + t)
        BY <2>8, <4>1
      <4> QED BY <3>2, <4>1, <4>2
    <3>6. ASSUME NEW i \in 1 .. n PROVE SlByte(a - t + 1 + i)' = d[i]
      <4>1. a - t + 1 + i \in 0 .. T - t - 1 /\ (a - t + 1 + i) + t = a + 1 + i
        BY <2>1, <2>4, <3>2, <3>3, <3>4, SMTT(20)
      <4>2. SlByte(a - t + 1 + i)' = SlByte((a - t + 1 + i) + t)
        BY <2>8, <4>1
      <4> QED BY <3>2, <4>1, <4>2
    <3>7. ASSUME NEW i \in a - t + 2 + n .. b - t - 1 PROVE SlByte(i)' = 0
      <4>1. i \in 0 .. T - t - 1 /\ i + t \in a + 2 + n .. b - 1
        BY <2>1, <2>4, <3>2, <3>3, <3>4, SMTT(20)
      <4> QED BY <2>8, <3>2, <4>1
    <3>8. q[p] + 2 + n <= q[p + 1]
      BY <2>4, <3>2, <3>3, <3>4
    <3> QED BY <3>0, <3>4, <3>5, <3>6, <3>7, <3>8
  <2>15. SlLaid(q)'
    <3>1. Len(slGot') = h /\ Len(slSent') = s /\ slSent' = slSent
      BY <1>3, <2>0, <2>4
    <3>2. q[Len(slSent') + 1] = SlBytes'
      BY <2>7, <2>11, <3>1
    <3> QED BY <2>10, <2>12, <2>13, <2>14, <3>1, <3>2 DEF SlLaid, SlHeader
  <2>16. SlGiven'
    BY <1>3, <2>4 DEF SlGiven, SlCut
  <2> QED BY <2>6, <2>15, <2>16 DEF SlInv
<1> QED BY <1>4, <1>5

\* Every step of the SPI slave keeps the packets where they are.
LEMMA SlStep == SlInv /\ [SlNext]_slVars => SlInv'
<1> SUFFICES ASSUME SlInv, [SlNext]_slVars PROVE SlInv'
  OBVIOUS
<1>1. ASSUME UNCHANGED <<slBuf, slDma, slIn, slWire, slUnread, slSent, slGot>> PROVE SlInv'
  <2>1. PICK pos : SlLaid(pos)
    BY DEF SlInv
  <2>2. SlTypes' /\ SlGiven' /\ SlBytes' = SlBytes
    BY <1>1 DEF SlInv, SlTypes, SlGiven, SlCut, SlBytes
  <2>3. \A i \in 0 .. SlBytes - 1 : SlByte(i)' = SlByte(i)
    BY <1>1 DEF SlByte, SlPlace
  <2>4. SlTypes
    BY DEF SlInv
  <2> QED BY <1>1, <2>1, <2>2, <2>3, <2>4, SlLaidKept DEF SlInv
<1>2. ASSUME NEW request \in BOOLEAN, otPlatSpiSlavePrepareTransaction(request) PROVE SlInv'
  BY <1>1, <1>2 DEF otPlatSpiSlavePrepareTransaction
<1>3. CASE UNCHANGED slVars
  BY <1>1, <1>3 DEF slVars
<1> QED BY <1>2, <1>3, SlDmaKeeps, SlProcessKeeps, SlTransactionKeeps DEF SlNext

\* What was given is what was sent first, cut.
LEMMA SlInvSound == SlInv => SlInOrder
<1> SUFFICES ASSUME SlInv PROVE SlInOrder
  OBVIOUS
<1> DEFINE all == [i \in DOMAIN slSent |-> SlCut(slSent[i])]
           g == Len(slGot)
<1>1. /\ slSent \in Seq(Seq(Nat)) /\ slGot \in Seq(Seq(Nat)) /\ g \in Nat
      /\ Len(slSent) \in Nat /\ g <= Len(slSent)
  BY DEF SlInv, SlTypes
<1>2. all = [i \in 1 .. Len(slSent) |-> SlCut(slSent[i])]
  BY <1>1
<1>3. Len(all) = Len(slSent)
  BY <1>1, <1>2
<1>4. SubSeq(slGot, 1, g) = [i \in 1 .. g |-> slGot[i]]
  BY <1>1
<1>5. SubSeq(all, 1, g) = [i \in 1 .. g |-> all[i]]
  BY <1>1, <1>2, <1>3
<1>6. \A i \in 1 .. g : slGot[i] = all[i]
  BY <1>1, <1>2 DEF SlInv, SlGiven
<1>7. IsPrefix(slGot, all)
  BY <1>1, <1>3, <1>4, <1>5, <1>6 DEF IsPrefix
<1> QED BY <1>7 DEF SlInOrder, SlCut

-----------------------------------------------------------------------------
(* VendorHook: the response the host waits for.                            *)

HookFrame == [kind : {"notFound", "received", "hci", "response"}, tid : Nat, size : {Small, Large}]

HookTypes ==
  /\ mTxFrameBuffer \in Seq(HookFrame)
  /\ mCurTransmitTID \in Nat /\ radioBusy \in BOOLEAN /\ hostTID \in Nat
  /\ fromHost \in [kind : {"none", "transmit", "bleOff", "hciPacket", "damaged"}, tid : Nat]
  /\ produced \in Nat

IsResponse(i) == mTxFrameBuffer[i].kind = "response"

\* A transmission is asked for, under way or answered, in exactly one of these
\* places while the host waits, and nowhere otherwise.
HookPlaces ==
  /\ radioBusy <=> mCurTransmitTID # 0
  /\ fromHost.kind = "transmit" => hostTID # 0 /\ fromHost.tid = hostTID /\ ~radioBusy
  /\ radioBusy => hostTID # 0 /\ mCurTransmitTID = hostTID
  /\ \A i \in DOMAIN mTxFrameBuffer : IsResponse(i) =>
       /\ hostTID # 0 /\ mTxFrameBuffer[i].tid = hostTID
       /\ fromHost.kind # "transmit" /\ ~radioBusy
  /\ \A i, j \in DOMAIN mTxFrameBuffer : IsResponse(i) /\ IsResponse(j) => i = j
  /\ hostTID # 0 =>
       fromHost.kind = "transmit" \/ radioBusy \/ \E i \in DOMAIN mTxFrameBuffer : IsResponse(i)

HookInv == HookTypes /\ HookPlaces

\* An empty buffer has all its room.
LEMMA UsedEmpty == Used(<< >>) = 0
<1> DEFINE D == DOMAIN << >>
           It(f) == [s \in SUBSET D |->
                       IF s = {} THEN 0 ELSE f[s \ {CHOOSE x \in s : TRUE}] + << >>[CHOOSE x \in s : TRUE].size]
<1>1. D = {}
  OBVIOUS
<1>2. \E f : f = It(f)
  <2> DEFINE f == [s \in SUBSET D |-> 0]
  <2>1. SUBSET D = {{}}
    BY <1>1
  <2>2. f = It(f)
    BY <2>1
  <2> QED BY <2>2
<1>3. Used(<< >>) = (CHOOSE f : f = It(f))[D]
  BY DEF Used, FoldSeq, FoldFunction, FoldFunctionOnSet, MapThenFoldSet
<1> DEFINE g == CHOOSE f : f = It(f)
<1>4. g = It(g)
  BY <1>2
<1> HIDE DEF g
<1>5. g[D] = 0
  BY <1>4, <1>1
<1> QED BY <1>3, <1>5 DEF g

\* Frames are taken out until the response fits: at most all of them.
LEMMA EvictedInRange ==
  ASSUME HookTypes, NEW size \in {Small, Large}
  PROVE  Evicted(size) \in 0 .. Len(mTxFrameBuffer)
<1> DEFINE Rest(n) == SubSeq(mTxFrameBuffer, n + 1, Len(mTxFrameBuffer))
           N == {n \in 0 .. Len(mTxFrameBuffer) : Fits(Rest(n), size)}
<1>1. Len(mTxFrameBuffer) \in Nat /\ mTxFrameBuffer \in Seq(HookFrame)
  BY DEF HookTypes
<1>2. Len(mTxFrameBuffer) \in N
  <2>1. Rest(Len(mTxFrameBuffer)) = << >>
    BY <1>1
  <2>2. Fits(<< >>, size)
    BY UsedEmpty, VendorHookAssumption DEF Fits, Small, Large
  <2>3. Fits(Rest(Len(mTxFrameBuffer)), size)
    BY <2>1, <2>2
  <2> HIDE DEF Rest
  <2>4. Len(mTxFrameBuffer) \in 0 .. Len(mTxFrameBuffer)
    BY <1>1
  <2> QED BY <2>3, <2>4
<1>3. PICK n \in N : \A k \in N : n <= k
  <2>1. N \subseteq Nat /\ N # {}
    BY <1>1, <1>2
  <2> HIDE DEF N
  <2> QED BY <2>1, LeastNatural
<1>4. /\ n \in 0 .. Len(mTxFrameBuffer) /\ Fits(Rest(n), size)
      /\ \A k \in 0 .. n - 1 : ~Fits(Rest(k), size)
  <2>1. ASSUME NEW k \in 0 .. n - 1, Fits(Rest(k), size) PROVE FALSE
    <3>1. k \in N
      BY <1>1, <2>1
    <3> QED BY <1>1, <1>3, <3>1
  <2> QED BY <2>1
<1> HIDE DEF Rest
<1>5. Evicted(size) = CHOOSE k \in 0 .. Len(mTxFrameBuffer) :
                        Fits(Rest(k), size) /\ \A j \in 0 .. k - 1 : ~Fits(Rest(j), size)
  BY DEF Evicted, Rest
<1> QED BY <1>4, <1>5

\* Nobody waits.
LEMMA HookInitially == HookInit => HookInv
<1> SUFFICES ASSUME HookInit PROVE HookInv
  OBVIOUS
<1>1. /\ mTxFrameBuffer = << >> /\ mCurTransmitTID = 0 /\ radioBusy = FALSE
      /\ hostTID = 0 /\ fromHost = NoHostFrame /\ produced = 0
  BY DEF HookInit
<1>2. mTxFrameBuffer \in Seq(HookFrame) /\ DOMAIN mTxFrameBuffer = {}
  BY <1>1
<1>3. fromHost \in [kind : {"none", "transmit", "bleOff", "hciPacket", "damaged"}, tid : Nat]
  BY <1>1 DEF NoHostFrame
<1>4. HookTypes
  BY <1>1, <1>2, <1>3 DEF HookTypes
<1>5. fromHost.kind = "none"
  BY <1>1 DEF NoHostFrame
<1>6. HookPlaces
  BY <1>1, <1>2, <1>5 DEF HookPlaces
<1> QED BY <1>4, <1>6 DEF HookInv

\* A frame that is not a response joins the buffer, or is dropped.
LEMMA EncodedKeeps ==
  ASSUME HookTypes, NEW f \in HookFrame, f.kind # "response", Encoded(f)
  PROVE  /\ mTxFrameBuffer' \in Seq(HookFrame)
         /\ DOMAIN mTxFrameBuffer \subseteq DOMAIN mTxFrameBuffer'
         /\ \A i \in DOMAIN mTxFrameBuffer : mTxFrameBuffer'[i] = mTxFrameBuffer[i]
         /\ \A i \in DOMAIN mTxFrameBuffer' : IsResponse(i)' => i \in DOMAIN mTxFrameBuffer
<1>1. mTxFrameBuffer \in Seq(HookFrame)
  BY DEF HookTypes
<1>2. CASE mTxFrameBuffer' = mTxFrameBuffer
  BY <1>1, <1>2
<1>3. CASE mTxFrameBuffer' = Append(mTxFrameBuffer, f)
  <2>1. /\ mTxFrameBuffer' \in Seq(HookFrame) /\ Len(mTxFrameBuffer) \in Nat
        /\ Len(mTxFrameBuffer') = Len(mTxFrameBuffer) + 1
        /\ \A i \in 1 .. Len(mTxFrameBuffer) : mTxFrameBuffer'[i] = mTxFrameBuffer[i]
        /\ mTxFrameBuffer'[Len(mTxFrameBuffer) + 1] = f
    BY <1>1, <1>3
  <2>2. DOMAIN mTxFrameBuffer = 1 .. Len(mTxFrameBuffer) /\ DOMAIN mTxFrameBuffer' = 1 .. Len(mTxFrameBuffer')
    BY <1>1, <2>1
  <2> QED BY <2>1, <2>2 DEF IsResponse
<1> QED BY <1>2, <1>3 DEF Encoded

\* Such a frame leaves the transmission where it is.
LEMMA PlacesKept ==
  ASSUME HookInv, NEW f \in HookFrame, f.kind # "response", Encoded(f),
         UNCHANGED <<mCurTransmitTID, radioBusy, hostTID>>,
         fromHost' = fromHost \/ (fromHost.kind # "transmit" /\ fromHost'.kind # "transmit")
  PROVE  HookPlaces'
<1> USE DEF HookInv
<1> DEFINE B == mTxFrameBuffer
<1>1. /\ DOMAIN B \subseteq DOMAIN B' /\ \A i \in DOMAIN B : B'[i] = B[i]
      /\ \A i \in DOMAIN B' : IsResponse(i)' => i \in DOMAIN B
  BY EncodedKeeps
<1>2. \A i \in DOMAIN B' : IsResponse(i)' <=> i \in DOMAIN B /\ IsResponse(i)
  BY <1>1 DEF IsResponse
<1> HIDE DEF B
<1>3. \A i \in DOMAIN B' : IsResponse(i)' => B'[i].tid = hostTID /\ fromHost.kind # "transmit" /\ ~radioBusy /\ hostTID # 0
  BY <1>1, <1>2 DEF HookPlaces, B
<1>4. \A i, j \in DOMAIN B' : IsResponse(i)' /\ IsResponse(j)' => i = j
  BY <1>2 DEF HookPlaces, B
<1>5. (\E i \in DOMAIN B : IsResponse(i)) => \E i \in DOMAIN B' : IsResponse(i)'
  BY <1>1, <1>2
<1> QED BY <1>3, <1>4, <1>5 DEF HookPlaces, B

\* Every step of the hook keeps the transmission in exactly one place.
LEMMA HookStep == HookInv /\ [HookNext]_hookVars => HookInv'
<1> SUFFICES ASSUME HookInv, [HookNext]_hookVars PROVE HookInv'
  OBVIOUS
<1> USE DEF HookInv
<1>0. Tid \in Nat /\ Tid # 0
  <2>1. produced % 3 \in 0 .. 2
    BY DEF HookTypes
  <2> QED BY <2>1 DEF Tid
<1>1. ASSUME NEW kind \in {"transmit", "bleOff", "hciPacket"}, HostSends(kind) PROVE HookInv'
  <2>1. fromHost'.kind \in {kind, "damaged"} /\ fromHost'.tid = Tid /\ fromHost.kind = "none"
    BY <1>1 DEF HostSends, NoHostFrame
  <2>2. HookTypes'
    BY <1>0, <1>1 DEF HookTypes, HostSends, Produces
  <2>3. CASE fromHost'.kind = "transmit"
    <3>1. kind = "transmit" /\ hostTID = 0 /\ hostTID' = Tid
      BY <1>1, <2>1, <2>3 DEF HostSends
    <3> QED BY <1>0, <1>1, <2>1, <2>2, <2>3, <3>1 DEF HostSends, HookPlaces, IsResponse
  <2>4. CASE fromHost'.kind # "transmit"
    <3>1. hostTID' = hostTID
      BY <1>1, <2>1, <2>4 DEF HostSends
    <3> QED BY <1>1, <2>1, <2>2, <2>4, <3>1 DEF HostSends, HookPlaces, IsResponse
  <2> QED BY <2>3, <2>4
<1>2. CASE HandleFrameHook
  <2>1. fromHost' = NoHostFrame /\ UNCHANGED <<hostTID, produced>>
    BY <1>2 DEF HandleFrameHook
  <2>2. CASE fromHost.kind = "transmit"
    <3>1. mCurTransmitTID' = fromHost.tid /\ radioBusy' = TRUE /\ UNCHANGED mTxFrameBuffer
      BY <1>2, <2>2 DEF HandleFrameHook
    <3> QED BY <2>1, <2>2, <3>1 DEF HookTypes, HookPlaces, IsResponse, NoHostFrame
  <2>3. CASE fromHost.kind = "bleOff"
    <3> DEFINE f == [kind |-> "notFound", tid |-> fromHost.tid, size |-> Small]
    <3>1. Encoded(f) /\ UNCHANGED <<mCurTransmitTID, radioBusy>>
      BY <1>2, <2>3 DEF HandleFrameHook
    <3>2. f \in HookFrame /\ f.kind # "response"
      BY DEF HookTypes, HookFrame
    <3> HIDE DEF f
    <3>3. HookTypes'
      BY <2>1, <3>1, <3>2, EncodedKeeps DEF HookTypes, NoHostFrame
    <3>4. fromHost.kind # "transmit" /\ fromHost'.kind # "transmit"
      BY <2>1, <2>3 DEF NoHostFrame
    <3> QED BY <2>1, <3>1, <3>2, <3>3, <3>4, PlacesKept
  <2>4. CASE fromHost.kind \notin {"transmit", "bleOff"}
    <3>1. UNCHANGED <<mTxFrameBuffer, mCurTransmitTID, radioBusy>>
      BY <1>2, <2>4 DEF HandleFrameHook
    <3> QED BY <2>1, <2>4, <3>1 DEF HookTypes, HookPlaces, IsResponse, NoHostFrame
  <2> QED BY <2>2, <2>3, <2>4
<1>3. ASSUME NEW kind \in {"received", "hci"}, Indication(kind) PROVE HookInv'
  <2> DEFINE f == [kind |-> kind, tid |-> 0, size |-> Small]
  <2>1. Encoded(f) /\ UNCHANGED <<mCurTransmitTID, radioBusy, hostTID, fromHost>> /\ produced' = produced + 1
    BY <1>3 DEF Indication, Produces
  <2>2. f \in HookFrame /\ f.kind # "response"
    BY DEF HookFrame
  <2> HIDE DEF f
  <2>3. HookTypes'
    BY <2>1, <2>2, EncodedKeeps DEF HookTypes
  <2> QED BY <2>1, <2>2, <2>3, PlacesKept
<1>4. ASSUME NEW size \in {Small, Large}, TransmitDone(size) PROVE HookInv'
  <2> DEFINE n == Evicted(size)
             B == mTxFrameBuffer
             r == SubSeq(B, n + 1, Len(B))
             f == [kind |-> "response", tid |-> mCurTransmitTID, size |-> size]
  <2>1. radioBusy /\ radioBusy' = FALSE /\ mCurTransmitTID # 0 /\ UNCHANGED <<hostTID, fromHost, produced>>
    BY <1>4 DEF TransmitDone, HookPlaces
  <2>2. mTxFrameBuffer' = Append(r, f) /\ mCurTransmitTID' = 0
    BY <1>4, <2>1 DEF TransmitDone, RespondsInAnyCase
  <2>3. n \in 0 .. Len(B) /\ B \in Seq(HookFrame) /\ Len(B) \in Nat
    BY EvictedInRange DEF HookTypes
  <2>4. f \in HookFrame /\ f.kind = "response" /\ f.tid = hostTID
    BY <2>1 DEF HookTypes, HookFrame, HookPlaces
  <2>5. \A i \in 1 .. Len(B) : B[i].kind # "response"
    BY <2>1, <2>3 DEF HookPlaces, IsResponse
  <2> HIDE DEF n, B, f
  <2>6. r \in Seq(HookFrame) /\ Len(r) = Len(B) - n /\ \A i \in 1 .. Len(r) : r[i] = B[n + i]
    BY <2>3
  <2>7. \A i \in 1 .. Len(r) : r[i].kind # "response"
    BY <2>3, <2>5, <2>6
  <2> HIDE DEF r
  <2>8. /\ B' \in Seq(HookFrame) /\ Len(B') = Len(r) + 1 /\ DOMAIN B' = 1 .. Len(r) + 1
        /\ B'[Len(r) + 1] = f /\ \A i \in 1 .. Len(r) : B'[i] = r[i]
        /\ Len(r) \in Nat
    BY <2>2, <2>4, <2>6 DEF B
  <2>9. \A i \in DOMAIN B' : IsResponse(i)' <=> i = Len(r) + 1
    BY <2>4, <2>7, <2>8 DEF IsResponse, B
  <2>10. HookTypes'
    BY <2>1, <2>2, <2>8 DEF HookTypes, B
  <2>11. Len(r) + 1 \in DOMAIN B'
    BY <2>8
  <2> QED BY <2>1, <2>2, <2>4, <2>8, <2>9, <2>10, <2>11 DEF HookPlaces, B
<1>5. CASE FrameSent
  <2> DEFINE B == mTxFrameBuffer
  <2>1. /\ B # << >> /\ B' = Tail(B) /\ UNCHANGED <<mCurTransmitTID, radioBusy, fromHost, produced>>
        /\ hostTID' = IF Head(B).kind = "response" /\ Head(B).tid = hostTID THEN 0 ELSE hostTID
    BY <1>5 DEF FrameSent
  <2>2. B \in Seq(HookFrame)
    BY DEF HookTypes
  <2>3. /\ B' \in Seq(HookFrame) /\ Len(B) \in Nat \ {0} /\ Len(B') = Len(B) - 1
        /\ DOMAIN B = 1 .. Len(B) /\ DOMAIN B' = 1 .. Len(B) - 1
        /\ (\A i \in 1 .. Len(B) - 1 : B'[i] = B[i + 1]) /\ Head(B) = B[1]
    BY <2>1, <2>2
  <2>4. \A i \in 1 .. Len(B) - 1 : IsResponse(i)' <=> IsResponse(i + 1)
    BY <2>3 DEF IsResponse
  <2>5. HookTypes'
    BY <2>1, <2>3 DEF HookTypes
  <2>6. CASE IsResponse(1)
    <3>1. Head(B).kind = "response" /\ Head(B).tid = hostTID /\ hostTID # 0 /\ fromHost.kind # "transmit" /\ ~radioBusy
      BY <2>3, <2>6 DEF HookPlaces, IsResponse
    <3>2. hostTID' = 0
      BY <2>1, <3>1
    <3>3. \A i \in DOMAIN B' : ~IsResponse(i)'
      BY <2>3, <2>4, <2>6 DEF HookPlaces
    <3> QED BY <2>1, <2>5, <3>1, <3>2, <3>3 DEF HookPlaces
  <2>7. CASE ~IsResponse(1)
    <3>1. hostTID' = hostTID
      BY <2>1, <2>3, <2>7 DEF IsResponse
    <3>2. \A i \in DOMAIN B' : IsResponse(i)' => i + 1 \in DOMAIN B /\ IsResponse(i + 1) /\ B'[i] = B[i + 1]
      BY <2>3, <2>4
    <3>3. (\E i \in DOMAIN B : IsResponse(i)) => \E i \in DOMAIN B' : IsResponse(i)'
      <4> SUFFICES ASSUME NEW i \in DOMAIN B, IsResponse(i) PROVE \E k \in DOMAIN B' : IsResponse(k)'
        OBVIOUS
      <4>1. i - 1 \in 1 .. Len(B) - 1 /\ (i - 1) + 1 = i
        BY <2>3, <2>7
      <4> QED BY <2>3, <2>4, <4>1
    <3>4. \A i, j \in DOMAIN B' : IsResponse(i)' /\ IsResponse(j)' => i = j
      BY <2>3, <3>2 DEF HookPlaces
    <3>5. \A i \in DOMAIN B' : IsResponse(i)' => hostTID # 0 /\ B'[i].tid = hostTID /\ fromHost.kind # "transmit" /\ ~radioBusy
      BY <3>2 DEF HookPlaces
    <3> QED BY <2>1, <2>5, <3>1, <3>3, <3>4, <3>5 DEF HookPlaces
  <2> QED BY <2>6, <2>7
<1>6. CASE UNCHANGED hookVars
  BY <1>6 DEF hookVars, HookTypes, HookPlaces, IsResponse
<1> QED BY <1>1, <1>2, <1>3, <1>4, <1>5, <1>6 DEF HookNext, HookRests

\* The places are those the run checks.
LEMMA HookInvSound == HookInv => ResponseOnItsWay
<1> SUFFICES ASSUME HookInv, hostTID # 0 PROVE ResponseOnItsWay
  BY DEF ResponseOnItsWay
<1> DEFINE here == fromHost.kind = "transmit" /\ fromHost.tid = hostTID
           there == radioBusy /\ mCurTransmitTID = hostTID
           back == {i \in DOMAIN mTxFrameBuffer : mTxFrameBuffer[i].kind = "response" /\ mTxFrameBuffer[i].tid = hostTID}
<1>1. here <=> fromHost.kind = "transmit"
  BY DEF HookInv, HookPlaces
<1>2. there <=> radioBusy
  BY DEF HookInv, HookPlaces
<1>3. back = {i \in DOMAIN mTxFrameBuffer : IsResponse(i)}
  BY DEF HookInv, HookPlaces, IsResponse
<1> HIDE DEF here, there, back
<1>4. \/ here /\ ~there /\ back = {}
      \/ ~here /\ there /\ back = {}
      \/ ~here /\ ~there /\ \E i \in back : back = {i}
  <2>1. CASE here
    BY <1>1, <1>2, <1>3, <2>1 DEF HookInv, HookPlaces
  <2>2. CASE there
    BY <1>1, <1>2, <1>3, <2>2 DEF HookInv, HookPlaces
  <2>3. CASE ~here /\ ~there
    <3>1. PICK i \in DOMAIN mTxFrameBuffer : IsResponse(i)
      BY <1>1, <1>2, <2>3 DEF HookInv, HookPlaces
    <3>2. back = {i}
      BY <1>3, <3>1 DEF HookInv, HookPlaces
    <3> QED BY <2>3, <3>2
  <2> QED BY <2>1, <2>2, <2>3
<1> QED BY <1>4 DEF ResponseOnItsWay, here, there, back

-----------------------------------------------------------------------------
(* The serial links together.                                              *)

\* However the interrupt, the DMA and the main loop interleave: characters and
\* packets arrive whole, once and in order, sent buffers are reported when they
\* are out (uart.c, spi_slave.c), and the response of a transmission finds its way
\* to the host (nxp_vendor_hook.cpp), for rings and buffers of every size.
THEOREM SerialLinksSound == K32wSpec => []SerialsSound
<1> DEFINE Inv == KuInv /\ SlInv /\ HookInv
<1>1. K32wInit => Inv
  BY KuInitially, SlInitially, HookInitially DEF K32wInit
<1>2. Inv /\ [K32wNext]_k32wVars => Inv'
  <2> SUFFICES ASSUME Inv, [K32wNext]_k32wVars PROVE Inv'
    OBVIOUS
  <2>1. [KuNext]_kuVars /\ [SlNext]_slVars /\ [HookNext]_hookVars
    BY K32wPartSteps
  <2> QED BY <2>1, KuStep, SlStep, HookStep
<1>3. Inv => SerialsSound
  BY KuInvSound, SlInvSound, HookInvSound DEF SerialsSound
<1> QED BY <1>1, <1>2, <1>3, PTL DEF K32wSpec

-----------------------------------------------------------------------------
(* PdmSettings: the blocks of the RAM buffer.                              *)

Cell == [key : Key \cup {NoKey}, len : Nat] \cup [byte : Byte]

\* The memory of a buffer reaches to its length at least.
Buffer == {b \in [mem : Seq(Cell), len : Nat] : b.len <= Len(b.mem)}

\* Where the block after the one at i starts.
NextBlock(b, i) == i + Size(b.mem[i].len)

\* S says where the blocks of b start: one at the first cell, one after the other
\* up to the length.
Blocks(b, S) ==
  /\ S \subseteq 1 .. b.len /\ (b.len > 0 => 1 \in S)
  /\ \A i \in S : /\ IsHeader(b.mem[i]) /\ NextBlock(b, i) <= b.len + 1
                  /\ NextBlock(b, i) <= b.len => NextBlock(b, i) \in S
  /\ \A i, j \in S : i < j => NextBlock(b, i) <= j

\* from[i] is where the loops find headers from cell i on.
FindsStarts(from, b) ==
  from = [i \in Nat \ {0} |->
            IF i > b.len THEN {}
            ELSE {i} \cup IF IsHeader(b.mem[i]) THEN from[NextBlock(b, i)] ELSE {}]

\* A header's length is a natural number.
LEMMA CellFacts ==
  ASSUME NEW b \in Buffer, NEW i \in 1 .. b.len
  PROVE  /\ b.mem[i] \in Cell /\ b.len \in Nat
         /\ IsHeader(b.mem[i]) => b.mem[i] \in [key : Key \cup {NoKey}, len : Nat]
              /\ b.mem[i].len \in Nat /\ NextBlock(b, i) \in Nat /\ NextBlock(b, i) > i
<1>1. b.mem \in Seq(Cell) /\ b.len \in Nat /\ b.len <= Len(b.mem)
  BY DEF Buffer
<1>2. b.mem[i] \in Cell
  <2>1. Len(b.mem) \in Nat /\ i \in 1 .. Len(b.mem)
    BY <1>1, LenProperties
  <2> QED BY <1>1, <2>1, ElementOfSeq
<1>3. ASSUME IsHeader(b.mem[i]) PROVE b.mem[i] \in [key : Key \cup {NoKey}, len : Nat]
  <2>1. \A c \in [byte : Byte] : "key" \notin DOMAIN c
    OBVIOUS
  <2> QED BY <1>2, <1>3, <2>1 DEF Cell, IsHeader
<1>4. ASSUME b.mem[i] \in [key : Key \cup {NoKey}, len : Nat]
      PROVE  b.mem[i].len \in Nat /\ NextBlock(b, i) \in Nat /\ NextBlock(b, i) > i
  BY <1>1, <1>4 DEF NextBlock, Size
<1> QED BY <1>1, <1>2, <1>3, <1>4

\* The loops find something.
LEMMA FindsStartsExists ==
  ASSUME NEW b \in Buffer
  PROVE  \E from : FindsStarts(from, b)
<1> DEFINE P == Nat \ {0}
           T == [P -> SUBSET Nat]
           none == [i \in P |-> {}]
           Look(f, i) == IF i > b.len THEN {}
                         ELSE {i} \cup IF IsHeader(b.mem[i]) THEN f[NextBlock(b, i)] ELSE {}
           More(f) == [i \in P |-> Look(f, i)]
           more == [p \in T \X Nat |-> More(p[1])]
<1>0. b.len \in Nat
  BY DEF Buffer
<1>1. none \in T
  OBVIOUS
<1>2. ASSUME NEW f \in T PROVE More(f) \in T
  <2> SUFFICES ASSUME NEW i \in P PROVE Look(f, i) \subseteq Nat
    OBVIOUS
  <2>1. CASE i > b.len
    BY <1>0, <2>1
  <2>2. CASE i <= b.len /\ IsHeader(b.mem[i])
    <3>1. NextBlock(b, i) \in P
      BY <1>0, <2>2, CellFacts
    <3>2. f[NextBlock(b, i)] \subseteq Nat
      BY <3>1
    <3> QED BY <1>0, <2>2, <3>2
  <2>3. CASE i <= b.len /\ ~IsHeader(b.mem[i])
    BY <1>0, <2>3
  <2> QED BY <1>0, <2>1, <2>2, <2>3
<1>3. more \in [T \X Nat -> T]
  <2> HIDE DEF T, More
  <2> QED BY <1>2
<1>4. PICK g : IsRecursion(g, T, none, more)
  <2> HIDE DEF T, none, more
  <2> QED BY <1>1, <1>3, NatRecursion
<1>5. ASSUME NEW n \in Nat PROVE g[n] \in T /\ g[n + 1] = More(g[n])
  <2>1. g[n] \in T /\ g[n + 1] = more[<<g[n], n>>]
    BY <1>4 DEF IsRecursion
  <2> HIDE DEF T, More
  <2> QED BY <2>1
<1> HIDE DEF more, none, T
<1> DEFINE H == {n \in Nat : \A i \in P : i + n > b.len => g[n + 1][i] = g[n][i]}
<1>6. 0 \in H
  <2> SUFFICES ASSUME NEW i \in P, i > b.len PROVE g[1][i] = g[0][i]
    BY <1>0
  <2>1. g[1] = More(g[0])
    BY <1>5
  <2>2. g[1][i] = {}
    BY <2>1, <1>0
  <2>3. g[0][i] = {}
    BY <1>4 DEF IsRecursion, none
  <2> QED BY <2>2, <2>3
<1>7. ASSUME NEW n \in Nat, n \in H PROVE n + 1 \in H
  <2> SUFFICES ASSUME NEW i \in P, i + (n + 1) > b.len PROVE g[(n + 1) + 1][i] = g[n + 1][i]
    OBVIOUS
  <2>1. g[(n + 1) + 1][i] = Look(g[n + 1], i) /\ g[n + 1][i] = Look(g[n], i)
    <3>0. PICK m : m = n + 1
      OBVIOUS
    <3> HIDE DEF More
    <3>1. g[m + 1] = More(g[m]) /\ g[n + 1] = More(g[n])
      BY <1>5, <3>0
    <3> USE DEF More
    <3> HIDE DEF Look
    <3> QED BY <3>0, <3>1
  <2>2. CASE i <= b.len /\ IsHeader(b.mem[i])
    <3>1. NextBlock(b, i) \in P /\ NextBlock(b, i) + n > b.len
      BY <1>0, <2>2, CellFacts
    <3>2. g[n + 1][NextBlock(b, i)] = g[n][NextBlock(b, i)]
      BY <1>7, <3>1
    <3> QED BY <2>1, <3>2
  <2>3. CASE i > b.len
    BY <2>1, <2>3
  <2>4. CASE i <= b.len /\ ~IsHeader(b.mem[i])
    BY <2>1, <2>4
  <2> QED BY <1>0, <2>2, <2>3, <2>4
<1>8. b.len \in H
  <2> HIDE DEF H
  <2> QED BY <1>0, <1>6, <1>7, SetInduction
<1>9. \A i \in P : g[b.len + 1][i] = g[b.len][i]
  BY <1>0, <1>8
<1>10. g[b.len] = More(g[b.len])
  <2> HIDE DEF More, P
  <2>0. PICK n, m : n = b.len /\ m = n + 1
    OBVIOUS
  <2>1. g[n] \in T /\ g[m] \in T /\ g[m] = More(g[n])
    BY <1>0, <1>5, <2>0
  <2>2. g[n] \in [P -> SUBSET Nat] /\ g[m] \in [P -> SUBSET Nat]
    BY <2>1 DEF T
  <2>3. \A i \in P : g[m][i] = g[n][i]
    BY <1>9, <2>0
  <2>4. g[n] = g[m]
    BY <2>2, <2>3
  <2> QED BY <2>0, <2>1, <2>4
<1> QED BY <1>10 DEF FindsStarts

\* So the function of Starts is one of them.
LEMMA StartsIs ==
  ASSUME NEW b \in Buffer
  PROVE  \E from : FindsStarts(from, b) /\ Starts(b) = from[1]
<1> DEFINE Look(from) == [i \in Nat \ {0} |->
                            IF i > b.len THEN {}
                            ELSE {i} \cup IF IsHeader(b.mem[i]) THEN from[i + Size(b.mem[i].len)] ELSE {}]
           g == CHOOSE from : from = Look(from)
<1>1. PICK f : FindsStarts(f, b)
  BY FindsStartsExists
<1>2. f = Look(f)
  BY <1>1 DEF FindsStarts, NextBlock
<1>3. Starts(b) = g[1]
  BY DEF Starts
<1>4. g = Look(g)
  <2> HIDE DEF Look
  <2> QED BY <1>2
<1>5. FindsStarts(g, b)
  <2> HIDE DEF g
  <2> QED BY <1>4 DEF FindsStarts, NextBlock
<1> HIDE DEF g
<1> QED BY <1>3, <1>5

\* Going down from the end of b: what all cells have that have it when all later
\* cells have it.
LEMMA BackwardInduction ==
  ASSUME NEW len \in Nat, NEW G,
         \A i \in Nat \ {0} : i > len => i \in G,
         \A i \in 1 .. len : (\A j \in Nat : j > i => j \in G) => i \in G
  PROVE  \A i \in Nat \ {0} : i \in G
<1> DEFINE H == {n \in Nat : \A i \in Nat \ {0} : i + n > len => i \in G}
<1>1. 0 \in H
  OBVIOUS
<1>2. ASSUME NEW n \in Nat, n \in H PROVE n + 1 \in H
  <2> SUFFICES ASSUME NEW i \in Nat \ {0}, i + (n + 1) > len PROVE i \in G
    OBVIOUS
  <2>1. \A j \in Nat : j > i => j \in G
    BY <1>2
  <2> QED BY <2>1
<1>3. len \in H
  <2> HIDE DEF H
  <2> QED BY <1>1, <1>2, SetInduction
<1> QED BY <1>3

\* What the loops find from cell i on, by cases.
LEMMA FoundIs ==
  ASSUME NEW b \in Buffer, NEW from, FindsStarts(from, b)
  PROVE  /\ \A i \in Nat \ {0} : i > b.len => from[i] = {}
         /\ \A i \in 1 .. b.len : IsHeader(b.mem[i]) => from[i] = {i} \cup from[NextBlock(b, i)]
         /\ \A i \in 1 .. b.len : ~IsHeader(b.mem[i]) => from[i] = {i}
<1>0. b.len \in Nat
  BY DEF Buffer
<1>1. ASSUME NEW i \in Nat \ {0}
      PROVE  from[i] = IF i > b.len THEN {}
                       ELSE {i} \cup IF IsHeader(b.mem[i]) THEN from[NextBlock(b, i)] ELSE {}
  BY DEF FindsStarts
<1>2. ASSUME NEW i \in Nat \ {0}, i > b.len PROVE from[i] = {}
  BY <1>1, <1>2
<1>3. ASSUME NEW i \in 1 .. b.len PROVE i \in Nat \ {0} /\ ~(i > b.len)
  BY <1>0
<1>4. ASSUME NEW i \in 1 .. b.len, IsHeader(b.mem[i]) PROVE from[i] = {i} \cup from[NextBlock(b, i)]
  BY <1>1, <1>3, <1>4
<1>5. ASSUME NEW i \in 1 .. b.len, ~IsHeader(b.mem[i]) PROVE from[i] = {i}
  <2>1. from[i] = {i} \cup {}
    BY <1>1, <1>3, <1>5
  <2> QED BY <2>1
<1> QED BY <1>2, <1>4, <1>5

\* What the loops find from cell i on: cells up to the length, and after a header
\* that ends before it the next one; blocks do not overlap.
Found(b, from, i) ==
  /\ from[i] \subseteq i .. b.len /\ (i <= b.len => i \in from[i])
  /\ \A j \in from[i] : IsHeader(b.mem[j]) /\ NextBlock(b, j) <= b.len => NextBlock(b, j) \in from[i]
  /\ \A j, k \in from[i] : j < k => IsHeader(b.mem[j]) /\ NextBlock(b, j) <= k

LEMMA FoundAll ==
  ASSUME NEW b \in Buffer, NEW from, FindsStarts(from, b)
  PROVE  \A i \in Nat \ {0} : Found(b, from, i)
<1> DEFINE G == {i \in Nat \ {0} : Found(b, from, i)}
<1>0. PICK len : len = b.len
  OBVIOUS
<1>1. len \in Nat
  BY <1>0 DEF Buffer
<1>2. /\ \A i \in Nat \ {0} : i > len => from[i] = {}
      /\ \A i \in 1 .. len : IsHeader(b.mem[i]) => from[i] = {i} \cup from[NextBlock(b, i)]
      /\ \A i \in 1 .. len : ~IsHeader(b.mem[i]) => from[i] = {i}
  BY <1>0, FoundIs
<1>3. ASSUME NEW i \in Nat \ {0}, i > len PROVE i \in G
  BY <1>0, <1>1, <1>2, <1>3 DEF Found
<1>4. ASSUME NEW i \in 1 .. len, \A j \in Nat : j > i => j \in G PROVE i \in G
  <2>1. CASE IsHeader(b.mem[i])
    <3>1. PICK n : n = NextBlock(b, i)
      OBVIOUS
    <3>2. n \in Nat /\ n > i
      BY <1>0, <2>1, <3>1, CellFacts
    <3>3. Found(b, from, n)
      BY <1>4, <3>2
    <3>4. from[i] = {i} \cup from[n] /\ from[n] \subseteq n .. len
      BY <1>0, <1>1, <1>2, <2>1, <3>1, <3>3 DEF Found
    <3>5. from[i] \subseteq i .. len /\ i \in from[i]
      BY <1>1, <3>2, <3>4
    <3>6. ASSUME NEW j \in from[i], IsHeader(b.mem[j]), NextBlock(b, j) <= len
          PROVE  NextBlock(b, j) \in from[i]
      <4>1. CASE j = i
        BY <1>0, <3>1, <3>2, <3>3, <3>4, <3>6, <4>1 DEF Found
      <4>2. CASE j \in from[n]
        BY <1>0, <3>3, <3>4, <3>6, <4>2 DEF Found
      <4> QED BY <3>4, <4>1, <4>2
    <3>7. ASSUME NEW j \in from[i], NEW k \in from[i], j < k
          PROVE  IsHeader(b.mem[j]) /\ NextBlock(b, j) <= k
      <4>1. CASE j \in from[n] /\ k \in from[n]
        BY <3>3, <3>7, <4>1 DEF Found
      <4>2. CASE j = i
        <5>1. k \in n .. len
          BY <1>1, <3>4, <3>7, <4>2
        <5> QED BY <2>1, <3>1, <4>2, <5>1
      <4>3. CASE k = i
        <5>1. j \in i .. len
          BY <3>5
        <5> QED BY <3>7, <4>3, <5>1
      <4> QED BY <3>4, <4>1, <4>2, <4>3
    <3> QED BY <1>0, <3>5, <3>6, <3>7 DEF Found
  <2>2. CASE ~IsHeader(b.mem[i])
    <3>1. from[i] = {i}
      BY <1>1, <1>2, <2>2
    <3> QED BY <1>0, <1>1, <2>2, <3>1 DEF Found
  <2> QED BY <2>1, <2>2
<1>5. \A i \in Nat \ {0} : i \in G
  <2> HIDE DEF G
  <2> QED BY <1>1, <1>3, <1>4, BackwardInduction
<1> QED BY <1>5

\* A buffer that the blocks fill has them where the loops find them.
LEMMA StartsAreBlocks ==
  ASSUME NEW b \in Buffer
  PROVE  /\ Starts(b) \subseteq 1 .. b.len
         /\ BlocksFill(b) => Blocks(b, Starts(b))
<1>1. PICK from : FindsStarts(from, b) /\ Starts(b) = from[1]
  BY StartsIs
<1>2. Found(b, from, 1)
  BY <1>1, FoundAll
<1>3. b.len \in Nat
  BY DEF Buffer
<1>4. Starts(b) \subseteq 1 .. b.len /\ (b.len > 0 => 1 \in Starts(b))
  BY <1>1, <1>2, <1>3 DEF Found
<1>5. ASSUME BlocksFill(b) PROVE Blocks(b, Starts(b))
  <2>1. ASSUME NEW i \in Starts(b) PROVE IsHeader(b.mem[i]) /\ NextBlock(b, i) <= b.len + 1
    <3>1. IsHeader(b.mem[i]) /\ i + Size(b.mem[i].len) - 1 <= b.len
      BY <1>5 DEF BlocksFill
    <3>2. b.mem[i].len \in Nat /\ i \in Nat
      BY <1>3, <1>4, <3>1, CellFacts
    <3> QED BY <1>3, <3>1, <3>2 DEF NextBlock, Size
  <2>2. ASSUME NEW i \in Starts(b), NextBlock(b, i) <= b.len PROVE NextBlock(b, i) \in Starts(b)
    BY <1>1, <1>2, <2>1, <2>2 DEF Found
  <2>3. \A i, j \in Starts(b) : i < j => NextBlock(b, i) <= j
    BY <1>1, <1>2 DEF Found
  <2> QED BY <1>4, <2>1, <2>2, <2>3 DEF Blocks
<1> QED BY <1>4, <1>5

\* And a buffer with blocks is filled by them: the loops find no others.
LEMMA BlocksAreStarts ==
  ASSUME NEW b \in Buffer, NEW S, Blocks(b, S)
  PROVE  BlocksFill(b)
<1>0. PICK len : len = b.len
  OBVIOUS
<1>1. PICK from : FindsStarts(from, b) /\ Starts(b) = from[1]
  BY StartsIs
<1>2. len \in Nat
  BY <1>0 DEF Buffer
<1>3. /\ \A i \in Nat \ {0} : i > len => from[i] = {}
      /\ \A i \in 1 .. len : IsHeader(b.mem[i]) => from[i] = {i} \cup from[NextBlock(b, i)]
      /\ \A i \in 1 .. len : ~IsHeader(b.mem[i]) => from[i] = {i}
  BY <1>0, <1>1, FoundIs
<1> DEFINE F == {i \in Nat \ {0} : i \in S \/ i > len => from[i] \subseteq S}
<1>4. ASSUME NEW i \in Nat \ {0}, i > len PROVE i \in F
  BY <1>2, <1>3, <1>4
<1>5. ASSUME NEW i \in 1 .. len, \A j \in Nat : j > i => j \in F PROVE i \in F
  <2> SUFFICES ASSUME i \in S PROVE from[i] \subseteq S
    BY <1>2
  <2>1. PICK n : n = NextBlock(b, i)
    OBVIOUS
  <2>2. IsHeader(b.mem[i]) /\ (n <= len => n \in S)
    BY <1>0, <2>1 DEF Blocks
  <2>3. n \in Nat /\ n > i
    BY <1>0, <2>1, <2>2, CellFacts
  <2>4. from[n] \subseteq S
    BY <1>2, <1>5, <2>2, <2>3
  <2> QED BY <1>2, <1>3, <2>1, <2>2, <2>4
<1>6. \A i \in Nat \ {0} : i \in F
  <2> HIDE DEF F
  <2> QED BY <1>2, <1>4, <1>5, BackwardInduction
<1>7. from[1] \subseteq S
  <2>1. CASE len = 0
    BY <1>2, <1>3, <2>1
  <2>2. CASE len > 0
    <3>1. 1 \in S
      BY <1>0, <2>2 DEF Blocks
    <3> QED BY <1>6, <3>1
  <2> QED BY <1>2, <2>1, <2>2
<1>8. ASSUME NEW i \in Starts(b) PROVE IsHeader(b.mem[i]) /\ i + Size(b.mem[i].len) - 1 <= b.len
  <2>1. i \in S /\ IsHeader(b.mem[i]) /\ NextBlock(b, i) <= b.len + 1 /\ i \in 1 .. b.len
    BY <1>1, <1>7, <1>8 DEF Blocks
  <2>2. b.mem[i].len \in Nat
    BY <2>1, CellFacts
  <2> QED BY <1>0, <1>2, <2>1, <2>2 DEF NextBlock, Size
<1> QED BY <1>8 DEF BlocksFill

\* Writing s over m, from cell i on.
LEMMA WriteIs ==
  ASSUME NEW m \in Seq(Cell), NEW s \in Seq(Cell), NEW i \in 1 .. Len(m) + 1
  PROVE  /\ Write(m, i, s) \in Seq(Cell)
         /\ Len(Write(m, i, s)) = IF i + Len(s) - 1 <= Len(m) THEN Len(m) ELSE i + Len(s) - 1
         /\ \A j \in 1 .. Len(Write(m, i, s)) :
              Write(m, i, s)[j] = IF i <= j /\ j <= i + Len(s) - 1 THEN s[j - i + 1] ELSE m[j]
<1>0. PICK a, c : a = Len(m) /\ c = i + Len(s) - 1
  OBVIOUS
<1>1. a \in Nat /\ c \in Nat /\ Len(s) \in Nat /\ i \in 1 .. a + 1
  BY <1>0, LenProperties
<1>2. PICK n : n = IF c <= a THEN a ELSE c
  OBVIOUS
<1>3. Max({a, c}) = n
  <2>1. n \in {a, c} /\ \A y \in {a, c} : n >= y
    BY <1>1, <1>2
  <2>2. \A x \in {a, c} : (\A y \in {a, c} : x >= y) => x = n
    BY <1>1, <2>1
  <2> QED BY <2>1, <2>2 DEF Max
<1>4. Write(m, i, s) = [j \in 1 .. n |-> IF j \in i .. c THEN s[j - i + 1] ELSE m[j]]
  BY <1>0, <1>3 DEF Write
<1>5. n \in Nat
  BY <1>1, <1>2
<1>6. ASSUME NEW j \in 1 .. n PROVE (IF j \in i .. c THEN s[j - i + 1] ELSE m[j]) \in Cell
  <2>1. CASE j \in i .. c
    <3>1. j - i + 1 \in 1 .. Len(s)
      BY <1>0, <1>1, <2>1
    <3> QED BY <2>1, <3>1, ElementOfSeq
  <2>2. CASE j \notin i .. c
    <3>1. j \in 1 .. Len(m)
      BY <1>0, <1>1, <1>2, <2>2
    <3> QED BY <2>2, <3>1, ElementOfSeq
  <2> QED BY <2>1, <2>2
<1>7. Write(m, i, s) \in Seq(Cell) /\ Len(Write(m, i, s)) = n
  BY <1>4, <1>5, <1>6
<1>8. \A j \in 1 .. n : j \in i .. c <=> i <= j /\ j <= c
  BY <1>1, <1>5
<1> QED BY <1>0, <1>2, <1>4, <1>7, <1>8

\* A block: a header, and a cell for each byte.
LEMMA BlockIs ==
  ASSUME NEW k \in Key, NEW n \in Nat, NEW byte \in Byte
  PROVE  /\ Block(k, n, byte) \in Seq(Cell) /\ Len(Block(k, n, byte)) = Size(n)
         /\ Block(k, n, byte)[1] = [key |-> k, len |-> n]
         /\ Size(n) \in Nat /\ Size(n) = n + 1
<1> DEFINE h == <<[key |-> k, len |-> n]>>
           t == [i \in 1 .. n |-> [byte |-> byte]]
<1>1. h \in Seq(Cell) /\ Len(h) = 1 /\ h[1] = [key |-> k, len |-> n]
  BY DEF Cell
<1>2. t \in Seq(Cell) /\ Len(t) = n
  BY DEF Cell
<1>3. Block(k, n, byte) = h \o t
  BY DEF Block
<1> HIDE DEF h, t
<1>4. h \o t \in Seq(Cell) /\ Len(h \o t) = Len(h) + Len(t)
  BY <1>1, <1>2, ConcatProperties
<1>5. (h \o t)[1] = h[1]
  <2>1. 1 \in 1 .. Len(h) + Len(t) /\ 1 <= Len(h)
    BY <1>1, <1>2
  <2> QED BY <1>1, <1>2, <2>1, ConcatProperties
<1> QED BY <1>1, <1>2, <1>3, <1>4, <1>5 DEF Size

\* What the calls keep: a typed buffer, its blocks, and a length of at most n.
BlocksWithin(b, n) == b \in Buffer /\ BlocksFill(b) /\ b.len <= n

\* A block more.
LEMMA AddFills ==
  ASSUME NEW b \in Buffer, BlocksFill(b), NEW k \in Key, NEW n \in Nat, NEW byte \in Byte
  PROVE  BlocksWithin(RamAdd(b, k, n, byte), b.len + Size(n)) /\ RamAdd(b, k, n, byte).len = b.len + Size(n)
<1>0. PICK len, m, s, S : len = b.len /\ m = b.mem /\ s = Block(k, n, byte) /\ S = Starts(b)
  OBVIOUS
<1>1. len \in Nat /\ m \in Seq(Cell) /\ Len(m) \in Nat /\ len <= Len(m)
  BY <1>0, LenProperties DEF Buffer
<1>2. s \in Seq(Cell) /\ Len(s) = n + 1 /\ s[1] = [key |-> k, len |-> n] /\ Size(n) = n + 1
  BY <1>0, BlockIs
<1>3. Blocks(b, S)
  BY <1>0, StartsAreBlocks
<1>4. PICK w : w = Write(m, len + 1, s)
  OBVIOUS
<1>5. /\ w \in Seq(Cell)
      /\ Len(w) = IF len + 1 + Len(s) - 1 <= Len(m) THEN Len(m) ELSE len + 1 + Len(s) - 1
      /\ \A j \in 1 .. Len(w) :
           w[j] = IF len + 1 <= j /\ j <= len + 1 + Len(s) - 1 THEN s[j - (len + 1) + 1] ELSE m[j]
  <2>1. len + 1 \in 1 .. Len(m) + 1
    BY <1>1
  <2> HIDE <1>0
  <2> QED BY <1>1, <1>2, <1>4, <2>1, WriteIs, SMTT(20)
<1>6. PICK c : c = [mem |-> w, len |-> len + (n + 1)]
  OBVIOUS
<1>7. RamAdd(b, k, n, byte) = c
  BY <1>0, <1>2, <1>4, <1>6 DEF RamAdd
<1>8. c \in Buffer /\ c.len = len + (n + 1) /\ c.mem = w
  BY <1>1, <1>2, <1>5, <1>6 DEF Buffer
<1>9. \A i \in 1 .. len : w[i] = m[i]
  BY <1>1, <1>2, <1>5
<1>10. w[len + 1] = [key |-> k, len |-> n]
  <2>1. PICK j : j = len + 1
    OBVIOUS
  <2>2. j \in 1 .. Len(w) /\ len + 1 <= j /\ j <= len + 1 + Len(s) - 1 /\ j - (len + 1) + 1 = 1
    BY <1>1, <1>2, <1>5, <2>1
  <2>3. w[j] = s[j - (len + 1) + 1]
    BY <1>5, <2>2
  <2>4. w[j] = s[1]
    BY <2>2, <2>3
  <2> QED BY <1>2, <2>1, <2>4
<1>11. NextBlock(c, len + 1) = c.len + 1 /\ IsHeader(c.mem[len + 1])
  BY <1>1, <1>8, <1>10 DEF NextBlock, Size, IsHeader
<1>12. \A i \in S : i \in 1 .. len /\ c.mem[i] = b.mem[i] /\ NextBlock(c, i) = NextBlock(b, i)
  BY <1>0, <1>3, <1>8, <1>9 DEF Blocks, NextBlock
<1>13. Blocks(c, S \cup {len + 1})
  <2>1. S \cup {len + 1} \subseteq 1 .. c.len /\ 1 \in S \cup {len + 1}
    BY <1>0, <1>1, <1>3, <1>8 DEF Blocks
  <2>2. ASSUME NEW i \in S \cup {len + 1}
        PROVE  /\ IsHeader(c.mem[i]) /\ NextBlock(c, i) <= c.len + 1
               /\ NextBlock(c, i) <= c.len => NextBlock(c, i) \in S \cup {len + 1}
    <3>1. CASE i = len + 1
      BY <1>1, <1>8, <1>11, <3>1
    <3>2. CASE i \in S
      <4>1. PICK x : x = NextBlock(b, i) /\ x = NextBlock(c, i)
        BY <1>12, <3>2
      <4>2. IsHeader(c.mem[i]) /\ x <= len + 1 /\ (x <= len => x \in S)
        BY <1>0, <1>3, <1>12, <3>2, <4>1 DEF Blocks
      <4>3. x \in Nat
        BY <1>0, <1>12, <3>2, <4>1, <4>2, CellFacts
      <4> QED BY <1>1, <1>8, <4>1, <4>2, <4>3
    <3> QED BY <3>1, <3>2
  <2>3. ASSUME NEW i \in S \cup {len + 1}, NEW j \in S \cup {len + 1}, i < j PROVE NextBlock(c, i) <= j
    <3>1. i \in S
      BY <1>1, <1>12, <2>3
    <3>2. CASE j \in S
      BY <1>3, <1>12, <2>3, <3>1, <3>2 DEF Blocks
    <3>3. CASE j = len + 1
      BY <1>0, <1>3, <1>12, <3>1, <3>3 DEF Blocks
    <3> QED BY <3>2, <3>3
  <2> QED BY <2>1, <2>2, <2>3 DEF Blocks
<1>14. BlocksFill(c)
  BY <1>8, <1>13, BlocksAreStarts
<1> QED BY <1>0, <1>1, <1>2, <1>7, <1>8, <1>14 DEF BlocksWithin

\* A block less: those after it move down by its size.
LEMMA RemoveFills ==
  ASSUME NEW b \in Buffer, BlocksFill(b), NEW i \in Starts(b)
  PROVE  BlocksWithin(RamRemove(b, i), b.len)
<1>0. PICK len, m, S, size, s : /\ len = b.len /\ m = b.mem /\ S = Starts(b) /\ size = Size(m[i].len)
                                /\ s = SubSeq(m, i + size, len)
  OBVIOUS
<1>1. len \in Nat /\ m \in Seq(Cell) /\ Len(m) \in Nat /\ len <= Len(m)
  BY <1>0, LenProperties DEF Buffer
<1>2. Blocks(b, S)
  BY <1>0, StartsAreBlocks
<1>3. /\ i \in S /\ i \in 1 .. len /\ IsHeader(m[i]) /\ size \in Nat \ {0} /\ i + size <= len + 1
      /\ NextBlock(b, i) = i + size
  <2>1. i \in S /\ i \in 1 .. len /\ IsHeader(m[i]) /\ NextBlock(b, i) <= len + 1
    BY <1>0, <1>2 DEF Blocks
  <2>2. m[i].len \in Nat
    BY <1>0, <2>1, CellFacts
  <2>3. size \in Nat \ {0} /\ NextBlock(b, i) = i + size
    BY <1>0, <2>2 DEF NextBlock, Size
  <2> QED BY <2>1, <2>3
<1>4. PICK left : left = len - size
  OBVIOUS
<1>5. left \in Nat /\ left + 1 >= i /\ left < len /\ left + size = len
  BY <1>1, <1>3, <1>4
<1>6. s \in Seq(Cell) /\ Len(s) = left + 1 - i /\ \A j \in 1 .. Len(s) : s[j] = m[i + size + j - 1]
  <2>1. PICK a : a = i + size
    OBVIOUS
  <2>2. a \in 1 .. Len(m) + 1 /\ len \in a - 1 .. Len(m) /\ s = SubSeq(m, a, len)
    <3>1. a \in 1 .. Len(m) + 1 /\ len \in a - 1 .. Len(m)
      BY <1>1, <1>3, <2>1
    <3>2. s = SubSeq(m, a, len)
      BY <1>0, <2>1
    <3> QED BY <3>1, <3>2
  <2>3. s \in Seq(Cell) /\ Len(s) = (IF a <= len THEN len - a + 1 ELSE 0) /\ \A j \in 1 .. len - a + 1 : s[j] = m[a + j - 1]
    <3> HIDE <1>0
    <3> QED BY <1>1, <2>2, SubSeqProperties
  <2>4. Len(s) = left + 1 - i /\ len - a + 1 = left + 1 - i
    BY <1>1, <1>3, <1>5, <2>1, <2>3
  <2> QED BY <2>1, <2>3, <2>4
<1>7. PICK w : w = Write(m, i, s)
  OBVIOUS
<1>8. /\ w \in Seq(Cell) /\ Len(w) = Len(m)
      /\ \A j \in 1 .. left : w[j] = IF j < i THEN m[j] ELSE m[j + size]
  <2>1. i \in 1 .. Len(m) + 1 /\ i + Len(s) - 1 = left /\ left <= Len(m)
    BY <1>1, <1>3, <1>5, <1>6
  <2>2. /\ w \in Seq(Cell)
        /\ Len(w) = IF i + Len(s) - 1 <= Len(m) THEN Len(m) ELSE i + Len(s) - 1
        /\ \A j \in 1 .. Len(w) :
             w[j] = IF i <= j /\ j <= i + Len(s) - 1 THEN s[j - i + 1] ELSE m[j]
    <3> HIDE <1>0
    <3> QED BY <1>1, <1>6, <1>7, <2>1, WriteIs
  <2>3. Len(w) = Len(m)
    BY <2>1, <2>2
  <2>4. ASSUME NEW j \in 1 .. left PROVE w[j] = IF j < i THEN m[j] ELSE m[j + size]
    <3>0. j \in 1 .. Len(w)
      BY <1>1, <2>1, <2>3
    <3>1. CASE j < i
      BY <1>3, <2>2, <3>0, <3>1
    <3>2. CASE i <= j
      <4>1. PICK l : l = j - i + 1
        OBVIOUS
      <4>2. l \in 1 .. Len(s) /\ i + size + l - 1 = j + size
        BY <1>3, <1>5, <1>6, <3>2, <4>1
      <4>3. w[j] = s[l]
        BY <2>1, <2>2, <3>0, <3>2, <4>1
      <4> QED BY <1>3, <1>6, <3>2, <4>2, <4>3
    <3> QED BY <1>3, <3>1, <3>2
  <2> QED BY <2>2, <2>3, <2>4
<1>9. PICK c : c = [mem |-> w, len |-> left]
  OBVIOUS
<1>10. RamRemove(b, i) = c
  BY <1>0, <1>4, <1>7, <1>9 DEF RamRemove
<1>11. c \in Buffer /\ c.len = left /\ c.mem = w
  BY <1>1, <1>5, <1>8, <1>9 DEF Buffer
<1> DEFINE Before == {j \in S : j < i}
           After == {j \in 1 .. left : j >= i /\ j + size \in S}
           T == Before \cup After
<1>12. ASSUME NEW j \in Before
       PROVE  /\ j \in 1 .. left /\ IsHeader(w[j]) /\ NextBlock(c, j) <= i
              /\ NextBlock(c, j) = NextBlock(b, j) /\ NextBlock(c, j) \in Nat
  <2>1. j \in S /\ j < i /\ j \in 1 .. len /\ IsHeader(m[j]) /\ NextBlock(b, j) <= i
    BY <1>0, <1>2, <1>3 DEF Blocks
  <2>2. j \in 1 .. left /\ w[j] = m[j]
    BY <1>3, <1>5, <1>8, <2>1
  <2>3. NextBlock(b, j) \in Nat
    BY <1>0, <2>1, CellFacts
  <2> QED BY <1>0, <1>11, <2>1, <2>2, <2>3 DEF NextBlock
<1>13. ASSUME NEW j \in After
       PROVE  /\ IsHeader(w[j]) /\ NextBlock(c, j) + size = NextBlock(b, j + size)
              /\ NextBlock(c, j) \in Nat /\ NextBlock(c, j) > j
  <2>1. PICK l : l = j + size
    OBVIOUS
  <2>2. l \in S /\ l \in 1 .. len /\ w[j] = m[l] /\ IsHeader(m[l])
    BY <1>0, <1>2, <1>3, <1>8, <2>1 DEF Blocks
  <2>3. m[l].len \in Nat
    BY <1>0, <2>2, CellFacts
  <2>4. PICK n : n = m[l].len /\ n \in Nat
    BY <2>3
  <2>5. NextBlock(c, j) = j + (1 + n) /\ NextBlock(b, l) = l + (1 + n)
    BY <1>0, <1>11, <2>2, <2>4 DEF NextBlock, Size
  <2>6. j \in Nat /\ l \in Nat /\ size \in Nat
    BY <1>1, <1>3, <1>5, <2>2
  <2>7. (j + (1 + n)) + size = l + (1 + n) /\ j + (1 + n) \in Nat /\ j + (1 + n) > j
    BY <2>1, <2>4, <2>6
  <2> QED BY <2>1, <2>2, <2>5, <2>7
<1>14. i <= left => i \in After
  <2> SUFFICES ASSUME i <= left PROVE i \in After
    OBVIOUS
  <2>1. NextBlock(b, i) <= b.len
    BY <1>0, <1>3, <1>5
  <2>2. i + size \in S
    BY <1>2, <1>3, <2>1 DEF Blocks
  <2> QED BY <1>3, <1>5, <2>2
<1>15. ASSUME NEW j \in T
       PROVE  /\ j \in 1 .. left /\ IsHeader(w[j]) /\ NextBlock(c, j) <= left + 1
              /\ NextBlock(c, j) <= left => NextBlock(c, j) \in T
  <2>1. CASE j \in Before
    <3>1. PICK x : x = NextBlock(c, j)
      OBVIOUS
    <3>0. x \in Nat /\ x <= i /\ x = NextBlock(b, j) /\ j \in S
      BY <1>12, <2>1, <3>1
    <3>2. x \in Nat /\ x <= i /\ x <= left + 1 /\ x <= len /\ i \in Nat /\ x = NextBlock(b, j) /\ j \in S
      BY <1>1, <1>3, <1>5, <3>0
    <3>3. CASE x = i
      BY <1>12, <1>14, <2>1, <3>1, <3>2, <3>3
    <3>4. CASE x < i
      <4>1. x <= b.len
        BY <1>0, <3>2
      <4>2. x \in S
        BY <1>2, <3>2, <4>1 DEF Blocks
      <4> QED BY <1>12, <2>1, <3>1, <3>2, <3>4, <4>2
    <3> QED BY <1>3, <3>2, <3>3, <3>4
  <2>2. CASE j \in After
    <3>1. PICK x : x = NextBlock(c, j)
      OBVIOUS
    <3>2. x \in Nat /\ x > j /\ x + size = NextBlock(b, j + size) /\ j + size \in S /\ j \in 1 .. left /\ j >= i
      BY <1>13, <2>2, <3>1
    <3>3. x + size <= len + 1
      BY <1>0, <1>2, <3>2 DEF Blocks
    <3>4. x <= left + 1
      BY <1>3, <1>5, <3>2, <3>3
    <3>5. ASSUME x <= left PROVE x \in After
      <4>1. NextBlock(b, j + size) <= b.len
        BY <1>0, <1>3, <1>5, <3>2, <3>5
      <4>2. x + size \in S
        BY <1>2, <3>2, <4>1 DEF Blocks
      <4> QED BY <1>3, <1>5, <3>2, <3>5, <4>2
    <3> QED BY <1>13, <2>2, <3>1, <3>2, <3>4, <3>5
  <2> QED BY <2>1, <2>2
<1>16. ASSUME NEW j \in T, NEW l \in T, j < l PROVE NextBlock(c, j) <= l
  <2>1. CASE j \in Before /\ l \in Before
    BY <1>2, <1>12, <1>16, <2>1 DEF Blocks
  <2>2. CASE j \in Before /\ l \in After
    <3>1. NextBlock(c, j) \in Nat /\ NextBlock(c, j) <= i /\ i <= l /\ l \in Nat
      BY <1>12, <2>2
    <3> QED BY <1>3, <3>1
  <2>3. CASE j \in After /\ l \in After
    <3>1. j + size \in S /\ l + size \in S /\ j + size < l + size /\ l \in Nat
      BY <1>3, <1>16, <2>3
    <3>2. NextBlock(b, j + size) <= l + size
      BY <1>2, <3>1 DEF Blocks
    <3>3. NextBlock(c, j) + size = NextBlock(b, j + size) /\ NextBlock(c, j) \in Nat
      BY <1>13, <2>3
    <3> QED BY <1>3, <3>1, <3>2, <3>3
  <2>4. CASE j \in After /\ l \in Before
    BY <1>3, <1>12, <1>16, <2>4
  <2> QED BY <2>1, <2>2, <2>3, <2>4
<1>17. left > 0 => 1 \in T
  <2> SUFFICES ASSUME left > 0 PROVE 1 \in T
    OBVIOUS
  <2>1. 1 \in S
    BY <1>0, <1>2, <1>3, <1>5 DEF Blocks
  <2>2. CASE 1 < i
    BY <2>1, <2>2
  <2>3. CASE i = 1
    BY <1>14, <1>5, <2>3
  <2> QED BY <1>3, <2>2, <2>3
<1>18. Blocks(c, T)
  <2> HIDE DEF T
  <2> QED BY <1>11, <1>15, <1>16, <1>17 DEF Blocks
<1>19. BlocksFill(c)
  <2> HIDE DEF T
  <2> QED BY <1>11, <1>18, BlocksAreStarts
<1> QED BY <1>0, <1>1, <1>5, <1>10, <1>11, <1>19 DEF BlocksWithin

\* The first block of a key.
LEMMA FirstBlockOf ==
  ASSUME NEW b \in Buffer, NEW k, Of(b, k) # {}
  PROVE  Min(Of(b, k)) \in Starts(b) /\ b.mem[Min(Of(b, k))].key = k
<1>1. Of(b, k) \subseteq Starts(b) /\ \A i \in Of(b, k) : b.mem[i].key = k
  BY DEF Of
<1>2. b.len \in Nat /\ Starts(b) \subseteq 1 .. b.len
  BY StartsAreBlocks DEF Buffer
<1>3. Of(b, k) \subseteq Nat
  BY <1>1, <1>2
<1>4. Min(Of(b, k)) \in Of(b, k)
  BY <1>3, MinOfNaturals
<1> QED BY <1>1, <1>4

\* All blocks of a key less.
LEMMA RemoveAllFills ==
  ASSUME NEW b \in Buffer, BlocksFill(b), NEW k
  PROVE  BlocksWithin(RamRemoveAll(b, k), b.len)
<1> DEFINE T == {c \in Buffer : BlocksFill(c) /\ c.len <= b.len}
           Less(c) == IF Of(c, k) = {} THEN c ELSE RamRemove(c, Min(Of(c, k)))
           less == [p \in T \X Nat |-> Less(p[1])]
           All(f) == [n \in Nat |-> IF n = 0 THEN b ELSE Less(f[n - 1])]
           after == CHOOSE f : f = All(f)
<1>0. b.len \in Nat
  BY DEF Buffer
<1>1. b \in T
  BY <1>0
<1>2. ASSUME NEW c \in T PROVE Less(c) \in T
  <2>1. CASE Of(c, k) = {}
    BY <2>1
  <2>2. CASE Of(c, k) # {}
    <3>1. PICK r : r = RamRemove(c, Min(Of(c, k)))
      OBVIOUS
    <3>2. BlocksWithin(r, c.len)
      BY <2>2, <3>1, FirstBlockOf, RemoveFills
    <3>3. r \in Buffer /\ BlocksFill(r) /\ r.len <= c.len /\ r.len \in Nat /\ c.len \in Nat /\ c.len <= b.len
      BY <3>2 DEF BlocksWithin, Buffer
    <3>4. r.len <= b.len
      BY <1>0, <3>3
    <3>5. r \in T
      BY <3>3, <3>4
    <3> QED BY <2>2, <3>1, <3>5
  <2> QED BY <2>1, <2>2
<1> HIDE DEF Less
<1>3. less \in [T \X Nat -> T]
  <2> HIDE DEF T
  <2> QED BY <1>2
<1>4. PICK g : IsRecursion(g, T, b, less)
  <2> HIDE DEF T, less
  <2> QED BY <1>1, <1>3, NatRecursion
<1>5. g = All(g)
  <2> HIDE DEF T
  <2>1. g \in [Nat -> T] /\ g[0] = b
    BY <1>4 DEF IsRecursion
  <2>2. ASSUME NEW n \in Nat, n # 0 PROVE g[n] = Less(g[n - 1])
    <3>1. PICK m \in Nat : m = n - 1 /\ m + 1 = n
      BY <2>2
    <3>2. g[m + 1] = less[<<g[m], m>>] /\ g[m] \in T
      BY <1>4, <2>1, <3>1 DEF IsRecursion
    <3> QED BY <3>1, <3>2
  <2>3. \A n \in Nat : g[n] = IF n = 0 THEN b ELSE Less(g[n - 1])
    BY <2>1, <2>2
  <2>4. g = [n \in Nat |-> g[n]]
    BY <2>1
  <2> QED BY <2>3, <2>4
<1>6. RamRemoveAll(b, k) = after[b.len]
  BY DEF RamRemoveAll, Less
<1>7. after = All(after)
  <2> HIDE DEF All
  <2> QED BY <1>5
<1> HIDE DEF after, T
<1> DEFINE H == {n \in Nat : after[n] \in T}
<1>8. 0 \in H
  <2>1. after[0] = b
    BY <1>7
  <2> QED BY <1>1, <2>1
<1>9. ASSUME NEW n \in Nat, n \in H PROVE n + 1 \in H
  <2>1. after[n + 1] = Less(after[n])
    <3>1. n + 1 \in Nat /\ n + 1 # 0 /\ (n + 1) - 1 = n
      OBVIOUS
    <3> QED BY <1>7, <3>1
  <2> QED BY <1>2, <1>9, <2>1
<1>10. \A n \in Nat : n \in H
  <2> HIDE DEF H
  <2> QED BY <1>8, <1>9, SetInduction
<1>11. after[b.len] \in T
  BY <1>0, <1>10
<1> QED BY <1>6, <1>11 DEF T, BlocksWithin

\* The first block of a key written again, with as many bytes.
LEMMA OverwriteFills ==
  ASSUME NEW b \in Buffer, BlocksFill(b), NEW k \in Key, NEW n \in Nat, NEW byte \in Byte,
         SetInPlace(b, k, n)
  PROVE  BlocksWithin(RamOverwrite(b, k, n, byte), b.len) /\ RamOverwrite(b, k, n, byte).len = b.len
<1>0. PICK len, m, S, i, s : /\ len = b.len /\ m = b.mem /\ S = Starts(b) /\ i = Min(Of(b, k))
                             /\ s = Block(k, n, byte)
  OBVIOUS
<1>1. len \in Nat /\ m \in Seq(Cell) /\ Len(m) \in Nat /\ len <= Len(m)
  BY <1>0, LenProperties DEF Buffer
<1>2. Blocks(b, S)
  BY <1>0, StartsAreBlocks
<1>3. /\ i \in S /\ i \in 1 .. len /\ IsHeader(m[i]) /\ m[i].len = n /\ i + (n + 1) <= len + 1
      /\ NextBlock(b, i) = i + (n + 1)
  <2>1. i \in S /\ m[i].len = n
    BY <1>0, FirstBlockOf DEF SetInPlace
  <2>2. i \in 1 .. len /\ IsHeader(m[i]) /\ NextBlock(b, i) <= len + 1
    BY <1>0, <1>2, <2>1 DEF Blocks
  <2>3. NextBlock(b, i) = i + (n + 1)
    BY <1>0, <2>1 DEF NextBlock, Size
  <2> QED BY <2>1, <2>2, <2>3
<1>4. s \in Seq(Cell) /\ Len(s) = n + 1 /\ s[1] = [key |-> k, len |-> n]
  BY <1>0, BlockIs
<1>5. PICK w : w = Write(m, i, s)
  OBVIOUS
<1>6. /\ w \in Seq(Cell) /\ Len(w) = Len(m)
      /\ \A j \in 1 .. Len(w) : w[j] = IF i <= j /\ j <= i + n THEN s[j - i + 1] ELSE m[j]
  <2>1. i \in 1 .. Len(m) + 1 /\ i + Len(s) - 1 = i + n /\ i + n <= Len(m)
    BY <1>1, <1>3, <1>4
  <2>2. /\ w \in Seq(Cell)
        /\ Len(w) = IF i + Len(s) - 1 <= Len(m) THEN Len(m) ELSE i + Len(s) - 1
        /\ \A j \in 1 .. Len(w) :
             w[j] = IF i <= j /\ j <= i + Len(s) - 1 THEN s[j - i + 1] ELSE m[j]
    <3> HIDE <1>0
    <3> QED BY <1>1, <1>4, <1>5, <2>1, WriteIs, SMTT(20)
  <2> QED BY <2>1, <2>2
<1>7. PICK c : c = [b EXCEPT !.mem = w]
  OBVIOUS
<1>8. RamOverwrite(b, k, n, byte) = c
  BY <1>0, <1>5, <1>7 DEF RamOverwrite
<1>9. c \in Buffer /\ c.len = len /\ c.mem = w
  BY <1>0, <1>1, <1>6, <1>7 DEF Buffer
<1>10. ASSUME NEW j \in S
       PROVE  j \in 1 .. len /\ IsHeader(w[j]) /\ NextBlock(c, j) = NextBlock(b, j)
  <2>0. j \in 1 .. len /\ IsHeader(m[j]) /\ j \in 1 .. Len(w)
    BY <1>0, <1>1, <1>2, <1>6 DEF Blocks
  <2>1. CASE j = i
    <3>1. w[j] = s[1]
      <4>1. i <= j /\ j <= i + n /\ j - i + 1 = 1
        BY <1>3, <2>1
      <4>2. w[j] = s[j - i + 1]
        BY <1>6, <2>0, <4>1
      <4> QED BY <4>1, <4>2
    <3>2. w[j].len = n /\ IsHeader(w[j])
      BY <1>4, <3>1 DEF IsHeader
    <3> QED BY <1>0, <1>3, <1>9, <2>0, <2>1, <3>2 DEF NextBlock
  <2>2. CASE j # i
    <3>1. j < i \/ j > i + n
      <4>1. CASE j > i
        <5>1. NextBlock(b, i) <= j
          BY <1>2, <1>3, <4>1 DEF Blocks
        <5> QED BY <1>3, <2>0, <5>1
      <4> QED BY <1>3, <2>0, <2>2, <4>1
    <3>2. w[j] = m[j]
      BY <1>3, <1>6, <2>0, <3>1
    <3> QED BY <1>0, <1>9, <2>0, <3>2 DEF NextBlock
  <2> QED BY <2>1, <2>2
<1>11. Blocks(c, S)
  BY <1>0, <1>2, <1>9, <1>10 DEF Blocks
<1>12. BlocksFill(c)
  BY <1>9, <1>11, BlocksAreStarts
<1> QED BY <1>0, <1>1, <1>8, <1>9, <1>12 DEF BlocksWithin

\* otPlatSettingsDelete.
LEMMA DeleteFills ==
  ASSUME NEW b \in Buffer, BlocksFill(b), NEW k, NEW index \in Int
  PROVE  BlocksWithin(RamDelete(b, k, index), b.len)
<1>1. BlocksWithin(b, b.len)
  BY DEF BlocksWithin, Buffer
<1>2. CASE Of(b, k) = {}
  BY <1>1, <1>2 DEF RamDelete
<1>3. CASE Of(b, k) # {} /\ index = -1
  BY <1>3, RemoveAllFills DEF RamDelete
<1>4. CASE Of(b, k) # {} /\ index = 0
  <2>1. Min(Of(b, k)) \in Starts(b)
    BY <1>4, FirstBlockOf
  <2>2. RamDelete(b, k, index) = RamRemove(b, Min(Of(b, k)))
    BY <1>4 DEF RamDelete
  <2> QED BY <2>1, <2>2, RemoveFills
<1>5. CASE Of(b, k) # {} /\ index # -1 /\ index # 0
  BY <1>1, <1>5 DEF RamDelete
<1> QED BY <1>2, <1>3, <1>4, <1>5

-----------------------------------------------------------------------------
(* PdmSettings: the saves.                                                 *)

PdmTypes ==
  /\ PdmTypeOK /\ ram \in Buffer /\ maxLen \in Nat
  /\ flash \in Seq(Cell) /\ Len(flash) <= Region - 1
  /\ segment \in Seq(Cell) /\ Len(segment) <= Region - 1

\* Where the idle task is, the record, the segment or the length it took is that of
\* the buffer, unless a save is queued or a change was made that none follows.  An
\* empty buffer is not being saved.
Saves ==
  /\ ipc = "test" => queued \/ unsaved \/ flash = Content(ram)
  /\ ipc = "copy" => queued \/ unsaved \/ idleLen = ram.len
  /\ ipc = "write" => queued \/ unsaved \/ segment = Content(ram)
  /\ ram.len = 0 /\ ~unsaved => flash = << >> /\ ipc \in {"test", "len"}

\* A torn record was loaded, and no call has been made since.
Torn == ~queued /\ ipc = "test" /\ flash = Content(ram)

PdmInv == PdmTypes /\ Saves /\ (Intact \/ Torn)

\* What the idle task copies.
LEMMA PrefixIs ==
  ASSUME NEW b \in Buffer, NEW n \in Nat
  PROVE  /\ Prefix(b, n) \in Seq(Cell) /\ Len(Prefix(b, n)) = n
         /\ n = b.len => Prefix(b, n) = Content(b)
         /\ b.len = 0 => Content(b) = << >>
<1>1. b.mem \in Seq(Cell) /\ Len(b.mem) \in Nat
  BY LenProperties DEF Buffer
<1>2. ASSUME NEW i \in 1 .. n
      PROVE  (IF i <= Len(b.mem) THEN b.mem[i] ELSE [key |-> NoKey, len |-> 0]) \in Cell
  <2>1. CASE i <= Len(b.mem)
    BY <1>1, <2>1, ElementOfSeq
  <2>2. CASE ~(i <= Len(b.mem))
    BY <2>2 DEF Cell
  <2> QED BY <2>1, <2>2
<1>3. Prefix(b, n) \in Seq(Cell) /\ Len(Prefix(b, n)) = n
  BY <1>2 DEF Prefix
<1>4. b.len = 0 => Content(b) = << >>
  BY 1 .. 0 = {} DEF Content, Prefix
<1> QED BY <1>3, <1>4 DEF Content

\* What a restart loads.
LEMMA LoadedIs ==
  ASSUME NEW data \in Seq(Cell)
  PROVE  /\ [mem |-> data, len |-> Len(data)] \in Buffer
         /\ Content([mem |-> data, len |-> Len(data)]) = data
<1>1. Len(data) \in Nat /\ data = [i \in 1 .. Len(data) |-> data[i]]
  BY LenProperties
<1>2. [mem |-> data, len |-> Len(data)] \in Buffer
  BY <1>1 DEF Buffer
<1>3. Content([mem |-> data, len |-> Len(data)]) = [i \in 1 .. Len(data) |-> data[i]]
  BY <1>1 DEF Content, Prefix
<1> QED BY <1>1, <1>2, <1>3

\* As many blocks of r cells as needed for n cells, after m.
LEMMA EnoughSteps ==
  ASSUME NEW n \in Nat, NEW m \in Nat, NEW r \in Nat \ {0},
         NEW steps, steps = Min({j \in 0 .. n : m + j * r >= n})
  PROVE  steps \in Nat /\ m + steps * r >= n
<1> DEFINE S == {j \in 0 .. n : m + j * r >= n}
<1>1. n * r >= n
  OBVIOUS
<1>2. n \in S
  BY <1>1
<1>3. S \subseteq Nat /\ S # {}
  BY <1>2
<1>4. Min(S) \in S
  <2> HIDE DEF S
  <2> QED BY <1>3, MinOfNaturals
<1> QED BY <1>4

\* ramStorageResize makes no buffer smaller.
LEMMA ResizedGrows ==
  ASSUME PdmTypes, CanResize, NEW n \in Nat
  PROVE  Resized(n) \in Nat /\ Resized(n) >= maxLen
<1> USE PdmAssumption
<1>0. PICK need, steps :
        /\ need = ram.len + Size(n)
        /\ steps = Min({j \in 0 .. need : maxLen + j * ReallocSize >= need})
  OBVIOUS
<1>1. ram.len \in Nat /\ maxLen \in Nat /\ maxLen <= Region /\ Region \in Nat /\ ReallocSize \in Nat \ {0}
  BY DEF PdmTypes, Buffer, CanResize
<1>2. need \in Nat
  BY <1>0, <1>1 DEF Size
<1>3. steps \in Nat
  BY <1>0, <1>1, <1>2, EnoughSteps, ZenonT(20)
<1>4. steps * ReallocSize \in Nat
  BY <1>1, <1>3
<1>5. PICK S : S = {maxLen + steps * ReallocSize, Region}
  OBVIOUS
<1>6. S \subseteq Nat /\ S # {} /\ \A x \in S : x >= maxLen
  BY <1>1, <1>4, <1>5
<1>7. Min(S) \in S
  BY <1>6, MinOfNaturals
<1>8. Resized(n) = IF steps = 0 THEN maxLen ELSE Min(S)
  BY <1>0, <1>5 DEF Resized
<1>9. PICK x : x = Min(S)
  OBVIOUS
<1>10. x \in Nat /\ x >= maxLen
  BY <1>6, <1>7, <1>9
<1> QED BY <1>1, <1>8, <1>9, <1>10

LEMMA PdmInitially == PdmInit => PdmInv
<1> SUFFICES ASSUME PdmInit PROVE PdmInv
  OBVIOUS
<1> USE PdmAssumption
<1>1. /\ ram = [mem |-> << >>, len |-> 0] /\ flash = << >> /\ segment = << >> /\ queued = FALSE
      /\ ipc = "test" /\ idleLen = 0 /\ unsaved = FALSE /\ maxLen = InitSize
  BY DEF PdmInit, Empty
<1>2. << >> \in Seq(Cell) /\ Len(<< >>) = 0 /\ InitSize \in Nat /\ Region \in Nat \ {0}
  BY EmptySeq
<1>3. ram \in Buffer /\ Content(ram) = << >>
  BY <1>1, <1>2, LoadedIs
<1>4. PdmTypes
  <2>1. ram.len = 0 /\ Len(flash) = 0 /\ Len(segment) = 0 /\ 0 \in 0 .. Region - 1 /\ 0 <= maxLen /\ 0 <= Region - 1
    BY <1>1, <1>2
  <2>2. {queued, unsaved} \subseteq BOOLEAN
    BY <1>1
  <2> QED BY <1>1, <1>2, <1>3, <2>1, <2>2 DEF PdmTypes, PdmTypeOK
<1>5. Saves /\ Torn
  BY <1>1, <1>3 DEF Saves, Torn
<1> QED BY <1>4, <1>5 DEF PdmInv

\* A call leaves a filled buffer and queues a save.
LEMMA RequestKeeps ==
  ASSUME PdmInv, NEW b, NEW n \in Nat, BlocksWithin(b, n), b.len <= Region - 1, b.len <= maxLen', maxLen' \in Nat,
         Request(b)
  PROVE  PdmInv'
<1> USE PdmAssumption
<1>1. /\ ram' = b /\ queued' = TRUE /\ unsaved' = (b.len = 0)
      /\ flash' = flash /\ ipc' = ipc /\ idleLen' = idleLen /\ segment' = segment
  BY DEF Request, idleVars
<1>2. b \in Buffer /\ BlocksFill(b) /\ b.len \in Nat
  BY DEF BlocksWithin, Buffer
<1>3. PdmTypeOK'
  BY <1>1, <1>2 DEF PdmInv, PdmTypes, PdmTypeOK
<1>4. PdmTypes'
  BY <1>1, <1>2, <1>3 DEF PdmInv, PdmTypes, Buffer, Cell
<1>5. Saves'
  BY <1>1 DEF Saves
<1>6. Intact'
  BY <1>1, <1>2 DEF Intact
<1> QED BY <1>4, <1>5, <1>6 DEF PdmInv

\* The buffer and what was saved are left alone; the memory may be larger.
LEMMA ResizeKeeps ==
  ASSUME PdmInv, maxLen' \in Nat, maxLen' >= maxLen, UNCHANGED <<ram, queued, flash, idleVars, unsaved>>
  PROVE  PdmInv'
<1>1. UNCHANGED <<ram, queued, flash, ipc, idleLen, segment, unsaved>>
  BY DEF idleVars
<1>2. ram.len \in Nat
  BY DEF PdmInv, PdmTypes, Buffer
<1>3. PdmTypeOK' /\ PdmTypes'
  BY <1>1, <1>2 DEF PdmInv, PdmTypes, PdmTypeOK, Buffer, Cell
<1>4. Saves' /\ (Intact \/ Torn)'
  BY <1>1 DEF PdmInv, Saves, Intact, Torn
<1> QED BY <1>3, <1>4 DEF PdmInv

\* OpenThread's calls.
LEMMA CallKeepsPdm ==
  ASSUME PdmInv, OtCall
  PROVE  PdmInv'
<1> USE PdmAssumption
<1>0. /\ PdmTypes /\ ram \in Buffer /\ maxLen \in Nat /\ ram.len \in Nat /\ ram.len <= maxLen
      /\ ram.len <= Region - 1 /\ Region \in Nat
  BY DEF PdmInv, PdmTypes, PdmTypeOK, Buffer
<1>1. ASSUME NEW k \in Key, NEW n \in Length, NEW byte \in Byte, Add(k, n, byte) PROVE PdmInv'
  <2>1. n \in Nat /\ BlocksFill(ram) /\ CanResize /\ maxLen' = Resized(n)
        /\ CanAdd(ram, n, maxLen', Region) /\ Request(RamAdd(ram, k, n, byte))
    BY <1>1 DEF Add, Intact
  <2>2. maxLen' \in Nat
    BY <1>0, <2>1, ResizedGrows
  <2>3. PICK b, m : b = RamAdd(ram, k, n, byte) /\ m = ram.len + Size(n)
    OBVIOUS
  <2>4. BlocksWithin(b, m) /\ b.len = m /\ m \in Nat /\ m <= maxLen' /\ m < Region
    BY <1>0, <2>1, <2>3, AddFills DEF CanAdd, Size
  <2>5. b.len <= Region - 1
    BY <1>0, <2>4
  <2> QED BY <2>1, <2>2, <2>3, <2>4, <2>5, RequestKeeps
<1>2. ASSUME NEW k \in Key, NEW n \in Length, NEW byte \in Byte, SetSame(k, n, byte) PROVE PdmInv'
  <2>1. n \in Nat /\ BlocksFill(ram) /\ SetInPlace(ram, k, n) /\ maxLen' = maxLen
        /\ Request(RamOverwrite(ram, k, n, byte))
    BY <1>2 DEF SetSame, Intact
  <2>2. PICK b : b = RamOverwrite(ram, k, n, byte)
    OBVIOUS
  <2>3. BlocksWithin(b, ram.len) /\ b.len = ram.len
    BY <1>0, <2>1, <2>2, OverwriteFills
  <2> QED BY <1>0, <2>1, <2>2, <2>3, RequestKeeps
<1>3. ASSUME NEW k \in Key, NEW n \in Length, ResizeForSet(k, n), Of(ram, k) # {} => Min(Of(ram, k)) \in Starts(ram),
             BlocksFill(ram)
      PROVE  maxLen' \in Nat /\ maxLen' >= maxLen
  <2>1. CASE ~(Of(ram, k) # {} /\ ram.mem[Min(Of(ram, k))].len < n)
    <3>1. maxLen' = maxLen
      BY <1>3, <2>1 DEF ResizeForSet
    <3> QED BY <1>0, <3>1
  <2>2. CASE Of(ram, k) # {} /\ ram.mem[Min(Of(ram, k))].len < n
    <3>1. PICK i, old : i = Min(Of(ram, k)) /\ old = ram.mem[i].len
      OBVIOUS
    <3>2. CanResize /\ maxLen' = Resized(n - old)
      BY <1>3, <2>2, <3>1 DEF ResizeForSet
    <3>3. old \in Nat
      <4>1. i \in 1 .. ram.len /\ IsHeader(ram.mem[i])
        BY <1>0, <1>3, <2>2, <3>1, StartsAreBlocks DEF BlocksFill
      <4> QED BY <1>0, <3>1, <4>1, CellFacts
    <3>4. n - old \in Nat
      BY <2>2, <3>1, <3>3
    <3> QED BY <1>0, <3>2, <3>4, ResizedGrows
  <2> QED BY <2>1, <2>2
<1>4. ASSUME NEW k, BlocksFill(ram)
      PROVE  /\ Of(ram, k) # {} => Min(Of(ram, k)) \in Starts(ram)
             /\ BlocksWithin(RamRemoveAll(ram, k), ram.len)
  BY <1>0, <1>4, FirstBlockOf, RemoveAllFills
<1>5. ASSUME NEW k \in Key, NEW n \in Length, NEW byte \in Byte, Set(k, n, byte) PROVE PdmInv'
  <2>1. n \in Nat /\ BlocksFill(ram) /\ ResizeForSet(k, n)
    BY <1>5 DEF Set, Intact
  <2>2. maxLen' \in Nat
    BY <1>3, <1>4, <2>1
  <2>3. PICK rest, b, m : rest = RamRemoveAll(ram, k) /\ b = RamAdd(rest, k, n, byte) /\ m = rest.len + Size(n)
    OBVIOUS
  <2>4. CanAdd(rest, n, maxLen', Region) /\ Request(b)
    BY <1>5, <2>3 DEF Set
  <2>5. rest \in Buffer /\ BlocksFill(rest) /\ rest.len \in Nat
    BY <1>4, <2>1, <2>3 DEF BlocksWithin, Buffer
  <2>6. BlocksWithin(b, m) /\ b.len = m /\ m \in Nat /\ m <= maxLen' /\ m < Region
    BY <2>1, <2>3, <2>4, <2>5, AddFills DEF CanAdd, Size
  <2>7. b.len <= Region - 1
    BY <1>0, <2>6
  <2> QED BY <2>2, <2>4, <2>6, <2>7, RequestKeeps
<1>6. ASSUME NEW k \in Key, NEW n \in Length, AddRefused(k, n) PROVE PdmInv'
  <2>1. n \in Nat /\ CanResize /\ maxLen' = Resized(n) /\ UNCHANGED <<ram, queued, flash, idleVars, unsaved>>
    BY <1>6 DEF AddRefused
  <2>2. maxLen' \in Nat /\ maxLen' >= maxLen
    BY <1>0, <2>1, ResizedGrows
  <2> QED BY <2>1, <2>2, ResizeKeeps
<1>7. ASSUME NEW k \in Key, NEW n \in Length, SetRefused(k, n) PROVE PdmInv'
  <2>1. /\ BlocksFill(ram) /\ ResizeForSet(k, n) /\ ram' = RamRemoveAll(ram, k)
        /\ unsaved' = (unsaved \/ ram' # ram) /\ UNCHANGED <<queued, flash, ipc, idleLen, segment>>
    BY <1>7 DEF SetRefused, Intact, idleVars
  <2>2. maxLen' \in Nat /\ maxLen' >= maxLen
    BY <1>3, <1>4, <2>1
  <2>3. BlocksWithin(ram', ram.len)
    BY <1>4, <2>1
  <2>4. ram' \in Buffer /\ BlocksFill(ram') /\ ram'.len \in Nat /\ ram'.len <= ram.len
    BY <2>3 DEF BlocksWithin, Buffer
  <2>5. ram'.len \in 0 .. Region - 1 /\ ram'.len <= maxLen'
    BY <1>0, <2>2, <2>4
  <2>6. PdmTypes'
    BY <1>0, <2>1, <2>2, <2>4, <2>5 DEF PdmTypes, PdmTypeOK, Buffer, Cell
  <2>7. Saves'
    <3>1. CASE ram' = ram
      <4>1. unsaved' = unsaved
        BY <1>0, <2>1, <3>1 DEF PdmTypes, PdmTypeOK
      <4> QED BY <2>1, <3>1, <4>1 DEF PdmInv, Saves
    <3>2. CASE ram' # ram
      BY <2>1, <3>2 DEF Saves
    <3> QED BY <3>1, <3>2
  <2>8. Intact'
    BY <2>4 DEF Intact
  <2> QED BY <2>6, <2>7, <2>8 DEF PdmInv
<1>8. ASSUME NEW k \in Key, NEW index \in -1 .. MaxIndex, Delete(k, index) PROVE PdmInv'
  <2>1. BlocksFill(ram) /\ Request(RamDelete(ram, k, index)) /\ maxLen' = maxLen /\ index \in Int
    BY <1>8 DEF Delete, Intact
  <2>2. PICK b : b = RamDelete(ram, k, index)
    OBVIOUS
  <2>3. BlocksWithin(b, ram.len)
    BY <1>0, <2>1, <2>2, DeleteFills
  <2>4. b.len \in Nat /\ b.len <= ram.len
    BY <2>3 DEF BlocksWithin, Buffer
  <2>5. b.len <= Region - 1 /\ b.len <= maxLen
    BY <1>0, <2>4
  <2> QED BY <1>0, <2>1, <2>2, <2>3, <2>5, RequestKeeps
<1>9. CASE Wipe
  <2>1. /\ ram' = [mem |-> << >>, len |-> 0] /\ flash' = << >> /\ unsaved' = (ipc \in {"copy", "write"})
        /\ UNCHANGED <<maxLen, queued, ipc, idleLen, segment>>
    BY <1>9 DEF Wipe, Empty, idleVars
  <2>2. << >> \in Seq(Cell) /\ Len(<< >>) = 0
    BY EmptySeq
  <2>3. ram' \in Buffer /\ Content(ram') = << >> /\ ram'.len = 0
    BY <2>1, <2>2, LoadedIs
  <2>4. Content(ram)' = << >>
    BY <2>3 DEF Content, Prefix
  <2>5. PdmTypes'
    <3>1. 0 \in 0 .. Region - 1 /\ 0 <= maxLen /\ 0 <= Region - 1
      BY <1>0
    <3> QED BY <1>0, <2>1, <2>2, <2>3, <3>1 DEF PdmTypes, PdmTypeOK, Buffer, Cell
  <2>6. Saves'
    BY <1>0, <2>1, <2>4 DEF Saves, PdmTypes, PdmTypeOK
  <2>7. BlocksFill(ram')
    <3>1. Starts(ram') = {}
      <4>1. Starts(ram') \subseteq 1 .. ram'.len
        BY <2>3, StartsAreBlocks
      <4> QED BY <2>3, <4>1
    <3> QED BY <3>1 DEF BlocksFill
  <2>8. Intact'
    BY <2>7 DEF Intact
  <2> QED BY <2>5, <2>6, <2>8 DEF PdmInv
<1> QED BY <1>1, <1>2, <1>5, <1>6, <1>7, <1>8, <1>9 DEF OtCall

\* The idle task's steps; a restart.
LEMMA IdleKeepsPdm ==
  ASSUME PdmInv, PdmIdleStep
  PROVE  PdmInv'
<1> USE PdmAssumption
<1>0. /\ PdmTypes /\ Saves /\ ram \in Buffer /\ ram.len \in 0 .. Region - 1 /\ idleLen \in 0 .. Region - 1
      /\ Region \in Nat \ {0} /\ ram' = ram /\ maxLen' = maxLen /\ unsaved' = unsaved
      /\ << >> \in Seq(Cell) /\ Len(<< >>) = 0 /\ 0 \in 0 .. Region - 1 /\ Len(<< >>) <= Region - 1
  BY EmptySeq DEF PdmInv, PdmTypes, PdmTypeOK, PdmIdleStep, IdlePop, IdleLength, IdleCopy, IdleWrite, IdleFails
<1>1. Content(ram)' = Content(ram)
  BY <1>0 DEF Content, Prefix
<1>2. Intact
  BY DEF PdmInv, Torn, PdmIdleStep, IdlePop, IdleLength, IdleCopy, IdleWrite, IdleFails
<1>3. Intact'
  BY <1>0, <1>2 DEF Intact
<1>4. PdmTypes'
  <2>1. CASE IdlePop
    BY <1>0, <2>1 DEF IdlePop, PdmTypes, PdmTypeOK, Buffer, Cell
  <2>2. CASE IdleLength
    BY <1>0, <2>2 DEF IdleLength, PdmTypes, PdmTypeOK, Buffer, Cell
  <2>3. CASE IdleCopy
    <3>1. segment' = Prefix(ram, idleLen) /\ Prefix(ram, idleLen) \in Seq(Cell) /\ Len(Prefix(ram, idleLen)) = idleLen
      BY <1>0, <2>3, PrefixIs DEF IdleCopy
    <3>2. segment' \in Seq(Cell) /\ Len(segment') <= Region - 1
      BY <1>0, <3>1
    <3>3. ipc' = "write" /\ UNCHANGED <<queued, flash, idleLen>>
      BY <2>3 DEF IdleCopy
    <3> QED BY <1>0, <3>2, <3>3 DEF PdmTypes, PdmTypeOK, Buffer, Cell
  <2>4. CASE IdleWrite
    BY <1>0, <2>4 DEF IdleWrite, Loop, PdmTypes, PdmTypeOK, Buffer, Cell
  <2>5. CASE IdleFails
    BY <1>0, <2>5 DEF IdleFails, Loop, PdmTypes, PdmTypeOK, Buffer, Cell
  <2> QED BY <2>1, <2>2, <2>3, <2>4, <2>5 DEF PdmIdleStep
<1>5. Saves'
  <2>1. CASE IdlePop
    BY <1>0, <1>1, <2>1 DEF IdlePop, Saves
  <2>2. CASE IdleLength
    <3>1. ram.len = 0 => Content(ram) = << >>
      BY <1>0, PrefixIs
    <3> QED BY <1>0, <1>1, <2>2, <3>1 DEF IdleLength, Saves
  <2>3. CASE IdleCopy
    <3>1. idleLen = ram.len => Prefix(ram, idleLen) = Content(ram)
      BY <1>0, PrefixIs
    <3> QED BY <1>0, <1>1, <2>3, <3>1 DEF IdleCopy, Saves
  <2>4. CASE IdleWrite
    BY <1>0, <1>1, <2>4 DEF IdleWrite, Loop, Saves
  <2>5. CASE IdleFails
    BY <1>0, <1>1, <2>5 DEF IdleFails, Loop, Saves
  <2> QED BY <2>1, <2>2, <2>3, <2>4, <2>5 DEF PdmIdleStep
<1> QED BY <1>3, <1>4, <1>5 DEF PdmInv

LEMMA RestartKeepsPdm ==
  ASSUME PdmInv, NEW data \in {flash, << >>}, PdmRestart(data)
  PROVE  PdmInv'
<1> USE PdmAssumption
<1>0. /\ flash \in Seq(Cell) /\ Len(flash) \in Nat /\ Len(flash) <= Region - 1 /\ Region \in Nat \ {0}
      /\ InitSize \in Nat /\ ReallocSize \in Nat \ {0} /\ << >> \in Seq(Cell) /\ Len(<< >>) = 0
  BY EmptySeq, LenProperties DEF PdmInv, PdmTypes
<1>1. data \in Seq(Cell) /\ Len(data) \in Nat /\ Len(data) <= Len(flash)
  <2>1. CASE data = flash
    BY <1>0, <2>1
  <2>2. CASE data = << >>
    <3>1. Len(data) = 0
      BY <1>0, <2>2
    <3> QED BY <1>0, <2>2, <3>1
  <2> QED BY <2>1, <2>2
<1>2. PICK S, steps : S = {j \in 0 .. Len(flash) : InitSize + j * ReallocSize >= Len(flash)} /\ steps = Min(S)
  OBVIOUS
<1>3. steps \in Nat /\ InitSize + steps * ReallocSize >= Len(flash)
  BY <1>0, <1>2, EnoughSteps
<1>4. /\ ram' = [mem |-> data, len |-> Len(data)] /\ flash' = data /\ maxLen' = InitSize + ReallocSize * steps
      /\ queued' = FALSE /\ unsaved' = FALSE /\ ipc' = "test" /\ idleLen' = 0 /\ segment' = << >>
  BY <1>2 DEF PdmRestart, Loop
<1>5. ReallocSize * steps = steps * ReallocSize /\ steps * ReallocSize \in Nat
  BY <1>0, <1>3
<1>6. maxLen' \in Nat /\ Len(data) <= maxLen' /\ Len(data) \in 0 .. Region - 1
  BY <1>0, <1>1, <1>3, <1>4, <1>5
<1>7. ram' \in Buffer /\ Content(ram)' = data /\ ram'.len = Len(data)
  <2>1. Content(ram') = data
    BY <1>1, <1>4, LoadedIs
  <2> QED BY <1>1, <1>4, <2>1, LoadedIs DEF Content, Prefix
<1>8. PdmTypes'
  <2>0. {queued', unsaved'} \subseteq BOOLEAN
    BY <1>4
  <2>1. {queued', unsaved'} \subseteq BOOLEAN /\ 0 \in 0 .. Region - 1 /\ Len(<< >>) <= Region - 1
    BY <1>0, <2>0
  <2>2. Len(data) <= Region - 1
    BY <1>0, <1>1
  <2> QED BY <1>0, <1>1, <1>4, <1>6, <1>7, <2>1, <2>2 DEF PdmTypes, PdmTypeOK, Buffer, Cell
<1>9. Saves'
  <2>1. ram'.len = 0 => data = << >>
    BY <1>1, <1>7, EmptySeq
  <2> QED BY <1>4, <1>7, <2>1 DEF Saves
<1>10. Torn'
  BY <1>4, <1>7 DEF Torn
<1> QED BY <1>8, <1>9, <1>10 DEF PdmInv

LEMMA PdmStep == PdmInv /\ [PdmNext]_pdmVars => PdmInv'
<1> SUFFICES ASSUME PdmInv, [PdmNext]_pdmVars PROVE PdmInv'
  OBVIOUS
<1>1. CASE UNCHANGED pdmVars
  BY <1>1 DEF pdmVars, idleVars, PdmInv, PdmTypes, PdmTypeOK, Buffer, Cell, Saves, Torn, Intact, Content, Prefix
<1> QED BY <1>1, CallKeepsPdm, IdleKeepsPdm, RestartKeepsPdm DEF PdmNext

LEMMA PdmInvSound == PdmInv => PdmTypeOK /\ PdmUpToDate /\ BlocksFit
BY DEF PdmInv, PdmTypes, Saves, Torn, PdmUpToDate, BlocksFit

-----------------------------------------------------------------------------
(* PdmQueue: the queue of saves.                                           *)

\* What the argument needs, and MCK32w has: fewer ids than the queue has slots.
\* The queue is never tested for being full (pdm_queue_full).
RoomForAll == IsFiniteSet(Id) /\ Cardinality(Id) < QueueSize

Slots == 0 .. QueueSize - 1

\* How far slot j is from slot r, the way the pointers go.
SlotsFrom(r, j) == IF j < r THEN j + QueueSize - r ELSE j - r

\* The slots between the pointers.
InQueue(i) == i \in Slots /\ SlotsFrom(rd, i) < SlotsFrom(rd, wr)

\* The id that a saves.
SavedBy(a) == IF a = Idle THEN current ELSE a

QueueTypes ==
  /\ asQueue \in [Slots -> Id \cup {NoId}] /\ rd \in Slots /\ wr \in Slots
  /\ qMutex \in TaskId \cup {Idle, NoId}
  /\ DOMAIN bufMutex = Id
  /\ changed \subseteq Id /\ preempted \in BOOLEAN
  /\ pc \in [TaskId \cup {Idle} -> {"out", "change", "save", "look", "advance", "done", "pop", "copy", "write"}]
  /\ pc[Idle] \in {"pop", "copy", "write", "save", "look", "advance"} => current \in Id

\* The slots between the pointers hold one id each, and each another one.
QueueHolds ==
  /\ \A i \in Slots : InQueue(i) => asQueue[i] \in Id
  /\ \A i, j \in Slots : InQueue(i) /\ InQueue(j) /\ asQueue[i] = asQueue[j] => i = j
  /\ SlotsFrom(rd, wr) = Cardinality(Entered)

\* Until the interrupt breaks into a call: who is between the lock and the unlock
\* holds the mutex, and the slot or the entry it is about to take is as it found it.
QueueLocked ==
  /\ \A a \in TaskId \cup {Idle} :
       /\ pc[a] \in {"look", "advance", "pop"} => qMutex = a
       /\ pc[a] = "advance" => asQueue[wr] = SavedBy(a) /\ SavedBy(a) \notin Entered
  /\ pc[Idle] = "pop" => rd # wr /\ asQueue[rd] = current

QueueInv ==
  /\ QueueTypes /\ QueueHolds /\ SaveOnItsWay
  /\ ~preempted => QueueLocked

\* Entered, without the remainder.
LEMMA EnteredIs ==
  ASSUME rd \in Slots, wr \in Slots
  PROVE  /\ Entered = {asQueue[i] : i \in {j \in Slots : InQueue(j)}}
         /\ (wr + QueueSize - rd) % QueueSize = SlotsFrom(rd, wr)
<1> USE QueueAssumption
<1>1. ASSUME NEW r \in Slots, NEW j \in Slots
      PROVE  (j + QueueSize - r) % QueueSize = SlotsFrom(r, j)
  <2>1. PICK a : a = j + QueueSize - r
    OBVIOUS
  <2>2. /\ a \in 0 .. 3 * QueueSize - 1 /\ a < 2 * QueueSize
        /\ a < QueueSize <=> j < r
        /\ a - QueueSize = j - r
    BY <2>1 DEF Slots
  <2>3. (a % QueueSize) = IF a < QueueSize THEN a ELSE IF a < 2 * QueueSize THEN a - QueueSize ELSE a - 2 * QueueSize
    BY <2>2, ModSmall
  <2>4. (a % QueueSize) = IF j < r THEN a ELSE j - r
    BY <2>2, <2>3
  <2> QED BY <2>1, <2>4 DEF SlotsFrom
<1>2. {j \in 0 .. QueueSize - 1 : (j + QueueSize - rd) % QueueSize < (wr + QueueSize - rd) % QueueSize}
      = {j \in Slots : InQueue(j)}
  BY <1>1 DEF InQueue, Slots
<1> QED BY <1>1, <1>2 DEF Entered

\* The next slot.
LEMMA IncIs ==
  ASSUME NEW p \in Slots
  PROVE  Inc(p) \in Slots /\ Inc(p) = IF p = QueueSize - 1 THEN 0 ELSE p + 1
BY QueueAssumption DEF Inc, Slots

LEMMA QueueInitially == RoomForAll /\ QueueInit => QueueInv
<1> SUFFICES ASSUME RoomForAll, QueueInit PROVE QueueInv
  OBVIOUS
<1>1. QueueTypes
  <2>1. 0 \in Slots
    BY QueueAssumption DEF Slots
  <2>2. asQueue \in [Slots -> Id \cup {NoId}] /\ rd \in Slots /\ wr \in Slots
    BY <2>1 DEF QueueInit, Slots
  <2>3. pc[Idle] = "out"
    BY DEF QueueInit
  <2> QED BY <2>2, <2>3 DEF QueueInit, QueueTypes
<1>2. rd \in Slots /\ wr \in Slots /\ \A i \in Slots : ~InQueue(i)
  BY QueueAssumption DEF QueueInit, Slots, InQueue, SlotsFrom
<1>3. Entered = {}
  BY <1>2, EnteredIs
<1>4. SlotsFrom(rd, wr) = Cardinality(Entered)
  BY <1>3, FS_EmptySet, QueueAssumption DEF QueueInit, SlotsFrom
<1>5. QueueLocked /\ SaveOnItsWay
  BY DEF QueueInit, QueueLocked, SaveOnItsWay
<1> QED BY <1>1, <1>2, <1>4, <1>5 DEF QueueInv, QueueHolds

\* The slot at the write pointer is written and taken in: the id was not in the
\* queue, so there is a slot left.
LEMMA EntryPushed ==
  ASSUME RoomForAll, QueueTypes, QueueHolds, NEW id \in Id, id \notin Entered,
         asQueue' = [asQueue EXCEPT ![wr] = id], wr' = Inc(wr), rd' = rd
  PROVE  QueueHolds' /\ Entered' = Entered \cup {id} /\ wr' \in Slots /\ wr' # rd
<1> USE QueueAssumption
<1>1. rd \in Slots /\ wr \in Slots /\ asQueue \in [Slots -> Id \cup {NoId}]
  BY DEF QueueTypes
<1>2. wr' \in Slots /\ wr' = IF wr = QueueSize - 1 THEN 0 ELSE wr + 1
  BY <1>1, IncIs
<1>3. Entered = {asQueue[i] : i \in {j \in Slots : InQueue(j)}}
  BY <1>1, EnteredIs
<1>4. Entered' = {asQueue'[i] : i \in {j \in Slots : InQueue(j)'}}
  <2>1. rd' \in Slots /\ wr' \in Slots
    BY <1>1, <1>2
  <2>2. (rd \in Slots /\ wr \in Slots => Entered = {asQueue[i] : i \in {j \in Slots : InQueue(j)}})'
    BY EnteredIs, PTL
  <2> QED BY <2>1, <2>2 DEF Slots
<1>5. IsFiniteSet(Entered) /\ Cardinality(Entered \cup {id}) = Cardinality(Entered) + 1
      /\ Cardinality(Entered) \in Nat /\ Cardinality(Entered) + 1 < QueueSize
  <2>1. Entered \subseteq Id
    BY <1>3 DEF QueueHolds
  <2>2. IsFiniteSet(Entered) /\ IsFiniteSet(Entered \cup {id}) /\ Entered \cup {id} \subseteq Id
    BY <2>1, FS_Subset DEF RoomForAll
  <2>3. Cardinality(Entered \cup {id}) = Cardinality(Entered) + 1 /\ Cardinality(Entered) \in Nat
    BY <2>2, FS_AddElement, FS_CardinalityType
  <2>4. Cardinality(Entered \cup {id}) <= Cardinality(Id) /\ Cardinality(Id) \in Nat
    BY <2>2, FS_Subset, FS_CardinalityType DEF RoomForAll
  <2> QED BY <2>2, <2>3, <2>4 DEF RoomForAll
<1>6. SlotsFrom(rd, wr) + 1 < QueueSize
  BY <1>5 DEF QueueHolds
<1>7. SlotsFrom(rd, wr)' = SlotsFrom(rd, wr) + 1 /\ wr' # rd
  BY <1>1, <1>2, <1>6 DEF SlotsFrom, Slots
<1>8. \A i \in Slots : InQueue(i)' <=> InQueue(i) \/ i = wr
  BY <1>1, <1>2, <1>6, <1>7 DEF InQueue, SlotsFrom, Slots
<1>9. ~InQueue(wr)
  BY <1>1 DEF InQueue, SlotsFrom, Slots
<1>10. \A i \in Slots : asQueue'[i] = IF i = wr THEN id ELSE asQueue[i]
  BY <1>1
<1>11. Entered' = Entered \cup {id}
  BY <1>1, <1>3, <1>4, <1>8, <1>9, <1>10
<1>12. (SlotsFrom(rd, wr) = Cardinality(Entered))'
  BY <1>5, <1>7, <1>11 DEF QueueHolds
<1>13. \A i \in Slots : InQueue(i)' => asQueue'[i] \in Id
  BY <1>8, <1>10 DEF QueueHolds
<1>14. \A i, j \in Slots : InQueue(i)' /\ InQueue(j)' /\ asQueue'[i] = asQueue'[j] => i = j
  <2> SUFFICES ASSUME NEW i \in Slots, NEW j \in Slots, InQueue(i)', InQueue(j)', asQueue'[i] = asQueue'[j]
               PROVE  i = j
    OBVIOUS
  <2>1. \A k \in Slots : InQueue(k) => asQueue[k] # id
    BY <1>3
  <2> QED BY <1>8, <1>9, <1>10, <2>1 DEF QueueHolds
<1>15. QueueHolds'
  BY <1>12, <1>13, <1>14 DEF QueueHolds, Slots
<1> QED BY <1>2, <1>7, <1>11, <1>15

\* The slot at the read pointer is let go.
LEMMA EntryPopped ==
  ASSUME RoomForAll, QueueTypes, QueueHolds, rd # wr, asQueue' = asQueue, wr' = wr, rd' = Inc(rd)
  PROVE  QueueHolds' /\ Entered' = Entered \ {asQueue[rd]} /\ asQueue[rd] \in Id /\ rd' \in Slots
<1> USE QueueAssumption
<1>1. rd \in Slots /\ wr \in Slots /\ asQueue \in [Slots -> Id \cup {NoId}]
  BY DEF QueueTypes
<1>2. rd' \in Slots /\ rd' = IF rd = QueueSize - 1 THEN 0 ELSE rd + 1
  BY <1>1, IncIs
<1>3. Entered = {asQueue[i] : i \in {j \in Slots : InQueue(j)}}
  BY <1>1, EnteredIs
<1>4. Entered' = {asQueue'[i] : i \in {j \in Slots : InQueue(j)'}}
  <2>1. rd' \in Slots /\ wr' \in Slots
    BY <1>1, <1>2
  <2>2. (rd \in Slots /\ wr \in Slots => Entered = {asQueue[i] : i \in {j \in Slots : InQueue(j)}})'
    BY EnteredIs, PTL
  <2> QED BY <2>1, <2>2 DEF Slots
<1>5. SlotsFrom(rd, wr)' = SlotsFrom(rd, wr) - 1
  BY <1>1, <1>2 DEF SlotsFrom, Slots
<1>6. InQueue(rd) /\ \A i \in Slots : InQueue(i)' <=> InQueue(i) /\ i # rd
  BY <1>1, <1>2 DEF InQueue, SlotsFrom, Slots
<1>7. asQueue[rd] \in Entered /\ asQueue[rd] \in Id
  BY <1>1, <1>3, <1>6 DEF QueueHolds
<1>8. Entered' = Entered \ {asQueue[rd]}
  BY <1>1, <1>3, <1>4, <1>6 DEF QueueHolds
<1>9. IsFiniteSet(Entered)
  <2>1. Entered \subseteq Id
    BY <1>3 DEF QueueHolds
  <2> QED BY <2>1, FS_Subset DEF RoomForAll
<1>10. (SlotsFrom(rd, wr) = Cardinality(Entered))'
  BY <1>5, <1>7, <1>8, <1>9, FS_RemoveElement DEF QueueHolds
<1>11. QueueHolds'
  <2>1. \A i \in Slots : InQueue(i)' => asQueue'[i] \in Id
    BY <1>6 DEF QueueHolds
  <2>2. \A i, j \in Slots : InQueue(i)' /\ InQueue(j)' /\ asQueue'[i] = asQueue'[j] => i = j
    BY <1>6 DEF QueueHolds
  <2> QED BY <1>10, <2>1, <2>2 DEF QueueHolds, Slots
<1> QED BY <1>2, <1>7, <1>8, <1>11

\* What is kept while the slots between the pointers are.
LEMMA EntriesKept ==
  ASSUME QueueTypes, QueueHolds, rd' = rd, wr' = wr, asQueue' \in [Slots -> Id \cup {NoId}],
         \A i \in Slots : i # wr => asQueue'[i] = asQueue[i]
  PROVE  QueueHolds' /\ Entered' = Entered
<1> USE QueueAssumption
<1>1. rd \in Slots /\ wr \in Slots
  BY DEF QueueTypes
<1>2. Entered = {asQueue[i] : i \in {j \in Slots : InQueue(j)}}
  BY <1>1, EnteredIs
<1>3. Entered' = {asQueue'[i] : i \in {j \in Slots : InQueue(j)'}}
  <2>2. (rd \in Slots /\ wr \in Slots => Entered = {asQueue[i] : i \in {j \in Slots : InQueue(j)}})'
    BY EnteredIs, PTL
  <2> QED BY <1>1, <2>2 DEF Slots
<1>4. \A i \in Slots : (InQueue(i)' <=> InQueue(i)) /\ (InQueue(i) => i # wr)
  BY <1>1 DEF InQueue, SlotsFrom, Slots
<1>5. Entered' = Entered
  BY <1>2, <1>3, <1>4
<1>6. SlotsFrom(rd, wr)' = SlotsFrom(rd, wr)
  BY DEF SlotsFrom
<1>7. QueueHolds'
  <2>1. \A i \in Slots : InQueue(i)' => asQueue'[i] \in Id
    BY <1>4 DEF QueueHolds
  <2>2. \A i, j \in Slots : InQueue(i)' /\ InQueue(j)' /\ asQueue'[i] = asQueue'[j] => i = j
    BY <1>4 DEF QueueHolds
  <2> QED BY <1>5, <1>6, <2>1, <2>2 DEF QueueHolds, Slots
<1> QED BY <1>5, <1>7

\* Who is between the lock and the unlock is alone there.
LEMMA LockedAlone ==
  ASSUME QueueLocked, NEW a \in TaskId \cup {Idle}, NEW b \in TaskId \cup {Idle},
         pc[a] \in {"look", "advance", "pop"}, pc[b] \in {"look", "advance", "pop"}
  PROVE  a = b
BY DEF QueueLocked

\* A step of the entering of an id, by a task or again by the idle task.
LEMMA SaveKeeps ==
  ASSUME RoomForAll, QueueInv, ~preempted, NEW a \in TaskId \cup {Idle}, Save(a, SavedBy(a)),
         a = Idle => pc[a] \in {"save", "look", "advance"}
  PROVE  QueueInv'
<1> USE QueueAssumption
<1>0. /\ QueueTypes /\ QueueHolds /\ QueueLocked /\ SaveOnItsWay
      /\ Idle \notin TaskId /\ NoId \notin TaskId /\ NoId # Idle
  BY DEF QueueInv, Id
<1>1. SavedBy(a) \in Id
  BY <1>0 DEF QueueTypes, SavedBy, Id
<1>2. CASE SaveLock(a, SavedBy(a))
  <2>1. /\ pc[a] = "save" /\ qMutex = NoId /\ qMutex' = a /\ pc' = [pc EXCEPT ![a] = "look"]
        /\ UNCHANGED <<asQueue, rd, wr, bufMutex, changed, current, preempted>>
    BY <1>2 DEF SaveLock, Goes
  <2>2. QueueHolds' /\ Entered' = Entered
    BY <1>0, <2>1, EntriesKept DEF QueueTypes
  <2>3. QueueTypes'
    BY <1>0, <2>1 DEF QueueTypes, Slots
  <2>4. QueueLocked'
    BY <1>0, <2>1, <2>2 DEF QueueLocked, QueueTypes, SavedBy
  <2>5. SaveOnItsWay'
    BY <1>0, <2>1, <2>2 DEF SaveOnItsWay, QueueTypes
  <2> QED BY <2>2, <2>3, <2>4, <2>5 DEF QueueInv
<1>3. CASE SaveLook(a, SavedBy(a)) /\ SavedBy(a) \in Entered
  <2>1. /\ pc[a] = "look" /\ qMutex' = NoId /\ pc' = [pc EXCEPT ![a] = "done"]
        /\ UNCHANGED <<asQueue, rd, wr, bufMutex, changed, current, preempted>>
    BY <1>3 DEF SaveLook, SaveDone, Goes
  <2>2. QueueHolds' /\ Entered' = Entered
    BY <1>0, <2>1, EntriesKept DEF QueueTypes
  <2>3. QueueTypes'
    BY <1>0, <2>1 DEF QueueTypes, Slots
  <2>4. QueueLocked'
    BY <1>0, <2>1, <2>2, LockedAlone DEF QueueLocked, QueueTypes, SavedBy
  <2>5. SaveOnItsWay'
    BY <1>0, <1>3, <2>1, <2>2 DEF SaveOnItsWay, QueueTypes, SavedBy
  <2> QED BY <2>2, <2>3, <2>4, <2>5 DEF QueueInv
<1>4. CASE SaveLook(a, SavedBy(a)) /\ SavedBy(a) \notin Entered
  <2>1. /\ pc[a] = "look" /\ asQueue' = [asQueue EXCEPT ![wr] = SavedBy(a)] /\ pc' = [pc EXCEPT ![a] = "advance"]
        /\ UNCHANGED <<rd, wr, qMutex, bufMutex, changed, current, preempted>>
    BY <1>4 DEF SaveLook, SaveDone, Goes
  <2>2. wr \in Slots /\ asQueue \in [Slots -> Id \cup {NoId}]
    BY <1>0 DEF QueueTypes
  <2>3. asQueue' \in [Slots -> Id \cup {NoId}] /\ asQueue'[wr] = SavedBy(a)
        /\ \A i \in Slots : i # wr => asQueue'[i] = asQueue[i]
    BY <1>1, <2>1, <2>2
  <2>4. QueueHolds' /\ Entered' = Entered
    BY <1>0, <2>1, <2>3, EntriesKept
  <2>5. QueueTypes'
    BY <1>0, <2>1, <2>3 DEF QueueTypes, Slots
  <2>6. QueueLocked'
    BY <1>0, <1>4, <2>1, <2>3, <2>4, LockedAlone DEF QueueLocked, QueueTypes, SavedBy
  <2>7. SaveOnItsWay'
    BY <1>0, <2>1, <2>4 DEF SaveOnItsWay, QueueTypes
  <2> QED BY <2>4, <2>5, <2>6, <2>7 DEF QueueInv
<1>5. CASE SaveAdvance(a)
  <2>1. /\ pc[a] = "advance" /\ wr' = Inc(wr) /\ qMutex' = NoId /\ pc' = [pc EXCEPT ![a] = "done"]
        /\ UNCHANGED <<asQueue, rd, bufMutex, changed, current, preempted>>
    BY <1>5 DEF SaveAdvance, SaveDone, Goes
  <2>2. asQueue[wr] = SavedBy(a) /\ SavedBy(a) \notin Entered
    BY <1>0, <2>1 DEF QueueLocked
  <2>3. asQueue' = [asQueue EXCEPT ![wr] = SavedBy(a)]
    BY <1>0, <2>1, <2>2 DEF QueueTypes
  <2>4. QueueHolds' /\ Entered' = Entered \cup {SavedBy(a)} /\ wr' \in Slots
    BY <1>0, <1>1, <2>1, <2>2, <2>3, EntryPushed
  <2>5. QueueTypes'
    BY <1>0, <2>1, <2>4 DEF QueueTypes, Slots
  <2>6. QueueLocked'
    BY <1>0, <2>1, LockedAlone DEF QueueLocked, QueueTypes
  <2>7. SaveOnItsWay'
    BY <1>0, <2>1, <2>4 DEF SaveOnItsWay, QueueTypes, SavedBy
  <2> QED BY <2>4, <2>5, <2>6, <2>7 DEF QueueInv
<1> QED BY <1>2, <1>3, <1>4, <1>5 DEF Save

\* A settings call enters and leaves its buffer's mutex.
LEMMA TaskKeeps ==
  ASSUME RoomForAll, QueueInv, ~preempted, NEW id \in TaskId, TaskStep(id)
  PROVE  QueueInv'
<1> USE QueueAssumption
<1>0. /\ QueueTypes /\ QueueHolds /\ QueueLocked /\ SaveOnItsWay
      /\ Idle \notin TaskId /\ NoId \notin TaskId /\ NoId # Idle /\ id \in Id /\ id # Idle
  BY DEF QueueInv, Id
<1>1. CASE Save(id, id)
  BY <1>0, <1>1, SaveKeeps DEF SavedBy
<1>2. CASE QueueCall(id) \/ Change(id) \/ Return(id)
  <2>1. /\ UNCHANGED <<asQueue, rd, wr, qMutex, current, preempted>>
        /\ DOMAIN bufMutex' = Id /\ changed' \subseteq changed \cup {id}
        /\ \E l : /\ pc' = [pc EXCEPT ![id] = l] /\ l \in {"out", "change", "save"}
                  /\ changed' # changed => l = "save"
        /\ pc[id] \notin {"save", "look", "advance"}
    BY <1>0, <1>2 DEF QueueCall, Change, Return, Goes, QueueTypes
  <2>2. QueueHolds' /\ Entered' = Entered
    BY <1>0, <2>1, EntriesKept DEF QueueTypes
  <2>3. QueueTypes'
    BY <1>0, <2>1 DEF QueueTypes, Slots
  <2>4. QueueLocked'
    BY <1>0, <2>1, <2>2 DEF QueueLocked, QueueTypes, SavedBy
  <2>5. SaveOnItsWay'
    <3> SUFFICES ASSUME NEW c \in changed', c \notin Entered', ~preempted'
                 PROVE  \/ c \in TaskId /\ pc'[c] \in {"save", "look", "advance"}
                        \/ current' = c /\ pc'[Idle] \in {"pop", "copy", "save", "look", "advance"}
      BY DEF SaveOnItsWay
    <3>1. CASE c \in changed
      BY <1>0, <2>1, <2>2, <3>1 DEF SaveOnItsWay, QueueTypes
    <3>2. CASE c \notin changed
      <4>1. c = id /\ changed' # changed
        BY <2>1, <3>2
      <4> QED BY <1>0, <2>1, <4>1 DEF QueueTypes
    <3> QED BY <3>1, <3>2
  <2> QED BY <2>2, <2>3, <2>4, <2>5 DEF QueueInv
<1> QED BY <1>1, <1>2 DEF TaskStep

\* The interrupt enters its id too, or has the idle task find it.
LEMMA InterruptKeeps ==
  ASSUME RoomForAll, QueueInv, ~preempted, NEW id \in IsrId, Recalibrate(id)
  PROVE  QueueInv'
<1> USE QueueAssumption
<1>0. /\ QueueTypes /\ QueueHolds /\ QueueLocked /\ SaveOnItsWay /\ id \in Id
  BY DEF QueueInv, Id
<1>1. /\ UNCHANGED <<rd, qMutex, bufMutex, pc, current>> /\ changed' = changed \cup {id}
      /\ preempted' = (preempted \/ MidCall(id))
  BY DEF Recalibrate
<1>2. /\ QueueHolds' /\ Entered' = Entered \cup {id} /\ wr' \in Slots
      /\ asQueue' \in [Slots -> Id \cup {NoId}]
      /\ rd # wr => rd # wr' /\ asQueue'[rd] = asQueue[rd]
  <2>1. CASE id \in Entered
    <3>1. asQueue' = asQueue /\ wr' = wr
      BY <2>1 DEF Recalibrate
    <3>2. QueueHolds' /\ Entered' = Entered
      BY <1>0, <1>1, <3>1, EntriesKept DEF QueueTypes
    <3> QED BY <1>0, <2>1, <3>1, <3>2 DEF QueueTypes
  <2>2. CASE id \notin Entered
    <3>1. asQueue' = [asQueue EXCEPT ![wr] = id] /\ wr' = Inc(wr)
      BY <2>2 DEF Recalibrate
    <3>2. QueueHolds' /\ Entered' = Entered \cup {id} /\ wr' \in Slots /\ wr' # rd
      BY <1>0, <1>1, <2>2, <3>1, EntryPushed
    <3> QED BY <1>0, <1>1, <3>1, <3>2 DEF QueueTypes
  <2> QED BY <2>1, <2>2
<1>3. MidCall(id) \in BOOLEAN
  BY DEF MidCall
<1>4. QueueTypes'
  BY <1>0, <1>1, <1>2, <1>3 DEF QueueTypes, Slots
<1>5. SaveOnItsWay'
  BY <1>0, <1>1, <1>2 DEF SaveOnItsWay
<1>6. ~preempted' => QueueLocked'
  <2> SUFFICES ASSUME ~preempted' PROVE QueueLocked'
    OBVIOUS
  <2>1. \A a \in TaskId \cup {Idle} : pc[a] \notin {"look", "advance"}
    BY <1>1 DEF MidCall
  <2>2. \A a \in TaskId \cup {Idle} : pc'[a] \in {"look", "advance", "pop"} => qMutex' = a
    BY <1>0, <1>1 DEF QueueLocked
  <2>3. pc'[Idle] = "pop" => rd' # wr' /\ asQueue'[rd'] = current'
    BY <1>0, <1>1, <1>2 DEF QueueLocked
  <2> QED BY <1>1, <2>1, <2>2, <2>3 DEF QueueLocked
<1> QED BY <1>2, <1>4, <1>5, <1>6 DEF QueueInv

\* The idle task takes an id out and saves its buffer, or enters it again.
LEMMA IdleKeeps ==
  ASSUME RoomForAll, QueueInv, ~preempted, QueueIdleStep
  PROVE  QueueInv'
<1> USE QueueAssumption
<1>0. /\ QueueTypes /\ QueueHolds /\ QueueLocked /\ SaveOnItsWay
      /\ Idle \notin TaskId /\ NoId \notin TaskId /\ NoId # Idle
  BY DEF QueueInv, Id
<1>1. CASE PopLock
  <2>1. /\ pc[Idle] = "out" /\ rd # wr /\ qMutex = NoId /\ qMutex' = Idle /\ current' = asQueue[rd]
        /\ pc' = [pc EXCEPT ![Idle] = "pop"]
        /\ UNCHANGED <<asQueue, rd, wr, bufMutex, changed, preempted>>
    BY <1>1 DEF PopLock, Goes
  <2>2. QueueHolds' /\ Entered' = Entered
    BY <1>0, <2>1, EntriesKept DEF QueueTypes
  <2>3. asQueue[rd] \in Id
    <3>1. InQueue(rd)
      BY <1>0, <2>1 DEF QueueTypes, InQueue, SlotsFrom, Slots
    <3> QED BY <1>0, <3>1 DEF QueueHolds, QueueTypes
  <2>4. QueueTypes'
    BY <1>0, <2>1, <2>3 DEF QueueTypes, Slots
  <2>5. QueueLocked'
    BY <1>0, <2>1, <2>2 DEF QueueLocked, QueueTypes, SavedBy
  <2>6. SaveOnItsWay'
    BY <1>0, <2>1, <2>2 DEF SaveOnItsWay, QueueTypes
  <2> QED BY <2>2, <2>4, <2>5, <2>6 DEF QueueInv
<1>2. CASE Pop
  <2>1. /\ pc[Idle] = "pop" /\ rd' = Inc(rd) /\ qMutex' = NoId /\ pc' = [pc EXCEPT ![Idle] = "copy"]
        /\ UNCHANGED <<asQueue, wr, bufMutex, changed, current, preempted>>
    BY <1>2 DEF Pop, Goes
  <2>2. rd # wr /\ asQueue[rd] = current
    BY <1>0, <2>1 DEF QueueLocked
  <2>3. QueueHolds' /\ Entered' = Entered \ {current} /\ current \in Id /\ rd' \in Slots
    BY <1>0, <2>1, <2>2, EntryPopped
  <2>4. QueueTypes'
    BY <1>0, <2>1, <2>3 DEF QueueTypes, Slots
  <2>5. QueueLocked'
    BY <1>0, <2>1, LockedAlone DEF QueueLocked, QueueTypes
  <2>6. SaveOnItsWay'
    BY <1>0, <2>1, <2>3 DEF SaveOnItsWay, QueueTypes
  <2> QED BY <2>3, <2>4, <2>5, <2>6 DEF QueueInv
<1>3. CASE Copy \/ CopyBusy \/ Written \/ Refused \/ Resume
  <2>1. /\ UNCHANGED <<asQueue, rd, wr, qMutex, bufMutex, preempted>>
        /\ \E l : pc' = [pc EXCEPT ![Idle] = l] /\ l \in {"write", "save", "done", "out"}
        /\ pc[Idle] \in {"copy", "write", "done"}
    BY <1>3 DEF Copy, CopyBusy, Written, Refused, Resume, Goes
  <2>2. QueueHolds' /\ Entered' = Entered
    BY <1>0, <2>1, EntriesKept DEF QueueTypes
  <2>3. QueueLocked'
    BY <1>0, <2>1, <2>2 DEF QueueLocked, QueueTypes, SavedBy
  <2>4. QueueTypes' /\ SaveOnItsWay'
    <3>1. CASE Copy
      BY <1>0, <2>1, <2>2, <3>1 DEF Copy, Goes, QueueTypes, SaveOnItsWay, Slots
    <3>2. CASE CopyBusy
      BY <1>0, <2>1, <2>2, <3>2 DEF CopyBusy, Goes, QueueTypes, SaveOnItsWay, Slots
    <3>3. CASE Written
      BY <1>0, <2>1, <2>2, <3>3 DEF Written, Goes, QueueTypes, SaveOnItsWay, Slots
    <3>4. CASE Refused
      BY <1>0, <2>1, <2>2, <3>4 DEF Refused, Goes, QueueTypes, SaveOnItsWay, Slots
    <3>5. CASE Resume
      BY <1>0, <2>1, <2>2, <3>5 DEF Resume, Goes, QueueTypes, SaveOnItsWay, Slots
    <3> QED BY <1>3, <3>1, <3>2, <3>3, <3>4, <3>5
  <2> QED BY <2>2, <2>3, <2>4 DEF QueueInv
<1>4. CASE Save(Idle, current)
  <2>1. pc[Idle] \in {"save", "look", "advance"}
    BY <1>4 DEF Save, SaveLock, SaveLook, SaveAdvance
  <2> QED BY <1>4, <2>1, SaveKeeps DEF SavedBy
<1> QED BY <1>1, <1>2, <1>3, <1>4 DEF QueueIdleStep

LEMMA QueueStep == RoomForAll /\ QueueInv /\ [QueueNext]_queueVars => QueueInv'
<1> SUFFICES ASSUME RoomForAll, QueueInv, [QueueNext]_queueVars PROVE QueueInv'
  OBVIOUS
<1>1. CASE UNCHANGED queueVars
  <2>1. QueueHolds' /\ Entered' = Entered
    BY <1>1, EntriesKept DEF QueueInv, QueueTypes, queueVars
  <2>2. QueueTypes' /\ (preempted' = preempted)
    BY <1>1 DEF QueueInv, QueueTypes, queueVars, Slots
  <2>3. QueueLocked => QueueLocked'
    BY <1>1, <2>1 DEF QueueLocked, queueVars, SavedBy
  <2>4. SaveOnItsWay'
    BY <1>1, <2>1 DEF QueueInv, SaveOnItsWay, queueVars
  <2> QED BY <2>1, <2>2, <2>3, <2>4 DEF QueueInv
<1> QED BY <1>1, TaskKeeps, InterruptKeeps, IdleKeeps DEF QueueNext, Broken

\* The invariant is what the run checks of the queue.
LEMMA QueueInvSound == QueueInv => QueueTypeOK /\ EnteredOnce /\ SaveOnItsWay
<1> SUFFICES ASSUME QueueInv PROVE QueueTypeOK /\ EnteredOnce /\ SaveOnItsWay
  OBVIOUS
<1>1. /\ Entered = {asQueue[i] : i \in {j \in Slots : InQueue(j)}}
      /\ (wr + QueueSize - rd) % QueueSize = SlotsFrom(rd, wr)
  BY EnteredIs DEF QueueInv, QueueTypes
<1>2. EnteredOnce
  BY <1>1 DEF QueueInv, QueueHolds, EnteredOnce
<1>3. QueueTypeOK
  BY <1>1 DEF QueueInv, QueueTypes, QueueHolds, QueueTypeOK, Slots
<1> QED BY <1>2, <1>3 DEF QueueInv

-----------------------------------------------------------------------------
(* FlashPages: what lies before the end of a write.                        *)

\* The next address that a write in progress has not secured.
Secured ==
  IF fpData = << >> THEN fpEnd ELSE IF fpPage = NoPage THEN fpAt ELSE PageOf(fpAt)

PagesTypes ==
  /\ DOMAIN fpMem = Addr /\ DOMAIN fpWant = Addr
  /\ fpAt \in Nat /\ fpData \in Seq(FlashByte) /\ fpEnd \in 0 .. Pages * PageSize
  /\ fpPage # NoPage => fpData # << >>

\* What is left to write are the last bytes before the end of the write.
LeftToWrite ==
  fpData # << >> =>
    /\ fpAt + Len(fpData) = fpEnd
    /\ \A i \in 1 .. Len(fpData) : fpWant[fpAt + i - 1] = fpData[i]

\* The page about to be programmed is as it is wanted, up to the end of the write.
PageInHand ==
  fpPage # NoPage =>
    \A x \in Addr : PageOf(fpAt) <= x /\ x < PageOf(fpAt) + PageSize /\ x < fpEnd
                      => fpPage[x - PageOf(fpAt) + 1] = fpWant[x]

PagesInv ==
  /\ PagesTypes /\ LeftToWrite /\ PageInHand
  /\ \A x \in Addr : x < Secured => fpMem[x] = fpWant[x]

\* The page of an address.
LEMMA PageFacts ==
  ASSUME NEW a \in Nat
  PROVE  /\ PageOf(a) \in Nat /\ a % PageSize \in 0 .. PageSize - 1
         /\ PageOf(a) = a - (a % PageSize) /\ PageOf(a) <= a /\ a < PageOf(a) + PageSize
         /\ \A x \in Nat : PageOf(x) = PageOf(a) <=> PageOf(a) <= x /\ x < PageOf(a) + PageSize
         /\ PageOf(PageOf(a) + PageSize) = PageOf(a) + PageSize
<1> USE PagesAssumption
<1>1. ASSUME NEW x \in Nat
      PROVE  \E q \in Nat, r \in 0 .. PageSize - 1 :
               x = PageSize * q + r /\ (x % PageSize) = r /\ PageOf(x) = PageSize * q
  <2>1. PICK q, r : q = x \div PageSize /\ r = x % PageSize
    OBVIOUS
  <2>2. q \in Nat /\ r \in 0 .. PageSize - 1 /\ x = PageSize * q + r
    BY <2>1
  <2>3. PageSize * q \in Nat
    BY <2>2
  <2>4. PageOf(x) = PageSize * q
    BY <2>1, <2>2, <2>3 DEF PageOf
  <2> QED BY <2>1, <2>2, <2>4
<1>2. PICK q \in Nat, r \in 0 .. PageSize - 1 :
        a = PageSize * q + r /\ (a % PageSize) = r /\ PageOf(a) = PageSize * q
  BY <1>1
<1>3. PICK p : p = PageOf(a)
  OBVIOUS
<1>4. p = PageSize * q /\ p \in Nat /\ a = p + r
  BY <1>2, <1>3
<1>5. ASSUME NEW x \in Nat
      PROVE  PageOf(x) = p <=> p <= x /\ x < p + PageSize
  <2>1. PICK s \in Nat, t \in 0 .. PageSize - 1 :
          x = PageSize * s + t /\ (x % PageSize) = t /\ PageOf(x) = PageSize * s
    BY <1>1
  <2>2. CASE p <= x /\ x < p + PageSize
    <3>1. x - p \in 0 .. PageSize - 1 /\ x = PageSize * q + (x - p)
      BY <1>4, <2>2
    <3>2. (x % PageSize) = x - p
      <4>1. PICK d : d = x - p
        OBVIOUS
      <4>2. d \in 0 .. PageSize - 1 /\ x = PageSize * q + d /\ x \in Int /\ q \in Int
        BY <3>1, <4>1
      <4>3. (x % PageSize) = d
        BY <4>2, ModUnique
      <4> QED BY <4>1, <4>3
    <3> QED BY <1>4, <2>2, <3>2 DEF PageOf
  <2>3. CASE PageOf(x) = p
    BY <1>4, <2>1, <2>3
  <2> QED BY <2>2, <2>3
<1>6. PageOf(p + PageSize) = p + PageSize
  <2>1. p + PageSize = PageSize * (q + 1) + 0 /\ p + PageSize \in Int /\ 0 \in 0 .. PageSize - 1 /\ q + 1 \in Int
    BY <1>4
  <2>2. ((p + PageSize) % PageSize) = 0
    BY <2>1, ModUnique
  <2> QED BY <1>4, <2>2 DEF PageOf
<1> QED BY <1>2, <1>3, <1>4, <1>5, <1>6 DEF PageOf

\* Every read from the first address on arrives whole.
LEMMA ReadWhole == ASSUME NEW n \in Nat PROVE Arriving(0, n) = n
<1> USE PagesAssumption
<1>1. PICK q, r : q = (n + ReadUnit - 1) \div ReadUnit /\ r = (n + ReadUnit - 1) % ReadUnit
  OBVIOUS
<1>2. q \in Int /\ r \in 0 .. ReadUnit - 1 /\ n + ReadUnit - 1 = ReadUnit * q + r
  BY <1>1
<1>3. ReadUnit * q = q * ReadUnit /\ q * ReadUnit \in Int
  BY <1>2
<1>4. q * ReadUnit >= n
  BY <1>2, <1>3
<1>5. (0 % ReadUnit) = 0
  <2>1. 0 = ReadUnit * 0 + 0 /\ 0 \in 0 .. ReadUnit - 1
    OBVIOUS
  <2> QED BY <2>1, ModUnique
<1>6. Arriving(0, n) = IF q * ReadUnit - 0 < n THEN q * ReadUnit - 0 ELSE n
  BY <1>1, <1>5 DEF Arriving
<1> QED BY <1>3, <1>4, <1>6

LEMMA PagesInitially == PagesInit => PagesInv
<1> SUFFICES ASSUME PagesInit PROVE PagesInv
  OBVIOUS
<1>1. fpData = << >> /\ fpData \in Seq(FlashByte) /\ fpPage = NoPage /\ fpEnd = 0 /\ fpAt = 0 /\ fpWant = fpMem
  BY DEF PagesInit
<1>2. Pages * PageSize \in Nat /\ DOMAIN fpMem = Addr
  BY PagesAssumption DEF PagesInit
<1> QED BY <1>1, <1>2 DEF PagesInv, PagesTypes, LeftToWrite, PageInHand, Secured

\* A call begins: what lies before it is unchanged.
LEMMA WriteKeeps ==
  ASSUME PagesInv, NEW a \in Addr, NEW d \in Seq(FlashByte), otPlatFlashWrite(a, d)
  PROVE  PagesInv'
<1>0. PICK e : e = Pages * PageSize
  OBVIOUS
<1>1. e \in Nat /\ Addr = 0 .. e - 1 /\ a \in Nat
  BY <1>0, PagesAssumption DEF Addr
<1>2. /\ fpData = << >> /\ d # << >> /\ a + Len(d) <= e /\ fpAt' = a /\ fpData' = d
      /\ fpWant' = [x \in Addr |-> IF x - a \in 0 .. Len(d) - 1 THEN d[x - a + 1] ELSE fpMem[x]]
      /\ fpEnd' = a + Len(d) /\ fpMem' = fpMem /\ fpPage' = fpPage
  BY <1>0 DEF otPlatFlashWrite
<1>3. Len(d) \in Nat
  BY LenProperties
<1>4. fpPage' = NoPage
  BY <1>2 DEF PagesInv, PagesTypes
<1>5. PagesTypes'
  BY <1>0, <1>1, <1>2, <1>3, <1>4 DEF PagesInv, PagesTypes, Addr
<1>6. LeftToWrite'
  <2> SUFFICES ASSUME NEW i \in 1 .. Len(d) PROVE fpWant'[a + i - 1] = d[i]
    BY <1>2, <1>3 DEF LeftToWrite
  <2>1. PICK x : x = a + i - 1
    OBVIOUS
  <2>2. x \in Addr /\ x - a \in 0 .. Len(d) - 1 /\ x - a + 1 = i
    BY <1>1, <1>2, <1>3, <2>1
  <2> QED BY <1>2, <2>1, <2>2
<1>7. ASSUME NEW x \in Addr, x < Secured' PROVE fpMem'[x] = fpWant'[x]
  <2>1. x < a
    BY <1>2, <1>4, <1>7 DEF Secured
  <2> QED BY <1>1, <1>2, <2>1
<1>8. PageInHand'
  BY <1>4 DEF PageInHand
<1> QED BY <1>5, <1>6, <1>7, <1>8 DEF PagesInv, Addr

\* The page is erased; its image holds all of it that is wanted.
LEMMA EraseKeeps == ASSUME PagesInv, ErasePage PROVE PagesInv'
<1> USE PagesAssumption
<1>0. PICK e, p, lead, len, n :
        /\ e = Pages * PageSize /\ p = PageOf(fpAt) /\ lead = fpAt % PageSize /\ len = Len(fpData)
        /\ n = IF PageSize - lead < len THEN PageSize - lead ELSE len
  OBVIOUS
<1>1. e \in Nat /\ Addr = 0 .. e - 1 /\ fpAt \in Nat /\ fpData \in Seq(FlashByte)
  BY <1>0 DEF Addr, PagesInv, PagesTypes
<1>2. p \in Nat /\ lead \in 0 .. PageSize - 1 /\ fpAt = p + lead /\ len \in Nat
  <2>1. len \in Nat
    BY <1>0, <1>1, LenProperties
  <2>2. PageOf(fpAt) \in Nat /\ fpAt % PageSize \in 0 .. PageSize - 1 /\ PageOf(fpAt) = fpAt - (fpAt % PageSize)
    BY <1>1, PageFacts
  <2> QED BY <1>0, <1>1, <2>1, <2>2
<1>3. /\ fpData # << >> /\ fpPage = NoPage /\ fpPage' = PageImage
      /\ fpMem' = [x \in Addr |-> IF PageOf(x) = p THEN Blank ELSE fpMem[x]]
      /\ UNCHANGED <<fpAt, fpData, fpWant, fpEnd>>
  BY <1>0 DEF ErasePage
<1>4. fpEnd = fpAt + len /\ \A i \in 1 .. len : fpWant[fpAt + i - 1] = fpData[i]
  BY <1>0, <1>3 DEF PagesInv, LeftToWrite
<1>5. \A x \in Addr : x < fpAt => fpMem[x] = fpWant[x]
  BY <1>3 DEF PagesInv, Secured
<1>6. fpPage' = [i \in 1 .. PageSize |->
         IF i - lead \in 1 .. n THEN fpData[i - lead]
         ELSE IF lead > 0 THEN fpMem[p + i - 1] ELSE Blank]
  BY <1>0, <1>3 DEF PageImage, Image
<1>7. PageInHand'
  <2> SUFFICES ASSUME NEW x \in Addr, p <= x, x < p + PageSize, x < fpEnd
               PROVE  fpPage'[x - p + 1] = fpWant[x]
    BY <1>0, <1>3 DEF PageInHand, Addr, PageOf
  <2>1. PICK i : i = x - p + 1
    OBVIOUS
  <2>2. i \in 1 .. PageSize /\ p + i - 1 = x
    BY <1>1, <1>2, <2>1
  <2>3. CASE x < fpAt
    <3>1. i - lead \notin 1 .. n /\ lead > 0
      BY <1>1, <1>2, <2>1, <2>2, <2>3
    <3>2. fpPage'[i] = fpMem[p + i - 1]
      BY <1>6, <2>2, <3>1
    <3> QED BY <1>5, <2>1, <2>2, <2>3, <3>2
  <2>4. CASE x >= fpAt
    <3>1. /\ i - lead \in 1 .. n /\ i - lead \in 1 .. len /\ fpAt + (i - lead) - 1 = x
      <4>1. x \in Nat /\ i \in Nat /\ lead \in Nat /\ p + i - 1 = x
        BY <1>1, <1>2, <2>1, <2>2
      <4>2. n = IF PageSize - lead < len THEN PageSize - lead ELSE len
        BY <1>0
      <4>3. i - lead >= 1 /\ i <= PageSize /\ i - lead <= len /\ i - lead <= PageSize - lead
        BY <1>1, <1>2, <1>4, <2>1, <2>2, <2>4, <4>1
      <4>4. fpAt + (i - lead) - 1 = x
        BY <1>2, <4>1
      <4> QED BY <1>2, <4>1, <4>2, <4>3, <4>4
    <3>2. fpPage'[i] = fpData[i - lead]
      BY <1>6, <2>2, <3>1
    <3> QED BY <1>4, <2>1, <3>1, <3>2
  <2> QED BY <1>1, <2>3, <2>4
<1>8. fpPage' # NoPage
  <2>1. DOMAIN fpPage' = 1 .. PageSize /\ 1 \in 1 .. PageSize
    BY <1>6
  <2>2. DOMAIN << >> = 1 .. 0
    OBVIOUS
  <2> QED BY <2>1, <2>2 DEF NoPage
<1>9. ASSUME NEW x \in Addr, x < Secured' PROVE fpMem'[x] = fpWant'[x]
  <2>1. x < p
    BY <1>0, <1>3, <1>8, <1>9 DEF Secured, PageOf
  <2>2. PageOf(x) # p
    BY <1>0, <1>1, <2>1, <1>2, PageFacts
  <2> QED BY <1>1, <1>2, <1>3, <1>5, <2>1, <2>2
<1>10. PagesTypes' /\ LeftToWrite'
  BY <1>3 DEF PagesInv, PagesTypes, LeftToWrite, Addr
<1> QED BY <1>7, <1>9, <1>10 DEF PagesInv, Addr

\* The page is programmed: the write is secured up to the page's end.
LEMMA ProgramKeeps == ASSUME PagesInv, ProgramPage PROVE PagesInv'
<1> USE PagesAssumption
<1>0. PICK e, p, len, n :
        e = Pages * PageSize /\ p = PageOf(fpAt) /\ len = Len(fpData) /\ n = PageSize - (fpAt % PageSize)
  OBVIOUS
<1>1. e \in Nat /\ Addr = 0 .. e - 1 /\ fpAt \in Nat /\ fpData \in Seq(FlashByte)
  BY <1>0 DEF Addr, PagesInv, PagesTypes
<1>2. p \in Nat /\ n \in 1 .. PageSize /\ fpAt + n = p + PageSize /\ p <= fpAt /\ len \in Nat
  <2>1. len \in Nat
    BY <1>0, <1>1, LenProperties
  <2>2. PageOf(fpAt) \in Nat /\ fpAt % PageSize \in 0 .. PageSize - 1 /\ PageOf(fpAt) = fpAt - (fpAt % PageSize)
    BY <1>1, PageFacts
  <2> QED BY <1>0, <1>1, <2>1, <2>2
<1>3. /\ fpPage # NoPage /\ fpPage' = NoPage
      /\ fpMem' = [x \in Addr |-> IF PageOf(x) = p THEN fpPage[x - PageOf(x) + 1] ELSE fpMem[x]]
      /\ fpAt' = IF n < len THEN fpAt + n ELSE 0
      /\ fpData' = SubSeq(fpData, n + 1, len)
      /\ fpWant' = fpWant /\ fpEnd' = fpEnd
  BY <1>0 DEF ProgramPage
<1>4. fpData # << >> /\ fpEnd = fpAt + len /\ \A i \in 1 .. len : fpWant[fpAt + i - 1] = fpData[i]
  BY <1>0, <1>3 DEF PagesInv, PagesTypes, LeftToWrite
<1>5. fpData' \in Seq(FlashByte) /\ Len(fpData') = (IF n < len THEN len - n ELSE 0)
      /\ \A i \in 1 .. len - n : fpData'[i] = fpData[n + i]
  <2>1. CASE n < len
    BY <1>0, <1>1, <1>2, <1>3, <2>1, SubSeqProperties, SMTT(20)
  <2>2. CASE n >= len
    <3>1. SubSeq(fpData, n + 1, len) = << >>
      BY <1>0, <1>1, <1>2, <2>2, SubSeqProperties
    <3> QED BY <1>2, <1>3, <2>2, <3>1
  <2> QED BY <1>2, <2>1, <2>2
<1>6. \A x \in Addr : x < p + PageSize /\ x < fpEnd => fpMem'[x] = fpWant[x]
  <2> SUFFICES ASSUME NEW x \in Addr, x < p + PageSize, x < fpEnd PROVE fpMem'[x] = fpWant[x]
    OBVIOUS
  <2>1. CASE x < p
    <3>1. PageOf(x) # p
      BY <1>0, <1>1, <1>2, <2>1, PageFacts
    <3>2. fpMem[x] = fpWant[x]
      BY <1>0, <1>3, <1>4, <2>1 DEF PagesInv, Secured
    <3> QED BY <1>3, <3>1, <3>2
  <2>2. CASE p <= x
    <3>1. PageOf(x) = p
      <4>1. \A y \in Nat : PageOf(y) = p <=> p <= y /\ y < p + PageSize
        BY <1>0, <1>1, PageFacts
      <4>2. x \in Nat
        BY <1>1
      <4> QED BY <2>2, <4>1, <4>2
    <3>2. fpPage[x - p + 1] = fpWant[x]
      BY <1>0, <1>3, <2>2 DEF PagesInv, PageInHand
    <3> QED BY <1>3, <3>1, <3>2
  <2> QED BY <1>1, <1>2, <2>1, <2>2
<1>7. PagesTypes'
  BY <1>1, <1>2, <1>3, <1>5 DEF PagesInv, PagesTypes, Addr
<1>8. LeftToWrite'
  <2> SUFFICES ASSUME fpData' # << >>
               PROVE  /\ fpAt' + Len(fpData') = fpEnd'
                      /\ \A i \in 1 .. Len(fpData') : fpWant'[fpAt' + i - 1] = fpData'[i]
    BY DEF LeftToWrite
  <2>1. n < len
    BY <1>1, <1>2, <1>5, EmptySeq
  <2>2. fpAt' = fpAt + n /\ Len(fpData') = len - n
    BY <1>3, <1>5, <2>1
  <2>3. ASSUME NEW i \in 1 .. len - n PROVE fpWant'[fpAt' + i - 1] = fpData'[i]
    <3>1. n + i \in 1 .. len /\ fpAt + (n + i) - 1 = fpAt' + i - 1
      BY <1>1, <1>2, <2>2
    <3> QED BY <1>3, <1>4, <1>5, <3>1
  <2>4. fpAt' + Len(fpData') = fpEnd'
    BY <1>1, <1>2, <1>3, <1>4, <2>2
  <2>5. \A i \in 1 .. Len(fpData') : fpWant'[fpAt' + i - 1] = fpData'[i]
    BY <2>2, <2>3
  <2> QED BY <2>4, <2>5
<1>9. ASSUME NEW x \in Addr, x < Secured' PROVE fpMem'[x] = fpWant'[x]
  <2>1. x < p + PageSize /\ x < fpEnd
    <3>1. CASE n < len
      <4>1. fpData' # << >>
        BY <1>2, <1>5, <3>1
      <4>2. Secured' = fpAt + n
        BY <1>3, <3>1, <4>1 DEF Secured
      <4> QED BY <1>1, <1>2, <1>4, <1>9, <3>1, <4>2
    <3>2. CASE n >= len
      <4>1. fpData' = << >>
        BY <1>2, <1>5, <3>2, EmptySeq
      <4>2. Secured' = fpEnd
        BY <1>3, <4>1 DEF Secured
      <4> QED BY <1>1, <1>2, <1>4, <1>9, <3>2, <4>2
    <3> QED BY <1>2, <3>1, <3>2
  <2> QED BY <1>3, <1>6, <2>1
<1>10. PageInHand'
  BY <1>3 DEF PageInHand
<1> QED BY <1>7, <1>8, <1>9, <1>10 DEF PagesInv, Addr

LEMMA PagesStep == PagesInv /\ [PagesNext]_pagesVars => PagesInv'
<1> SUFFICES ASSUME PagesInv, [PagesNext]_pagesVars PROVE PagesInv'
  OBVIOUS
<1>1. CASE \E a \in Addr, n \in 1 .. PageSize + 1, b \in FlashByte :
             otPlatFlashWrite(a, [i \in 1 .. n |-> b])
  <2>1. PICK a \in Addr, n \in 1 .. PageSize + 1, b \in FlashByte :
             otPlatFlashWrite(a, [i \in 1 .. n |-> b])
    BY <1>1
  <2>2. PICK d : d = [i \in 1 .. n |-> b]
    OBVIOUS
  <2>3. d \in Seq(FlashByte)
    <3>1. n \in Nat
      BY PagesAssumption
    <3> QED BY <2>2, <3>1
  <2> QED BY <2>1, <2>2, <2>3, WriteKeeps
<1>2. CASE \E p \in 0 .. Pages - 1 : utilsFlashErasePage(p)
  <2>1. PICK p \in 0 .. Pages - 1 : utilsFlashErasePage(p)
    BY <1>2
  <2>2. /\ fpData = << >> /\ UNCHANGED <<fpAt, fpData, fpPage, fpEnd>>
        /\ fpMem' = [x \in Addr |-> IF PageOf(x) = p * PageSize THEN Blank ELSE fpMem[x]]
        /\ fpWant' = [x \in Addr |-> IF PageOf(x) = p * PageSize THEN Blank ELSE fpWant[x]]
    BY <2>1 DEF utilsFlashErasePage
  <2>3. PagesTypes' /\ LeftToWrite' /\ fpPage' = NoPage
    BY <2>2 DEF PagesInv, PagesTypes, LeftToWrite, Addr
  <2>4. ASSUME NEW x \in Addr, x < Secured' PROVE fpMem'[x] = fpWant'[x]
    BY <2>2, <2>4 DEF PagesInv, Secured
  <2> QED BY <2>3, <2>4 DEF PagesInv, PageInHand, Addr
<1>3. CASE FlashStops
  <2>1. /\ fpData' = << >> /\ fpPage' = NoPage /\ fpAt' = 0 /\ fpEnd' = 0
        /\ UNCHANGED <<fpMem, fpWant>>
    BY <1>3 DEF FlashStops
  <2>2. Pages * PageSize \in Nat
    BY PagesAssumption
  <2>3. PagesTypes' /\ LeftToWrite' /\ PageInHand'
    BY <2>1, <2>2 DEF PagesInv, PagesTypes, LeftToWrite, PageInHand, Addr
  <2>4. ASSUME NEW x \in Addr, x < Secured' PROVE fpMem'[x] = fpWant'[x]
    <3>1. x \in Nat
      BY <2>2 DEF Addr
    <3> QED BY <2>1, <2>4, <3>1 DEF Secured
  <2> QED BY <2>3, <2>4 DEF PagesInv, Addr
<1>4. CASE UNCHANGED pagesVars
  BY <1>4 DEF pagesVars, PagesInv, PagesTypes, LeftToWrite, PageInHand, Secured, PageOf, Addr
<1> QED BY <1>1, <1>2, <1>3, <1>4, EraseKeeps, ProgramKeeps DEF PagesNext

\* Between calls a read of what the last write ended with finds it.
LEMMA PagesInvSound == PagesInv => EarlierBytesKept
<1> SUFFICES ASSUME PagesInv, fpData = << >>
             PROVE  otPlatFlashRead(0, fpEnd) = [i \in 1 .. fpEnd |-> fpWant[i - 1]]
  BY DEF EarlierBytesKept
<1>1. PICK e : e = Pages * PageSize
  OBVIOUS
<1>2. e \in Nat /\ Addr = 0 .. e - 1 /\ fpEnd \in 0 .. e /\ fpEnd \in Nat
  BY <1>1, PagesAssumption DEF Addr, PagesInv, PagesTypes
<1>3. otPlatFlashRead(0, fpEnd) = [i \in 1 .. fpEnd |-> fpMem[0 + i - 1]]
  <2>1. Arriving(0, fpEnd) = fpEnd
    BY <1>2, ReadWhole
  <2> QED BY <2>1 DEF otPlatFlashRead
<1>4. ASSUME NEW i \in 1 .. fpEnd PROVE fpMem[0 + i - 1] = fpWant[i - 1]
  <2>1. i - 1 \in Addr /\ i - 1 < fpEnd /\ 0 + i - 1 = i - 1
    BY <1>2
  <2>2. fpMem[i - 1] = fpWant[i - 1]
    BY <2>1 DEF PagesInv, Secured
  <2> QED BY <2>1, <2>2
<1> QED BY <1>3, <1>4

-----------------------------------------------------------------------------
(* The stores together.                                                    *)

\* However the settings calls, the idle task's copy, write and retry, the
\* interrupt and restarts interleave (ram_storage.c, pdm_ram_storage_glue.c,
\* flash.c): blocks stay whole, a change is in the record or its save is on its
\* way, through one entry of the queue, and a write to flash pages leaves what
\* lies before it.  For buffers, records and pages of every size, and queues with
\* more slots than there are ids; with as many the queue of saves loses them all.
THEOREM StoresAreExact ==
  ASSUME RoomForAll
  PROVE  K32wSpec => []StoresExact
<1> DEFINE Inv == PdmInv /\ QueueInv /\ PagesInv
<1>1. K32wInit => Inv
  BY PdmInitially, QueueInitially, PagesInitially DEF K32wInit
<1>2. Inv /\ [K32wNext]_k32wVars => Inv'
  <2> SUFFICES ASSUME Inv, [K32wNext]_k32wVars PROVE Inv'
    OBVIOUS
  <2>1. [PdmNext]_pdmVars /\ [QueueNext]_queueVars /\ [PagesNext]_pagesVars
    BY K32wPartSteps
  <2> QED BY <2>1, PdmStep, QueueStep, PagesStep
<1>3. Inv => StoresExact
  BY PdmInvSound, QueueInvSound, PagesInvSound DEF StoresExact
<1> QED BY <1>1, <1>2, <1>3, PTL DEF K32wSpec
=============================================================================
