-------------------------- MODULE McxwRadio_proofs --------------------------
(***************************************************************************)
(* Proofs about the mcxw radio driver, for any channels, calls and length  *)
(* of the ring: the low power lock, the work that waits for the main loop, *)
(* and the receiver that is on when OpenThread expects it.                 *)
(*                                                                         *)
(* The stack stk is what is left of the calls of OpenThread, then what is  *)
(* left of otPlatRadioProcess.  The proof keeps the first part as a        *)
(* sequence of steps and the second as a label, the point where            *)
(* otPlatRadioProcess is, and follows what each step does to both.         *)
(***************************************************************************)
EXTENDS McxwRadio, SequenceTheorems, TLAPS

-----------------------------------------------------------------------------
(* What the helpers of the driver and the messages of the PHY change.      *)

\* The driver's variables.
Fields ==
  {"sState", "sChannel", "rx_on_idle_disabled", "is_rx_on_idle", "is_ed_scan",
   "sTxDone", "sEdScanDone", "is_tx_poll", "is_rx_after_poll",
   "rx_after_poll_done", "is_radio_event", "csl_rx", "sCslPeriod", "sTxStatus",
   "txPoll", "txRxChannel", "ring", "phyOp", "phyRxOnIdle", "phyChannel",
   "lpDisallow", "remoteActive"}

\* s gives each of them a value.
Driver(s) == s = [f \in Fields |-> s[f]]

\* s and t differ in the fields of F only.
Within(s, t, F) == Driver(t) /\ \A f \in Fields \ F : t[f] = s[f]

\* What each helper of the driver changes, and nothing else.
LEMMA StopCslFrame ==
  ASSUME NEW s, Driver(s)
  PROVE  Within(s, StopCsl(s), {"remoteActive", "csl_rx"})
BY DEF Driver, Fields, Within, StopCsl

\* An event takes the low power lock unless one waits.
LEMMA SignalEventFrame ==
  ASSUME NEW s, Driver(s)
  PROVE  /\ Within(s, SignalEvent(s), {"is_radio_event", "lpDisallow"})
         /\ SignalEvent(s).is_radio_event
         /\ SignalEvent(s).lpDisallow = IF s.is_radio_event THEN s.lpDisallow ELSE s.lpDisallow + 1
BY DEF Driver, Fields, Within, SignalEvent

\* The end of a scan is kept only if one runs.
LEMMA EndScanFrame ==
  ASSUME NEW s, Driver(s)
  PROVE  /\ Within(s, EndScan(s), {"sEdScanDone", "is_ed_scan"})
         /\ EndScan(s).sEdScanDone => s.sEdScanDone \/ s.is_ed_scan
         /\ s.sEdScanDone => EndScan(s).sEdScanDone
         /\ ~EndScan(s).is_ed_scan
BY DEF Driver, Fields, Within, EndScan

\* The driver goes back to receiving.
LEMMA ReceivingFrame ==
  ASSUME NEW s, Driver(s)
  PROVE  /\ Within(s, Receiving(s), {"sState", "sChannel", "phyChannel"})
         /\ Receiving(s).sState = "RECEIVE"
BY DEF Driver, Fields, Within, Receiving, RfSetChannel

\* What a message of the PHY leaves in the driver's variables on its way out.
TailFields == {"sEdScanDone", "is_ed_scan", "sState", "sChannel", "phyChannel",
               "remoteActive", "csl_rx", "is_radio_event", "lpDisallow"}

\* The event is pending and its lock is held; nothing else of the two changed.
Signalled(s, t) ==
  /\ t.is_radio_event
  /\ t.lpDisallow = IF s.is_radio_event THEN s.lpDisallow ELSE s.lpDisallow + 1

\* What PD_OT_MAC_SapHandler does after its switch.
LEMMA PdTailFrame ==
  ASSUME NEW s, Driver(s)
  PROVE  /\ Within(s, PdTail(s), TailFields)
         /\ Signalled(s, PdTail(s))
         /\ PdTail(s).sEdScanDone => s.sEdScanDone \/ s.is_ed_scan
         /\ s.sEdScanDone => PdTail(s).sEdScanDone
         /\ ~PdTail(s).is_ed_scan
         /\ PdTail(s).sState \in {"RECEIVE", "SLEEP"}
            \/ (PdTail(s).sState = s.sState /\ s.sState = "TRANSMIT" /\ ~s.sTxDone)
<1> DEFINE a == EndScan(s)
           b == IF a.sTxDone \/ a.sState # "TRANSMIT"
                  THEN IF a.is_rx_on_idle \/ a.is_rx_after_poll
                         THEN Receiving(a)
                         ELSE [a EXCEPT !.sState = "SLEEP"]
                  ELSE a
           c == StopCsl(b)
<1>0. PdTail(s) = SignalEvent(c)
  BY DEF PdTail
<1>1. /\ Within(s, a, {"sEdScanDone", "is_ed_scan"})
      /\ a.sEdScanDone => s.sEdScanDone \/ s.is_ed_scan
      /\ s.sEdScanDone => a.sEdScanDone
      /\ ~a.is_ed_scan
  BY EndScanFrame
<1>2. Driver(a) /\ a.sState = s.sState /\ a.sTxDone = s.sTxDone
  BY <1>1 DEF Within, Fields
<1> HIDE DEF a
<1>3. /\ Within(a, b, {"sState", "sChannel", "phyChannel"})
      /\ b.sState \in {"RECEIVE", "SLEEP"}
         \/ (b.sState = s.sState /\ s.sState = "TRANSMIT" /\ ~s.sTxDone)
  BY <1>2, ReceivingFrame DEF Within, Driver, Fields
<1>4. Driver(b)
  BY <1>3 DEF Within
<1> HIDE DEF b
<1>5. Within(b, c, {"remoteActive", "csl_rx"})
  BY <1>4, StopCslFrame
<1>6. Driver(c)
  BY <1>5 DEF Within
<1> HIDE DEF c
<1>7. Within(c, SignalEvent(c), {"is_radio_event", "lpDisallow"}) /\ Signalled(c, SignalEvent(c))
  BY <1>6, SignalEventFrame DEF Signalled
<1> DEFINE d == SignalEvent(c)
<1>8. d = PdTail(s)
  BY <1>0
<1> HIDE DEF d
<1>9. /\ Within(s, d, TailFields)
      /\ c.is_radio_event = s.is_radio_event /\ c.lpDisallow = s.lpDisallow
      /\ d.sEdScanDone = a.sEdScanDone /\ d.is_ed_scan = a.is_ed_scan
      /\ d.sState = b.sState
  BY <1>1, <1>3, <1>5, <1>7, <1>8, <1>0 DEF Within, TailFields, Fields
<1> QED BY <1>1, <1>3, <1>7, <1>8, <1>9, <1>0 DEF Signalled

\* What PLME_OT_MAC_SapHandler does after its switch.
LEMMA PlmeTailFrame ==
  ASSUME NEW s, Driver(s)
  PROVE  /\ Within(s, PlmeTail(s), TailFields)
         /\ \/ Signalled(s, PlmeTail(s))
            \/ /\ PlmeTail(s).is_radio_event = s.is_radio_event
               /\ PlmeTail(s).lpDisallow = s.lpDisallow
               /\ ~s.sTxDone /\ ~PlmeTail(s).sEdScanDone
         /\ PlmeTail(s).sEdScanDone => s.sEdScanDone \/ s.is_ed_scan
         /\ s.sEdScanDone => PlmeTail(s).sEdScanDone
         /\ ~PlmeTail(s).is_ed_scan
         /\ PlmeTail(s).sState \in {"RECEIVE", "SLEEP"}
<1> DEFINE a == EndScan(s)
           b == IF a.is_rx_on_idle THEN Receiving(a) ELSE [a EXCEPT !.sState = "SLEEP"]
           c == StopCsl(b)
           d == IF c.sTxDone \/ c.sEdScanDone THEN SignalEvent(c) ELSE c
<1>0. PlmeTail(s) = d
  BY DEF PlmeTail
<1>1. /\ Within(s, a, {"sEdScanDone", "is_ed_scan"})
      /\ a.sEdScanDone => s.sEdScanDone \/ s.is_ed_scan
      /\ s.sEdScanDone => a.sEdScanDone
      /\ ~a.is_ed_scan
  BY EndScanFrame
<1>2. Driver(a)
  BY <1>1 DEF Within
<1> HIDE DEF a
<1>3. Within(a, b, {"sState", "sChannel", "phyChannel"}) /\ b.sState \in {"RECEIVE", "SLEEP"}
  BY <1>2, ReceivingFrame DEF Within, Driver, Fields
<1>4. Driver(b)
  BY <1>3 DEF Within
<1> HIDE DEF b
<1>5. Within(b, c, {"remoteActive", "csl_rx"})
  BY <1>4, StopCslFrame
<1>6. Driver(c)
  BY <1>5 DEF Within
<1> HIDE DEF c
<1>7. Within(c, SignalEvent(c), {"is_radio_event", "lpDisallow"}) /\ Signalled(c, SignalEvent(c))
  BY <1>6, SignalEventFrame DEF Signalled
<1>8. /\ Within(c, d, {"is_radio_event", "lpDisallow"})
      /\ \/ Signalled(c, d)
         \/ d = c /\ ~c.sTxDone /\ ~c.sEdScanDone
  <2>1. CASE c.sTxDone \/ c.sEdScanDone
    BY <2>1, <1>7
  <2>2. CASE ~(c.sTxDone \/ c.sEdScanDone)
    BY <2>2, <1>6 DEF Within
  <2> QED BY <2>1, <2>2
<1> HIDE DEF d
<1>9. /\ Within(s, d, TailFields)
      /\ c.is_radio_event = s.is_radio_event /\ c.lpDisallow = s.lpDisallow
      /\ c.sTxDone = s.sTxDone
      /\ d.sEdScanDone = a.sEdScanDone /\ d.is_ed_scan = a.is_ed_scan
      /\ d.sState = b.sState
      /\ c.sEdScanDone = d.sEdScanDone
  BY <1>1, <1>3, <1>5, <1>8 DEF Within, TailFields, Fields
<1> QED BY <1>0, <1>1, <1>3, <1>8, <1>9 DEF Signalled

-----------------------------------------------------------------------------
(* The handlers.                                                           *)

\* A message of the PHY, to either of the two handlers.
Handler == PhyCompletes \/ PhyReceives

\* What a message of the PHY may do, whichever it is: it raises the event if
\* it leaves work, puts at most one frame in the ring, and switches receiving
\* when idle off at most once until the flag is cleared.
HandlerLeaves ==
  /\ Driver(m') /\ UNCHANGED <<ot, stk>>
  /\ m'.is_rx_on_idle = m.is_rx_on_idle
  /\ m'.sState \in {"RECEIVE", "SLEEP"} \/ m'.sState = m.sState
  /\ \/ Signalled(m, m')
     \/ /\ m'.is_radio_event = m.is_radio_event /\ m'.lpDisallow = m.lpDisallow
        /\ m'.sTxDone => m.sTxDone
        /\ m'.sEdScanDone => m.sEdScanDone
        /\ m'.ring = m.ring
        /\ m'.rx_on_idle_disabled = m.rx_on_idle_disabled
  /\ m'.ring = m.ring \/ (m.ring < Capacity /\ m'.ring = m.ring + 1)
  /\ \/ /\ m'.phyRxOnIdle = m.phyRxOnIdle
        /\ m'.rx_on_idle_disabled = m.rx_on_idle_disabled
     \/ ~m.rx_on_idle_disabled /\ m'.rx_on_idle_disabled /\ m.is_rx_on_idle

\* What every message of the PHY leaves, whatever it is.
LEMMA HandlerEffect ==
  ASSUME Driver(m), Handler
  PROVE  HandlerLeaves
<1>1. CASE PdDataIndIgnored
  <2>1. PICK op \in {m.phyOp, "idle"} : m' = StopCsl([m EXCEPT !.phyOp = op])
    BY <1>1 DEF PdDataIndIgnored
  <2> DEFINE s == [m EXCEPT !.phyOp = op]
  <2>2. Within(m, s, {"phyOp"})
    BY DEF Within, Driver, Fields
  <2> HIDE DEF s
  <2>3. Within(s, m', {"remoteActive", "csl_rx"})
    BY <2>1, <2>2, StopCslFrame DEF Within, s
  <2>4. Within(m, m', {"phyOp", "remoteActive", "csl_rx"})
    BY <2>2, <2>3 DEF Within
  <2> QED BY <1>1, <2>4 DEF Within, Fields, PdDataIndIgnored, HandlerLeaves
<1>2. CASE PdDataInd
  <2> DEFINE room == m.ring < Capacity
             s1 == [m EXCEPT !.phyOp = "idle",
                             !.rx_after_poll_done = @ \/ m.is_rx_after_poll,
                             !.is_rx_after_poll = FALSE,
                             !.ring = IF room THEN @ + 1 ELSE @]
             full == ~room \/ s1.ring = Capacity
             s2 == IF ~s1.rx_on_idle_disabled /\ s1.is_rx_on_idle /\ full
                     THEN [s1 EXCEPT !.phyRxOnIdle = FALSE, !.rx_on_idle_disabled = TRUE]
                     ELSE s1
  <2>1. m' = PdTail(s2) /\ UNCHANGED <<ot, stk>>
    BY <1>2 DEF PdDataInd
  <2>2. /\ Within(m, s1, {"phyOp", "rx_after_poll_done", "is_rx_after_poll", "ring"})
        /\ s1.ring = IF room THEN m.ring + 1 ELSE m.ring
    BY DEF Within, Driver, Fields
  <2> HIDE DEF s1
  <2>3. /\ Within(s1, s2, {"phyRxOnIdle", "rx_on_idle_disabled"})
        /\ \/ s2 = s1
           \/ ~s1.rx_on_idle_disabled /\ s2.rx_on_idle_disabled /\ s1.is_rx_on_idle
    BY <2>2 DEF Within, Driver, Fields
  <2> HIDE DEF s2
  <2>4. Driver(s2)
    BY <2>3 DEF Within
  <2>5. /\ Within(s2, m', TailFields) /\ Signalled(s2, m')
        /\ m'.sState \in {"RECEIVE", "SLEEP"} \/ m'.sState = s2.sState
    BY <2>1, <2>4, PdTailFrame
  <2>6. /\ Driver(m') /\ s2.sState = m.sState
        /\ m'.is_rx_on_idle = m.is_rx_on_idle
        /\ s2.is_radio_event = m.is_radio_event /\ s2.lpDisallow = m.lpDisallow
        /\ m'.ring = s1.ring /\ m'.phyRxOnIdle = s2.phyRxOnIdle
        /\ m'.rx_on_idle_disabled = s2.rx_on_idle_disabled
        /\ s1.rx_on_idle_disabled = m.rx_on_idle_disabled
        /\ s1.phyRxOnIdle = m.phyRxOnIdle /\ s1.is_rx_on_idle = m.is_rx_on_idle
    BY <2>2, <2>3, <2>5 DEF Within, TailFields, Fields
  <2>7. Signalled(m, m')
    BY <2>5, <2>6 DEF Signalled
  <2>8. m'.ring = m.ring \/ (m.ring < Capacity /\ m'.ring = m.ring + 1)
    BY <2>2, <2>6
  <2> QED BY <2>1, <2>3, <2>5, <2>6, <2>7, <2>8 DEF HandlerLeaves
<1>3. ASSUME NEW cnf \in BOOLEAN, NEW fp \in FramePending, PdDataCnf(cnf, fp)
      PROVE  /\ Within(m, m', TailFields \cup {"phyOp", "sTxStatus", "is_rx_after_poll", "sTxDone", "is_tx_poll"})
             /\ Signalled(m, m') /\ UNCHANGED <<ot, stk>>
             /\ m'.sState \in {"RECEIVE", "SLEEP"} \/ m'.sState = m.sState
  <2> DEFINE s1 == [m EXCEPT !.phyOp = IF cnf /\ fp /\ m.txPoll THEN "rxTimed" ELSE "idle"]
             s2 == IF m.sState = "TRANSMIT"
                     THEN [s1 EXCEPT !.sTxStatus = IF cnf THEN "NONE" ELSE "ABORT",
                                     !.is_rx_after_poll = @ \/ (cnf /\ fp /\ m.is_tx_poll),
                                     !.sTxDone = TRUE,
                                     !.is_tx_poll = FALSE]
                     ELSE s1
  <2>1. m' = PdTail(s2) /\ UNCHANGED <<ot, stk>>
    BY <1>3 DEF PdDataCnf
  <2>2. Within(m, s2, {"phyOp", "sTxStatus", "is_rx_after_poll", "sTxDone", "is_tx_poll"})
    BY DEF Within, Driver, Fields
  <2> HIDE DEF s2
  <2>3. Driver(s2)
    BY <2>2 DEF Within
  <2>4. /\ Within(s2, m', TailFields) /\ Signalled(s2, m')
        /\ m'.sState \in {"RECEIVE", "SLEEP"} \/ m'.sState = s2.sState
    BY <2>1, <2>3, PdTailFrame
  <2>5. s2.sState = m.sState /\ s2.is_radio_event = m.is_radio_event /\ s2.lpDisallow = m.lpDisallow
    BY <2>2 DEF Within, Fields
  <2> QED BY <2>1, <2>2, <2>4, <2>5 DEF Within, Signalled
<1>4. CASE \E cnf \in BOOLEAN, fp \in FramePending : PdDataCnf(cnf, fp)
  BY <1>3, <1>4 DEF Within, TailFields, Fields, HandlerLeaves
<1>5. ASSUME NEW s, m' = PlmeTail(s), UNCHANGED <<ot, stk>>,
             Within(m, s, {"phyOp", "sTxStatus", "sTxDone", "is_tx_poll", "is_rx_after_poll"})
      PROVE  HandlerLeaves
  <2>1. Driver(s) /\ s.is_radio_event = m.is_radio_event /\ s.lpDisallow = m.lpDisallow
    BY <1>5 DEF Within, Fields
  <2> QED BY <1>5, <2>1, PlmeTailFrame DEF Within, Signalled, TailFields, Fields, HandlerLeaves
<1>6. CASE PlmeCcaBusy
  <2> DEFINE s == [m EXCEPT !.phyOp = "idle", !.sTxDone = TRUE,
                            !.sTxStatus = "CHANNEL_ACCESS_FAILURE"]
  <2>1. Within(m, s, {"phyOp", "sTxStatus", "sTxDone", "is_tx_poll", "is_rx_after_poll"})
    BY DEF Within, Driver, Fields
  <2> QED BY <1>5, <1>6, <2>1 DEF PlmeCcaBusy
<1>7. ASSUME NEW status, m' = PlmeDone(status), UNCHANGED <<ot, stk>>
      PROVE  HandlerLeaves
  <2> DEFINE s == [m EXCEPT !.phyOp = "idle"]
             t == IF m.sState = "TRANSMIT"
                    THEN [s EXCEPT !.sTxStatus = status, !.sTxDone = TRUE,
                                   !.is_tx_poll = FALSE, !.is_rx_after_poll = FALSE]
                    ELSE s
  <2>1. Within(m, t, {"phyOp", "sTxStatus", "sTxDone", "is_tx_poll", "is_rx_after_poll"})
    BY DEF Within, Driver, Fields
  <2>2. m' = PlmeTail(t)
    BY <1>7 DEF PlmeDone
  <2> HIDE DEF t
  <2> QED BY <1>5, <1>7, <2>1, <2>2
<1>8. CASE PlmeEdCnf \/ PlmeTimeoutInd \/ PlmeAbortInd
  BY <1>7, <1>8 DEF PlmeEdCnf, PlmeTimeoutInd, PlmeAbortInd
<1> QED BY <1>1, <1>2, <1>4, <1>6, <1>8 DEF Handler, PhyCompletes, PhyReceives

-----------------------------------------------------------------------------
(* The stack: the steps of the driver call under way, if any, above what   *)
(* otPlatRadioProcess has still to do, which one label tells.              *)

\* The names of the steps of driver calls.
DriverNames ==
  {"abort", "phyRxOnIdle", "state", "chTest", "chPhy", "chSet", "cslStart",
   "cslReq", "cslOn", "cslStop", "cslRel", "cslOff", "cslPeriod", "roiClear",
   "roiSet", "roiRx", "roiOff", "resetRing", "phyDisable", "sleepTest",
   "sleepPoll", "sleepPollClear", "rxTest", "rxPollTest", "rxReq", "rxExit",
   "rxAtTest", "rxAtReq", "txFrame", "txTest", "txPoll", "txCsl", "txCslPoll",
   "txSave", "txReq", "edTest", "edReq", "edSet"}

Args == {"-"} \cup BOOLEAN \cup RadioState \cup Channel
        \cup (Channel \X BOOLEAN) \cup (BOOLEAN \X Channel)

DriverSteps == DriverNames \X Args

\* The points of otPlatRadioProcess.
Labels == {"idle", "evClear", "txDone", "txCallback", "inTxDone", "txClear",
           "pollDone", "rxNext", "inRxDone", "rxPop", "reenTest", "reenPhy",
           "reenClear", "edDone", "edCallback", "inEdDone", "edClear"}

\* rf_set_rx_on_idle(true), as radio_rx_process and RxOnWhenIdle call it.
RxBackOn == <<"phyRxOnIdle", TRUE>>

\* What is left of otPlatRadioProcess at each.
Bases ==
  [idle |-> << >>,
   evClear |-> ProcessSteps,
   txDone |-> << S("txDone"), S("pollDone"), S("rxNext"), S("edDone") >>,
   txCallback |-> << S("txCallback"), S("txClear"), S("pollDone"), S("rxNext"), S("edDone") >>,
   inTxDone |-> << S("ot"), S("txClear"), S("pollDone"), S("rxNext"), S("edDone") >>,
   txClear |-> << S("txClear"), S("pollDone"), S("rxNext"), S("edDone") >>,
   pollDone |-> << S("pollDone"), S("rxNext"), S("edDone") >>,
   rxNext |-> << S("rxNext"), S("edDone") >>,
   inRxDone |-> << S("ot"), S("rxPop"), S("rxNext"), S("edDone") >>,
   rxPop |-> << S("rxPop"), S("rxNext"), S("edDone") >>,
   reenTest |-> << S("reenTest"), S("edDone") >>,
   reenPhy |-> << RxBackOn, S("reenClear"), S("edDone") >>,
   reenClear |-> << S("reenClear"), S("edDone") >>,
   edDone |-> << S("edDone") >>,
   edCallback |-> << S("edCallback"), S("edClear") >>,
   inEdDone |-> << S("ot"), S("edClear") >>,
   edClear |-> << S("edClear") >>]

Base(l) == Bases[l]

\* OpenThread may have called the driver here.
CallPoints == {"idle", "inTxDone", "inRxDone", "inEdDone"}

\* The stack: P of a driver call, on otPlatRadioProcess at point l.
StackIs(P, l) ==
  /\ P \in Seq(DriverSteps) /\ l \in Labels
  /\ P # << >> => l \in CallPoints
  /\ stk = P \o Base(l)

\* The steps that wait, in any order.
Steps(P) == {P[i] : i \in 1 .. Len(P)}

\* The steps that wait, without the first.
LEMMA StepsOfTail ==
  ASSUME NEW T, NEW P \in Seq(T), P # << >>
  PROVE  /\ Tail(P) \in Seq(T) /\ Head(P) \in T
         /\ Steps(P) = {Head(P)} \cup Steps(Tail(P))
<1>1. /\ Tail(P) \in Seq(T) /\ Len(Tail(P)) = Len(P) - 1 /\ Len(P) \in Nat \ {0}
      /\ Head(P) = P[1] /\ Head(P) \in T
      /\ \A i \in 1 .. Len(P) - 1 : Tail(P)[i] = P[i + 1]
  OBVIOUS
<1>2. ASSUME NEW i \in 1 .. Len(P)
      PROVE  P[i] = Head(P) \/ \E j \in 1 .. Len(Tail(P)) : P[i] = Tail(P)[j]
  <2>1. CASE i = 1
    BY <2>1, <1>1
  <2>2. CASE i # 1
    <3>1. i - 1 \in 1 .. Len(Tail(P)) /\ Tail(P)[i - 1] = P[i - 1 + 1] /\ i - 1 + 1 = i
      BY <2>2, <1>1
    <3> QED BY <3>1
  <2> QED BY <2>1, <2>2
<1>3. ASSUME NEW j \in 1 .. Len(Tail(P))
      PROVE  j + 1 \in 1 .. Len(P) /\ Tail(P)[j] = P[j + 1]
  BY <1>1
<1>4. 1 \in 1 .. Len(P)
  BY <1>1
<1> QED BY <1>1, <1>2, <1>3, <1>4 DEF Steps

\* The steps of one call and of those below it.
LEMMA StepsOfConcat ==
  ASSUME NEW T, NEW P \in Seq(T), NEW Q \in Seq(T)
  PROVE  P \o Q \in Seq(T) /\ Steps(P \o Q) = Steps(P) \cup Steps(Q)
<1>1. /\ P \o Q \in Seq(T) /\ Len(P \o Q) = Len(P) + Len(Q)
      /\ Len(P) \in Nat /\ Len(Q) \in Nat
  OBVIOUS
<1>2. ASSUME NEW i \in 1 .. Len(P) + Len(Q)
      PROVE  \/ i \in 1 .. Len(P) /\ (P \o Q)[i] = P[i]
             \/ i - Len(P) \in 1 .. Len(Q) /\ (P \o Q)[i] = Q[i - Len(P)]
  BY <1>1
<1>3. ASSUME NEW i \in 1 .. Len(P)
      PROVE  i \in 1 .. Len(P) + Len(Q) /\ (P \o Q)[i] = P[i]
  BY <1>1
<1>4. ASSUME NEW i \in 1 .. Len(Q)
      PROVE  i + Len(P) \in 1 .. Len(P) + Len(Q) /\ (P \o Q)[i + Len(P)] = Q[i]
  BY <1>1
<1> QED BY <1>1, <1>2, <1>3, <1>4 DEF Steps

\* The steps of short calls.
LEMMA StepsOfFew ==
  /\ Steps(<< >>) = {}
  /\ \A a : Steps(<< a >>) = {a}
  /\ \A a, b : Steps(<< a, b >>) = {a, b}
  /\ \A a, b, c : Steps(<< a, b, c >>) = {a, b, c}
  /\ \A a, b, c, d : Steps(<< a, b, c, d >>) = {a, b, c, d}
<1>1. Steps(<< >>) = {}
  BY DEF Steps
<1>2. \A a : Steps(<< a >>) = {a}
  BY DEF Steps
<1>3. \A a, b : Steps(<< a, b >>) = {a, b}
  BY DEF Steps
<1>4. \A a, b, c : Steps(<< a, b, c >>) = {a, b, c}
  BY DEF Steps
<1>5. \A a, b, c, d : Steps(<< a, b, c, d >>) = {a, b, c, d}
  BY DEF Steps
<1> QED BY <1>1, <1>2, <1>3, <1>4, <1>5

\* The names of the steps of otPlatRadioProcess.
ProcessNames == {"evClear", "txDone", "txCallback", "txClear", "pollDone", "rxNext",
                 "rxPop", "reenTest", "reenClear", "edDone", "edCallback", "edClear", "ot"}

\* All that may be on the stack.
AnyStep == DriverSteps \cup (ProcessNames \X {"-"})

\* A call's first step is the next of the whole stack.
LEMMA HeadOfConcat ==
  ASSUME NEW T, NEW P \in Seq(T), NEW Q \in Seq(T), NEW N \in Seq(T), P # << >>
  PROVE  /\ P \o Q # << >> /\ Head(P \o Q) = Head(P)
         /\ N \o Tail(P \o Q) = (N \o Tail(P)) \o Q
<1>1. P \o Q # << >> /\ Head(P \o Q) = Head(P) /\ Tail(P) \in Seq(T)
  OBVIOUS
<1>2. Tail(P \o Q) = Tail(P) \o Q
  OBVIOUS
<1>3. N \o (Tail(P) \o Q) = (N \o Tail(P)) \o Q
  BY <1>1
<1> QED BY <1>1, <1>2, <1>3

\* What is left of otPlatRadioProcess at each of its points.
LEMMA BaseIs ==
  /\ Base("idle") = << >>
  /\ Base("evClear") = ProcessSteps
  /\ Base("txDone") = << S("txDone"), S("pollDone"), S("rxNext"), S("edDone") >>
  /\ Base("txCallback") = << S("txCallback"), S("txClear"), S("pollDone"), S("rxNext"), S("edDone") >>
  /\ Base("inTxDone") = << S("ot"), S("txClear"), S("pollDone"), S("rxNext"), S("edDone") >>
  /\ Base("txClear") = << S("txClear"), S("pollDone"), S("rxNext"), S("edDone") >>
  /\ Base("pollDone") = << S("pollDone"), S("rxNext"), S("edDone") >>
  /\ Base("rxNext") = << S("rxNext"), S("edDone") >>
  /\ Base("inRxDone") = << S("ot"), S("rxPop"), S("rxNext"), S("edDone") >>
  /\ Base("rxPop") = << S("rxPop"), S("rxNext"), S("edDone") >>
  /\ Base("reenTest") = << S("reenTest"), S("edDone") >>
  /\ Base("reenPhy") = << RxBackOn, S("reenClear"), S("edDone") >>
  /\ Base("reenClear") = << S("reenClear"), S("edDone") >>
  /\ Base("edDone") = << S("edDone") >>
  /\ Base("edCallback") = << S("edCallback"), S("edClear") >>
  /\ Base("inEdDone") = << S("ot"), S("edClear") >>
  /\ Base("edClear") = << S("edClear") >>
BY DEF Base, Bases

\* What is left of otPlatRadioProcess is a sequence of steps.
LEMMA BaseType ==
  ASSUME NEW l \in Labels
  PROVE  Base(l) \in Seq(AnyStep)
<1>1. /\ S("evClear") \in AnyStep /\ S("txDone") \in AnyStep /\ S("txCallback") \in AnyStep
      /\ S("txClear") \in AnyStep /\ S("pollDone") \in AnyStep /\ S("rxNext") \in AnyStep
      /\ S("rxPop") \in AnyStep /\ S("reenTest") \in AnyStep /\ S("reenClear") \in AnyStep
      /\ S("edDone") \in AnyStep /\ S("edCallback") \in AnyStep /\ S("edClear") \in AnyStep
      /\ S("ot") \in AnyStep
  BY DEF AnyStep, S, ProcessNames
<1>2. RxBackOn \in AnyStep
  BY DEF RxBackOn, AnyStep, DriverSteps, DriverNames, Args
<1>3. Base("idle") \in Seq(AnyStep)
  <2>1. << >> \in Seq(AnyStep)
    BY <1>1, <1>2
  <2> QED BY <2>1, BaseIs, Zenon
<1>4. Base("evClear") \in Seq(AnyStep)
  <2>1. ProcessSteps \in Seq(AnyStep)
    BY <1>1, <1>2 DEF ProcessSteps
  <2> QED BY <2>1, BaseIs, Zenon
<1>5. Base("txDone") \in Seq(AnyStep)
  <2>1. << S("txDone"), S("pollDone"), S("rxNext"), S("edDone") >> \in Seq(AnyStep)
    BY <1>1, <1>2
  <2> QED BY <2>1, BaseIs, Zenon
<1>6. Base("txCallback") \in Seq(AnyStep)
  <2>1. << S("txCallback"), S("txClear"), S("pollDone"), S("rxNext"), S("edDone") >> \in Seq(AnyStep)
    BY <1>1, <1>2
  <2> QED BY <2>1, BaseIs, Zenon
<1>7. Base("inTxDone") \in Seq(AnyStep)
  <2>1. << S("ot"), S("txClear"), S("pollDone"), S("rxNext"), S("edDone") >> \in Seq(AnyStep)
    BY <1>1, <1>2
  <2> QED BY <2>1, BaseIs, Zenon
<1>8. Base("txClear") \in Seq(AnyStep)
  <2>1. << S("txClear"), S("pollDone"), S("rxNext"), S("edDone") >> \in Seq(AnyStep)
    BY <1>1, <1>2
  <2> QED BY <2>1, BaseIs, Zenon
<1>9. Base("pollDone") \in Seq(AnyStep)
  <2>1. << S("pollDone"), S("rxNext"), S("edDone") >> \in Seq(AnyStep)
    BY <1>1, <1>2
  <2> QED BY <2>1, BaseIs, Zenon
<1>10. Base("rxNext") \in Seq(AnyStep)
  <2>1. << S("rxNext"), S("edDone") >> \in Seq(AnyStep)
    BY <1>1, <1>2
  <2> QED BY <2>1, BaseIs, Zenon
<1>11. Base("inRxDone") \in Seq(AnyStep)
  <2>1. << S("ot"), S("rxPop"), S("rxNext"), S("edDone") >> \in Seq(AnyStep)
    BY <1>1, <1>2
  <2> QED BY <2>1, BaseIs, Zenon
<1>12. Base("rxPop") \in Seq(AnyStep)
  <2>1. << S("rxPop"), S("rxNext"), S("edDone") >> \in Seq(AnyStep)
    BY <1>1, <1>2
  <2> QED BY <2>1, BaseIs, Zenon
<1>13. Base("reenTest") \in Seq(AnyStep)
  <2>1. << S("reenTest"), S("edDone") >> \in Seq(AnyStep)
    BY <1>1, <1>2
  <2> QED BY <2>1, BaseIs, Zenon
<1>14. Base("reenPhy") \in Seq(AnyStep)
  <2>1. << RxBackOn, S("reenClear"), S("edDone") >> \in Seq(AnyStep)
    BY <1>1, <1>2
  <2> QED BY <2>1, BaseIs, Zenon
<1>15. Base("reenClear") \in Seq(AnyStep)
  <2>1. << S("reenClear"), S("edDone") >> \in Seq(AnyStep)
    BY <1>1, <1>2
  <2> QED BY <2>1, BaseIs, Zenon
<1>16. Base("edDone") \in Seq(AnyStep)
  <2>1. << S("edDone") >> \in Seq(AnyStep)
    BY <1>1, <1>2
  <2> QED BY <2>1, BaseIs, Zenon
<1>17. Base("edCallback") \in Seq(AnyStep)
  <2>1. << S("edCallback"), S("edClear") >> \in Seq(AnyStep)
    BY <1>1, <1>2
  <2> QED BY <2>1, BaseIs, Zenon
<1>18. Base("inEdDone") \in Seq(AnyStep)
  <2>1. << S("ot"), S("edClear") >> \in Seq(AnyStep)
    BY <1>1, <1>2
  <2> QED BY <2>1, BaseIs, Zenon
<1>19. Base("edClear") \in Seq(AnyStep)
  <2>1. << S("edClear") >> \in Seq(AnyStep)
    BY <1>1, <1>2
  <2> QED BY <2>1, BaseIs, Zenon
<1> QED BY <1>3, <1>4, <1>5, <1>6, <1>7, <1>8, <1>9, <1>10, <1>11, <1>12, <1>13, <1>14, <1>15, <1>16, <1>17, <1>18, <1>19 DEF Labels

\* The first thing otPlatRadioProcess has still to do.
LEMMA BaseHead ==
  ASSUME NEW l \in Labels
  PROVE  /\ l = "idle" <=> Base(l) = << >>
         /\ l \in {"inTxDone", "inRxDone", "inEdDone"} => Head(Base(l)) = S("ot")
         /\ l = "reenPhy" => Head(Base(l)) = RxBackOn
         /\ l \in Labels \ {"idle", "inTxDone", "inRxDone", "inEdDone", "reenPhy"} => Head(Base(l)) = S(l)
<1>2. \A a, b, c, d, e :
        /\ Head(<< a >>) = a /\ Head(<< a, b >>) = a /\ Head(<< a, b, c >>) = a
        /\ Head(<< a, b, c, d >>) = a /\ Head(<< a, b, c, d, e >>) = a
  OBVIOUS
<1>0. \A a, b, c, d, e :
        /\ << a >> # << >> /\ << a, b >> # << >> /\ << a, b, c >> # << >>
        /\ << a, b, c, d >> # << >> /\ << a, b, c, d, e >> # << >>
  OBVIOUS
<1>1. l = "idle" <=> Base(l) = << >>
  BY <1>0, BaseIs DEF Labels, ProcessSteps
<1>3. l \in {"inTxDone", "inRxDone", "inEdDone"} => Head(Base(l)) = S("ot")
  BY <1>2, BaseIs
<1>4. l = "reenPhy" => Head(Base(l)) = RxBackOn
  BY <1>2, BaseIs
<1>5. l \in Labels \ {"idle", "inTxDone", "inRxDone", "inEdDone", "reenPhy"} => Head(Base(l)) = S(l)
  BY <1>2, BaseIs DEF ProcessSteps, Labels
<1> QED BY <1>1, <1>3, <1>4, <1>5

\* A step of a call replaces the first of those that wait.
LEMMA DriverDoes ==
  ASSUME NEW P, NEW l, StackIs(P, l),
         NEW s \in DriverSteps, s # RxBackOn \/ P # << >>,
         NEW new \in Seq(DriverSteps), Does(s, new)
  PROVE  /\ P # << >> /\ s = Head(P) /\ l \in CallPoints
         /\ StackIs(new \o Tail(P), l)'
         /\ Tail(P) \in Seq(DriverSteps)
         /\ Steps(P) = {s} \cup Steps(Tail(P))
         /\ Steps(new \o Tail(P)) = Steps(new) \cup Steps(Tail(P))
<1>1. P \in Seq(AnyStep) /\ Base(l) \in Seq(AnyStep) /\ new \in Seq(AnyStep)
  BY BaseType DEF StackIs, AnyStep
<1>2. P # << >>
  <2> SUFFICES ASSUME P = << >> PROVE FALSE
    OBVIOUS
  <2>1. stk = Base(l)
    BY <1>1 DEF StackIs
  <2>2. Base(l) # << >> /\ Head(Base(l)) = s
    BY <2>1 DEF Does
  <2>3. s[1] \in DriverNames
    BY DEF DriverSteps
  <2>4. l \in Labels
    BY DEF StackIs
  <2>5. l \in Labels \ {"idle", "reenPhy"}
    BY <2>2, <2>4, BaseHead
  <2>6. s = S("ot") \/ s = S(l)
    BY <2>2, <2>5, BaseHead
  <2> QED BY <2>3, <2>5, <2>6 DEF S, DriverNames, Labels
<1>3. s = Head(P) /\ stk' = (new \o Tail(P)) \o Base(l)
  <2>1. stk = P \o Base(l) /\ Head(stk) = s /\ stk' = new \o Tail(stk)
    BY DEF Does, StackIs
  <2>2. Head(stk) = Head(P) /\ new \o Tail(stk) = (new \o Tail(P)) \o Base(l)
    <3> DEFINE Q == Base(l)
    <3>1. Q \in Seq(AnyStep) /\ stk = P \o Q
      BY <1>1, <2>1
    <3> HIDE DEF Q
    <3>2. Head(P \o Q) = Head(P) /\ new \o Tail(P \o Q) = (new \o Tail(P)) \o Q
      <4> DEFINE T == AnyStep
      <4>1. P \in Seq(T) /\ Q \in Seq(T) /\ new \in Seq(T)
        BY <1>1, <3>1
      <4> HIDE DEF T
      <4> QED BY ONLY <4>1, <1>2, HeadOfConcat
    <3> QED BY <3>1, <3>2 DEF Q
  <2> QED BY <2>1, <2>2
<1>4. P \in Seq(DriverSteps)
  BY DEF StackIs
<1>5. Tail(P) \in Seq(DriverSteps) /\ Steps(P) = {s} \cup Steps(Tail(P))
  BY <1>2, <1>3, <1>4, StepsOfTail
<1>6. new \o Tail(P) \in Seq(DriverSteps) /\ Steps(new \o Tail(P)) = Steps(new) \cup Steps(Tail(P))
  <2> DEFINE Q == Tail(P)
  <2>1. new \in Seq(DriverSteps) /\ Q \in Seq(DriverSteps)
    BY <1>5
  <2> HIDE DEF Q
  <2>2. new \o Q \in Seq(DriverSteps) /\ Steps(new \o Q) = Steps(new) \cup Steps(Q)
    BY ONLY <2>1, StepsOfConcat
  <2> QED BY <2>2 DEF Q
<1> QED BY <1>2, <1>3, <1>5, <1>6 DEF StackIs

\* The concatenation of two sequences, element by element.
LEMMA ConcatIs ==
  ASSUME NEW T, NEW p \in Seq(T), NEW q \in Seq(T), NEW r \in Seq(T),
         Len(r) = Len(p) + Len(q),
         \A i \in 1 .. Len(p) : r[i] = p[i],
         \A i \in 1 .. Len(q) : r[Len(p) + i] = q[i]
  PROVE  p \o q = r
<1>1. p \o q \in Seq(T) /\ Len(p \o q) = Len(r) /\ Len(p) \in Nat /\ Len(q) \in Nat
  OBVIOUS
<1>2. ASSUME NEW i \in 1 .. Len(p \o q)
      PROVE  (p \o q)[i] = r[i]
  <2>1. CASE i \in 1 .. Len(p)
    BY <2>1, <1>1
  <2>2. CASE i \notin 1 .. Len(p)
    <3>1. i - Len(p) \in 1 .. Len(q) /\ Len(p) + (i - Len(p)) = i
      BY <1>1, <2>2
    <3>2. (p \o q)[i] = q[i - Len(p)]
      BY <1>1, <2>2, <3>1
    <3> QED BY <3>1, <3>2
  <2> QED BY <2>1, <2>2
<1> QED BY <1>1, <1>2, SeqEqual

\* Concatenations of short tuples.
LEMMA Concat11 ==
  ASSUME NEW x, NEW b
  PROVE  << x >> \o << b >> = << x, b >>
<1> DEFINE T == {x, b}
           p == << x >>
           q == << b >>
           r == << x, b >>
<1>1. p \in Seq(T) /\ q \in Seq(T) /\ r \in Seq(T) /\ Len(r) = Len(p) + Len(q)
  OBVIOUS
<1>2. \A i \in 1 .. Len(p) : r[i] = p[i]
  OBVIOUS
<1>3. \A i \in 1 .. Len(q) : r[Len(p) + i] = q[i]
  OBVIOUS
<1> HIDE DEF p, q, r, T
<1>4. p \o q = r
  BY <1>1, <1>2, <1>3, ConcatIs
<1> QED BY <1>4 DEF p, q, r

\* Short sequences, one after the other.
LEMMA Concat14 ==
  ASSUME NEW x, NEW b, NEW c, NEW d, NEW e
  PROVE  << x >> \o << b, c, d, e >> = << x, b, c, d, e >>
<1> DEFINE T == {x, b, c, d, e}
           p == << x >>
           q == << b, c, d, e >>
           r == << x, b, c, d, e >>
<1>1. p \in Seq(T) /\ q \in Seq(T) /\ r \in Seq(T) /\ Len(r) = Len(p) + Len(q)
  OBVIOUS
<1>2. \A i \in 1 .. Len(p) : r[i] = p[i]
  OBVIOUS
<1>3. \A i \in 1 .. Len(q) : r[Len(p) + i] = q[i]
  OBVIOUS
<1> HIDE DEF p, q, r, T
<1>4. p \o q = r
  BY <1>1, <1>2, <1>3, ConcatIs
<1> QED BY <1>4 DEF p, q, r

\* Two elements and none.
LEMMA Concat20 ==
  ASSUME NEW x, NEW y
  PROVE  << x, y >> \o << >> = << x, y >>
<1> DEFINE T == {x, y}
           p == << x, y >>
           q == << >>
           r == << x, y >>
<1>1. p \in Seq(T) /\ q \in Seq(T) /\ r \in Seq(T) /\ Len(r) = Len(p) + Len(q)
  OBVIOUS
<1>2. \A i \in 1 .. Len(p) : r[i] = p[i]
  OBVIOUS
<1>3. \A i \in 1 .. Len(q) : r[Len(p) + i] = q[i]
  OBVIOUS
<1> HIDE DEF p, q, r, T
<1>4. p \o q = r
  BY <1>1, <1>2, <1>3, ConcatIs
<1> QED BY <1>4 DEF p, q, r

\* Two elements and one.
LEMMA Concat21 ==
  ASSUME NEW x, NEW y, NEW b
  PROVE  << x, y >> \o << b >> = << x, y, b >>
<1> DEFINE T == {x, y, b}
           p == << x, y >>
           q == << b >>
           r == << x, y, b >>
<1>1. p \in Seq(T) /\ q \in Seq(T) /\ r \in Seq(T) /\ Len(r) = Len(p) + Len(q)
  OBVIOUS
<1>2. \A i \in 1 .. Len(p) : r[i] = p[i]
  OBVIOUS
<1>3. \A i \in 1 .. Len(q) : r[Len(p) + i] = q[i]
  OBVIOUS
<1> HIDE DEF p, q, r, T
<1>4. p \o q = r
  BY <1>1, <1>2, <1>3, ConcatIs
<1> QED BY <1>4 DEF p, q, r

\* Two elements and two.
LEMMA Concat22 ==
  ASSUME NEW x, NEW y, NEW b, NEW c
  PROVE  << x, y >> \o << b, c >> = << x, y, b, c >>
<1> DEFINE T == {x, y, b, c}
           p == << x, y >>
           q == << b, c >>
           r == << x, y, b, c >>
<1>1. p \in Seq(T) /\ q \in Seq(T) /\ r \in Seq(T) /\ Len(r) = Len(p) + Len(q)
  OBVIOUS
<1>2. \A i \in 1 .. Len(p) : r[i] = p[i]
  OBVIOUS
<1>3. \A i \in 1 .. Len(q) : r[Len(p) + i] = q[i]
  OBVIOUS
<1> HIDE DEF p, q, r, T
<1>4. p \o q = r
  BY <1>1, <1>2, <1>3, ConcatIs
<1> QED BY <1>4 DEF p, q, r

\* Two elements and three.
LEMMA Concat23 ==
  ASSUME NEW x, NEW y, NEW b, NEW c, NEW d
  PROVE  << x, y >> \o << b, c, d >> = << x, y, b, c, d >>
<1> DEFINE T == {x, y, b, c, d}
           p == << x, y >>
           q == << b, c, d >>
           r == << x, y, b, c, d >>
<1>1. p \in Seq(T) /\ q \in Seq(T) /\ r \in Seq(T) /\ Len(r) = Len(p) + Len(q)
  OBVIOUS
<1>2. \A i \in 1 .. Len(p) : r[i] = p[i]
  OBVIOUS
<1>3. \A i \in 1 .. Len(q) : r[Len(p) + i] = q[i]
  OBVIOUS
<1> HIDE DEF p, q, r, T
<1>4. p \o q = r
  BY <1>1, <1>2, <1>3, ConcatIs
<1> QED BY <1>4 DEF p, q, r

\* Three elements and one.
LEMMA Concat31 ==
  ASSUME NEW x, NEW y, NEW z, NEW b
  PROVE  << x, y, z >> \o << b >> = << x, y, z, b >>
<1> DEFINE T == {x, y, z, b}
           p == << x, y, z >>
           q == << b >>
           r == << x, y, z, b >>
<1>1. p \in Seq(T) /\ q \in Seq(T) /\ r \in Seq(T) /\ Len(r) = Len(p) + Len(q)
  OBVIOUS
<1>2. \A i \in 1 .. Len(p) : r[i] = p[i]
  OBVIOUS
<1>3. \A i \in 1 .. Len(q) : r[Len(p) + i] = q[i]
  OBVIOUS
<1> HIDE DEF p, q, r, T
<1>4. p \o q = r
  BY <1>1, <1>2, <1>3, ConcatIs
<1> QED BY <1>4 DEF p, q, r

\* What follows each of the things otPlatRadioProcess does.
LEMMA BaseTail ==
  /\ << >> \o Tail(Base("evClear")) = Base("txDone")
  /\ << S("txCallback"), S("txClear") >> \o Tail(Base("txDone")) = Base("txCallback")
  /\ << >> \o Tail(Base("txDone")) = Base("pollDone")
  /\ << S("ot") >> \o Tail(Base("txCallback")) = Base("inTxDone")
  /\ << >> \o Tail(Base("inTxDone")) = Base("txClear")
  /\ << >> \o Tail(Base("txClear")) = Base("pollDone")
  /\ << >> \o Tail(Base("pollDone")) = Base("rxNext")
  /\ << S("ot"), S("rxPop"), S("rxNext") >> \o Tail(Base("rxNext")) = Base("inRxDone")
  /\ << S("reenTest") >> \o Tail(Base("rxNext")) = Base("reenTest")
  /\ << >> \o Tail(Base("inRxDone")) = Base("rxPop")
  /\ << >> \o Tail(Base("rxPop")) = Base("rxNext")
  /\ << RxBackOn, S("reenClear") >> \o Tail(Base("reenTest")) = Base("reenPhy")
  /\ << >> \o Tail(Base("reenTest")) = Base("edDone")
  /\ << >> \o Tail(Base("reenPhy")) = Base("reenClear")
  /\ << >> \o Tail(Base("reenClear")) = Base("edDone")
  /\ << S("edCallback"), S("edClear") >> \o Tail(Base("edDone")) = Base("edCallback")
  /\ << >> \o Tail(Base("edDone")) = Base("idle")
  /\ << S("ot") >> \o Tail(Base("edCallback")) = Base("inEdDone")
  /\ << >> \o Tail(Base("inEdDone")) = Base("edClear")
  /\ << >> \o Tail(Base("edClear")) = Base("idle")
<1>1. << >> \o Tail(Base("evClear")) = Base("txDone")
  <2>1. Tail(<< S("evClear"), S("txDone"), S("pollDone"), S("rxNext"), S("edDone") >>) = << S("txDone"), S("pollDone"), S("rxNext"), S("edDone") >>
    OBVIOUS
  <2>2. << >> \o << S("txDone"), S("pollDone"), S("rxNext"), S("edDone") >> = << S("txDone"), S("pollDone"), S("rxNext"), S("edDone") >>
    OBVIOUS
  <2> QED BY <2>1, <2>2, BaseIs, Zenon DEF ProcessSteps
<1>2. << S("txCallback"), S("txClear") >> \o Tail(Base("txDone")) = Base("txCallback")
  <2>1. Tail(<< S("txDone"), S("pollDone"), S("rxNext"), S("edDone") >>) = << S("pollDone"), S("rxNext"), S("edDone") >>
    OBVIOUS
  <2>2. << S("txCallback"), S("txClear") >> \o << S("pollDone"), S("rxNext"), S("edDone") >> = << S("txCallback"), S("txClear"), S("pollDone"), S("rxNext"), S("edDone") >>
    BY Concat23
  <2> QED BY <2>1, <2>2, BaseIs, Zenon DEF ProcessSteps
<1>3. << >> \o Tail(Base("txDone")) = Base("pollDone")
  <2>1. Tail(<< S("txDone"), S("pollDone"), S("rxNext"), S("edDone") >>) = << S("pollDone"), S("rxNext"), S("edDone") >>
    OBVIOUS
  <2>2. << >> \o << S("pollDone"), S("rxNext"), S("edDone") >> = << S("pollDone"), S("rxNext"), S("edDone") >>
    OBVIOUS
  <2> QED BY <2>1, <2>2, BaseIs, Zenon DEF ProcessSteps
<1>4. << S("ot") >> \o Tail(Base("txCallback")) = Base("inTxDone")
  <2>1. Tail(<< S("txCallback"), S("txClear"), S("pollDone"), S("rxNext"), S("edDone") >>) = << S("txClear"), S("pollDone"), S("rxNext"), S("edDone") >>
    OBVIOUS
  <2>2. << S("ot") >> \o << S("txClear"), S("pollDone"), S("rxNext"), S("edDone") >> = << S("ot"), S("txClear"), S("pollDone"), S("rxNext"), S("edDone") >>
    BY Concat14
  <2> QED BY <2>1, <2>2, BaseIs, Zenon DEF ProcessSteps
<1>5. << >> \o Tail(Base("inTxDone")) = Base("txClear")
  <2>1. Tail(<< S("ot"), S("txClear"), S("pollDone"), S("rxNext"), S("edDone") >>) = << S("txClear"), S("pollDone"), S("rxNext"), S("edDone") >>
    OBVIOUS
  <2>2. << >> \o << S("txClear"), S("pollDone"), S("rxNext"), S("edDone") >> = << S("txClear"), S("pollDone"), S("rxNext"), S("edDone") >>
    OBVIOUS
  <2> QED BY <2>1, <2>2, BaseIs, Zenon DEF ProcessSteps
<1>6. << >> \o Tail(Base("txClear")) = Base("pollDone")
  <2>1. Tail(<< S("txClear"), S("pollDone"), S("rxNext"), S("edDone") >>) = << S("pollDone"), S("rxNext"), S("edDone") >>
    OBVIOUS
  <2>2. << >> \o << S("pollDone"), S("rxNext"), S("edDone") >> = << S("pollDone"), S("rxNext"), S("edDone") >>
    OBVIOUS
  <2> QED BY <2>1, <2>2, BaseIs, Zenon DEF ProcessSteps
<1>7. << >> \o Tail(Base("pollDone")) = Base("rxNext")
  <2>1. Tail(<< S("pollDone"), S("rxNext"), S("edDone") >>) = << S("rxNext"), S("edDone") >>
    OBVIOUS
  <2>2. << >> \o << S("rxNext"), S("edDone") >> = << S("rxNext"), S("edDone") >>
    OBVIOUS
  <2> QED BY <2>1, <2>2, BaseIs, Zenon DEF ProcessSteps
<1>8. << S("ot"), S("rxPop"), S("rxNext") >> \o Tail(Base("rxNext")) = Base("inRxDone")
  <2>1. Tail(<< S("rxNext"), S("edDone") >>) = << S("edDone") >>
    OBVIOUS
  <2>2. << S("ot"), S("rxPop"), S("rxNext") >> \o << S("edDone") >> = << S("ot"), S("rxPop"), S("rxNext"), S("edDone") >>
    BY Concat31
  <2> QED BY <2>1, <2>2, BaseIs, Zenon DEF ProcessSteps
<1>9. << S("reenTest") >> \o Tail(Base("rxNext")) = Base("reenTest")
  <2>1. Tail(<< S("rxNext"), S("edDone") >>) = << S("edDone") >>
    OBVIOUS
  <2>2. << S("reenTest") >> \o << S("edDone") >> = << S("reenTest"), S("edDone") >>
    BY Concat11
  <2> QED BY <2>1, <2>2, BaseIs, Zenon DEF ProcessSteps
<1>10. << >> \o Tail(Base("inRxDone")) = Base("rxPop")
  <2>1. Tail(<< S("ot"), S("rxPop"), S("rxNext"), S("edDone") >>) = << S("rxPop"), S("rxNext"), S("edDone") >>
    OBVIOUS
  <2>2. << >> \o << S("rxPop"), S("rxNext"), S("edDone") >> = << S("rxPop"), S("rxNext"), S("edDone") >>
    OBVIOUS
  <2> QED BY <2>1, <2>2, BaseIs, Zenon DEF ProcessSteps
<1>11. << >> \o Tail(Base("rxPop")) = Base("rxNext")
  <2>1. Tail(<< S("rxPop"), S("rxNext"), S("edDone") >>) = << S("rxNext"), S("edDone") >>
    OBVIOUS
  <2>2. << >> \o << S("rxNext"), S("edDone") >> = << S("rxNext"), S("edDone") >>
    OBVIOUS
  <2> QED BY <2>1, <2>2, BaseIs, Zenon DEF ProcessSteps
<1>12. << RxBackOn, S("reenClear") >> \o Tail(Base("reenTest")) = Base("reenPhy")
  <2>1. Tail(<< S("reenTest"), S("edDone") >>) = << S("edDone") >>
    OBVIOUS
  <2>2. << RxBackOn, S("reenClear") >> \o << S("edDone") >> = << RxBackOn, S("reenClear"), S("edDone") >>
    BY Concat21
  <2> QED BY <2>1, <2>2, BaseIs, Zenon DEF ProcessSteps
<1>13. << >> \o Tail(Base("reenTest")) = Base("edDone")
  <2>1. Tail(<< S("reenTest"), S("edDone") >>) = << S("edDone") >>
    OBVIOUS
  <2>2. << >> \o << S("edDone") >> = << S("edDone") >>
    OBVIOUS
  <2> QED BY <2>1, <2>2, BaseIs, Zenon DEF ProcessSteps
<1>14. << >> \o Tail(Base("reenPhy")) = Base("reenClear")
  <2>1. Tail(<< RxBackOn, S("reenClear"), S("edDone") >>) = << S("reenClear"), S("edDone") >>
    OBVIOUS
  <2>2. << >> \o << S("reenClear"), S("edDone") >> = << S("reenClear"), S("edDone") >>
    OBVIOUS
  <2> QED BY <2>1, <2>2, BaseIs, Zenon DEF ProcessSteps
<1>15. << >> \o Tail(Base("reenClear")) = Base("edDone")
  <2>1. Tail(<< S("reenClear"), S("edDone") >>) = << S("edDone") >>
    OBVIOUS
  <2>2. << >> \o << S("edDone") >> = << S("edDone") >>
    OBVIOUS
  <2> QED BY <2>1, <2>2, BaseIs, Zenon DEF ProcessSteps
<1>16. << S("edCallback"), S("edClear") >> \o Tail(Base("edDone")) = Base("edCallback")
  <2>1. Tail(<< S("edDone") >>) = << >>
    OBVIOUS
  <2>2. << S("edCallback"), S("edClear") >> \o << >> = << S("edCallback"), S("edClear") >>
    BY Concat20
  <2> QED BY <2>1, <2>2, BaseIs, Zenon DEF ProcessSteps
<1>17. << >> \o Tail(Base("edDone")) = Base("idle")
  <2>1. Tail(<< S("edDone") >>) = << >>
    OBVIOUS
  <2>2. << >> \o << >> = << >>
    OBVIOUS
  <2> QED BY <2>1, <2>2, BaseIs, Zenon DEF ProcessSteps
<1>18. << S("ot") >> \o Tail(Base("edCallback")) = Base("inEdDone")
  <2>1. Tail(<< S("edCallback"), S("edClear") >>) = << S("edClear") >>
    OBVIOUS
  <2>2. << S("ot") >> \o << S("edClear") >> = << S("ot"), S("edClear") >>
    BY Concat11
  <2> QED BY <2>1, <2>2, BaseIs, Zenon DEF ProcessSteps
<1>19. << >> \o Tail(Base("inEdDone")) = Base("edClear")
  <2>1. Tail(<< S("ot"), S("edClear") >>) = << S("edClear") >>
    OBVIOUS
  <2>2. << >> \o << S("edClear") >> = << S("edClear") >>
    OBVIOUS
  <2> QED BY <2>1, <2>2, BaseIs, Zenon DEF ProcessSteps
<1>20. << >> \o Tail(Base("edClear")) = Base("idle")
  <2>1. Tail(<< S("edClear") >>) = << >>
    OBVIOUS
  <2>2. << >> \o << >> = << >>
    OBVIOUS
  <2> QED BY <2>1, <2>2, BaseIs, Zenon DEF ProcessSteps
<1> QED
  BY <1>1, <1>2, <1>3, <1>4, <1>5, <1>6, <1>7, <1>8, <1>9, <1>10, <1>11, <1>12, <1>13, <1>14, <1>15, <1>16, <1>17, <1>18, <1>19, <1>20

\* A step of otPlatRadioProcess runs when no call is open above it.
LEMMA ProcessDoes ==
  ASSUME NEW P, NEW l, StackIs(P, l), NEW n \in ProcessNames,
         stk # << >>, Head(stk) = S(n)
  PROVE  /\ P = << >> /\ stk = Base(l) /\ l \in Labels
         /\ n # "ot" => l = n
         /\ n = "ot" => l \in {"inTxDone", "inRxDone", "inEdDone"}
<1>1. P \in Seq(AnyStep) /\ Base(l) \in Seq(AnyStep) /\ << >> \in Seq(AnyStep) /\ l \in Labels
  BY BaseType DEF StackIs, AnyStep
<1>2. stk = P \o Base(l) /\ P \in Seq(DriverSteps)
  BY DEF StackIs
<1>3. P = << >>
  <2> SUFFICES ASSUME P # << >> PROVE FALSE
    OBVIOUS
  <2>1. S(n) = Head(P)
    BY <1>1, <1>2, HeadOfConcat
  <2>2. S(n) \in DriverSteps
    BY <2>1, <1>2, StepsOfTail
  <2> QED BY <2>2 DEF DriverSteps, S, DriverNames, ProcessNames
<1>4. stk = Base(l)
  BY <1>1, <1>2, <1>3
<1>5. l # "idle" /\ l # "reenPhy"
  <2>1. Base(l) # << >> /\ Head(Base(l)) = S(n)
    BY <1>4
  <2>2. S(n) # RxBackOn
    BY DEF S, RxBackOn, ProcessNames
  <2> QED BY <1>1, <2>1, <2>2, BaseHead
<1>6. \/ Head(Base(l)) = S("ot") /\ l \in {"inTxDone", "inRxDone", "inEdDone"}
      \/ /\ Head(Base(l)) = S(l)
         /\ l \in Labels \ {"idle", "inTxDone", "inRxDone", "inEdDone", "reenPhy"}
  BY <1>1, <1>5, BaseHead
<1>7. \A a, b : S(a) = S(b) => a = b
  BY DEF S
<1> QED BY <1>1, <1>3, <1>4, <1>6, <1>7 DEF Labels

\* One step of otPlatRadioProcess, from label l to label k.
ProcessTo(l, k) ==
  \/ /\ l = "evClear" /\ k = "txDone" /\ UNCHANGED ot
     /\ m' = IF m.is_radio_event
               THEN [m EXCEPT !.is_radio_event = FALSE, !.lpDisallow = @ - 1] ELSE m
  \/ /\ l = "txDone" /\ UNCHANGED <<m, ot>>
     /\ (m.sTxDone /\ k = "txCallback") \/ (~m.sTxDone /\ k = "pollDone")
  \/ l = "txCallback" /\ k = "inTxDone" /\ UNCHANGED m /\ ot' = [ot EXCEPT !.tx = FALSE]
  \/ l = "inTxDone" /\ k = "txClear" /\ UNCHANGED <<m, ot>>
  \/ l = "txClear" /\ k = "pollDone" /\ m' = [m EXCEPT !.sTxDone = FALSE] /\ UNCHANGED ot
  \/ /\ l = "pollDone" /\ k = "rxNext" /\ UNCHANGED ot
     /\ m' = [m EXCEPT !.rx_after_poll_done = FALSE]
  \/ /\ l = "rxNext" /\ UNCHANGED <<m, ot>>
     /\ (m.ring > 0 /\ k = "inRxDone") \/ (~(m.ring > 0) /\ k = "reenTest")
  \/ l = "inRxDone" /\ k = "rxPop" /\ UNCHANGED <<m, ot>>
  \/ l = "rxPop" /\ k = "rxNext" /\ m' = [m EXCEPT !.ring = @ - 1] /\ UNCHANGED ot
  \/ /\ l = "reenTest" /\ UNCHANGED <<m, ot>>
     /\ (m.rx_on_idle_disabled /\ k = "reenPhy") \/ (~m.rx_on_idle_disabled /\ k = "edDone")
  \/ l = "reenPhy" /\ k = "reenClear" /\ m' = [m EXCEPT !.phyRxOnIdle = TRUE] /\ UNCHANGED ot
  \/ /\ l = "reenClear" /\ k = "edDone" /\ UNCHANGED ot
     /\ m' = [m EXCEPT !.rx_on_idle_disabled = FALSE]
  \/ /\ l = "edDone" /\ UNCHANGED <<m, ot>>
     /\ (m.sEdScanDone /\ k = "edCallback") \/ (~m.sEdScanDone /\ k = "idle")
  \/ l = "edCallback" /\ k = "inEdDone" /\ UNCHANGED m /\ ot' = [ot EXCEPT !.scan = FALSE]
  \/ l = "inEdDone" /\ k = "edClear" /\ UNCHANGED <<m, ot>>
  \/ l = "edClear" /\ k = "idle" /\ m' = [m EXCEPT !.sEdScanDone = FALSE] /\ UNCHANGED ot

\* A step of otPlatRadioProcess leads to the next of its points.
LEMMA ProcessControl ==
  ASSUME NEW P, NEW l, StackIs(P, l), ProcessStep \/ CallbackReturn
  PROVE  P = << >> /\ \E k \in Labels : StackIs(<< >>, k)' /\ ProcessTo(l, k)
<1>0. ASSUME NEW n \in ProcessNames, NEW new, Does(S(n), new)
      PROVE  /\ P = << >> /\ stk' = new \o Tail(Base(l)) /\ l \in Labels
             /\ n # "ot" => l = n
             /\ n = "ot" => l \in {"inTxDone", "inRxDone", "inEdDone"}
  BY <1>0, ProcessDoes DEF Does
<1> SUFFICES P = << >> /\ \E k \in Labels : stk' = Base(k) /\ ProcessTo(l, k)
  <2>1. \A k \in Labels : << >> \o Base(k) = Base(k)
    BY BaseType
  <2>2. << >> \in Seq(DriverSteps)
    OBVIOUS
  <2> QED BY <2>1, <2>2 DEF StackIs
<1>1. CASE EventClear
  BY <1>0, <1>1, BaseTail DEF EventClear, Sets, ProcessNames, Labels, ProcessTo
<1>2. CASE TxDoneTest
  BY <1>0, <1>2, BaseTail DEF TxDoneTest, Tests, ProcessNames, Labels, ProcessTo
<1>3. CASE TxCallback
  BY <1>0, <1>3, BaseTail DEF TxCallback, ProcessNames, Labels, ProcessTo
<1>4. CASE TxClear
  BY <1>0, <1>4, BaseTail DEF TxClear, Sets, ProcessNames, Labels, ProcessTo
<1>5. CASE PollDoneClear
  BY <1>0, <1>5, BaseTail DEF PollDoneClear, Sets, ProcessNames, Labels, ProcessTo
<1>6. CASE RxNext
  BY <1>0, <1>6, BaseTail DEF RxNext, Tests, ProcessNames, Labels, ProcessTo
<1>7. CASE RxPop
  BY <1>0, <1>7, BaseTail DEF RxPop, Sets, ProcessNames, Labels, ProcessTo
<1>8. CASE ReenableTest
  <2>1. Tests(S("reenTest"),
              IF m.rx_on_idle_disabled THEN << RxBackOn, S("reenClear") >> ELSE << >>)
    BY <1>8, Zenon DEF ReenableTest, RxBackOn
  <2> QED BY <1>0, <2>1, BaseTail DEF Tests, ProcessNames, Labels, ProcessTo
<1>9. CASE ReenableClear
  BY <1>0, <1>9, BaseTail DEF ReenableClear, Sets, ProcessNames, Labels, ProcessTo
<1>10. CASE EdDoneTest
  BY <1>0, <1>10, BaseTail DEF EdDoneTest, Tests, ProcessNames, Labels, ProcessTo
<1>11. CASE EdCallback
  BY <1>0, <1>11, BaseTail DEF EdCallback, ProcessNames, Labels, ProcessTo
<1>12. CASE EdClear
  BY <1>0, <1>12, BaseTail DEF EdClear, Sets, ProcessNames, Labels, ProcessTo
<1>13. CASE CallbackReturn
  <2>1. /\ P = << >> /\ stk' = << >> \o Tail(Base(l)) /\ UNCHANGED <<m, ot>>
        /\ l \in {"inTxDone", "inRxDone", "inEdDone"}
    BY <1>0, <1>13 DEF CallbackReturn, Tests, ProcessNames
  <2>2. CASE l = "inTxDone"
    BY <2>1, <2>2, BaseTail DEF Labels, ProcessTo
  <2>3. CASE l = "inRxDone"
    BY <2>1, <2>3, BaseTail DEF Labels, ProcessTo
  <2>4. CASE l = "inEdDone"
    BY <2>1, <2>4, BaseTail DEF Labels, ProcessTo
  <2> QED BY <2>1, <2>2, <2>3, <2>4
<1> QED
  BY <1>1, <1>2, <1>3, <1>4, <1>5, <1>6, <1>7, <1>8, <1>9, <1>10, <1>11, <1>12, <1>13 DEF ProcessStep

-----------------------------------------------------------------------------
(* The steps of a driver call.                                             *)

\* The fields the properties are about.
Watched == {"sState", "rx_on_idle_disabled", "is_rx_on_idle", "is_ed_scan", "sTxDone",
            "sEdScanDone", "is_radio_event", "ring", "phyOp", "phyRxOnIdle", "lpDisallow"}

\* rf_set_rx_on_idle(false)
RxOff == <<"phyRxOnIdle", FALSE>>

\* The assignments to is_rx_on_idle.
RoiSetOn == <<"roiSet", TRUE>>
RoiSetOff == <<"roiSet", FALSE>>

\* new has only steps of these names.
Named(new, names) == \A x \in Steps(new) : x[1] \in names

\* Steps that watch, or set what no property is about, and what they lead to.
Mild(s, new) ==
  \/ /\ s[1] \in {"chPhy", "chSet", "cslReq", "cslOn", "cslRel", "cslOff", "cslPeriod",
                  "sleepPollClear", "rxExit", "txFrame", "txPoll", "txCslPoll"}
     /\ new = << >>
  \/ /\ s[1] \in {"chTest", "cslStart", "cslStop"}
     /\ Named(new, {"chPhy", "chSet", "cslReq", "cslOn", "cslRel", "cslOff"})
  \/ /\ s = S("roiOff")
     /\ \/ /\ ~m.is_ed_scan /\ m.sState # "TRANSMIT"
           /\ new = << S("abort"), <<"state", "SLEEP">> >>
        \/ new = << RxOff >>
  \/ s = S("sleepTest") /\ Named(new, {"cslStop", "sleepPoll"})
  \/ /\ s = S("sleepPoll")
     /\ \A x \in Steps(new) : x = <<"state", "SLEEP">> \/ x[1] \in {"sleepPollClear", "abort"}
  \/ s[1] = "rxTest" /\ Named(new, {"rxPollTest", "rxExit"})
  \/ /\ s[1] = "rxPollTest"
     /\ \A x \in Steps(new) : x = <<"state", "RECEIVE">> \/ x[1] \in {"chTest", "rxReq"}
  \/ s[1] = "rxAtTest" /\ Named(new, {"cslStart", "chTest", "rxAtReq"})
  \/ /\ s[1] = "txTest"
     /\ \/ new = << >>
        \/ \E a, b : /\ new = << a, b, S("txCsl"), S("txSave") >>
                     /\ a[1] = "txPoll" /\ b[1] = "chTest"
  \/ s[1] = "txCsl" /\ Named(new, {"cslStart", "txCslPoll"})
  \/ s = S("txSave") /\ new = << <<"state", "TRANSMIT">>, <<"txReq", m.sState>> >>
  \/ /\ s[1] = "edTest"
     /\ \/ new = << >>
        \/ m.sState # "TRANSMIT" /\ \E a : new = << a, S("edReq") >> /\ a[1] = "chTest"

\* A step of a driver call, replaced by those in new.
DriverTo(s, new) ==
  \/ Mild(s, new) /\ Within(m, m', Fields \ Watched) /\ UNCHANGED ot
  \/ s = S("abort") /\ new = << >> /\ m' = PhyForceOff(m) /\ UNCHANGED ot
  \/ s = RxBackOn /\ new = << >> /\ m' = [m EXCEPT !.phyRxOnIdle = TRUE] /\ UNCHANGED ot
  \/ s = RxOff /\ new = << >> /\ m' = [m EXCEPT !.phyRxOnIdle = FALSE] /\ UNCHANGED ot
  \/ \E q \in RadioState :
       s = <<"state", q>> /\ new = << >> /\ m' = [m EXCEPT !.sState = q] /\ UNCHANGED ot
  \/ s = S("roiClear") /\ new = << >> /\ m' = [m EXCEPT !.rx_on_idle_disabled = FALSE] /\ UNCHANGED ot
  \/ s = RoiSetOn /\ new = << >> /\ m' = [m EXCEPT !.is_rx_on_idle = TRUE] /\ UNCHANGED ot
  \/ s = RoiSetOff /\ new = << >> /\ m' = [m EXCEPT !.is_rx_on_idle = FALSE] /\ UNCHANGED ot
  \/ /\ s = S("roiRx") /\ new = << >> /\ UNCHANGED ot
     /\ m' = [m EXCEPT !.sState = IF @ = "TRANSMIT" THEN @ ELSE "RECEIVE"]
  \/ s = S("resetRing") /\ new = << >> /\ m' = [m EXCEPT !.ring = 0] /\ UNCHANGED ot
  \/ /\ s = S("phyDisable") /\ new = << >> /\ UNCHANGED ot
     /\ m' = IF UseNbu THEN m ELSE PhyForceOff(m)
  \/ /\ s \in {S("rxReq"), S("rxAtReq")} /\ new = << >> /\ UNCHANGED ot
     /\ \/ m' = m
        \/ PhyFree(m) /\ s = S("rxReq") /\ m' = [m EXCEPT !.phyOp = "rx"]
        \/ PhyFree(m) /\ s = S("rxAtReq") /\ m' = [m EXCEPT !.phyOp = "rxTimed"]
  \/ \E tmp \in RadioState :
       /\ s = <<"txReq", tmp>>
       /\ \/ /\ PhyFree(m) /\ new = << >>
             /\ m' = [m EXCEPT !.phyOp = "tx"] /\ ot' = [ot EXCEPT !.tx = TRUE]
          \/ new = << <<"state", tmp>> >> /\ UNCHANGED <<m, ot>>
  \/ /\ s = S("edReq")
     /\ \/ /\ PhyFree(m) /\ new = << S("edSet") >>
           /\ m' = [m EXCEPT !.phyOp = "ed"] /\ ot' = [ot EXCEPT !.scan = TRUE]
        \/ new = << >> /\ UNCHANGED <<m, ot>>
  \/ s = S("edSet") /\ new = << >> /\ m' = [m EXCEPT !.is_ed_scan = TRUE] /\ UNCHANGED ot

\* Every step of a driver call is one of those.
DriverMakes(s, new) == s \in DriverSteps /\ new \in Seq(DriverSteps) /\ Does(s, new) /\ DriverTo(s, new)

\* The names of the steps of short calls.
LEMMA NamedFew ==
  ASSUME NEW N
  PROVE  /\ Named(<< >>, N)
         /\ \A a : a[1] \in N => Named(<< a >>, N)
         /\ \A a, b : a[1] \in N /\ b[1] \in N => Named(<< a, b >>, N)
         /\ \A a, b, c : a[1] \in N /\ b[1] \in N /\ c[1] \in N => Named(<< a, b, c >>, N)
BY StepsOfFew DEF Named

\* Every step of a call is one of those listed, with what it pushes.
LEMMA DriverStepMakes ==
  ASSUME Driver(m), m.sState \in RadioState, DriverStep
  PROVE  \E s, new : DriverMakes(s, new)
<1>0. \A n \in DriverNames : S(n) \in DriverSteps /\ S(n)[1] = n
  BY DEF S, DriverSteps, Args
<1>1. \A n \in DriverNames, a \in Args : <<n, a>> \in DriverSteps /\ <<n, a>>[1] = n
  BY DEF DriverSteps
<1>2. /\ \A c \in Channel : c \in Args
      /\ \A b \in BOOLEAN : b \in Args
      /\ \A q \in RadioState : q \in Args
      /\ \A c \in Channel, b \in BOOLEAN : <<c, b>> \in Args /\ <<b, c>> \in Args
  BY DEF Args
<1>3. << >> \in Seq(DriverSteps)
  OBVIOUS
<1>4. CASE Abort
  <2>1. S("abort") \in DriverSteps /\ S("abort")[1] = "abort"
    BY <1>0 DEF DriverNames
  <2> QED BY <1>4, <2>1, <1>3 DEF Abort, Sets, DriverMakes, DriverTo
<1>5. CASE RoiClear
  <2>1. S("roiClear") \in DriverSteps /\ S("roiClear")[1] = "roiClear"
    BY <1>0 DEF DriverNames
  <2> QED BY <1>5, <2>1, <1>3 DEF RoiClear, Sets, DriverMakes, DriverTo
<1>6. CASE RoiRx
  <2>1. S("roiRx") \in DriverSteps /\ S("roiRx")[1] = "roiRx"
    BY <1>0 DEF DriverNames
  <2> QED BY <1>6, <2>1, <1>3 DEF RoiRx, Sets, DriverMakes, DriverTo
<1>7. CASE ResetRing
  <2>1. S("resetRing") \in DriverSteps /\ S("resetRing")[1] = "resetRing"
    BY <1>0 DEF DriverNames
  <2> QED BY <1>7, <2>1, <1>3 DEF ResetRing, Sets, DriverMakes, DriverTo
<1>8. CASE PhyDisable
  <2>1. S("phyDisable") \in DriverSteps /\ S("phyDisable")[1] = "phyDisable"
    BY <1>0 DEF DriverNames
  <2> QED BY <1>8, <2>1, <1>3 DEF PhyDisable, Sets, DriverMakes, DriverTo
<1>9. CASE ScanSet
  <2>1. S("edSet") \in DriverSteps /\ S("edSet")[1] = "edSet"
    BY <1>0 DEF DriverNames
  <2> QED BY <1>9, <2>1, <1>3 DEF ScanSet, Sets, DriverMakes, DriverTo
<1>10. CASE ReceiveRequest
  <2>1. S("rxReq") \in DriverSteps /\ S("rxReq")[1] = "rxReq"
    BY <1>0 DEF DriverNames
  <2>2. m' = m \/ (PhyFree(m) /\ m' = [m EXCEPT !.phyOp = "rx"])
    BY <1>10 DEF ReceiveRequest, Sets, Driver, Fields
  <2> QED BY <1>10, <2>1, <2>2, <1>3 DEF ReceiveRequest, Sets, DriverMakes, DriverTo
<1>11. CASE ReceiveAtRequest
  <2>1. S("rxAtReq") \in DriverSteps /\ S("rxAtReq")[1] = "rxAtReq"
    BY <1>0 DEF DriverNames
  <2>2. m' = m \/ (PhyFree(m) /\ m' = [m EXCEPT !.phyOp = "rxTimed"])
    BY <1>11 DEF ReceiveAtRequest, Sets, Driver, Fields
  <2> QED BY <1>11, <2>1, <2>2, <1>3 DEF ReceiveAtRequest, Sets, DriverMakes, DriverTo
<1>12. CASE CslReq
  <2>1. S("cslReq") \in DriverSteps /\ S("cslReq")[1] = "cslReq"
    BY <1>0 DEF DriverNames
  <2>2. Within(m, m', Fields \ Watched)
    BY <1>12 DEF CslReq, Sets, Within, Watched, Fields, Driver
  <2> QED BY <1>12, <2>1, <2>2, <1>3 DEF CslReq, Sets, DriverMakes, DriverTo, Mild
<1>13. CASE CslOn
  <2>1. S("cslOn") \in DriverSteps /\ S("cslOn")[1] = "cslOn"
    BY <1>0 DEF DriverNames
  <2>2. Within(m, m', Fields \ Watched)
    BY <1>13 DEF CslOn, Sets, Within, Watched, Fields, Driver
  <2> QED BY <1>13, <2>1, <2>2, <1>3 DEF CslOn, Sets, DriverMakes, DriverTo, Mild
<1>14. CASE CslRel
  <2>1. S("cslRel") \in DriverSteps /\ S("cslRel")[1] = "cslRel"
    BY <1>0 DEF DriverNames
  <2>2. Within(m, m', Fields \ Watched)
    BY <1>14 DEF CslRel, Sets, Within, Watched, Fields, Driver
  <2> QED BY <1>14, <2>1, <2>2, <1>3 DEF CslRel, Sets, DriverMakes, DriverTo, Mild
<1>15. CASE CslOff
  <2>1. S("cslOff") \in DriverSteps /\ S("cslOff")[1] = "cslOff"
    BY <1>0 DEF DriverNames
  <2>2. Within(m, m', Fields \ Watched)
    BY <1>15 DEF CslOff, Sets, Within, Watched, Fields, Driver
  <2> QED BY <1>15, <2>1, <2>2, <1>3 DEF CslOff, Sets, DriverMakes, DriverTo, Mild
<1>16. CASE SleepPollClear
  <2>1. S("sleepPollClear") \in DriverSteps /\ S("sleepPollClear")[1] = "sleepPollClear"
    BY <1>0 DEF DriverNames
  <2>2. Within(m, m', Fields \ Watched)
    BY <1>16 DEF SleepPollClear, Sets, Within, Watched, Fields, Driver
  <2> QED BY <1>16, <2>1, <2>2, <1>3 DEF SleepPollClear, Sets, DriverMakes, DriverTo, Mild
<1>17. CASE ReceiveExit
  <2>1. S("rxExit") \in DriverSteps /\ S("rxExit")[1] = "rxExit"
    BY <1>0 DEF DriverNames
  <2>2. Within(m, m', Fields \ Watched)
    BY <1>17 DEF ReceiveExit, Sets, Within, Watched, Fields, Driver
  <2> QED BY <1>17, <2>1, <2>2, <1>3 DEF ReceiveExit, Sets, DriverMakes, DriverTo, Mild
<1>18. CASE TransmitCslPoll
  <2>1. S("txCslPoll") \in DriverSteps /\ S("txCslPoll")[1] = "txCslPoll"
    BY <1>0 DEF DriverNames
  <2>2. Within(m, m', Fields \ Watched)
    BY <1>18 DEF TransmitCslPoll, Sets, Within, Watched, Fields, Driver
  <2> QED BY <1>18, <2>1, <2>2, <1>3 DEF TransmitCslPoll, Sets, DriverMakes, DriverTo, Mild
<1>19. CASE PhyRxOnIdle
  <2>1. PICK b \in BOOLEAN : Sets(<<"phyRxOnIdle", b>>, << >>, [m EXCEPT !.phyRxOnIdle = b])
    BY <1>19 DEF PhyRxOnIdle
  <2>2. <<"phyRxOnIdle", b>> \in DriverSteps
    BY <1>1, <1>2 DEF DriverNames
  <2>3. CASE b = TRUE
    BY <2>1, <2>2, <2>3, <1>3, Zenon DEF Sets, DriverMakes, DriverTo, RxBackOn
  <2>4. CASE b = FALSE
    BY <2>1, <2>2, <2>4, <1>3, Zenon DEF Sets, DriverMakes, DriverTo, RxOff
  <2> QED BY <2>3, <2>4
<1>20. CASE SetState
  <2>1. PICK q \in RadioState : Sets(<<"state", q>>, << >>, [m EXCEPT !.sState = q])
    BY <1>20 DEF SetState
  <2>2. <<"state", q>> \in DriverSteps
    BY <1>1, <1>2 DEF DriverNames
  <2> QED BY <2>1, <2>2, <1>3 DEF Sets, DriverMakes, DriverTo
<1>21. CASE RoiSet
  <2>1. PICK b \in BOOLEAN : Sets(<<"roiSet", b>>, << >>, [m EXCEPT !.is_rx_on_idle = b])
    BY <1>21 DEF RoiSet
  <2>2. <<"roiSet", b>> \in DriverSteps
    BY <1>1, <1>2 DEF DriverNames
  <2>3. CASE b = TRUE
    BY <2>1, <2>2, <2>3, <1>3, Zenon DEF Sets, DriverMakes, DriverTo, RoiSetOn
  <2>4. CASE b = FALSE
    BY <2>1, <2>2, <2>4, <1>3, Zenon DEF Sets, DriverMakes, DriverTo, RoiSetOff
  <2> QED BY <2>3, <2>4
<1>22. CASE ChPhy
  <2>1. PICK c \in Channel : Sets(<<"chPhy", c>>, << >>, [m EXCEPT !.phyChannel = c])
    BY <1>22 DEF ChPhy
  <2>2. <<"chPhy", c>> \in DriverSteps /\ <<"chPhy", c>>[1] = "chPhy"
    BY <1>1, <1>2 DEF DriverNames
  <2>3. Within(m, m', Fields \ Watched)
    BY <2>1 DEF Sets, Within, Watched, Fields, Driver
  <2> QED BY <2>1, <2>2, <2>3, <1>3 DEF Sets, DriverMakes, DriverTo, Mild
<1>23. CASE ChSet
  <2>1. PICK c \in Channel : Sets(<<"chSet", c>>, << >>, [m EXCEPT !.sChannel = c])
    BY <1>23 DEF ChSet
  <2>2. <<"chSet", c>> \in DriverSteps /\ <<"chSet", c>>[1] = "chSet"
    BY <1>1, <1>2 DEF DriverNames
  <2>3. Within(m, m', Fields \ Watched)
    BY <2>1 DEF Sets, Within, Watched, Fields, Driver
  <2> QED BY <2>1, <2>2, <2>3, <1>3 DEF Sets, DriverMakes, DriverTo, Mild
<1>24. CASE SetCslPeriod
  <2>1. PICK b \in BOOLEAN : Sets(<<"cslPeriod", b>>, << >>, [m EXCEPT !.sCslPeriod = b])
    BY <1>24 DEF SetCslPeriod
  <2>2. <<"cslPeriod", b>> \in DriverSteps /\ <<"cslPeriod", b>>[1] = "cslPeriod"
    BY <1>1, <1>2 DEF DriverNames
  <2>3. Within(m, m', Fields \ Watched)
    BY <2>1 DEF Sets, Within, Watched, Fields, Driver
  <2> QED BY <2>1, <2>2, <2>3, <1>3 DEF Sets, DriverMakes, DriverTo, Mild
<1>25. CASE TxFrame
  <2>1. PICK poll \in BOOLEAN, rc \in Channel : Sets(<<"txFrame", <<poll, rc>>>>, << >>, [m EXCEPT !.txPoll = poll, !.txRxChannel = rc])
    BY <1>25 DEF TxFrame
  <2>2. <<"txFrame", <<poll, rc>>>> \in DriverSteps /\ <<"txFrame", <<poll, rc>>>>[1] = "txFrame"
    BY <1>1, <1>2 DEF DriverNames
  <2>3. Within(m, m', Fields \ Watched)
    BY <2>1 DEF Sets, Within, Watched, Fields, Driver
  <2> QED BY <2>1, <2>2, <2>3, <1>3 DEF Sets, DriverMakes, DriverTo, Mild
<1>26. CASE TransmitPoll
  <2>1. PICK poll \in BOOLEAN : Sets(<<"txPoll", poll>>, << >>, [m EXCEPT !.is_tx_poll = poll, !.is_rx_after_poll = FALSE])
    BY <1>26 DEF TransmitPoll
  <2>2. <<"txPoll", poll>> \in DriverSteps /\ <<"txPoll", poll>>[1] = "txPoll"
    BY <1>1, <1>2 DEF DriverNames
  <2>3. Within(m, m', Fields \ Watched)
    BY <2>1 DEF Sets, Within, Watched, Fields, Driver
  <2> QED BY <2>1, <2>2, <2>3, <1>3 DEF Sets, DriverMakes, DriverTo, Mild
<1>27. CASE ChTest
  <2>1. PICK c \in Channel : Tests(<<"chTest", c>>,
        IF c # m.sChannel THEN << <<"chPhy", c>>, <<"chSet", c>> >> ELSE << >>)
    BY <1>27 DEF ChTest
  <2>2. <<"chTest", c>> \in DriverSteps /\ <<"chTest", c>>[1] = "chTest"
    BY <1>0, <1>1, <1>2 DEF DriverNames
  <2>3. /\ << <<"chPhy", c>>, <<"chSet", c>> >> \in Seq(DriverSteps)
    BY <1>0, <1>1, <1>2 DEF DriverNames
  <2>8. <<"chPhy", c>>[1] = "chPhy" /\ <<"chSet", c>>[1] = "chSet"
    BY DEF S
  <2>4. /\ Named(<< <<"chPhy", c>>, <<"chSet", c>> >>, {"chPhy", "chSet", "cslReq", "cslOn", "cslRel", "cslOff"})
        /\ Named(<< >>, {"chPhy", "chSet", "cslReq", "cslOn", "cslRel", "cslOff"})
    BY <2>8, NamedFew
  <2>9. Within(m, m', Fields \ Watched) /\ UNCHANGED <<m, ot>>
    BY <2>1 DEF Tests, Within
  <2>5. \E new \in {<< <<"chPhy", c>>, <<"chSet", c>> >>, << >>} : Does(<<"chTest", c>>, new)
    BY <2>1 DEF Tests
  <2> QED BY <2>2, <2>3, <2>4, <2>5, <2>9, <1>3 DEF DriverMakes, DriverTo, Mild
<1>28. CASE CslStart
  <2>2. S("cslStart") \in DriverSteps /\ S("cslStart")[1] = "cslStart"
    BY <1>0, <1>1, <1>2 DEF DriverNames
  <2>3. /\ << S("cslReq"), S("cslOn") >> \in Seq(DriverSteps)
    BY <1>0, <1>1, <1>2 DEF DriverNames
  <2>8. S("cslOn")[1] = "cslOn" /\ S("cslReq")[1] = "cslReq"
    BY DEF S
  <2>4. /\ Named(<< S("cslReq"), S("cslOn") >>, {"chPhy", "chSet", "cslReq", "cslOn", "cslRel", "cslOff"})
        /\ Named(<< >>, {"chPhy", "chSet", "cslReq", "cslOn", "cslRel", "cslOff"})
    BY <2>8, NamedFew
  <2>9. Within(m, m', Fields \ Watched) /\ UNCHANGED <<m, ot>>
    BY <1>28 DEF CslStart, Tests, Within
  <2>5. \E new \in {<< S("cslReq"), S("cslOn") >>, << >>} : Does(S("cslStart"), new)
    BY <1>28 DEF Tests, CslStart
  <2> QED BY <2>2, <2>3, <2>4, <2>5, <2>9, <1>3 DEF DriverMakes, DriverTo, Mild
<1>29. CASE CslStop
  <2>2. S("cslStop") \in DriverSteps /\ S("cslStop")[1] = "cslStop"
    BY <1>0, <1>1, <1>2 DEF DriverNames
  <2>3. /\ << S("cslRel"), S("cslOff") >> \in Seq(DriverSteps)
    BY <1>0, <1>1, <1>2 DEF DriverNames
  <2>8. S("cslOff")[1] = "cslOff" /\ S("cslRel")[1] = "cslRel"
    BY DEF S
  <2>4. /\ Named(<< S("cslRel"), S("cslOff") >>, {"chPhy", "chSet", "cslReq", "cslOn", "cslRel", "cslOff"})
        /\ Named(<< >>, {"chPhy", "chSet", "cslReq", "cslOn", "cslRel", "cslOff"})
    BY <2>8, NamedFew
  <2>9. Within(m, m', Fields \ Watched) /\ UNCHANGED <<m, ot>>
    BY <1>29 DEF CslStop, Tests, Within
  <2>5. \E new \in {<< S("cslRel"), S("cslOff") >>, << >>} : Does(S("cslStop"), new)
    BY <1>29 DEF Tests, CslStop
  <2> QED BY <2>2, <2>3, <2>4, <2>5, <2>9, <1>3 DEF DriverMakes, DriverTo, Mild
<1>30. CASE SleepTest
  <2>2. S("sleepTest") \in DriverSteps /\ S("sleepTest")[1] = "sleepTest"
    BY <1>0, <1>1, <1>2 DEF DriverNames
  <2>3. /\ << S("cslStop"), S("sleepPoll") >> \in Seq(DriverSteps)
    BY <1>0, <1>1, <1>2 DEF DriverNames
  <2>8. S("cslStop")[1] = "cslStop" /\ S("sleepPoll")[1] = "sleepPoll"
    BY DEF S
  <2>4. /\ Named(<< S("cslStop"), S("sleepPoll") >>, {"cslStop", "sleepPoll"})
        /\ Named(<< >>, {"cslStop", "sleepPoll"})
    BY <2>8, NamedFew
  <2>9. Within(m, m', Fields \ Watched) /\ UNCHANGED <<m, ot>>
    BY <1>30 DEF SleepTest, Tests, Within
  <2>5. \E new \in {<< S("cslStop"), S("sleepPoll") >>, << >>} : Does(S("sleepTest"), new)
    BY <1>30 DEF Tests, SleepTest
  <2> QED BY <2>2, <2>3, <2>4, <2>5, <2>9, <1>3 DEF DriverMakes, DriverTo, Mild
<1>31. CASE ReceiveTest
  <2>1. PICK c \in Channel : Tests(<<"rxTest", c>>,
        IF m.sState \in {"TRANSMIT", "DISABLED"}
           \/ (m.sState = "RECEIVE" /\ m.sChannel = c)
          THEN << S("rxExit") >>
          ELSE << <<"rxPollTest", c>>, S("rxExit") >>)
    BY <1>31 DEF ReceiveTest
  <2>2. <<"rxTest", c>> \in DriverSteps /\ <<"rxTest", c>>[1] = "rxTest"
    BY <1>0, <1>1, <1>2 DEF DriverNames
  <2>3. /\ << S("rxExit") >> \in Seq(DriverSteps)
        /\ << <<"rxPollTest", c>>, S("rxExit") >> \in Seq(DriverSteps)
    BY <1>0, <1>1, <1>2 DEF DriverNames
  <2>8. <<"rxPollTest", c>>[1] = "rxPollTest" /\ S("rxExit")[1] = "rxExit"
    BY DEF S
  <2>4. /\ Named(<< S("rxExit") >>, {"rxPollTest", "rxExit"})
        /\ Named(<< <<"rxPollTest", c>>, S("rxExit") >>, {"rxPollTest", "rxExit"})
        /\ Named(<< >>, {"rxPollTest", "rxExit"})
    BY <2>8, NamedFew
  <2>9. Within(m, m', Fields \ Watched) /\ UNCHANGED <<m, ot>>
    BY <2>1 DEF Tests, Within
  <2>5. \E new \in {<< S("rxExit") >>, << <<"rxPollTest", c>>, S("rxExit") >>, << >>} : Does(<<"rxTest", c>>, new)
    BY <2>1 DEF Tests
  <2> QED BY <2>2, <2>3, <2>4, <2>5, <2>9, <1>3 DEF DriverMakes, DriverTo, Mild
<1>32. CASE ReceiveAtTest
  <2>1. PICK c \in Channel : Tests(<<"rxAtTest", c>>,
        IF m.sState # "SLEEP" THEN << >>
        ELSE << S("cslStart"), <<"chTest", c>>, S("rxAtReq") >>)
    BY <1>32 DEF ReceiveAtTest
  <2>2. <<"rxAtTest", c>> \in DriverSteps /\ <<"rxAtTest", c>>[1] = "rxAtTest"
    BY <1>0, <1>1, <1>2 DEF DriverNames
  <2>3. /\ << S("cslStart"), <<"chTest", c>>, S("rxAtReq") >> \in Seq(DriverSteps)
    BY <1>0, <1>1, <1>2 DEF DriverNames
  <2>8. <<"chTest", c>>[1] = "chTest" /\ S("cslStart")[1] = "cslStart" /\ S("rxAtReq")[1] = "rxAtReq"
    BY DEF S
  <2>4. /\ Named(<< S("cslStart"), <<"chTest", c>>, S("rxAtReq") >>, {"cslStart", "chTest", "rxAtReq"})
        /\ Named(<< >>, {"cslStart", "chTest", "rxAtReq"})
    BY <2>8, NamedFew
  <2>9. Within(m, m', Fields \ Watched) /\ UNCHANGED <<m, ot>>
    BY <2>1 DEF Tests, Within
  <2>5. \E new \in {<< S("cslStart"), <<"chTest", c>>, S("rxAtReq") >>, << >>} : Does(<<"rxAtTest", c>>, new)
    BY <2>1 DEF Tests
  <2> QED BY <2>2, <2>3, <2>4, <2>5, <2>9, <1>3 DEF DriverMakes, DriverTo, Mild
<1>33. CASE TransmitCsl
  <2>2. S("txCsl") \in DriverSteps /\ S("txCsl")[1] = "txCsl"
    BY <1>0, <1>1, <1>2 DEF DriverNames
  <2>3. /\ << S("cslStart"), S("txCslPoll") >> \in Seq(DriverSteps)
    BY <1>0, <1>1, <1>2 DEF DriverNames
  <2>8. S("cslStart")[1] = "cslStart" /\ S("txCslPoll")[1] = "txCslPoll"
    BY DEF S
  <2>4. /\ Named(<< S("cslStart"), S("txCslPoll") >>, {"cslStart", "txCslPoll"})
        /\ Named(<< >>, {"cslStart", "txCslPoll"})
    BY <2>8, NamedFew
  <2>9. Within(m, m', Fields \ Watched) /\ UNCHANGED <<m, ot>>
    BY <1>33 DEF TransmitCsl, Tests, Within
  <2>5. \E new \in {<< S("cslStart"), S("txCslPoll") >>, << >>} : Does(S("txCsl"), new)
    BY <1>33 DEF Tests, TransmitCsl
  <2> QED BY <2>2, <2>3, <2>4, <2>5, <2>9, <1>3 DEF DriverMakes, DriverTo, Mild
<1>34. CASE RoiOff
  <2>1. Tests(S("roiOff"), IF ~m.is_ed_scan /\ m.sState # "TRANSMIT"
                             THEN << S("abort"), <<"state", "SLEEP">> >>
                             ELSE << RxOff >>)
    BY <1>34, Zenon DEF RoiOff, RxOff
  <2>2. S("roiOff") \in DriverSteps
    BY <1>0 DEF DriverNames
  <2>7. RxOff \in DriverSteps
    BY DEF RxOff, DriverSteps, DriverNames, Args
  <2>3. S("abort") \in DriverSteps /\ <<"state", "SLEEP">> \in DriverSteps
    BY <1>0, <1>1, <1>2 DEF DriverNames, RadioState
  <2>4. << S("abort"), <<"state", "SLEEP">> >> \in Seq(DriverSteps) /\ << RxOff >> \in Seq(DriverSteps)
    BY <2>3, <2>7
  <2>9. Within(m, m', Fields \ Watched) /\ UNCHANGED <<m, ot>>
    BY <2>1 DEF Tests, Within
  <2>5. CASE ~m.is_ed_scan /\ m.sState # "TRANSMIT"
    <3>1. Does(S("roiOff"), << S("abort"), <<"state", "SLEEP">> >>)
      BY <2>1, <2>5 DEF Tests
    <3>2. Mild(S("roiOff"), << S("abort"), <<"state", "SLEEP">> >>)
      BY <2>5 DEF Mild
    <3> QED BY <3>1, <3>2, <2>2, <2>4, <2>9 DEF DriverMakes, DriverTo
  <2>6. CASE ~(~m.is_ed_scan /\ m.sState # "TRANSMIT")
    <3>1. Does(S("roiOff"), << RxOff >>)
      BY <2>1, <2>6 DEF Tests
    <3>2. Mild(S("roiOff"), << RxOff >>)
      BY DEF Mild
    <3> QED BY <3>1, <3>2, <2>2, <2>4, <2>9 DEF DriverMakes, DriverTo
  <2> QED BY <2>5, <2>6
<1>35. CASE SleepPoll
  <2>1. S("sleepPoll") \in DriverSteps
    BY <1>0 DEF DriverNames
  <2>2. /\ S("abort") \in DriverSteps /\ S("abort")[1] = "abort"
        /\ S("sleepPollClear") \in DriverSteps /\ S("sleepPollClear")[1] = "sleepPollClear"
        /\ <<"state", "SLEEP">> \in DriverSteps
    BY <1>0, <1>1, <1>2 DEF DriverNames, RadioState
  <2> DEFINE News == {<< S("sleepPollClear"), <<"state", "SLEEP">> >>,
                      << S("abort"), <<"state", "SLEEP">> >>, << >>}
  <2>3. News \subseteq Seq(DriverSteps)
    BY <2>2
  <2>4. \A new \in News : \A x \in Steps(new) : x = <<"state", "SLEEP">> \/ x[1] \in {"sleepPollClear", "abort"}
    BY <2>2, StepsOfFew
  <2>9. Within(m, m', Fields \ Watched) /\ UNCHANGED <<m, ot>>
    BY <1>35 DEF Tests, Within, SleepPoll
  <2>5. \E new \in News : Does(S("sleepPoll"), new)
    BY <1>35 DEF SleepPoll, Tests
  <2> HIDE DEF News
  <2> QED BY <2>1, <2>3, <2>4, <2>5, <2>9 DEF DriverMakes, DriverTo, Mild
<1>36. CASE ReceivePollTest
  <2>1. PICK c \in Channel : Tests(<<"rxPollTest", c>>,
            IF m.rx_after_poll_done THEN << >>
            ELSE << <<"state", "RECEIVE">>, <<"chTest", c>>, S("rxReq") >>)
    BY <1>36 DEF ReceivePollTest
  <2>2. <<"rxPollTest", c>> \in DriverSteps /\ <<"rxPollTest", c>>[1] = "rxPollTest"
    BY <1>1, <1>2 DEF DriverNames
  <2>6. /\ <<"state", "RECEIVE">> \in DriverSteps
        /\ <<"chTest", c>> \in DriverSteps /\ <<"chTest", c>>[1] = "chTest"
        /\ S("rxReq") \in DriverSteps /\ S("rxReq")[1] = "rxReq"
    BY <1>0, <1>1, <1>2 DEF DriverNames, RadioState
  <2> DEFINE News == {<< <<"state", "RECEIVE">>, <<"chTest", c>>, S("rxReq") >>, << >>}
  <2>3. News \subseteq Seq(DriverSteps)
    BY <2>6
  <2>4. \A new \in News : \A x \in Steps(new) : x = <<"state", "RECEIVE">> \/ x[1] \in {"chTest", "rxReq"}
    BY <2>6, StepsOfFew
  <2>9. Within(m, m', Fields \ Watched) /\ UNCHANGED <<m, ot>>
    BY <2>1 DEF Tests, Within
  <2>5. \E new \in News : Does(<<"rxPollTest", c>>, new)
    BY <2>1 DEF Tests
  <2> HIDE DEF News
  <2> QED BY <2>2, <2>3, <2>4, <2>5, <2>9 DEF DriverMakes, DriverTo, Mild
<1>37. CASE TransmitTest
  <2>1. PICK c \in Channel, poll \in BOOLEAN : Tests(<<"txTest", <<c, poll>> >>,
            IF m.sState = "DISABLED" THEN << >>
            ELSE << <<"txPoll", poll>>, <<"chTest", c>>, S("txCsl"), S("txSave") >>)
    BY <1>37 DEF TransmitTest
  <2> DEFINE s == <<"txTest", <<c, poll>> >>
             a == <<"txPoll", poll>>
             b == <<"chTest", c>>
             full == << a, b, S("txCsl"), S("txSave") >>
  <2>2. s \in DriverSteps /\ s[1] = "txTest"
    BY <1>1, <1>2 DEF DriverNames
  <2>3. /\ a \in DriverSteps /\ b \in DriverSteps /\ S("txCsl") \in DriverSteps
        /\ S("txSave") \in DriverSteps /\ a[1] = "txPoll" /\ b[1] = "chTest"
    BY <1>0, <1>1, <1>2 DEF DriverNames
  <2>7. Tests(s, IF m.sState = "DISABLED" THEN << >> ELSE full)
    BY <2>1
  <2> HIDE DEF s, a, b
  <2>4. full \in Seq(DriverSteps)
    BY <2>3
  <2>8. Mild(s, full) /\ Mild(s, << >>)
    BY <2>2, <2>3 DEF Mild
  <2>9. Within(m, m', Fields \ Watched) /\ UNCHANGED <<m, ot>>
    BY <2>7 DEF Tests, Within
  <2>5. \E new \in {full, << >>} : Does(s, new)
    BY <2>7 DEF Tests
  <2> QED BY <2>2, <2>4, <2>5, <2>8, <2>9, <1>3 DEF DriverMakes, DriverTo
<1>38. CASE TransmitSave
  <2>1. S("txSave") \in DriverSteps
    BY <1>0 DEF DriverNames
  <2>3. << <<"state", "TRANSMIT">>, <<"txReq", m.sState>> >> \in Seq(DriverSteps)
    <3>1. <<"state", "TRANSMIT">> \in DriverSteps /\ <<"txReq", m.sState>> \in DriverSteps
      BY <1>1, <1>2 DEF DriverNames, RadioState
    <3> QED BY <3>1
  <2>9. Within(m, m', Fields \ Watched) /\ UNCHANGED <<m, ot>>
    BY <1>38 DEF Tests, Within, TransmitSave
  <2> QED BY <1>38, <2>1, <2>3, <2>9 DEF TransmitSave, Tests, DriverMakes, DriverTo, Mild
<1>39. CASE TransmitRequest
  <2>1. PICK tmp \in RadioState :
            \/ /\ PhyFree(m)
               /\ Does(<<"txReq", tmp>>, << >>)
               /\ m' = [m EXCEPT !.phyOp = "tx"]
               /\ ot' = [ot EXCEPT !.tx = TRUE]
            \/ Tests(<<"txReq", tmp>>, << <<"state", tmp>> >>)
    BY <1>39 DEF TransmitRequest
  <2>2. <<"txReq", tmp>> \in DriverSteps /\ <<"state", tmp>> \in DriverSteps
    BY <1>1, <1>2 DEF DriverNames
  <2>3. << <<"state", tmp>> >> \in Seq(DriverSteps)
    BY <2>2
  <2> QED BY <2>1, <2>2, <2>3, <1>3 DEF Tests, DriverMakes, DriverTo
<1>40. CASE ScanTest
  <2>1. PICK c \in Channel : Tests(<<"edTest", c>>,
            IF m.sState \in {"TRANSMIT", "DISABLED"} \/ m.is_ed_scan THEN << >>
            ELSE << <<"chTest", c>>, S("edReq") >>)
    BY <1>40 DEF ScanTest
  <2>2. <<"edTest", c>> \in DriverSteps /\ <<"edTest", c>>[1] = "edTest"
    BY <1>1, <1>2 DEF DriverNames
  <2>3. /\ <<"chTest", c>> \in DriverSteps /\ <<"chTest", c>>[1] = "chTest"
        /\ S("edReq") \in DriverSteps /\ S("edReq")[1] = "edReq"
    BY <1>0, <1>1, <1>2 DEF DriverNames
  <2>4. << <<"chTest", c>>, S("edReq") >> \in Seq(DriverSteps)
    BY <2>3
  <2>9. Within(m, m', Fields \ Watched) /\ UNCHANGED <<m, ot>>
    BY <2>1 DEF Tests, Within
  <2> DEFINE s == <<"edTest", c>>
             a == <<"chTest", c>>
  <2>5. s \in DriverSteps /\ s[1] = "edTest" /\ a[1] = "chTest" /\ << a, S("edReq") >> \in Seq(DriverSteps)
    BY <2>2, <2>3, <2>4
  <2>6. Does(s, << >>) \/ (Does(s, << a, S("edReq") >>) /\ m.sState # "TRANSMIT")
    BY <2>1 DEF Tests
  <2> HIDE DEF s, a
  <2>7. CASE Does(s, << >>)
    <3>1. Mild(s, << >>)
      BY <2>5 DEF Mild
    <3> QED BY <2>5, <2>7, <2>9, <3>1, <1>3 DEF DriverMakes, DriverTo
  <2>8. CASE Does(s, << a, S("edReq") >>) /\ m.sState # "TRANSMIT"
    <3>1. Mild(s, << a, S("edReq") >>)
      BY <2>5, <2>8 DEF Mild
    <3> QED BY <2>5, <2>8, <2>9, <3>1 DEF DriverMakes, DriverTo
  <2> QED BY <2>6, <2>7, <2>8
<1>41. CASE ScanRequest
  <2>1. S("edReq") \in DriverSteps /\ S("edSet") \in DriverSteps
    BY <1>0 DEF DriverNames
  <2>2. << S("edSet") >> \in Seq(DriverSteps)
    BY <2>1
  <2> QED BY <1>41, <2>1, <2>2, <1>3 DEF ScanRequest, Tests, DriverMakes, DriverTo
<1> QED
  BY <1>4, <1>5, <1>6, <1>7, <1>8, <1>9, <1>10, <1>11,
     <1>12, <1>13, <1>14, <1>15, <1>16, <1>17, <1>18, <1>19,
     <1>20, <1>21, <1>22, <1>23, <1>24, <1>25, <1>26, <1>27,
     <1>28, <1>29, <1>30, <1>31, <1>32, <1>33, <1>34, <1>35,
     <1>36, <1>37, <1>38, <1>39, <1>40, <1>41
  DEF DriverStep

\* A step of the driver is one of the call under way, or the one with which
\* radio_rx_process has receiving when idle switched on again.
DriverGoes(P, l) ==
  \/ P = << >> /\ StackIs(<< >>, "reenClear")' /\ ProcessTo(l, "reenClear")
  \/ /\ P # << >> /\ l \in CallPoints /\ Tail(P) \in Seq(DriverSteps)
     /\ Steps(P) = {Head(P)} \cup Steps(Tail(P))
     /\ \E new, Q \in Seq(DriverSteps) :
          /\ Q = new \o Tail(P) /\ StackIs(Q, l)'
          /\ Steps(Q) = Steps(new) \cup Steps(Tail(P))
          /\ DriverTo(Head(P), new)

\* A step of a call leaves otPlatRadioProcess where it is.
LEMMA DriverControl ==
  ASSUME NEW P, NEW l, StackIs(P, l), Driver(m), m.sState \in RadioState, DriverStep
  PROVE  DriverGoes(P, l)
<1>1. PICK s, new : DriverMakes(s, new)
  BY DriverStepMakes
<1>2. s \in DriverSteps /\ new \in Seq(DriverSteps) /\ Does(s, new) /\ DriverTo(s, new)
  BY <1>1 DEF DriverMakes
<1>3. CASE s # RxBackOn \/ P # << >>
  <2>1. /\ P # << >> /\ s = Head(P) /\ l \in CallPoints
        /\ StackIs(new \o Tail(P), l)'
        /\ Tail(P) \in Seq(DriverSteps)
        /\ Steps(P) = {s} \cup Steps(Tail(P))
        /\ Steps(new \o Tail(P)) = Steps(new) \cup Steps(Tail(P))
    BY <1>2, <1>3, DriverDoes
  <2>2. PICK Q : Q = new \o Tail(P)
    OBVIOUS
  <2>3. StackIs(Q, l)' /\ Q \in Seq(DriverSteps)
    BY <2>1, <2>2 DEF StackIs
  <2> QED BY <1>2, <2>1, <2>2, <2>3 DEF DriverGoes
<1>4. CASE s = RxBackOn /\ P = << >>
  <2>1. Base(l) \in Seq(AnyStep) /\ l \in Labels /\ stk = << >> \o Base(l)
    BY <1>4, BaseType DEF StackIs
  <2>2. stk = Base(l)
    BY <2>1
  <2>3. stk # << >> /\ Head(stk) = RxBackOn /\ stk' = new \o Tail(stk)
    BY <1>2, <1>4 DEF Does
  <2>4. \A n : S(n) # RxBackOn \/ n = "phyRxOnIdle"
    BY DEF S, RxBackOn
  <2>5. l = "reenPhy"
    <3>1. l # "idle"
      BY <2>1, <2>2, <2>3, BaseHead
    <3>2. l = "reenPhy" \/ Head(Base(l)) = S("ot") \/ Head(Base(l)) = S(l)
      BY <2>1, <3>1, BaseHead
    <3> QED BY <2>1, <2>2, <2>3, <2>4, <3>2 DEF Labels
  <2>6. new = << >> /\ m' = [m EXCEPT !.phyRxOnIdle = TRUE] /\ UNCHANGED ot
    <3>1. s[1] = "phyRxOnIdle" /\ s # RxOff /\ s # RoiSetOn /\ s # RoiSetOff
      <4>1. RxBackOn[1] = "phyRxOnIdle" /\ RxBackOn[2] = TRUE /\ RxOff[2] = FALSE
            /\ RoiSetOn[1] = "roiSet" /\ RoiSetOff[1] = "roiSet"
        BY DEF RxBackOn, RxOff, RoiSetOn, RoiSetOff
      <4> QED BY <1>4, <4>1
    <3>2. ~Mild(s, new)
      BY <3>1 DEF Mild, S
    <3> QED BY <1>2, <3>1, <3>2 DEF DriverTo, S
  <2>7. << >> \o Tail(Base("reenPhy")) = Base("reenClear")
    BY BaseTail
  <2>8. stk' = Base("reenClear") /\ Base("reenClear") \in Seq(AnyStep)
    BY <2>2, <2>3, <2>5, <2>6, <2>7, BaseType DEF Labels
  <2>9. StackIs(<< >>, "reenClear")'
    BY <2>8 DEF StackIs, Labels
  <2> QED BY <1>4, <2>5, <2>6, <2>9 DEF DriverGoes, ProcessTo
<1> QED BY <1>3, <1>4

-----------------------------------------------------------------------------
(* The calls OpenThread makes.                                             *)

\* The steps pending once OpenThread has called op.
Pushes(op, st) ==
  \/ op = "Enable" /\ Steps(st) = {S("roiClear"), RoiSetOff, S("roiOff"), <<"state", "SLEEP">>, S("resetRing")}
  \/ op = "Disable" /\ Steps(st) = {S("sleepTest"), S("roiClear"), RoiSetOff, S("roiOff"), S("cslStop"),
                                   S("phyDisable"), <<"state", "DISABLED">>}
  \/ op = "Sleep" /\ Steps(st) = {S("sleepTest")}
  \/ op = "Receive" /\ Named(st, {"rxTest"})
  \/ op = "ReceiveAt" /\ Named(st, {"rxAtTest"})
  \/ op = "RxOnWhenIdle" /\ st = << S("roiClear"), RoiSetOn, RxBackOn, S("roiRx") >>
  \/ op = "RxOnWhenIdle" /\ Steps(st) = {S("roiClear"), RoiSetOff, S("roiOff")}
  \/ op = "EnableCsl" /\ Named(st, {"cslPeriod"})
  \/ op = "EnergyScan" /\ \E a : st = << a >> /\ a[1] = "edTest"
  \/ op = "Transmit" /\ \E a, b : st = << a, b >> /\ a[1] = "txFrame" /\ b[1] = "txTest"

\* What each operation of OpenThread pushes.
LEMMA CallPushes ==
  ASSUME NEW op \in Ops \cup CallbackOps, NEW st \in CallSteps(op)
  PROVE  st \in Seq(DriverSteps) /\ Pushes(op, st)
<1>0. /\ \A n \in DriverNames : S(n) \in DriverSteps
      /\ \A n \in DriverNames, a \in Args : <<n, a>> \in DriverSteps /\ <<n, a>>[1] = n
      /\ RxBackOn \in DriverSteps /\ RoiSetOn \in DriverSteps /\ RoiSetOff \in DriverSteps
  <2>1. \A n \in DriverNames : S(n) \in DriverSteps
    BY DEF S, DriverSteps, Args
  <2>2. \A n \in DriverNames, a \in Args : <<n, a>> \in DriverSteps /\ <<n, a>>[1] = n
    BY DEF DriverSteps
  <2>3. RxBackOn \in DriverSteps
    BY DEF RxBackOn, DriverSteps, DriverNames, Args
  <2>4. RoiSetOn \in DriverSteps
    BY DEF RoiSetOn, DriverSteps, DriverNames, Args
  <2>5. RoiSetOff \in DriverSteps
    BY DEF RoiSetOff, DriverSteps, DriverNames, Args
  <2> QED BY <2>1, <2>2, <2>3, <2>4, <2>5
<1>1. /\ \A c \in Channel : c \in Args
      /\ \A b \in BOOLEAN : b \in Args
      /\ \A q \in RadioState : q \in Args
      /\ \A c \in Channel, b \in BOOLEAN : <<c, b>> \in Args /\ <<b, c>> \in Args
  BY DEF Args
<1>2. \A a, b \in DriverSteps : << a >> \in Seq(DriverSteps) /\ << a, b >> \in Seq(DriverSteps)
  OBVIOUS
<1>3. /\ RxOnWhenIdle(FALSE) \in Seq(DriverSteps)
      /\ Steps(RxOnWhenIdle(FALSE)) = {S("roiClear"), RoiSetOff, S("roiOff")}
  <2> DEFINE p == << S("roiClear"), RoiSetOff >>
             q == << S("roiOff") >>
  <2>1. RxOnWhenIdle(FALSE) = p \o q
    BY Zenon DEF RxOnWhenIdle, RoiSetOff
  <2>2. p \in Seq(DriverSteps) /\ q \in Seq(DriverSteps)
    BY <1>0 DEF DriverNames
  <2>3. Steps(p) = {S("roiClear"), RoiSetOff} /\ Steps(q) = {S("roiOff")}
    BY StepsOfFew
  <2> HIDE DEF p, q
  <2>4. p \o q \in Seq(DriverSteps) /\ Steps(p \o q) = Steps(p) \cup Steps(q)
    BY ONLY <2>2, StepsOfConcat
  <2> QED BY <2>1, <2>3, <2>4
<1>4. /\ RxOnWhenIdle(TRUE) = << S("roiClear"), RoiSetOn, RxBackOn, S("roiRx") >>
      /\ RxOnWhenIdle(TRUE) \in Seq(DriverSteps)
  <2>1. RxOnWhenIdle(TRUE) = << S("roiClear"), RoiSetOn >> \o << RxBackOn, S("roiRx") >>
    BY Zenon DEF RxOnWhenIdle, RoiSetOn, RxBackOn
  <2>2. << S("roiClear"), RoiSetOn >> \o << RxBackOn, S("roiRx") >>
          = << S("roiClear"), RoiSetOn, RxBackOn, S("roiRx") >>
    BY Concat22
  <2>3. << S("roiClear"), RoiSetOn, RxBackOn, S("roiRx") >> \in Seq(DriverSteps)
    BY <1>0 DEF DriverNames
  <2> QED BY <2>1, <2>2, <2>3
<1>5. CASE op = "Enable"
  <2> DEFINE p == RxOnWhenIdle(FALSE)
             q == << <<"state", "SLEEP">>, S("resetRing") >>
  <2>1. st = p \o q
    <3>1. st = Enable
      BY <1>5 DEF CallSteps
    <3> QED BY <3>1, Zenon DEF Enable
  <2>2. q \in Seq(DriverSteps)
    BY <1>0, <1>1 DEF DriverNames, RadioState
  <2>3. Steps(q) = {<<"state", "SLEEP">>, S("resetRing")}
    BY StepsOfFew
  <2>5. p \in Seq(DriverSteps) /\ Steps(p) = {S("roiClear"), RoiSetOff, S("roiOff")}
    BY <1>3
  <2> HIDE DEF p, q
  <2>4. p \o q \in Seq(DriverSteps) /\ Steps(p \o q) = Steps(p) \cup Steps(q)
    BY ONLY <2>2, <2>5, StepsOfConcat
  <2>6. Steps(st) = {S("roiClear"), RoiSetOff, S("roiOff"), <<"state", "SLEEP">>, S("resetRing")}
    BY <2>1, <2>3, <2>4, <2>5
  <2> QED BY <1>5, <2>1, <2>4, <2>6 DEF Pushes
<1>6. CASE op = "Disable"
  <2> DEFINE o == << S("sleepTest") >>
             p == RxOnWhenIdle(FALSE)
             q == << S("cslStop"), S("phyDisable"), <<"state", "DISABLED">> >>
  <2>1. st = o \o (p \o q)
    <3>1. st = << S("sleepTest") >> \o Disable
      BY <1>6 DEF CallSteps
    <3> QED BY <3>1, Zenon DEF Disable
  <2>2. q \in Seq(DriverSteps) /\ o \in Seq(DriverSteps)
    BY <1>0, <1>1 DEF DriverNames, RadioState
  <2>3. Steps(q) = {S("cslStop"), S("phyDisable"), <<"state", "DISABLED">>} /\ Steps(o) = {S("sleepTest")}
    BY StepsOfFew
  <2>5. p \in Seq(DriverSteps) /\ Steps(p) = {S("roiClear"), RoiSetOff, S("roiOff")}
    BY <1>3
  <2> HIDE DEF o, p, q
  <2>4. p \o q \in Seq(DriverSteps) /\ Steps(p \o q) = Steps(p) \cup Steps(q)
    BY ONLY <2>2, <2>5, StepsOfConcat
  <2> DEFINE r == p \o q
  <2>8. r \in Seq(DriverSteps) /\ Steps(r) = Steps(p) \cup Steps(q) /\ st = o \o r
    BY <2>1, <2>4
  <2> HIDE DEF r
  <2>7. o \o r \in Seq(DriverSteps) /\ Steps(o \o r) = Steps(o) \cup Steps(r)
    BY ONLY <2>2, <2>8, StepsOfConcat
  <2>6. Steps(st) = {S("sleepTest"), S("roiClear"), RoiSetOff, S("roiOff"), S("cslStop"),
                     S("phyDisable"), <<"state", "DISABLED">>}
    BY <2>3, <2>5, <2>7, <2>8
  <2> QED BY <1>6, <2>7, <2>8, <2>6 DEF Pushes
<1>7. CASE op = "Sleep"
  <2>1. st = << S("sleepTest") >> /\ S("sleepTest") \in DriverSteps
    BY <1>7, <1>0 DEF CallSteps, DriverNames
  <2> QED BY <1>7, <2>1, <1>2, StepsOfFew DEF Pushes
<1>8. ASSUME NEW n \in DriverNames, NEW a \in Args, st = << <<n, a>> >>
      PROVE  st \in Seq(DriverSteps) /\ Named(st, {n})
  <2>1. <<n, a>> \in DriverSteps /\ <<n, a>>[1] \in {n}
    BY <1>0
  <2> QED BY <1>8, <2>1, <1>2, NamedFew
<1>9. CASE op = "Receive"
  <2>1. PICK c \in Channel : st = << <<"rxTest", c>> >>
    BY <1>9 DEF CallSteps
  <2> QED BY <1>9, <2>1, <1>1, <1>8 DEF Pushes, DriverNames
<1>10. CASE op = "ReceiveAt"
  <2>1. PICK c \in Channel : st = << <<"rxAtTest", c>> >>
    BY <1>10 DEF CallSteps
  <2> QED BY <1>10, <2>1, <1>1, <1>8 DEF Pushes, DriverNames
<1>11. CASE op = "EnergyScan"
  <2>1. PICK c \in Channel : st = << <<"edTest", c>> >>
    BY <1>11 DEF CallSteps
  <2> DEFINE a == <<"edTest", c>>
  <2>2. a \in DriverSteps /\ a[1] = "edTest" /\ st = << a >>
    BY <2>1, <1>0, <1>1 DEF DriverNames
  <2> HIDE DEF a
  <2> QED BY <1>11, <2>2, <1>2 DEF Pushes
<1>12. CASE op = "EnableCsl"
  <2>1. PICK b \in BOOLEAN : st = << <<"cslPeriod", b>> >>
    BY <1>12 DEF CallSteps
  <2> QED BY <1>12, <2>1, <1>1, <1>8 DEF Pushes, DriverNames
<1>13. CASE op = "RxOnWhenIdle"
  <2>1. PICK b \in BOOLEAN : st = RxOnWhenIdle(b)
    BY <1>13 DEF CallSteps
  <2>2. CASE b = TRUE
    BY <1>13, <2>1, <2>2, <1>4, Zenon DEF Pushes
  <2>3. CASE b = FALSE
    BY <1>13, <2>1, <2>3, <1>3, Zenon DEF Pushes
  <2> QED BY <2>2, <2>3
<1>14. CASE op = "Transmit"
  <2>1. PICK c \in Channel, rc \in Channel, poll \in BOOLEAN :
          st = << <<"txFrame", <<poll, rc>> >>, <<"txTest", <<c, poll>> >> >>
    BY <1>14 DEF CallSteps
  <2> DEFINE a == <<"txFrame", <<poll, rc>> >>
             b == <<"txTest", <<c, poll>> >>
  <2>2. a \in DriverSteps /\ a[1] = "txFrame" /\ b \in DriverSteps /\ b[1] = "txTest" /\ st = << a, b >>
    BY <2>1, <1>0, <1>1 DEF DriverNames
  <2> HIDE DEF a, b
  <2> QED BY <1>14, <2>2, <1>2 DEF Pushes
<1> QED
  BY <1>5, <1>6, <1>7, <1>9, <1>10, <1>11, <1>12, <1>13, <1>14, RadioAssumption

\* A call from the main loop or from a callback.
LEMMA CallControl ==
  ASSUME NEW P, NEW l, StackIs(P, l), MainLoopCall \/ CallbackCall
  PROVE  /\ P = << >> /\ UNCHANGED <<m, ot>>
         /\ \E op \in Ops \cup CallbackOps, st \in Seq(DriverSteps) :
              /\ MayCall(op) /\ Pushes(op, st) /\ StackIs(st, l)'
              /\ (l = "idle" /\ op \in Ops)
                 \/ (l \in {"inTxDone", "inRxDone", "inEdDone"} /\ op \in CallbackOps)
<1>1. P \in Seq(DriverSteps) /\ l \in Labels /\ stk = P \o Base(l) /\ Base(l) \in Seq(AnyStep)
  BY BaseType DEF StackIs
<1>2. CASE MainLoopCall
  <2>1. PICK op \in Ops : OtCalls(op, << >>)
    BY <1>2 DEF MainLoopCall
  <2>2. PICK st \in CallSteps(op) : stk' = st \o << >> /\ MayCall(op) /\ UNCHANGED <<m, ot>>
    BY <2>1 DEF OtCalls
  <2>3. st \in Seq(DriverSteps) /\ Pushes(op, st)
    BY CallPushes
  <2>4. stk = << >>
    BY <1>2 DEF MainLoopCall
  <2>5. P = << >> /\ Base(l) = << >>
    <3>1. Len(P) + Len(Base(l)) = 0 /\ Len(P) \in Nat /\ Len(Base(l)) \in Nat
      <4>1. Len(P \o Base(l)) = Len(P) + Len(Base(l)) /\ Len(P) \in Nat /\ Len(Base(l)) \in Nat
        BY <1>1
      <4> QED BY <4>1, <2>4, <1>1
    <3> QED BY <3>1, <1>1
  <2>6. l = "idle"
    BY <1>1, <2>5, BaseHead
  <2>7. StackIs(st, l)'
    BY <2>2, <2>3, <2>5, <2>6 DEF StackIs, Labels, CallPoints
  <2> QED BY <2>2, <2>3, <2>5, <2>6, <2>7
<1>3. CASE CallbackCall
  <2>1. PICK op \in CallbackOps : OtCalls(op, stk)
    BY <1>3 DEF CallbackCall
  <2>2. PICK st \in CallSteps(op) : stk' = st \o stk /\ MayCall(op) /\ UNCHANGED <<m, ot>>
    BY <2>1 DEF OtCalls
  <2>3. st \in Seq(DriverSteps) /\ Pushes(op, st)
    BY CallPushes
  <2>4. stk # << >> /\ Head(stk) = S("ot")
    BY <1>3 DEF CallbackCall, InCallback
  <2>5. P = << >> /\ stk = Base(l) /\ l \in {"inTxDone", "inRxDone", "inEdDone"}
    BY <2>4, ProcessDoes DEF ProcessNames
  <2>7. StackIs(st, l)'
    BY <2>2, <2>3, <2>5, <1>1 DEF StackIs, CallPoints
  <2> QED BY <2>2, <2>3, <2>5, <2>7
<1> QED BY <1>2, <1>3

-----------------------------------------------------------------------------
(* The inductive invariant.                                                *)

\* otPlatRadioProcess comes to what the handlers left for it, or the event
\* that brings it there is pending.
WorkSeen(l) ==
  /\ m.sTxDone => \/ m.is_radio_event
                  \/ l \in {"evClear", "txDone", "txCallback", "inTxDone", "txClear"}
  /\ m.sEdScanDone => m.is_radio_event \/ l # "idle"

\* Points from which otPlatRadioProcess still comes to the ring.
RingSeen == {"evClear", "txDone", "txCallback", "inTxDone", "txClear", "pollDone",
             "rxNext", "inRxDone", "rxPop"}

\* So are the frames in the ring, and a frame shown to OpenThread stays in it
\* until it is popped.
RingKept(P, l) ==
  /\ m.ring \in Nat
  /\ m.ring # 0 => m.is_radio_event \/ l \in RingSeen
  /\ l \in {"inRxDone", "rxPop"} => m.ring # 0
  /\ S("resetRing") \in Steps(P) => l = "idle"

\* Steps that lead to receiving when idle being switched off.
Cutting == {S("abort"), RxOff, S("phyDisable"), S("roiOff"), S("sleepTest"), S("sleepPoll")}

\* Receiving when idle, if it is off though it was asked for, will be switched
\* on by radio_rx_process or by the call under way, or is no longer asked for.
Hears(P, l) ==
  /\ m.rx_on_idle_disabled => m.is_radio_event \/ l \in RingSeen \cup {"reenTest", "reenPhy", "reenClear"}
  /\ m.is_rx_on_idle => \/ m.phyRxOnIdle \/ m.rx_on_idle_disabled
                        \/ RxBackOn \in Steps(P) \/ RoiSetOff \in Steps(P)
  /\ l \in {"reenPhy", "reenClear"} => m.rx_on_idle_disabled
  /\ l = "reenClear" => m.phyRxOnIdle
  /\ \A x \in Steps(P) : x \in Cutting => /\ ~m.is_rx_on_idle \/ RoiSetOff \in Steps(P)
                                          /\ RoiSetOn \notin Steps(P)
  /\ RoiSetOn \in Steps(P) => \/ P = << S("roiClear"), RoiSetOn, RxBackOn, S("roiRx") >>
                              \/ P = << RoiSetOn, RxBackOn, S("roiRx") >>
  /\ S("roiClear") \in Steps(P) => \/ ~m.is_rx_on_idle \/ RoiSetOff \in Steps(P)
                                   \/ P = << S("roiClear"), RoiSetOn, RxBackOn, S("roiRx") >>

\* The inductive invariant.  The frames in the ring are sure of being seen only
\* if OpenThread does not call otPlatRadioEnable, which empties the ring, from
\* a callback.
RadioInv ==
  /\ Driver(m) /\ m.sState \in RadioState /\ SleepLockBalanced
  /\ \E P, l : /\ StackIs(P, l) /\ WorkSeen(l) /\ Hears(P, l)
               /\ "Enable" \notin CallbackOps => RingKept(P, l)

\* The steps tell themselves apart.
LEMMA StepNames ==
  /\ \A n : S(n)[1] = n
  /\ RxBackOn[1] = "phyRxOnIdle" /\ RxOff[1] = "phyRxOnIdle" /\ RxBackOn # RxOff
  /\ RoiSetOn[1] = "roiSet" /\ RoiSetOff[1] = "roiSet" /\ RoiSetOn # RoiSetOff
  /\ \A q : <<"state", q>>[1] = "state" /\ <<"txReq", q>>[1] = "txReq"
<1>1. RxBackOn[2] = TRUE /\ RxOff[2] = FALSE /\ RoiSetOn[2] = TRUE /\ RoiSetOff[2] = FALSE
  BY DEF RxBackOn, RxOff, RoiSetOn, RoiSetOff
<1>2. RxBackOn[1] = "phyRxOnIdle" /\ RxOff[1] = "phyRxOnIdle" /\ RoiSetOn[1] = "roiSet" /\ RoiSetOff[1] = "roiSet"
  BY DEF RxBackOn, RxOff, RoiSetOn, RoiSetOff
<1>3. RxBackOn # RxOff /\ RoiSetOn # RoiSetOff
  BY <1>1
<1>4. \A n : S(n)[1] = n
  BY DEF S
<1>5. \A q : <<"state", q>>[1] = "state" /\ <<"txReq", q>>[1] = "txReq"
  OBVIOUS
<1> QED BY <1>2, <1>3, <1>4, <1>5

\* What the steps of a driver call leave alone.
LEMMA DriverFrame ==
  ASSUME Driver(m), m.sState \in RadioState, NEW s, NEW new, DriverTo(s, new)
  PROVE  /\ Driver(m') /\ m'.sState \in RadioState
         /\ m'.sTxDone = m.sTxDone /\ m'.sEdScanDone = m.sEdScanDone
         /\ m'.is_radio_event = m.is_radio_event /\ m'.lpDisallow = m.lpDisallow
         /\ m'.ring = m.ring \/ (s = S("resetRing") /\ m'.ring = 0)
<1>1. CASE Mild(s, new) /\ Within(m, m', Fields \ Watched) /\ UNCHANGED ot
  BY <1>1 DEF Within, Watched, Fields
<1>2. CASE Within(m, m', {"phyOp", "phyRxOnIdle", "rx_on_idle_disabled", "is_rx_on_idle", "is_ed_scan"})
  BY <1>2 DEF Within, Fields
<1>3. ASSUME NEW q \in RadioState, m' = [m EXCEPT !.sState = q]
      PROVE  /\ Driver(m') /\ m'.sState \in RadioState
             /\ m'.sTxDone = m.sTxDone /\ m'.sEdScanDone = m.sEdScanDone
             /\ m'.is_radio_event = m.is_radio_event /\ m'.lpDisallow = m.lpDisallow
             /\ m'.ring = m.ring
  BY <1>3 DEF Driver, Fields
<1>4. CASE m' = [m EXCEPT !.ring = 0] /\ s = S("resetRing")
  BY <1>4 DEF Driver, Fields
<1>5. CASE m' = m
  BY <1>5
<1>6. CASE m' = PhyForceOff(m)
  BY <1>2, <1>6 DEF PhyForceOff, Within, Driver, Fields
<1>7. CASE \E b \in BOOLEAN : \/ m' = [m EXCEPT !.phyRxOnIdle = b]
                             \/ m' = [m EXCEPT !.is_rx_on_idle = b]
  BY <1>2, <1>7 DEF Within, Driver, Fields
<1>8. CASE m' = [m EXCEPT !.rx_on_idle_disabled = FALSE] \/ m' = [m EXCEPT !.is_ed_scan = TRUE]
  BY <1>2, <1>8 DEF Within, Driver, Fields
<1>9. CASE \E op : m' = [m EXCEPT !.phyOp = op]
  BY <1>2, <1>9 DEF Within, Driver, Fields
<1>10. CASE m' = [m EXCEPT !.sState = IF @ = "TRANSMIT" THEN @ ELSE "RECEIVE"]
  BY <1>3, <1>10 DEF RadioState
<1>11. (IF UseNbu THEN m ELSE PhyForceOff(m)) \in {m, PhyForceOff(m)}
  OBVIOUS
<1> HIDE DEF S
<1> QED BY <1>1, <1>3, <1>4, <1>5, <1>6, <1>7, <1>8, <1>9, <1>10, <1>11 DEF DriverTo

\* A step of otPlatRadioProcess keeps the invariant.
LEMMA ProcessKeeps ==
  ASSUME NEW l \in Labels, NEW k \in Labels, ProcessTo(l, k),
         Driver(m), m.sState \in RadioState, SleepLockBalanced,
         WorkSeen(l), Hears(<< >>, l)
  PROVE  /\ Driver(m') /\ m'.sState \in RadioState /\ SleepLockBalanced'
         /\ WorkSeen(k)' /\ Hears(<< >>, k)'
         /\ RingKept(<< >>, l) => RingKept(<< >>, k)'
<1>0. Steps(<< >>) = {}
  BY StepsOfFew
<1>1. CASE l = "evClear"
  <2>1. k = "txDone" /\ m' = IF m.is_radio_event
                      THEN [m EXCEPT !.is_radio_event = FALSE, !.lpDisallow = @ - 1] ELSE m
    BY <1>1 DEF ProcessTo
  <2>2. Within(m, m', {"is_radio_event", "lpDisallow"}) /\ SleepLockBalanced'
    <3>1. CASE m.is_radio_event
      <4>1. /\ m' = [m EXCEPT !.is_radio_event = FALSE, !.lpDisallow = m.lpDisallow - 1]
            /\ m.lpDisallow = 1
        BY <2>1, <3>1 DEF SleepLockBalanced
      <4>2. Within(m, m', {"is_radio_event", "lpDisallow"})
        BY <4>1 DEF Driver, Within, Fields
      <4>3. ~m'.is_radio_event /\ m'.lpDisallow = 0
        BY <4>1 DEF Driver, Fields
      <4> QED BY <4>2, <4>3 DEF SleepLockBalanced
    <3>2. CASE ~m.is_radio_event
      BY <2>1, <3>2 DEF Within, SleepLockBalanced
    <3> QED BY <3>1, <3>2
  <2> QED BY <1>0, <2>1, <2>2 DEF Within, Fields, WorkSeen, Hears, RingKept, RingSeen
<1>2. CASE UNCHANGED m
  BY <1>0, <1>2 DEF ProcessTo, Driver, Fields, SleepLockBalanced, WorkSeen, Hears, RingKept, RingSeen
<1>3. CASE l = "txClear"
  <2>1. k = "pollDone" /\ m' = [m EXCEPT !.sTxDone = FALSE]
    BY <1>3 DEF ProcessTo
  <2>2. Within(m, m', {"sTxDone"}) /\ ~m'.sTxDone
    BY <2>1 DEF Driver, Within, Fields
  <2> QED BY <1>0, <1>3, <2>1, <2>2 DEF Within, Fields, SleepLockBalanced, WorkSeen, Hears, RingKept, RingSeen
<1>4. CASE l = "pollDone"
  <2>1. k = "rxNext" /\ m' = [m EXCEPT !.rx_after_poll_done = FALSE]
    BY <1>4 DEF ProcessTo
  <2>2. Within(m, m', {"rx_after_poll_done"})
    BY <2>1 DEF Driver, Within, Fields
  <2> QED BY <1>0, <1>4, <2>1, <2>2 DEF Within, Fields, SleepLockBalanced, WorkSeen, Hears, RingKept, RingSeen
<1>5. CASE l = "rxPop"
  <2>1. k = "rxNext" /\ m' = [m EXCEPT !.ring = @ - 1]
    BY <1>5 DEF ProcessTo
  <2>2. Within(m, m', {"ring"}) /\ m'.ring = m.ring - 1
    BY <2>1 DEF Driver, Within, Fields
  <2> QED BY <1>0, <1>5, <2>1, <2>2 DEF Within, Fields, SleepLockBalanced, WorkSeen, Hears, RingKept, RingSeen
<1>6. CASE l = "reenPhy"
  <2>1. k = "reenClear" /\ m' = [m EXCEPT !.phyRxOnIdle = TRUE]
    BY <1>6 DEF ProcessTo
  <2>2. Within(m, m', {"phyRxOnIdle"}) /\ m'.phyRxOnIdle
    BY <2>1 DEF Driver, Within, Fields
  <2> QED BY <1>0, <1>6, <2>1, <2>2 DEF Within, Fields, SleepLockBalanced, WorkSeen, Hears, RingKept, RingSeen
<1>7. CASE l = "reenClear"
  <2>1. k = "edDone" /\ m' = [m EXCEPT !.rx_on_idle_disabled = FALSE]
    BY <1>7 DEF ProcessTo
  <2>2. Within(m, m', {"rx_on_idle_disabled"}) /\ ~m'.rx_on_idle_disabled
    BY <2>1 DEF Driver, Within, Fields
  <2> QED BY <1>0, <1>7, <2>1, <2>2 DEF Within, Fields, SleepLockBalanced, WorkSeen, Hears, RingKept, RingSeen
<1>8. CASE l = "edClear"
  <2>1. k = "idle" /\ m' = [m EXCEPT !.sEdScanDone = FALSE]
    BY <1>8 DEF ProcessTo
  <2>2. Within(m, m', {"sEdScanDone"}) /\ ~m'.sEdScanDone
    BY <2>1 DEF Driver, Within, Fields
  <2> QED BY <1>0, <1>8, <2>1, <2>2 DEF Within, Fields, SleepLockBalanced, WorkSeen, Hears, RingKept, RingSeen
<1> QED BY <1>1, <1>2, <1>3, <1>4, <1>5, <1>6, <1>7, <1>8 DEF ProcessTo

\* A message of the PHY keeps the invariant.
LEMMA HandlerKeeps ==
  ASSUME NEW P, NEW l \in Labels, Handler,
         Driver(m), m.sState \in RadioState, SleepLockBalanced,
         WorkSeen(l), Hears(P, l)
  PROVE  /\ Driver(m') /\ m'.sState \in RadioState /\ SleepLockBalanced'
         /\ WorkSeen(l)' /\ Hears(P, l)'
         /\ RingKept(P, l) => RingKept(P, l)'
<1>1. HandlerLeaves
  BY HandlerEffect
<1>2. Driver(m') /\ m'.sState \in RadioState
  BY <1>1 DEF HandlerLeaves, RadioState
<1>3. SleepLockBalanced' /\ (m.is_radio_event => m'.is_radio_event)
  BY <1>1 DEF HandlerLeaves, Signalled, SleepLockBalanced
<1>4. WorkSeen(l)'
  BY <1>1 DEF HandlerLeaves, Signalled, WorkSeen
<1>5. Hears(P, l)'
  BY <1>1 DEF HandlerLeaves, Signalled, Hears, RingSeen
<1>6. ASSUME RingKept(P, l) PROVE RingKept(P, l)'
  BY <1>1, <1>6 DEF HandlerLeaves, Signalled, RingKept
<1> QED BY <1>2, <1>3, <1>4, <1>5, <1>6

\* Steps the argument about receiving when idle follows.
Followed == {S("roiClear"), RoiSetOn, RoiSetOff, RxBackOn}

\* What the steps that only watch lead to.
LEMMA MildLeads ==
  ASSUME NEW s, NEW new, Mild(s, new)
  PROVE  /\ s \notin Followed /\ Steps(new) \cap Followed = {}
         /\ Steps(new) \cap Cutting # {} => s \in Cutting
         /\ s # S("resetRing") /\ S("resetRing") \notin Steps(new)
<1> DEFINE Safe == {"chPhy", "chSet", "cslReq", "cslOn", "cslRel", "cslOff", "cslPeriod", "sleepPollClear",
                    "rxExit", "txFrame", "txPoll", "txCslPoll", "chTest", "cslStart", "cslStop", "rxPollTest",
                    "rxAtReq", "txCsl", "txSave", "edReq", "rxReq", "state", "txReq", "rxTest", "rxAtTest",
                    "txTest", "edTest"}
<1>0. ASSUME NEW x, x[1] \in Safe
      PROVE  x \notin Followed /\ x \notin Cutting /\ x # S("resetRing")
  BY <1>0, StepNames DEF Followed, Cutting
<1>1. ASSUME Named(new, Safe) PROVE Steps(new) \cap Followed = {} /\ Steps(new) \cap Cutting = {} /\ S("resetRing") \notin Steps(new)
  BY <1>0, <1>1 DEF Named
<1>2. \A x \in Cutting : x \notin Followed /\ x # S("resetRing")
  BY StepNames DEF Followed, Cutting
<1>3. CASE s = S("roiOff")
  <2>1. Steps(new) = {S("abort"), <<"state", "SLEEP">>} \/ Steps(new) = {RxOff}
    BY <1>3, StepsOfFew, StepNames DEF Mild
  <2>2. s \in Cutting /\ S("abort") \in Cutting /\ RxOff \in Cutting
    BY <1>3 DEF Cutting
  <2>3. <<"state", "SLEEP">>[1] \in Safe
    OBVIOUS
  <2> QED BY <1>0, <1>2, <2>1, <2>2, <2>3
<1>4. CASE s = S("sleepTest")
  <2>1. \A x \in Steps(new) : x[1] \in {"cslStop", "sleepPoll"}
    BY <1>4, StepNames DEF Mild, Named
  <2>2. s \in Cutting
    BY <1>4 DEF Cutting
  <2>3. \A x : x[1] \in {"cslStop", "sleepPoll"} => x \notin Followed /\ x # S("resetRing")
    BY StepNames DEF Followed
  <2> QED BY <1>2, <2>1, <2>2, <2>3
<1>5. CASE s = S("sleepPoll")
  <2>1. \A x \in Steps(new) : x[1] \in {"state", "sleepPollClear", "abort"}
    BY <1>5, StepNames DEF Mild, Named
  <2>2. s \in Cutting
    BY <1>5 DEF Cutting
  <2>3. \A x : x[1] \in {"state", "sleepPollClear", "abort"} => x \notin Followed /\ x # S("resetRing")
    BY StepNames DEF Followed
  <2> QED BY <1>2, <2>1, <2>2, <2>3
<1>6. CASE s \notin {S("roiOff"), S("sleepTest"), S("sleepPoll")}
  <2>1. s[1] \in Safe
    BY <1>6, StepNames DEF Mild
  <2>2. Named(new, Safe)
    <3>1. CASE s[1] = "txTest"
      <4>1. CASE new = << >>
        BY <4>1, NamedFew
      <4>2. ASSUME NEW a, NEW b, new = << a, b, S("txCsl"), S("txSave") >>, a[1] = "txPoll", b[1] = "chTest"
            PROVE  Named(new, Safe)
        <5>1. Steps(new) = {a, b, S("txCsl"), S("txSave")}
          BY <4>2, StepsOfFew
        <5> QED BY <4>2, <5>1, StepNames DEF Named
      <4> QED BY <3>1, <1>6, <4>1, <4>2, StepNames DEF Mild
    <3>2. CASE s = S("txSave")
      <4>1. new = << <<"state", "TRANSMIT">>, <<"txReq", m.sState>> >>
        BY <3>2, StepNames DEF Mild
      <4> QED BY <4>1, NamedFew, StepNames
    <3>3. CASE s[1] # "txTest" /\ s # S("txSave")
      <4>1. \/ new = << >>
            \/ Named(new, {"chPhy", "chSet", "cslReq", "cslOn", "cslRel", "cslOff"})
            \/ Named(new, {"rxPollTest", "rxExit"})
            \/ \A x \in Steps(new) : x = <<"state", "RECEIVE">> \/ x[1] \in {"chTest", "rxReq"}
            \/ Named(new, {"cslStart", "chTest", "rxAtReq"})
            \/ Named(new, {"cslStart", "txCslPoll"})
            \/ \E a : new = << a, S("edReq") >> /\ a[1] = "chTest"
        BY <1>6, <3>3 DEF Mild
      <4>2. CASE \A x \in Steps(new) : x = <<"state", "RECEIVE">> \/ x[1] \in {"chTest", "rxReq"}
        BY <4>2, StepNames DEF Named
      <4>3. CASE new = << >>
        BY <4>3, NamedFew
      <4>4. ASSUME NEW a, new = << a, S("edReq") >>, a[1] = "chTest" PROVE Named(new, Safe)
        BY <4>4, NamedFew, StepNames
      <4> QED BY <4>1, <4>2, <4>3, <4>4 DEF Named
    <3> QED BY <3>1, <3>2, <3>3
  <2> QED BY <1>0, <1>1, <2>1, <2>2
<1> QED BY <1>3, <1>4, <1>5, <1>6

\* A step of a call does not leave a radio that should receive deaf.
LEMMA DriverHears ==
  ASSUME NEW P, NEW l \in CallPoints, NEW new \in Seq(DriverSteps), NEW Q,
         P # << >>, Q = new \o Tail(P), Tail(P) \in Seq(DriverSteps),
         Steps(P) = {Head(P)} \cup Steps(Tail(P)),
         Steps(Q) = Steps(new) \cup Steps(Tail(P)),
         DriverTo(Head(P), new), Driver(m), m.sState \in RadioState, Hears(P, l)
  PROVE  Hears(Q, l)'
<1> DEFINE s == Head(P)
           R == Steps(Tail(P))
           long == << S("roiClear"), RoiSetOn, RxBackOn, S("roiRx") >>
           short == << RoiSetOn, RxBackOn, S("roiRx") >>
<1>1. P = long => s = S("roiClear") /\ Tail(P) = short /\ R = {RoiSetOn, RxBackOn, S("roiRx")}
  <2>1. Tail(long) = short /\ Head(long) = S("roiClear")
    OBVIOUS
  <2>2. Steps(short) = {RoiSetOn, RxBackOn, S("roiRx")}
    BY StepsOfFew
  <2> QED BY <2>1, <2>2
<1>2. P = short => s = RoiSetOn /\ Tail(P) = << RxBackOn, S("roiRx") >> /\ R = {RxBackOn, S("roiRx")}
  <2>1. Tail(short) = << RxBackOn, S("roiRx") >> /\ Head(short) = RoiSetOn
    OBVIOUS
  <2>2. Steps(<< RxBackOn, S("roiRx") >>) = {RxBackOn, S("roiRx")}
    BY StepsOfFew
  <2> QED BY <2>1, <2>2
<1>3. new = << >> => Q = Tail(P) /\ Steps(new) = {} /\ Steps(Q) = R
  BY StepsOfFew
<1>4. m'.is_radio_event = m.is_radio_event /\ Driver(m')
  BY DriverFrame
<1>5. l \notin {"reenPhy", "reenClear"}
  BY DEF CallPoints
<1>6. /\ Steps(P) = {s} \cup R /\ Steps(Q) = Steps(new) \cup R
      /\ DriverTo(s, new)
  OBVIOUS
<1>7. /\ m.rx_on_idle_disabled => m.is_radio_event \/ l \in RingSeen \cup {"reenTest", "reenPhy", "reenClear"}
      /\ m.is_rx_on_idle => \/ m.phyRxOnIdle \/ m.rx_on_idle_disabled
                            \/ RxBackOn \in Steps(P) \/ RoiSetOff \in Steps(P)
      /\ \A x \in Steps(P) : x \in Cutting => /\ ~m.is_rx_on_idle \/ RoiSetOff \in Steps(P)
                                              /\ RoiSetOn \notin Steps(P)
      /\ RoiSetOn \in Steps(P) => P = long \/ P = short
      /\ S("roiClear") \in Steps(P) => ~m.is_rx_on_idle \/ RoiSetOff \in Steps(P) \/ P = long
  BY DEF Hears
<1> DEFINE Kept ==
       /\ m'.rx_on_idle_disabled => m.is_radio_event \/ l \in RingSeen \cup {"reenTest", "reenPhy", "reenClear"}
       /\ m'.is_rx_on_idle => \/ m'.phyRxOnIdle \/ m'.rx_on_idle_disabled
                              \/ RxBackOn \in Steps(Q) \/ RoiSetOff \in Steps(Q)
       /\ \A x \in Steps(Q) : x \in Cutting => /\ ~m'.is_rx_on_idle \/ RoiSetOff \in Steps(Q)
                                               /\ RoiSetOn \notin Steps(Q)
       /\ RoiSetOn \in Steps(Q) => Q = long \/ Q = short
       /\ S("roiClear") \in Steps(Q) => ~m'.is_rx_on_idle \/ RoiSetOff \in Steps(Q) \/ Q = long
<1> SUFFICES Kept
  BY <1>4, <1>5 DEF Hears
<1> DEFINE Same == /\ m'.rx_on_idle_disabled = m.rx_on_idle_disabled
                   /\ m'.is_rx_on_idle = m.is_rx_on_idle
                   /\ m'.phyRxOnIdle = m.phyRxOnIdle
<1>8. /\ S("roiClear") # RoiSetOn /\ S("roiClear") # RoiSetOff /\ S("roiClear") # RxBackOn
      /\ RoiSetOn # RoiSetOff /\ RoiSetOn # RxBackOn /\ RoiSetOff # RxBackOn
      /\ S("roiRx") \notin Cutting /\ S("roiRx") \notin Followed
      /\ Followed \cap Cutting = {}
  BY StepNames DEF Cutting, Followed
<1> HIDE DEF s, R, long, short
\* Steps outside of the argument.
<1>9. ASSUME Same, s \notin Followed, Steps(new) \cap Followed = {},
             Steps(new) \cap Cutting # {} => s \in Cutting
      PROVE  Kept
  <2>1. P # long /\ P # short
    BY <1>1, <1>2, <1>9 DEF Followed
  <2>2. RoiSetOn \notin Steps(Q) /\ RoiSetOn \notin Steps(P)
    BY <2>1, <1>6, <1>7, <1>9 DEF Followed
  <2>3. /\ RxBackOn \in Steps(P) <=> RxBackOn \in Steps(Q)
        /\ RoiSetOff \in Steps(P) <=> RoiSetOff \in Steps(Q)
        /\ S("roiClear") \in Steps(P) <=> S("roiClear") \in Steps(Q)
    BY <1>6, <1>9 DEF Followed
  <2>4. ASSUME NEW x \in Steps(Q), x \in Cutting
        PROVE  ~m.is_rx_on_idle \/ RoiSetOff \in Steps(P)
    <3>1. \E y \in Steps(P) : y \in Cutting
      BY <1>6, <1>9, <2>4
    <3> QED BY <3>1, <1>7
  <2> QED BY <1>7, <1>9, <2>1, <2>2, <2>3, <2>4
\* The PHY stops receiving when idle.
<1>10. ASSUME s \in Cutting, new = << >>, m'.is_rx_on_idle = m.is_rx_on_idle,
              m'.rx_on_idle_disabled = m.rx_on_idle_disabled
       PROVE  Kept
  <2>1. s \notin Followed
    BY <1>8, <1>10
  <2>2. (~m.is_rx_on_idle \/ RoiSetOff \in Steps(P)) /\ RoiSetOn \notin Steps(P)
    BY <1>6, <1>7, <1>10
  <2>3. RoiSetOff \in Steps(P) => RoiSetOff \in Steps(Q)
    BY <1>3, <1>6, <1>10, <2>1 DEF Followed
  <2>4. RoiSetOn \notin Steps(Q)
    BY <1>3, <1>6, <1>10, <2>2
  <2> QED BY <1>7, <1>10, <2>2, <2>3, <2>4
<1>11. CASE s = RxBackOn /\ new = << >> /\ m' = [m EXCEPT !.phyRxOnIdle = TRUE] /\ UNCHANGED ot
  <2>1. m'.phyRxOnIdle /\ m'.is_rx_on_idle = m.is_rx_on_idle /\ m'.rx_on_idle_disabled = m.rx_on_idle_disabled
    BY <1>11 DEF Driver, Fields
  <2>2. P # long /\ P # short
    BY <1>1, <1>2, <1>8, <1>11
  <2>3. RoiSetOn \notin Steps(P) /\ Steps(Q) \subseteq Steps(P)
    BY <1>3, <1>6, <1>7, <1>11, <2>2
  <2>4. RoiSetOff \in Steps(P) => RoiSetOff \in Steps(Q)
    BY <1>3, <1>6, <1>8, <1>11
  <2> QED BY <1>7, <2>1, <2>2, <2>3, <2>4
<1>12. CASE s = S("roiClear") /\ new = << >> /\ m' = [m EXCEPT !.rx_on_idle_disabled = FALSE] /\ UNCHANGED ot
  <2>1. m'.phyRxOnIdle = m.phyRxOnIdle /\ m'.is_rx_on_idle = m.is_rx_on_idle /\ ~m'.rx_on_idle_disabled
    BY <1>12 DEF Driver, Fields
  <2>2. Q = Tail(P) /\ Steps(Q) = R /\ s \in Steps(P) /\ R \subseteq Steps(P)
    BY <1>3, <1>6, <1>12
  <2>3. CASE P = long
    <3>1. Q = short /\ Steps(Q) = {RoiSetOn, RxBackOn, S("roiRx")}
      BY <1>1, <2>2, <2>3
    <3>2. \A x \in Steps(Q) : x \notin Cutting
      BY <3>1, <1>8 DEF Followed
    <3>3. S("roiClear") \notin Steps(Q)
      BY <3>1, <1>8 DEF Followed
    <3> QED BY <2>1, <3>1, <3>2, <3>3
  <2>4. CASE P # long
    <3>1. ~m.is_rx_on_idle \/ RoiSetOff \in Steps(Q)
      BY <1>6, <1>7, <1>8, <1>12, <2>2, <2>4
    <3>2. RoiSetOn \notin Steps(P)
      BY <1>2, <1>7, <1>8, <1>12, <2>4
    <3> QED BY <1>7, <2>1, <2>2, <3>1, <3>2
  <2> QED BY <2>3, <2>4
<1>13. CASE s = RoiSetOn /\ new = << >> /\ m' = [m EXCEPT !.is_rx_on_idle = TRUE] /\ UNCHANGED ot
  <2>1. m'.phyRxOnIdle = m.phyRxOnIdle /\ m'.rx_on_idle_disabled = m.rx_on_idle_disabled
    BY <1>13 DEF Driver, Fields
  <2>2. P = short
    BY <1>1, <1>6, <1>7, <1>8, <1>13
  <2>3. Steps(Q) = {RxBackOn, S("roiRx")}
    BY <1>2, <1>3, <1>13, <2>2
  <2>4. RoiSetOn \notin Steps(Q) /\ S("roiClear") \notin Steps(Q) /\ \A x \in Steps(Q) : x \notin Cutting
    BY <2>3, <1>8 DEF Followed
  <2> QED BY <1>7, <2>1, <2>3, <2>4
<1>14. CASE s = RoiSetOff /\ new = << >> /\ m' = [m EXCEPT !.is_rx_on_idle = FALSE] /\ UNCHANGED ot
  <2>1. /\ m'.phyRxOnIdle = m.phyRxOnIdle /\ m'.rx_on_idle_disabled = m.rx_on_idle_disabled
        /\ ~m'.is_rx_on_idle
    BY <1>14 DEF Driver, Fields
  <2>2. P # long /\ P # short
    BY <1>1, <1>2, <1>8, <1>14
  <2>3. RoiSetOn \notin Steps(P) /\ Steps(Q) \subseteq Steps(P)
    BY <1>3, <1>6, <1>7, <1>14, <2>2
  <2> QED BY <1>7, <2>1, <2>3
<1>15. CASE Mild(s, new) /\ Within(m, m', Fields \ Watched) /\ UNCHANGED ot
  <2>1. Same
    BY <1>15 DEF Within, Watched, Fields
  <2> QED BY <1>9, <1>15, <2>1, MildLeads
<1>16. ASSUME NEW n, s[1] = n, n \in {"state", "roiRx", "resetRing", "rxReq", "rxAtReq", "txReq", "edReq", "edSet"},
              \A x \in Steps(new) : x[1] \in {"state", "edSet"}, Same
       PROVE  Kept
  <2>1. \A x : x[1] \in {"state", "edSet", "roiRx", "resetRing", "rxReq", "rxAtReq", "txReq", "edReq"}
               => x \notin Followed /\ x \notin Cutting
    BY StepNames DEF Followed, Cutting
  <2>2. s \notin Followed /\ s \notin Cutting
    BY <1>16, <2>1
  <2>3. Steps(new) \cap Followed = {} /\ Steps(new) \cap Cutting = {}
    BY <1>16, <2>1
  <2> HIDE DEF Kept, Same
  <2> QED BY <1>9, <1>16, <2>2, <2>3
<1>17. /\ \A x \in Steps(<< >>) : x[1] \in {"state", "edSet"}
       /\ \A q : \A x \in Steps(<< <<"state", q>> >>) : x[1] \in {"state", "edSet"}
       /\ \A x \in Steps(<< S("edSet") >>) : x[1] \in {"state", "edSet"}
  BY StepsOfFew, StepNames
<1>18. /\ \A n : S(n)[1] = n
       /\ \A q : <<"state", q>>[1] = "state" /\ <<"txReq", q>>[1] = "txReq"
  BY StepNames
<1>19. CASE s = S("abort") /\ new = << >> /\ m' = PhyForceOff(m) /\ UNCHANGED ot
  <2>1. m'.is_rx_on_idle = m.is_rx_on_idle /\ m'.rx_on_idle_disabled = m.rx_on_idle_disabled
    BY <1>19 DEF PhyForceOff, Driver, Fields
  <2> QED BY <1>10, <1>19, <2>1 DEF Cutting
<1>20. CASE /\ s = S("phyDisable") /\ new = << >> /\ UNCHANGED ot
            /\ m' = IF UseNbu THEN m ELSE PhyForceOff(m)
  <2>1. m'.is_rx_on_idle = m.is_rx_on_idle /\ m'.rx_on_idle_disabled = m.rx_on_idle_disabled
    BY <1>20 DEF PhyForceOff, Driver, Fields
  <2> QED BY <1>10, <1>20, <2>1 DEF Cutting
<1>21. CASE s = RxOff /\ new = << >> /\ m' = [m EXCEPT !.phyRxOnIdle = FALSE] /\ UNCHANGED ot
  <2>1. m'.is_rx_on_idle = m.is_rx_on_idle /\ m'.rx_on_idle_disabled = m.rx_on_idle_disabled
    BY <1>21 DEF Driver, Fields
  <2> QED BY <1>10, <1>21, <2>1 DEF Cutting
<1>22. CASE \E q \in RadioState : s = <<"state", q>> /\ new = << >> /\ m' = [m EXCEPT !.sState = q] /\ UNCHANGED ot
  <2>1. Same /\ s[1] = "state"
    BY <1>18, <1>22 DEF Driver, Fields
  <2> QED BY <1>16, <1>17, <1>22, <2>1
<1>23. CASE /\ s = S("roiRx") /\ new = << >> /\ UNCHANGED ot
            /\ m' = [m EXCEPT !.sState = IF @ = "TRANSMIT" THEN @ ELSE "RECEIVE"]
  <2>1. Same /\ s[1] = "roiRx"
    BY <1>18, <1>23 DEF Driver, Fields
  <2> QED BY <1>16, <1>17, <1>23, <2>1
<1>24. CASE s = S("resetRing") /\ new = << >> /\ m' = [m EXCEPT !.ring = 0] /\ UNCHANGED ot
  <2>1. Same /\ s[1] = "resetRing"
    BY <1>18, <1>24 DEF Driver, Fields
  <2> QED BY <1>16, <1>17, <1>24, <2>1
<1>25. CASE /\ s \in {S("rxReq"), S("rxAtReq")} /\ new = << >> /\ UNCHANGED ot
            /\ \/ m' = m
               \/ PhyFree(m) /\ s = S("rxReq") /\ m' = [m EXCEPT !.phyOp = "rx"]
               \/ PhyFree(m) /\ s = S("rxAtReq") /\ m' = [m EXCEPT !.phyOp = "rxTimed"]
  <2>1. Same /\ s[1] \in {"rxReq", "rxAtReq"}
    BY <1>18, <1>25 DEF Driver, Fields
  <2> QED BY <1>16, <1>17, <1>25, <2>1
<1>26. CASE \E tmp \in RadioState :
              /\ s = <<"txReq", tmp>>
              /\ \/ /\ PhyFree(m) /\ new = << >>
                    /\ m' = [m EXCEPT !.phyOp = "tx"] /\ ot' = [ot EXCEPT !.tx = TRUE]
                 \/ new = << <<"state", tmp>> >> /\ UNCHANGED <<m, ot>>
  <2>1. Same /\ s[1] = "txReq"
    BY <1>18, <1>26 DEF Driver, Fields
  <2>2. \A x \in Steps(new) : x[1] \in {"state", "edSet"}
    BY <1>17, <1>26
  <2> QED BY <1>16, <2>1, <2>2
<1>27. CASE /\ s = S("edReq")
            /\ \/ /\ PhyFree(m) /\ new = << S("edSet") >>
                  /\ m' = [m EXCEPT !.phyOp = "ed"] /\ ot' = [ot EXCEPT !.scan = TRUE]
               \/ new = << >> /\ UNCHANGED <<m, ot>>
  <2>1. Same /\ s[1] = "edReq"
    BY <1>18, <1>27 DEF Driver, Fields
  <2>2. \A x \in Steps(new) : x[1] \in {"state", "edSet"}
    BY <1>17, <1>27
  <2> QED BY <1>16, <2>1, <2>2
<1>28. CASE s = S("edSet") /\ new = << >> /\ m' = [m EXCEPT !.is_ed_scan = TRUE] /\ UNCHANGED ot
  <2>1. Same /\ s[1] = "edSet"
    BY <1>18, <1>28 DEF Driver, Fields
  <2> QED BY <1>16, <1>17, <1>28, <2>1
<1> HIDE DEF S, Kept, Same
<1> QED
  BY ONLY <1>6, <1>11, <1>12, <1>13, <1>14, <1>15, <1>19, <1>20, <1>21, <1>22, <1>23, <1>24,
     <1>25, <1>26, <1>27, <1>28, Zenon DEF DriverTo

\* Only Enable empties the ring, and the ring is emptied by a call made from
\* the main loop.
LEMMA DriverRing ==
  ASSUME NEW P, NEW l \in CallPoints, NEW new, NEW Q,
         Steps(P) = {Head(P)} \cup Steps(Tail(P)),
         Steps(Q) = Steps(new) \cup Steps(Tail(P)),
         DriverTo(Head(P), new), Driver(m), m.sState \in RadioState, WorkSeen(l)
  PROVE  /\ WorkSeen(l)'
         /\ RingKept(P, l) => RingKept(Q, l)'
<1>1. /\ m'.sTxDone = m.sTxDone /\ m'.sEdScanDone = m.sEdScanDone
      /\ m'.is_radio_event = m.is_radio_event
      /\ m'.ring = m.ring \/ (Head(P) = S("resetRing") /\ m'.ring = 0)
  BY DriverFrame
<1>2. S("resetRing") \notin Steps(new)
  <2>1. CASE Mild(Head(P), new)
    BY <2>1, MildLeads
  <2>2. CASE new = << >>
    BY <2>2, StepsOfFew
  <2>3. ASSUME NEW q, new = << <<"state", q>> >> PROVE S("resetRing") \notin Steps(new)
    BY <2>3, StepsOfFew, StepNames
  <2>4. CASE new = << S("edSet") >>
    BY <2>4, StepsOfFew, StepNames
  <2>5. Mild(Head(P), new) \/ new = << >> \/ (\E q : new = << <<"state", q>> >>) \/ new = << S("edSet") >>
    BY Zenon DEF DriverTo
  <2> QED BY <2>1, <2>2, <2>3, <2>4, <2>5
<1>3. WorkSeen(l)'
  BY <1>1 DEF WorkSeen
<1>4. ASSUME RingKept(P, l) PROVE RingKept(Q, l)'
  <2>1. S("resetRing") \in Steps(Q) => S("resetRing") \in Steps(P)
    BY <1>2
  <2>2. Head(P) = S("resetRing") => l = "idle"
    BY <1>4 DEF RingKept
  <2> QED BY <1>1, <1>4, <2>1, <2>2 DEF RingKept
<1> QED BY <1>3, <1>4

\* A driver call is begun when none is under way; it promises to leave
\* receiving when idle as asked.
LEMMA CallKeeps ==
  ASSUME NEW l \in Labels, NEW op \in Ops \cup CallbackOps, NEW st,
         MayCall(op), Pushes(op, st), UNCHANGED <<m, ot>>,
         WorkSeen(l), Hears(<< >>, l)
  PROVE  /\ WorkSeen(l)' /\ Hears(st, l)'
         /\ RingKept(<< >>, l) /\ (op = "Enable" => l = "idle") => RingKept(st, l)'
<1> DEFINE long == << S("roiClear"), RoiSetOn, RxBackOn, S("roiRx") >>
           Calm == {"rxTest", "rxAtTest", "cslPeriod", "edTest", "txFrame", "txTest"}
<1>1. Steps(<< >>) = {} /\ Steps(long) = {S("roiClear"), RoiSetOn, RxBackOn, S("roiRx")}
  BY StepsOfFew
<1>2. m' = m
  OBVIOUS
<1>3. /\ m.rx_on_idle_disabled => m.is_radio_event \/ l \in RingSeen \cup {"reenTest", "reenPhy", "reenClear"}
      /\ m.is_rx_on_idle => m.phyRxOnIdle \/ m.rx_on_idle_disabled
      /\ l \in {"reenPhy", "reenClear"} => m.rx_on_idle_disabled
      /\ l = "reenClear" => m.phyRxOnIdle
  BY <1>1 DEF Hears
<1> DEFINE Fine ==
       /\ \A x \in Steps(st) : x \in Cutting => /\ ~m.is_rx_on_idle \/ RoiSetOff \in Steps(st)
                                                /\ RoiSetOn \notin Steps(st)
       /\ RoiSetOn \in Steps(st) => st = long
       /\ S("roiClear") \in Steps(st) => RoiSetOff \in Steps(st) \/ st = long
       /\ S("resetRing") \in Steps(st) => op = "Enable"
<1> HIDE DEF long
<1>4. \A x : x[1] \in Calm => x \notin Cutting /\ x # RoiSetOn /\ x # S("roiClear") /\ x # S("resetRing")
  BY StepNames DEF Cutting
<1>5. \A x : x[1] \in {"roiClear", "roiOff", "state", "resetRing", "sleepTest", "cslStop", "phyDisable", "roiRx"}
             => x # RoiSetOn /\ (x[1] # "roiClear" => x # S("roiClear")) /\ (x[1] # "resetRing" => x # S("resetRing"))
  BY StepNames
<1> DEFINE Names == {"roiClear", "roiOff", "state", "resetRing", "sleepTest", "cslStop", "phyDisable", "roiRx"}
\* A call that clears is_rx_on_idle.
<1>5a. ASSUME RoiSetOff \in Steps(st), \A x \in Steps(st) : x = RoiSetOff \/ x[1] \in Names,
              op # "Enable" => \A x \in Steps(st) : x = RoiSetOff \/ x[1] # "resetRing"
       PROVE  Fine
  <2>1. RoiSetOn \notin Steps(st)
    BY <1>5, <1>5a, StepNames
  <2>2. S("resetRing") \in Steps(st) => op = "Enable"
    BY <1>5a, StepNames
  <2> QED BY <1>5a, <2>1, <2>2
<1>5b. /\ S("roiRx") \notin Cutting /\ RoiSetOn \notin Cutting /\ RxBackOn \notin Cutting /\ S("roiClear") \notin Cutting
       /\ S("sleepTest") # RoiSetOn /\ S("sleepTest") # S("roiClear") /\ S("sleepTest") # S("resetRing")
       /\ S("resetRing") # S("roiClear") /\ S("resetRing") # RoiSetOn /\ S("resetRing") # RxBackOn /\ S("resetRing") # S("roiRx")
  BY StepNames DEF Cutting
<1>6. ASSUME Named(st, Calm) PROVE Fine
  BY <1>4, <1>6 DEF Named
<1> HIDE DEF Fine
<1>7. ASSUME op = "Enable",
             Steps(st) = {S("roiClear"), RoiSetOff, S("roiOff"), <<"state", "SLEEP">>, S("resetRing")}
      PROVE  Fine
  BY <1>5a, <1>7, StepNames
<1>8. ASSUME op = "Disable",
             Steps(st) = {S("sleepTest"), S("roiClear"), RoiSetOff, S("roiOff"), S("cslStop"),
                          S("phyDisable"), <<"state", "DISABLED">>}
      PROVE  Fine
  BY <1>5a, <1>8, StepNames
<1>9. ASSUME op = "Sleep", Steps(st) = {S("sleepTest")} PROVE Fine
  <2>1. ~m.is_rx_on_idle
    BY <1>9 DEF MayCall
  <2> QED BY <1>5b, <1>9, <2>1 DEF Fine
<1>10. ASSUME op = "RxOnWhenIdle", Steps(st) = {S("roiClear"), RoiSetOff, S("roiOff")} PROVE Fine
  BY <1>5a, <1>10, StepNames
<1>11. ASSUME st = long PROVE Fine
  BY <1>1, <1>5b, <1>11 DEF Fine
<1>12. ASSUME NEW n \in Calm, Named(st, {n}) PROVE Fine
  BY <1>6, <1>12 DEF Named
<1>13. ASSUME NEW a, NEW b, st = << a, b >>, a[1] = "txFrame", b[1] = "txTest" PROVE Fine
  <2>1. Named(st, Calm)
    BY <1>13, NamedFew
  <2> QED BY <1>6, <2>1
<1>18. ASSUME NEW a, st = << a >>, a[1] = "edTest" PROVE Fine
  <2>1. Steps(st) = {a} /\ a[1] \in Calm
    BY <1>18, StepsOfFew
  <2>2. Named(st, Calm)
    BY <2>1 DEF Named
  <2> QED BY <1>6, <2>2
<1>14. Fine
  BY <1>7, <1>8, <1>9, <1>10, <1>11, <1>12, <1>13, <1>18 DEF Pushes, long
<1>15. WorkSeen(l)'
  BY <1>2 DEF WorkSeen
<1>16. Hears(st, l)'
  BY <1>2, <1>3, <1>14 DEF Hears, Fine, long
<1>17. ASSUME RingKept(<< >>, l), op = "Enable" => l = "idle" PROVE RingKept(st, l)'
  BY <1>2, <1>14, <1>17 DEF RingKept, Fine
<1> QED BY <1>15, <1>16, <1>17

\* The stack is empty only when no call is under way and otPlatRadioProcess is
\* not running.
LEMMA EmptyStack ==
  ASSUME NEW P, NEW l, StackIs(P, l), stk = << >>
  PROVE  P = << >> /\ l = "idle"
<1>1. P \in Seq(DriverSteps) /\ l \in Labels /\ << >> = P \o Base(l) /\ Base(l) \in Seq(AnyStep)
  BY BaseType DEF StackIs
<1>2. Len(P) + Len(Base(l)) = 0 /\ Len(P) \in Nat /\ Len(Base(l)) \in Nat
  <2>1. Len(P \o Base(l)) = Len(P) + Len(Base(l)) /\ Len(P) \in Nat /\ Len(Base(l)) \in Nat
    BY <1>1
  <2> QED BY <1>1, <2>1
<1>3. P = << >> /\ Base(l) = << >>
  BY <1>1, <1>2
<1> QED BY <1>1, <1>3, BaseHead

\* The invariant holds at first.
LEMMA RadioInit == Init => RadioInv
<1> SUFFICES ASSUME Init PROVE RadioInv
  OBVIOUS
<1>1. PICK c \in Channel :
       m = [sState |-> "DISABLED", sChannel |-> c,
            rx_on_idle_disabled |-> FALSE, is_rx_on_idle |-> FALSE,
            is_ed_scan |-> FALSE, sTxDone |-> FALSE, sEdScanDone |-> FALSE,
            is_tx_poll |-> FALSE, is_rx_after_poll |-> FALSE,
            rx_after_poll_done |-> FALSE, is_radio_event |-> FALSE,
            csl_rx |-> FALSE, sCslPeriod |-> FALSE, sTxStatus |-> "NONE",
            txPoll |-> FALSE, txRxChannel |-> c, ring |-> 0,
            phyOp |-> "idle", phyRxOnIdle |-> FALSE, phyChannel |-> c,
            lpDisallow |-> 0, remoteActive |-> 0]
  BY DEF Init
<1>2. /\ Driver(m) /\ m.sState \in RadioState /\ SleepLockBalanced
      /\ ~m.sTxDone /\ ~m.sEdScanDone /\ ~m.rx_on_idle_disabled /\ ~m.is_rx_on_idle /\ m.ring = 0
  BY <1>1 DEF Driver, Fields, RadioState, SleepLockBalanced
<1>3. Steps(<< >>) = {}
  BY StepsOfFew
<1>4. StackIs(<< >>, "idle")
  <2>1. << >> \in Seq(DriverSteps) /\ "idle" \in Labels /\ stk = << >>
    BY DEF Init, Labels
  <2>2. Base("idle") = << >>
    BY BaseIs
  <2> QED BY <2>1, <2>2 DEF StackIs
<1>5. WorkSeen("idle") /\ Hears(<< >>, "idle") /\ RingKept(<< >>, "idle")
  BY <1>2, <1>3 DEF WorkSeen, Hears, RingKept
<1> QED BY <1>2, <1>4, <1>5 DEF RadioInv

\* Every step of the driver keeps the invariant.
LEMMA RadioStep == RadioInv /\ [Next]_vars => RadioInv'
<1> SUFFICES ASSUME RadioInv, [Next]_vars PROVE RadioInv'
  OBVIOUS
<1>1. Driver(m) /\ m.sState \in RadioState /\ SleepLockBalanced
  BY DEF RadioInv
<1>2. PICK P, l : /\ StackIs(P, l) /\ WorkSeen(l) /\ Hears(P, l)
                  /\ "Enable" \notin CallbackOps => RingKept(P, l)
  BY DEF RadioInv
<1>3. l \in Labels
  BY <1>2 DEF StackIs
<1>4. CASE Handler
  <2>1. /\ Driver(m') /\ m'.sState \in RadioState /\ SleepLockBalanced'
        /\ WorkSeen(l)' /\ Hears(P, l)'
        /\ RingKept(P, l) => RingKept(P, l)'
    BY <1>1, <1>2, <1>3, <1>4, HandlerKeeps
  <2>2. UNCHANGED stk
    BY <1>1, <1>4, HandlerEffect DEF HandlerLeaves
  <2>3. StackIs(P, l)'
    BY <1>2, <2>2 DEF StackIs
  <2> QED BY <1>2, <2>1, <2>3 DEF RadioInv
<1>5. ASSUME NEW k \in Labels, P = << >>, StackIs(<< >>, k)', ProcessTo(l, k)
      PROVE  RadioInv'
  <2>1. Hears(<< >>, l) /\ ("Enable" \notin CallbackOps => RingKept(<< >>, l))
    BY <1>2, <1>5
  <2>2. /\ Driver(m') /\ m'.sState \in RadioState /\ SleepLockBalanced'
        /\ WorkSeen(k)' /\ Hears(<< >>, k)'
        /\ RingKept(<< >>, l) => RingKept(<< >>, k)'
    BY <1>1, <1>2, <1>3, <1>5, <2>1, ProcessKeeps
  <2> QED BY <1>5, <2>1, <2>2 DEF RadioInv
<1>6. CASE ProcessStep \/ CallbackReturn
  BY <1>2, <1>5, <1>6, ProcessControl
<1>7. CASE DriverStep
  <2>1. DriverGoes(P, l)
    BY <1>1, <1>2, <1>7, DriverControl
  <2>2. CASE P = << >> /\ StackIs(<< >>, "reenClear")' /\ ProcessTo(l, "reenClear")
    BY <1>5, <2>2 DEF Labels
  <2>3. ASSUME NEW new \in Seq(DriverSteps), NEW Q \in Seq(DriverSteps),
               P # << >>, l \in CallPoints, Tail(P) \in Seq(DriverSteps),
               Steps(P) = {Head(P)} \cup Steps(Tail(P)),
               Q = new \o Tail(P), StackIs(Q, l)',
               Steps(Q) = Steps(new) \cup Steps(Tail(P)), DriverTo(Head(P), new)
        PROVE  RadioInv'
    <3>1. Hears(Q, l)'
      BY <1>1, <1>2, <2>3, DriverHears
    <3>2. WorkSeen(l)' /\ (RingKept(P, l) => RingKept(Q, l)')
      BY <1>1, <1>2, <2>3, DriverRing
    <3>3. /\ Driver(m') /\ m'.sState \in RadioState
          /\ m'.is_radio_event = m.is_radio_event /\ m'.lpDisallow = m.lpDisallow
      BY <1>1, <2>3, DriverFrame
    <3>4. SleepLockBalanced'
      BY <1>1, <3>3 DEF SleepLockBalanced
    <3> QED BY <1>2, <2>3, <3>1, <3>2, <3>3, <3>4 DEF RadioInv
  <2> QED BY <2>1, <2>2, <2>3 DEF DriverGoes
<1>8. CASE MainLoopCall \/ CallbackCall
  <2>1. P = << >> /\ UNCHANGED <<m, ot>>
    BY <1>2, <1>8, CallControl
  <2>2. PICK op \in Ops \cup CallbackOps, st \in Seq(DriverSteps) :
              /\ MayCall(op) /\ Pushes(op, st) /\ StackIs(st, l)'
              /\ (l = "idle" /\ op \in Ops)
                 \/ (l \in {"inTxDone", "inRxDone", "inEdDone"} /\ op \in CallbackOps)
    BY <1>2, <1>8, CallControl
  <2>3. Hears(<< >>, l) /\ ("Enable" \notin CallbackOps => RingKept(<< >>, l))
    BY <1>2, <2>1
  <2>4. /\ WorkSeen(l)' /\ Hears(st, l)'
        /\ RingKept(<< >>, l) /\ (op = "Enable" => l = "idle") => RingKept(st, l)'
    BY <1>2, <1>3, <2>1, <2>2, <2>3, CallKeeps
  <2>5. "Enable" \notin CallbackOps => RingKept(st, l)'
    BY <2>2, <2>3, <2>4
  <2>6. Driver(m') /\ m'.sState \in RadioState /\ SleepLockBalanced'
    BY <1>1, <2>1 DEF SleepLockBalanced
  <2> QED BY <2>2, <2>4, <2>5, <2>6 DEF RadioInv
<1>9. CASE StartProcess
  <2>1. P = << >> /\ l = "idle" /\ UNCHANGED <<m, ot>> /\ stk' = ProcessSteps
    BY <1>2, <1>9, EmptyStack DEF StartProcess
  <2>2. StackIs(<< >>, "evClear")'
    <3>1. Base("evClear") = ProcessSteps /\ Base("evClear") \in Seq(AnyStep)
      BY BaseIs, BaseType DEF Labels
    <3>2. << >> \o Base("evClear") = Base("evClear")
      BY <3>1
    <3>3. << >> \in Seq(DriverSteps)
      OBVIOUS
    <3> QED BY <2>1, <3>1, <3>2, <3>3 DEF StackIs, Labels
  <2>3. /\ WorkSeen("evClear")' /\ Hears(<< >>, "evClear")'
        /\ RingKept(P, l) => RingKept(<< >>, "evClear")'
    BY <1>2, <2>1, StepsOfFew DEF WorkSeen, Hears, RingKept, RingSeen
  <2>4. Driver(m') /\ m'.sState \in RadioState /\ SleepLockBalanced'
    BY <1>1, <2>1 DEF SleepLockBalanced
  <2> QED BY <1>2, <2>2, <2>3, <2>4 DEF RadioInv
<1>10. CASE UNCHANGED vars
  <2>1. m' = m /\ ot' = ot /\ stk' = stk
    BY <1>10 DEF vars
  <2>2. StackIs(P, l)' /\ WorkSeen(l)' /\ Hears(P, l)' /\ (RingKept(P, l) => RingKept(P, l)')
    BY <1>2, <2>1 DEF StackIs, WorkSeen, Hears, RingKept
  <2>3. Driver(m') /\ m'.sState \in RadioState /\ SleepLockBalanced'
    BY <1>1, <2>1 DEF SleepLockBalanced
  <2> QED BY <1>2, <2>2, <2>3 DEF RadioInv
<1> QED
  BY <1>4, <1>6, <1>7, <1>8, <1>9, <1>10 DEF Next, TaskStep, Handler

\* The invariant always holds.
LEMMA RadioAlways == Init /\ [][Next]_vars => []RadioInv
BY RadioInit, RadioStep, PTL

-----------------------------------------------------------------------------
(* The requests: a transmission or a scan is asked of the PHY only once    *)
(* what was reported of the one before is settled.                         *)

\* What the argument needs: OpenThread asks for no timed reception and calls
\* otPlatRadioTransmit from its main loop only, the PHY aborts no reception, and
\* no ACK has it listen on by itself.  Else a reception that ends while
\* otPlatRadioTransmit is under way is taken for the end of the transmission.
PlainRadio ==
  /\ RxAborts = FALSE /\ FramePending \subseteq {FALSE}
  /\ "ReceiveAt" \notin Ops \cup CallbackOps
  /\ "Transmit" \notin CallbackOps

\* The steps of the two calls that lead to a request, and the one after a scan's.
Requests == {"txTest", "txSave", "txReq", "edTest", "edReq", "edSet"}
TxRequests == {"txTest", "txSave", "txReq"}
EdRequests == {"edTest", "edReq"}

\* otPlatRadioTransmit's assignment to sState.
ToTransmit == <<"state", "TRANSMIT">>

\* At most one of the steps is of a request.
OneRequest(P) ==
  \A i, j \in 1 .. Len(P) : P[i][1] \in Requests /\ P[j][1] \in Requests => i = j

\* None is.
NoRequest(P) == \A x \in Steps(P) : x[1] \notin Requests

\* otPlatRadioEnergyScanDone returns, or has and sEdScanDone is not yet cleared.
AfterEdDone == {"inEdDone", "edClear"}

\* What the PHY runs OpenThread waits for, and nothing is reported of it yet,
\* nor of a scan whose flag is_ed_scan is set.
Settled(l) ==
  /\ m.phyOp \in {"idle", "rx", "tx", "ed"}
  /\ m.phyOp = "tx" => ot.tx /\ ~m.sTxDone
  /\ m.sTxDone => ot.tx \/ l \in {"inTxDone", "txClear"}
  /\ l = "txCallback" => m.sTxDone
  /\ m.phyOp = "ed" => m.sState # "TRANSMIT"
  /\ m.phyOp = "ed" \/ m.is_ed_scan => ot.scan /\ (m.sEdScanDone => l \in AfterEdDone)
  /\ m.sEdScanDone => ot.scan \/ l \in AfterEdDone
  /\ l = "edCallback" => m.sEdScanDone

\* What holds while the step x of a call is pending.
Fits(x, l) ==
  /\ x[1] \notin {"rxAtTest", "rxAtReq"}
  /\ x[1] \in TxRequests => l = "idle" /\ ~ot.tx /\ ~ot.scan
  /\ x[1] \in EdRequests => ~ot.scan
  /\ x[1] = "edReq" => m.sState # "TRANSMIT"
  /\ x[1] = "edSet" => ot.scan /\ ~m.is_ed_scan /\ (m.sEdScanDone => l \in AfterEdDone)
  /\ x = ToTransmit => ~ot.scan

\* A call under way makes at most one request.
Asks(P, l) ==
  /\ OneRequest(P)
  /\ \A x \in Steps(P) : Fits(x, l)
  /\ ToTransmit \in Steps(P) => \A x \in Steps(P) : x[1] \notin EdRequests

\* The inductive invariant of the requests.
RequestInv ==
  /\ ot \in [tx : BOOLEAN, scan : BOOLEAN]
  /\ \E P, l : StackIs(P, l) /\ Settled(l) /\ Asks(P, l)

\* The first of the steps and the others: a request among the others is the only one.
LEMMA RequestOfTail ==
  ASSUME NEW P \in Seq(DriverSteps), P # << >>, OneRequest(P)
  PROVE  /\ OneRequest(Tail(P))
         /\ Head(P)[1] \in Requests => NoRequest(Tail(P))
<1>1. /\ Tail(P) \in Seq(DriverSteps) /\ Len(Tail(P)) = Len(P) - 1 /\ Len(P) \in Nat \ {0}
      /\ Head(P) = P[1]
      /\ \A i \in 1 .. Len(P) - 1 : Tail(P)[i] = P[i + 1]
  OBVIOUS
<1>2. OneRequest(Tail(P))
  <2> SUFFICES ASSUME NEW i \in 1 .. Len(P) - 1, NEW j \in 1 .. Len(P) - 1,
                      Tail(P)[i][1] \in Requests, Tail(P)[j][1] \in Requests
               PROVE  i = j
    BY <1>1 DEF OneRequest
  <2>1. i + 1 \in 1 .. Len(P) /\ j + 1 \in 1 .. Len(P) /\ P[i + 1][1] \in Requests /\ P[j + 1][1] \in Requests
    BY <1>1
  <2>2. i + 1 = j + 1
    BY <2>1 DEF OneRequest
  <2> QED BY <2>2
<1>3. ASSUME Head(P)[1] \in Requests PROVE NoRequest(Tail(P))
  <2> SUFFICES ASSUME NEW i \in 1 .. Len(P) - 1, Tail(P)[i][1] \in Requests PROVE FALSE
    BY <1>1 DEF NoRequest, Steps
  <2>1. i + 1 \in 1 .. Len(P) /\ 1 \in 1 .. Len(P) /\ P[i + 1][1] \in Requests /\ P[1][1] \in Requests
    BY <1>1, <1>3
  <2>2. i + 1 = 1
    BY <2>1 DEF OneRequest
  <2> QED BY <2>2
<1> QED BY <1>2, <1>3

\* Steps that replace the first leave one request, if they ask for one only in
\* place of one.
LEMMA RequestOfConcat ==
  ASSUME NEW new \in Seq(DriverSteps), NEW R \in Seq(DriverSteps),
         OneRequest(new), OneRequest(R), NoRequest(new) \/ NoRequest(R)
  PROVE  OneRequest(new \o R)
<1>1. /\ new \o R \in Seq(DriverSteps) /\ Len(new \o R) = Len(new) + Len(R)
      /\ Len(new) \in Nat /\ Len(R) \in Nat
  OBVIOUS
<1>2. ASSUME NEW i \in 1 .. Len(new) + Len(R)
      PROVE  \/ i \in 1 .. Len(new) /\ (new \o R)[i] = new[i]
             \/ i - Len(new) \in 1 .. Len(R) /\ (new \o R)[i] = R[i - Len(new)]
  BY <1>1
<1>3. /\ NoRequest(new) => \A i \in 1 .. Len(new) : new[i][1] \notin Requests
      /\ NoRequest(R) => \A i \in 1 .. Len(R) : R[i][1] \notin Requests
  BY DEF NoRequest, Steps
<1> SUFFICES ASSUME NEW i \in 1 .. Len(new) + Len(R), NEW j \in 1 .. Len(new) + Len(R),
                    (new \o R)[i][1] \in Requests, (new \o R)[j][1] \in Requests
             PROVE  i = j
  BY <1>1 DEF OneRequest
<1>4. CASE i \in 1 .. Len(new) /\ (new \o R)[i] = new[i] /\ j \in 1 .. Len(new) /\ (new \o R)[j] = new[j]
  BY <1>4 DEF OneRequest
<1>5. CASE /\ i - Len(new) \in 1 .. Len(R) /\ (new \o R)[i] = R[i - Len(new)]
           /\ j - Len(new) \in 1 .. Len(R) /\ (new \o R)[j] = R[j - Len(new)]
  <2>1. i - Len(new) = j - Len(new)
    BY <1>5 DEF OneRequest
  <2> QED BY <1>1, <2>1
<1> QED BY <1>2, <1>3, <1>4, <1>5

\* Short sequences with no more than one request.
LEMMA RequestOfFew ==
  /\ \A new : NoRequest(new) => OneRequest(new)
  /\ \A a : OneRequest(<< a >>)
  /\ \A a, b : a[1] \notin Requests => OneRequest(<< a, b >>)
  /\ \A a, b, c, d : a[1] \notin Requests /\ b[1] \notin Requests /\ c[1] \notin Requests
                     => OneRequest(<< a, b, c, d >>)
<1>1. ASSUME NEW new, NoRequest(new) PROVE OneRequest(new)
  BY <1>1 DEF NoRequest, OneRequest, Steps
<1>2. ASSUME NEW a PROVE OneRequest(<< a >>)
  <2>1. Len(<< a >>) = 1
    OBVIOUS
  <2> QED BY <2>1 DEF OneRequest
<1>3. ASSUME NEW a, NEW b, a[1] \notin Requests PROVE OneRequest(<< a, b >>)
  <2>1. Len(<< a, b >>) = 2 /\ << a, b >>[1] = a
    OBVIOUS
  <2> QED BY <1>3, <2>1 DEF OneRequest
<1>4. ASSUME NEW a, NEW b, NEW c, NEW d, a[1] \notin Requests, b[1] \notin Requests, c[1] \notin Requests
      PROVE  OneRequest(<< a, b, c, d >>)
  <2>1. Len(<< a, b, c, d >>) = 4 /\ << a, b, c, d >>[1] = a /\ << a, b, c, d >>[2] = b /\ << a, b, c, d >>[3] = c
    OBVIOUS
  <2> QED BY <1>4, <2>1 DEF OneRequest
<1> QED BY <1>1, <1>2, <1>3, <1>4

\* What a message of the PHY settles: it ends what the PHY ran and reports it.
HandlerSettles ==
  /\ m'.phyOp = "idle" \/ (m'.phyOp = "rx" /\ m.phyOp = "rx")
  /\ m'.sTxDone => m.sTxDone \/ m.phyOp = "tx"
  /\ m.sTxDone => m'.sTxDone
  /\ m'.is_ed_scan => m.is_ed_scan /\ (m'.sEdScanDone => m.sEdScanDone)
  /\ m'.sEdScanDone => m.sEdScanDone \/ m.is_ed_scan
  /\ m.sEdScanDone => m'.sEdScanDone

\* Both handlers leave, on their way out, what their switch made of the fields a
\* request is about.
LEMMA TailSettles ==
  ASSUME Driver(m), NEW s, NEW F, Within(m, s, F), F \cap {"is_ed_scan", "sEdScanDone"} = {},
         m' = PdTail(s) \/ m' = PlmeTail(s),
         s.phyOp = "idle", s.sTxDone => m.sTxDone \/ m.phyOp = "tx", m.sTxDone => s.sTxDone
  PROVE  HandlerSettles
<1>1. Driver(s) /\ s.is_ed_scan = m.is_ed_scan /\ s.sEdScanDone = m.sEdScanDone
  BY DEF Within, Fields
<1>2. /\ Within(s, m', TailFields) /\ ~m'.is_ed_scan
      /\ m'.sEdScanDone => s.sEdScanDone \/ s.is_ed_scan
      /\ s.sEdScanDone => m'.sEdScanDone
  BY <1>1, PdTailFrame, PlmeTailFrame
<1>3. m'.phyOp = s.phyOp /\ m'.sTxDone = s.sTxDone
  BY <1>2 DEF Within, TailFields, Fields
<1> QED BY <1>1, <1>2, <1>3 DEF HandlerSettles

\* Whatever the message is.
LEMMA HandlerEnds ==
  ASSUME PlainRadio, Driver(m), Handler, m.phyOp \in {"idle", "rx", "tx", "ed"},
         m.phyOp = "ed" => m.sState # "TRANSMIT"
  PROVE  HandlerSettles
<1>1. CASE PdDataIndIgnored
  <2>1. PICK op \in {m.phyOp, "idle"} : m' = StopCsl([m EXCEPT !.phyOp = op])
    BY <1>1 DEF PdDataIndIgnored
  <2>2. m.phyOp \in {"rx", "idle"}
    BY <1>1 DEF PdDataIndIgnored, CanReceive
  <2> DEFINE s == [m EXCEPT !.phyOp = op]
  <2>3. Within(m, s, {"phyOp"}) /\ s.phyOp = op
    BY DEF Within, Driver, Fields
  <2>4. Within(s, m', {"remoteActive", "csl_rx"})
    BY <2>1, <2>3, StopCslFrame DEF Within
  <2> HIDE DEF s
  <2>5. m'.phyOp = op /\ m'.sTxDone = m.sTxDone /\ m'.is_ed_scan = m.is_ed_scan /\ m'.sEdScanDone = m.sEdScanDone
    BY <2>3, <2>4 DEF Within, Fields
  <2> QED BY <2>2, <2>5 DEF HandlerSettles
<1>2. CASE PdDataInd
  <2> DEFINE room == m.ring < Capacity
             s1 == [m EXCEPT !.phyOp = "idle",
                             !.rx_after_poll_done = @ \/ m.is_rx_after_poll,
                             !.is_rx_after_poll = FALSE,
                             !.ring = IF room THEN @ + 1 ELSE @]
             full == ~room \/ s1.ring = Capacity
             s2 == IF ~s1.rx_on_idle_disabled /\ s1.is_rx_on_idle /\ full
                     THEN [s1 EXCEPT !.phyRxOnIdle = FALSE, !.rx_on_idle_disabled = TRUE]
                     ELSE s1
             F == {"phyOp", "rx_after_poll_done", "is_rx_after_poll", "ring"}
  <2>1. m' = PdTail(s2)
    BY <1>2 DEF PdDataInd
  <2>2. Within(m, s1, F) /\ s1.phyOp = "idle"
    BY DEF Within, Driver, Fields
  <2> HIDE DEF s1
  <2>3. Within(s1, s2, {"phyRxOnIdle", "rx_on_idle_disabled"})
    BY <2>2 DEF Within, Driver, Fields
  <2> HIDE DEF s2
  <2>4. Within(m, s2, F \cup {"phyRxOnIdle", "rx_on_idle_disabled"})
    BY <2>2, <2>3 DEF Within
  <2>5. s2.phyOp = "idle" /\ s2.sTxDone = m.sTxDone
    BY <2>2, <2>3 DEF Within, Fields
  <2> QED BY <2>1, <2>4, <2>5, TailSettles
<1>3. ASSUME NEW cnf \in BOOLEAN, NEW fp \in FramePending, PdDataCnf(cnf, fp) PROVE HandlerSettles
  <2> DEFINE s1 == [m EXCEPT !.phyOp = IF cnf /\ fp /\ m.txPoll THEN "rxTimed" ELSE "idle"]
             s2 == IF m.sState = "TRANSMIT"
                     THEN [s1 EXCEPT !.sTxStatus = IF cnf THEN "NONE" ELSE "ABORT",
                                     !.is_rx_after_poll = @ \/ (cnf /\ fp /\ m.is_tx_poll),
                                     !.sTxDone = TRUE,
                                     !.is_tx_poll = FALSE]
                     ELSE s1
             F == {"phyOp", "sTxStatus", "is_rx_after_poll", "sTxDone", "is_tx_poll"}
  <2>1. m' = PdTail(s2) /\ m.phyOp = "tx"
    BY <1>3 DEF PdDataCnf
  <2>2. ~fp
    BY DEF PlainRadio
  <2>3. Within(m, s1, {"phyOp"}) /\ s1.phyOp = "idle"
    BY <2>2 DEF Within, Driver, Fields
  <2> HIDE DEF s1
  <2>4. Within(s1, s2, F) /\ s2.phyOp = s1.phyOp /\ (s1.sTxDone => s2.sTxDone)
    BY <2>3 DEF Within, Driver, Fields
  <2> HIDE DEF s2
  <2>5. Within(m, s2, F) /\ s2.phyOp = "idle" /\ (m.sTxDone => s2.sTxDone)
    BY <2>3, <2>4 DEF Within, Fields
  <2> QED BY <2>1, <2>5, TailSettles
<1>4. CASE PlmeCcaBusy
  <2> DEFINE s == [m EXCEPT !.phyOp = "idle", !.sTxDone = TRUE,
                            !.sTxStatus = "CHANNEL_ACCESS_FAILURE"]
  <2>1. m' = PlmeTail(s) /\ m.phyOp = "tx"
    BY <1>4 DEF PlmeCcaBusy
  <2>2. Within(m, s, {"phyOp", "sTxStatus", "sTxDone"}) /\ s.phyOp = "idle" /\ s.sTxDone
    BY DEF Within, Driver, Fields
  <2> HIDE DEF s
  <2> QED BY <2>1, <2>2, TailSettles
<1>5. ASSUME NEW status, m' = PlmeDone(status), m.phyOp \in {"tx", "ed"} PROVE HandlerSettles
  <2> DEFINE s == [m EXCEPT !.phyOp = "idle"]
             t == IF m.sState = "TRANSMIT"
                    THEN [s EXCEPT !.sTxStatus = status, !.sTxDone = TRUE,
                                   !.is_tx_poll = FALSE, !.is_rx_after_poll = FALSE]
                    ELSE s
             F == {"phyOp", "sTxStatus", "sTxDone", "is_tx_poll", "is_rx_after_poll"}
  <2>1. Within(m, t, F) /\ t.phyOp = "idle"
    BY DEF Within, Driver, Fields
  <2>2. m.sTxDone => t.sTxDone
    BY DEF Driver, Fields
  <2>3. t.sTxDone => m.sTxDone \/ m.phyOp = "tx"
    <3>1. CASE m.phyOp = "tx"
      BY <3>1
    <3>2. CASE m.phyOp = "ed"
      BY <3>2 DEF Driver, Fields
    <3> QED BY <1>5, <3>1, <3>2
  <2>4. m' = PlmeTail(t)
    BY <1>5 DEF PlmeDone
  <2> HIDE DEF t
  <2> QED BY <2>1, <2>2, <2>3, <2>4, TailSettles
<1>6. CASE PlmeEdCnf \/ PlmeTimeoutInd \/ PlmeAbortInd
  <2>1. \E status : m' = PlmeDone(status)
    BY <1>6 DEF PlmeEdCnf, PlmeTimeoutInd, PlmeAbortInd
  <2>2. m.phyOp \in {"tx", "ed"}
    BY <1>6 DEF PlmeEdCnf, PlmeTimeoutInd, PlmeAbortInd, PlainRadio
  <2> QED BY <1>5, <2>1, <2>2
<1> QED BY <1>1, <1>2, <1>3, <1>4, <1>6 DEF Handler, PhyCompletes, PhyReceives

\* A message of the PHY keeps the requests settled.
LEMMA HandlerAsks ==
  ASSUME PlainRadio, NEW P, NEW l, Handler, Driver(m), Settled(l), Asks(P, l)
  PROVE  Settled(l)' /\ Asks(P, l)'
<1>1. HandlerSettles
  BY HandlerEnds DEF Settled
<1>2. ot' = ot /\ (m'.sState \in {"RECEIVE", "SLEEP"} \/ m'.sState = m.sState)
  BY HandlerEffect DEF HandlerLeaves
<1>4. Settled(l)'
  BY <1>1, <1>2 DEF HandlerSettles, Settled
<1>5. Asks(P, l)'
  BY <1>1, <1>2 DEF HandlerSettles, Asks, Fits
<1> QED BY <1>4, <1>5

\* A step of otPlatRadioProcess keeps them settled.
LEMMA ProcessAsks ==
  ASSUME NEW l \in Labels, NEW k \in Labels, ProcessTo(l, k), Driver(m), ot \in [tx : BOOLEAN, scan : BOOLEAN],
         Settled(l)
  PROVE  Settled(k)' /\ Asks(<< >>, k)' /\ ot' \in [tx : BOOLEAN, scan : BOOLEAN]
<1>1. Asks(<< >>, k)'
  BY StepsOfFew, RequestOfFew DEF Asks, NoRequest
<1>2. CASE m' = m /\ ot' = ot /\ l \notin {"txCallback", "edCallback", "txClear", "edClear"}
  <2>1. /\ k = "txCallback" => m.sTxDone
        /\ k = "edCallback" => m.sEdScanDone
        /\ l = "inTxDone" => k = "txClear"
        /\ l = "inEdDone" => k = "edClear"
    BY <1>2 DEF ProcessTo
  <2> QED BY <1>1, <1>2, <2>1 DEF Settled, AfterEdDone
<1>3. CASE l = "txCallback"
  <2>1. k = "inTxDone" /\ m' = m /\ ot' = [ot EXCEPT !.tx = FALSE]
    BY <1>3 DEF ProcessTo
  <2>2. ot'.scan = ot.scan /\ ot' \in [tx : BOOLEAN, scan : BOOLEAN]
    BY <2>1
  <2> QED BY <1>1, <1>3, <2>1, <2>2 DEF Settled, AfterEdDone
<1>4. CASE l = "edCallback"
  <2>1. k = "inEdDone" /\ m' = m /\ ot' = [ot EXCEPT !.scan = FALSE]
    BY <1>4 DEF ProcessTo
  <2>2. ot'.tx = ot.tx /\ ot' \in [tx : BOOLEAN, scan : BOOLEAN]
    BY <2>1
  <2> QED BY <1>1, <1>4, <2>1, <2>2 DEF Settled, AfterEdDone
<1>5. CASE /\ UNCHANGED ot /\ Within(m, m', {"is_radio_event", "lpDisallow", "rx_after_poll_done", "ring",
                                              "phyRxOnIdle", "rx_on_idle_disabled"})
           /\ l \notin {"txCallback", "inTxDone", "txClear", "edCallback", "inEdDone", "edClear"}
           /\ k \notin {"txCallback", "inTxDone", "txClear", "edCallback", "inEdDone", "edClear"}
  BY <1>1, <1>5 DEF Within, Fields, Settled, AfterEdDone
<1>6. CASE l \in {"evClear", "pollDone", "rxPop", "reenPhy", "reenClear"}
  <2>1. Within(m, m', {"is_radio_event", "lpDisallow", "rx_after_poll_done", "ring", "phyRxOnIdle", "rx_on_idle_disabled"})
    BY <1>6 DEF ProcessTo, Within, Driver, Fields
  <2> QED BY <1>5, <1>6, <2>1 DEF ProcessTo
<1>7. CASE l = "txClear"
  <2>1. k = "pollDone" /\ ot' = ot /\ m' = [m EXCEPT !.sTxDone = FALSE]
    BY <1>7 DEF ProcessTo
  <2>2. Within(m, m', {"sTxDone"}) /\ ~m'.sTxDone
    BY <2>1 DEF Within, Driver, Fields
  <2> QED BY <1>1, <1>7, <2>1, <2>2 DEF Within, Fields, Settled, AfterEdDone
<1>8. CASE l = "edClear"
  <2>1. k = "idle" /\ ot' = ot /\ m' = [m EXCEPT !.sEdScanDone = FALSE]
    BY <1>8 DEF ProcessTo
  <2>2. Within(m, m', {"sEdScanDone"}) /\ ~m'.sEdScanDone
    BY <2>1 DEF Within, Driver, Fields
  <2> QED BY <1>1, <1>8, <2>1, <2>2 DEF Within, Fields, Settled, AfterEdDone
<1>9. CASE l \notin {"txCallback", "edCallback", "txClear", "edClear", "evClear", "pollDone", "rxPop", "reenPhy", "reenClear"}
  <2>1. m' = m /\ ot' = ot
    BY <1>9 DEF ProcessTo
  <2> QED BY <1>2, <1>9, <2>1
<1> QED BY <1>3, <1>4, <1>6, <1>7, <1>8, <1>9

\* A step of a call keeps what the PHY runs settled.
LEMMA DriverSettles ==
  ASSUME NEW l \in CallPoints, NEW s, NEW new, DriverTo(s, new), Driver(m),
         ot \in [tx : BOOLEAN, scan : BOOLEAN], Settled(l), Fits(s, l)
  PROVE  /\ Settled(l)' /\ ot' \in [tx : BOOLEAN, scan : BOOLEAN]
         /\ m'.sEdScanDone = m.sEdScanDone
         /\ m'.is_ed_scan = m.is_ed_scan \/ s[1] = "edSet"
         /\ m.sState # "TRANSMIT" /\ s # ToTransmit => m'.sState # "TRANSMIT"
         /\ ot' = ot \/ (s[1] = "txReq" /\ ot'.scan = ot.scan) \/ s[1] = "edReq"
<1> DEFINE Goal ==
       /\ Settled(l)' /\ ot' \in [tx : BOOLEAN, scan : BOOLEAN]
       /\ m'.sEdScanDone = m.sEdScanDone
       /\ m'.is_ed_scan = m.is_ed_scan \/ s[1] = "edSet"
       /\ m.sState # "TRANSMIT" /\ s # ToTransmit => m'.sState # "TRANSMIT"
       /\ ot' = ot \/ (s[1] = "txReq" /\ ot'.scan = ot.scan) \/ s[1] = "edReq"
<1> SUFFICES Goal
  OBVIOUS
\* Most steps leave all of it alone.
<1>1. ASSUME Within(m, m', Fields \ (Watched \ {"rx_on_idle_disabled", "is_rx_on_idle", "is_radio_event",
                                                "ring", "phyRxOnIdle", "lpDisallow"})),
             ot' = ot
      PROVE  Goal
  <2>1. /\ m'.phyOp = m.phyOp /\ m'.sTxDone = m.sTxDone /\ m'.is_ed_scan = m.is_ed_scan
        /\ m'.sEdScanDone = m.sEdScanDone /\ m'.sState = m.sState
    BY <1>1 DEF Within, Watched, Fields
  <2> QED BY <1>1, <2>1 DEF Settled
<1>2. CASE Within(m, m', Fields \ Watched) /\ ot' = ot
  <2>1. Within(m, m', Fields \ (Watched \ {"rx_on_idle_disabled", "is_rx_on_idle", "is_radio_event",
                                           "ring", "phyRxOnIdle", "lpDisallow"}))
    BY <1>2 DEF Within, Watched, Fields
  <2> QED BY <1>1, <1>2, <2>1
<1>3. CASE /\ ot' = ot
           /\ \/ m' = m
              \/ \E b \in BOOLEAN : m' = [m EXCEPT !.phyRxOnIdle = b] \/ m' = [m EXCEPT !.is_rx_on_idle = b]
              \/ m' = [m EXCEPT !.rx_on_idle_disabled = FALSE] \/ m' = [m EXCEPT !.ring = 0]
  <2>1. Within(m, m', {"rx_on_idle_disabled", "is_rx_on_idle", "ring", "phyRxOnIdle"})
    BY <1>3 DEF Within, Driver, Fields
  <2>2. Within(m, m', Fields \ (Watched \ {"rx_on_idle_disabled", "is_rx_on_idle", "is_radio_event",
                                           "ring", "phyRxOnIdle", "lpDisallow"}))
    BY <2>1 DEF Within, Watched, Fields
  <2> QED BY <1>1, <1>3, <2>2
<1>4. CASE m' = PhyForceOff(m) /\ ot' = ot
  <2>1. Within(m, m', {"phyOp", "phyRxOnIdle"}) /\ m'.phyOp = "idle"
    BY <1>4 DEF PhyForceOff, Within, Driver, Fields
  <2> QED BY <1>4, <2>1 DEF Within, Fields, Settled
<1>5. ASSUME NEW q, m' = [m EXCEPT !.sState = q], ot' = ot, q = "TRANSMIT" => s = ToTransmit \/ m.sState = "TRANSMIT"
      PROVE  Goal
  <2>1. Within(m, m', {"sState"}) /\ m'.sState = q
    BY <1>5 DEF Within, Driver, Fields
  <2> QED BY <1>5, <2>1 DEF Within, Fields, Settled, Fits
<1>6. CASE PhyFree(m) /\ m' = [m EXCEPT !.phyOp = "rx"] /\ ot' = ot
  <2>1. Within(m, m', {"phyOp"}) /\ m'.phyOp = "rx"
    BY <1>6 DEF Within, Driver, Fields
  <2> QED BY <1>6, <2>1 DEF Within, Fields, Settled
<1>7. CASE s[1] = "txReq" /\ m' = [m EXCEPT !.phyOp = "tx"] /\ ot' = [ot EXCEPT !.tx = TRUE]
  <2>1. Within(m, m', {"phyOp"}) /\ m'.phyOp = "tx"
    BY <1>7 DEF Within, Driver, Fields
  <2>2. ot'.tx /\ ot'.scan = ot.scan /\ ot' \in [tx : BOOLEAN, scan : BOOLEAN]
    BY <1>7
  <2>3. l = "idle" /\ ~ot.tx /\ ~ot.scan
    BY <1>7 DEF Fits, TxRequests
  <2> QED BY <1>7, <2>1, <2>2, <2>3 DEF Within, Fields, Settled
<1>8. CASE s[1] = "edReq" /\ m' = [m EXCEPT !.phyOp = "ed"] /\ ot' = [ot EXCEPT !.scan = TRUE]
  <2>1. Within(m, m', {"phyOp"}) /\ m'.phyOp = "ed"
    BY <1>8 DEF Within, Driver, Fields
  <2>2. ot'.scan /\ ot'.tx = ot.tx /\ ot' \in [tx : BOOLEAN, scan : BOOLEAN]
    BY <1>8
  <2>3. ~ot.scan /\ m.sState # "TRANSMIT"
    BY <1>8 DEF Fits, EdRequests
  <2> QED BY <1>8, <2>1, <2>2, <2>3 DEF Within, Fields, Settled
<1>9. CASE s[1] = "edSet" /\ m' = [m EXCEPT !.is_ed_scan = TRUE] /\ ot' = ot
  <2>1. Within(m, m', {"is_ed_scan"})
    BY <1>9 DEF Within, Driver, Fields
  <2> QED BY <1>9, <2>1 DEF Within, Fields, Settled, Fits
\* The steps as DriverTo lists them.
<1>10. CASE Mild(s, new) /\ Within(m, m', Fields \ Watched) /\ UNCHANGED ot
  BY <1>2, <1>10
<1>11. CASE s = S("abort") /\ new = << >> /\ m' = PhyForceOff(m) /\ UNCHANGED ot
  BY <1>4, <1>11
<1>12. CASE s = RxBackOn /\ new = << >> /\ m' = [m EXCEPT !.phyRxOnIdle = TRUE] /\ UNCHANGED ot
  BY <1>3, <1>12
<1>13. CASE s = RxOff /\ new = << >> /\ m' = [m EXCEPT !.phyRxOnIdle = FALSE] /\ UNCHANGED ot
  BY <1>3, <1>13
<1>14. CASE \E q \in RadioState :
               s = <<"state", q>> /\ new = << >> /\ m' = [m EXCEPT !.sState = q] /\ UNCHANGED ot
  BY <1>5, <1>14 DEF ToTransmit
<1>15. CASE s = S("roiClear") /\ new = << >> /\ m' = [m EXCEPT !.rx_on_idle_disabled = FALSE] /\ UNCHANGED ot
  BY <1>3, <1>15
<1>16. CASE s = RoiSetOn /\ new = << >> /\ m' = [m EXCEPT !.is_rx_on_idle = TRUE] /\ UNCHANGED ot
  BY <1>3, <1>16
<1>17. CASE s = RoiSetOff /\ new = << >> /\ m' = [m EXCEPT !.is_rx_on_idle = FALSE] /\ UNCHANGED ot
  BY <1>3, <1>17
<1>18. CASE /\ s = S("roiRx") /\ new = << >> /\ UNCHANGED ot
            /\ m' = [m EXCEPT !.sState = IF @ = "TRANSMIT" THEN @ ELSE "RECEIVE"]
  BY <1>5, <1>18
<1>19. CASE s = S("resetRing") /\ new = << >> /\ m' = [m EXCEPT !.ring = 0] /\ UNCHANGED ot
  BY <1>3, <1>19
<1>20. CASE /\ s = S("phyDisable") /\ new = << >> /\ UNCHANGED ot
            /\ m' = IF UseNbu THEN m ELSE PhyForceOff(m)
  BY <1>3, <1>4, <1>20
<1>21. CASE /\ s \in {S("rxReq"), S("rxAtReq")} /\ new = << >> /\ UNCHANGED ot
            /\ \/ m' = m
               \/ PhyFree(m) /\ s = S("rxReq") /\ m' = [m EXCEPT !.phyOp = "rx"]
               \/ PhyFree(m) /\ s = S("rxAtReq") /\ m' = [m EXCEPT !.phyOp = "rxTimed"]
  <2>1. s # S("rxAtReq")
    BY StepNames DEF Fits
  <2> QED BY <1>3, <1>6, <1>21, <2>1
<1>22. CASE \E tmp \in RadioState :
              /\ s = <<"txReq", tmp>>
              /\ \/ /\ PhyFree(m) /\ new = << >>
                    /\ m' = [m EXCEPT !.phyOp = "tx"] /\ ot' = [ot EXCEPT !.tx = TRUE]
                 \/ new = << <<"state", tmp>> >> /\ UNCHANGED <<m, ot>>
  <2>1. s[1] = "txReq"
    BY <1>22, StepNames
  <2> QED BY <1>3, <1>7, <1>22, <2>1
<1>23. CASE /\ s = S("edReq")
            /\ \/ /\ PhyFree(m) /\ new = << S("edSet") >>
                  /\ m' = [m EXCEPT !.phyOp = "ed"] /\ ot' = [ot EXCEPT !.scan = TRUE]
               \/ new = << >> /\ UNCHANGED <<m, ot>>
  <2>1. s[1] = "edReq"
    BY <1>23, StepNames
  <2> QED BY <1>3, <1>8, <1>23, <2>1
<1>24. CASE s = S("edSet") /\ new = << >> /\ m' = [m EXCEPT !.is_ed_scan = TRUE] /\ UNCHANGED ot
  BY <1>9, <1>24, StepNames
<1> HIDE DEF Goal
<1> QED
  BY <1>10, <1>11, <1>12, <1>13, <1>14, <1>15, <1>16, <1>17, <1>18, <1>19, <1>20, <1>21,
     <1>22, <1>23, <1>24, Zenon DEF DriverTo

\* What a step of a call is replaced by: a request only in place of one.
LEMMA MildRequests ==
  ASSUME NEW s, NEW new, Mild(s, new), s[1] # "rxAtTest"
  PROVE  /\ OneRequest(new)
         /\ \A x \in Steps(new) :
              /\ x[1] \notin {"rxAtTest", "rxAtReq", "edSet"}
              /\ x[1] \in TxRequests \/ x = ToTransmit => s[1] \in TxRequests
              /\ x[1] \in EdRequests => s[1] \in EdRequests /\ m.sState # "TRANSMIT"
<1> DEFINE Others == {"chPhy", "chSet", "cslReq", "cslOn", "cslRel", "cslOff", "abort", "sleepPoll",
                      "cslStop", "phyRxOnIdle", "sleepPollClear", "rxPollTest", "rxExit", "chTest",
                      "rxReq", "cslStart", "txCslPoll", "txPoll", "txCsl"}
           Goal == /\ OneRequest(new)
                   /\ \A x \in Steps(new) :
                        /\ x[1] \notin {"rxAtTest", "rxAtReq", "edSet"}
                        /\ x[1] \in TxRequests \/ x = ToTransmit => s[1] \in TxRequests
                        /\ x[1] \in EdRequests => s[1] \in EdRequests /\ m.sState # "TRANSMIT"
<1> SUFFICES Goal
  OBVIOUS
<1>1. ToTransmit[1] = "state" /\ ToTransmit[2] = "TRANSMIT" /\ ToTransmit # <<"state", "SLEEP">> /\ ToTransmit # <<"state", "RECEIVE">>
  BY DEF ToTransmit
<1>2. ASSUME \A x \in Steps(new) : x[1] \in Others \/ x = <<"state", "SLEEP">> \/ x = <<"state", "RECEIVE">> PROVE Goal
  <2>1. \A x \in Steps(new) : x[1] \in Others \/ (x[1] = "state" /\ x # ToTransmit)
    BY <1>1, <1>2, StepNames
  <2>2. NoRequest(new)
    BY <2>1 DEF NoRequest, Requests
  <2> QED BY <1>1, <2>1, <2>2, RequestOfFew DEF TxRequests, EdRequests
<1>3. CASE new = << >>
  BY <1>2, <1>3, StepsOfFew
<1>4. ASSUME NEW a, NEW b, new = << a, b, S("txCsl"), S("txSave") >>, a[1] = "txPoll", b[1] = "chTest",
             s[1] = "txTest"
      PROVE  Goal
  <2>1. Steps(new) = {a, b, S("txCsl"), S("txSave")} /\ S("txCsl")[1] = "txCsl" /\ S("txSave")[1] = "txSave"
    BY <1>4, StepsOfFew, StepNames
  <2>2. OneRequest(new)
    BY <1>4, <2>1, RequestOfFew DEF Requests
  <2> QED BY <1>1, <1>4, <2>1, <2>2 DEF TxRequests, EdRequests
<1>5. CASE s = S("txSave") /\ new = << <<"state", "TRANSMIT">>, <<"txReq", m.sState>> >>
  <2> DEFINE b == <<"txReq", m.sState>>
  <2>1. new = << ToTransmit, b >> /\ b[1] = "txReq" /\ s[1] = "txSave"
    BY <1>5, StepNames DEF ToTransmit
  <2> HIDE DEF b
  <2>2. Steps(new) = {ToTransmit, b} /\ OneRequest(new)
    BY <1>1, <2>1, StepsOfFew, RequestOfFew DEF Requests
  <2> QED BY <1>1, <2>1, <2>2 DEF TxRequests, EdRequests
<1>6. ASSUME NEW a, new = << a, S("edReq") >>, a[1] = "chTest", s[1] = "edTest", m.sState # "TRANSMIT" PROVE Goal
  <2>1. Steps(new) = {a, S("edReq")} /\ S("edReq")[1] = "edReq"
    BY <1>6, StepsOfFew, StepNames
  <2>2. OneRequest(new)
    BY <1>6, RequestOfFew DEF Requests
  <2> QED BY <1>1, <1>6, <2>1, <2>2 DEF TxRequests, EdRequests
<1>7. CASE s = S("roiOff")
  <2>1. Steps(new) = {S("abort"), <<"state", "SLEEP">>} \/ Steps(new) = {RxOff}
    BY <1>7, StepsOfFew, StepNames DEF Mild
  <2> QED BY <1>2, <2>1, StepNames
<1>8. CASE \A x \in Steps(new) : x = <<"state", "SLEEP">> \/ x[1] \in {"sleepPollClear", "abort"}
  BY <1>2, <1>8
<1>9. CASE \A x \in Steps(new) : x = <<"state", "RECEIVE">> \/ x[1] \in {"chTest", "rxReq"}
  BY <1>2, <1>9
<1>10. CASE \E N : N \subseteq Others /\ Named(new, N)
  BY <1>2, <1>10 DEF Named
<1> DEFINE Easy == \E N : N \subseteq Others /\ Named(new, N)
<1>11. \/ Named(new, {"chPhy", "chSet", "cslReq", "cslOn", "cslRel", "cslOff"}) \/ Named(new, {"cslStop", "sleepPoll"})
       \/ Named(new, {"rxPollTest", "rxExit"}) \/ Named(new, {"cslStart", "txCslPoll"})
       => Easy
  <2>1. /\ {"chPhy", "chSet", "cslReq", "cslOn", "cslRel", "cslOff"} \subseteq Others /\ {"cslStop", "sleepPoll"} \subseteq Others
        /\ {"rxPollTest", "rxExit"} \subseteq Others /\ {"cslStart", "txCslPoll"} \subseteq Others
    OBVIOUS
  <2> QED BY <2>1
<1> HIDE DEF Goal, Easy, Others
<1>12. ASSUME s[1] = "rxAtTest" PROVE FALSE
  BY <1>12
<1>13. CASE \/ Named(new, {"chPhy", "chSet", "cslReq", "cslOn", "cslRel", "cslOff"}) \/ Named(new, {"cslStop", "sleepPoll"})
            \/ Named(new, {"rxPollTest", "rxExit"}) \/ Named(new, {"cslStart", "txCslPoll"})
  BY <1>10, <1>11, <1>13 DEF Easy
<1> QED
  BY <1>3, <1>4, <1>5, <1>6, <1>7, <1>8, <1>9, <1>12, <1>13, Zenon DEF Mild

\* Whatever the step does.
LEMMA DriverRequests ==
  ASSUME NEW l \in CallPoints, NEW s, NEW new, DriverTo(s, new), Driver(m),
         ot \in [tx : BOOLEAN, scan : BOOLEAN], Settled(l), Fits(s, l)
  PROVE  /\ OneRequest(new) /\ (NoRequest(new) \/ s[1] \in Requests)
         /\ \A x \in Steps(new) : Fits(x, l)' /\ (x[1] \in EdRequests => s[1] \in EdRequests)
         /\ ToTransmit \in Steps(new) => s[1] \in TxRequests /\ \A x \in Steps(new) : x[1] \notin EdRequests
<1> DEFINE Goal == /\ OneRequest(new) /\ (NoRequest(new) \/ s[1] \in Requests)
                   /\ \A x \in Steps(new) : Fits(x, l)' /\ (x[1] \in EdRequests => s[1] \in EdRequests)
                   /\ ToTransmit \in Steps(new) => s[1] \in TxRequests /\ \A x \in Steps(new) : x[1] \notin EdRequests
<1> SUFFICES Goal
  OBVIOUS
<1>1. CASE new = << >>
  <2>1. Steps(new) = {} /\ NoRequest(new)
    BY <1>1, StepsOfFew DEF NoRequest
  <2> QED BY <2>1, RequestOfFew
<1>2. CASE Mild(s, new) /\ Within(m, m', Fields \ Watched) /\ ot' = ot
  <2>1. /\ OneRequest(new)
        /\ \A x \in Steps(new) :
              /\ x[1] \notin {"rxAtTest", "rxAtReq", "edSet"}
              /\ x[1] \in TxRequests \/ x = ToTransmit => s[1] \in TxRequests
              /\ x[1] \in EdRequests => s[1] \in EdRequests /\ m.sState # "TRANSMIT"
    BY <1>2, MildRequests DEF Fits
  <2>2. m'.sState = m.sState
    BY <1>2 DEF Within, Watched, Fields
  <2>7. ot' = ot
    BY <1>2
  <2>3. ASSUME NEW x \in Steps(new) PROVE Fits(x, l)'
    <3>1. x[1] \in TxRequests \/ x = ToTransmit => l = "idle" /\ ~ot.tx /\ ~ot.scan
      BY <2>1 DEF Fits
    <3>2. x[1] \in EdRequests => ~ot.scan /\ m.sState # "TRANSMIT"
      BY <2>1 DEF Fits
    <3>3. "edReq" \in EdRequests /\ x[1] # "edSet" /\ x[1] \notin {"rxAtTest", "rxAtReq"}
      BY <2>1 DEF EdRequests
    <3> QED BY <2>2, <2>7, <3>1, <3>2, <3>3 DEF Fits
  <2>4. TxRequests \subseteq Requests /\ EdRequests \subseteq Requests /\ TxRequests \cap EdRequests = {}
        /\ Requests = TxRequests \cup EdRequests \cup {"edSet"}
    BY DEF Requests, TxRequests, EdRequests
  <2>5. NoRequest(new) \/ s[1] \in Requests
    BY <2>1, <2>4 DEF NoRequest
  <2>6. ToTransmit \in Steps(new) => s[1] \in TxRequests /\ \A x \in Steps(new) : x[1] \notin EdRequests
    BY <2>1, <2>4
  <2> QED BY <2>1, <2>3, <2>5, <2>6
<1>3. ASSUME NEW q, s[1] = "txReq", new = << <<"state", q>> >>, m' = m, ot' = ot PROVE Goal
  <2> DEFINE x == <<"state", q>>
  <2>1. Steps(new) = {x} /\ x[1] = "state"
    BY <1>3, StepsOfFew
  <2> HIDE DEF x
  <2>2. ~ot.scan
    BY <1>3 DEF Fits, TxRequests
  <2>3. NoRequest(new) /\ OneRequest(new)
    BY <2>1, RequestOfFew DEF NoRequest, Requests
  <2> QED BY <1>3, <2>1, <2>2, <2>3 DEF Fits, TxRequests, EdRequests
<1>4. CASE s[1] = "edReq" /\ new = << S("edSet") >> /\ m' = [m EXCEPT !.phyOp = "ed"] /\ ot' = [ot EXCEPT !.scan = TRUE]
  <2>1. Steps(new) = {S("edSet")} /\ S("edSet")[1] = "edSet" /\ OneRequest(new)
    BY <1>4, StepsOfFew, StepNames, RequestOfFew
  <2>2. Within(m, m', {"phyOp"})
    BY <1>4 DEF Within, Driver, Fields
  <2>3. ~ot.scan /\ ot'.scan
    BY <1>4 DEF Fits, EdRequests
  <2>4. ToTransmit[1] = "state"
    BY DEF ToTransmit
  <2> QED BY <1>4, <2>1, <2>2, <2>3, <2>4 DEF Fits, Settled, Within, Fields, Requests, TxRequests, EdRequests
<1>5. S("edReq")[1] = "edReq" /\ \A q : <<"txReq", q>>[1] = "txReq"
  BY StepNames
<1> HIDE DEF Goal
<1>6. CASE \E tmp \in RadioState :
              /\ s = <<"txReq", tmp>>
              /\ \/ /\ PhyFree(m) /\ new = << >>
                    /\ m' = [m EXCEPT !.phyOp = "tx"] /\ ot' = [ot EXCEPT !.tx = TRUE]
                 \/ new = << <<"state", tmp>> >> /\ UNCHANGED <<m, ot>>
  <2>1. s[1] = "txReq"
    BY <1>6, StepNames
  <2>2. CASE new = << >>
    BY <1>1, <2>2
  <2>3. CASE \E tmp : new = << <<"state", tmp>> >> /\ m' = m /\ ot' = ot
    BY <1>3, <2>1, <2>3
  <2> QED BY <1>6, <2>2, <2>3
<1>7. CASE /\ s = S("edReq")
           /\ \/ /\ PhyFree(m) /\ new = << S("edSet") >>
                 /\ m' = [m EXCEPT !.phyOp = "ed"] /\ ot' = [ot EXCEPT !.scan = TRUE]
              \/ new = << >> /\ UNCHANGED <<m, ot>>
  BY <1>1, <1>4, <1>5, <1>7
<1>8. CASE Mild(s, new) /\ Within(m, m', Fields \ Watched) /\ UNCHANGED ot
  BY <1>2, <1>8
<1> HIDE DEF Goal
<1> QED
  BY <1>1, <1>6, <1>7, <1>8, Zenon DEF DriverTo

\* A step of a call keeps the requests settled.
LEMMA DriverAsks ==
  ASSUME NEW P \in Seq(DriverSteps), P # << >>, NEW l \in CallPoints,
         NEW new \in Seq(DriverSteps), NEW Q, Q = new \o Tail(P), Tail(P) \in Seq(DriverSteps),
         Steps(P) = {Head(P)} \cup Steps(Tail(P)), Steps(Q) = Steps(new) \cup Steps(Tail(P)),
         DriverTo(Head(P), new), Driver(m), ot \in [tx : BOOLEAN, scan : BOOLEAN], Settled(l), Asks(P, l)
  PROVE  Settled(l)' /\ Asks(Q, l)' /\ ot' \in [tx : BOOLEAN, scan : BOOLEAN]
<1>1. PICK s, R : s = Head(P) /\ R = Tail(P)
  OBVIOUS
<1>2. /\ Fits(s, l) /\ \A x \in Steps(R) : Fits(x, l)
      /\ OneRequest(R) /\ (s[1] \in Requests => NoRequest(R))
      /\ ToTransmit \in Steps(P) => s[1] \notin EdRequests /\ \A x \in Steps(R) : x[1] \notin EdRequests
  BY <1>1, RequestOfTail DEF Asks
<1>3. /\ Settled(l)' /\ ot' \in [tx : BOOLEAN, scan : BOOLEAN]
      /\ m'.sEdScanDone = m.sEdScanDone
      /\ m'.is_ed_scan = m.is_ed_scan \/ s[1] = "edSet"
      /\ m.sState # "TRANSMIT" /\ s # ToTransmit => m'.sState # "TRANSMIT"
      /\ ot' = ot \/ (s[1] = "txReq" /\ ot'.scan = ot.scan) \/ s[1] = "edReq"
  BY <1>1, <1>2, DriverSettles
<1>4. /\ OneRequest(new) /\ (NoRequest(new) \/ s[1] \in Requests)
      /\ \A x \in Steps(new) : Fits(x, l)' /\ (x[1] \in EdRequests => s[1] \in EdRequests)
      /\ ToTransmit \in Steps(new) => s[1] \in TxRequests /\ \A x \in Steps(new) : x[1] \notin EdRequests
  BY <1>1, <1>2, DriverRequests
<1>5. OneRequest(Q)
  <2>1. R \in Seq(DriverSteps) /\ Q = new \o R /\ (NoRequest(new) \/ NoRequest(R))
    BY <1>1, <1>2, <1>4
  <2> QED BY <1>2, <1>4, <2>1, RequestOfConcat
<1>6. TxRequests \subseteq Requests /\ EdRequests \subseteq Requests /\ "txReq" \in Requests /\ "edReq" \in EdRequests
      /\ "edSet" \in Requests
  BY DEF Requests, TxRequests, EdRequests
<1>7. ASSUME NEW x \in Steps(R) PROVE Fits(x, l)'
  <2>1. Fits(x, l) /\ x \in Steps(P) /\ s \in Steps(P)
    BY <1>1, <1>2
  <2>2. CASE x[1] \in Requests
    <3>1. s[1] \notin Requests
      BY <1>2, <2>2 DEF NoRequest
    <3>2. ot' = ot /\ m'.is_ed_scan = m.is_ed_scan
      BY <1>3, <1>6, <3>1
    <3>3. x[1] = "edReq" => m'.sState # "TRANSMIT"
      BY <1>2, <1>3, <1>6, <2>1 DEF Fits
    <3>4. ToTransmit[1] = "state"
      BY DEF ToTransmit
    <3>5. x # ToTransmit
      BY <2>2, <3>4 DEF Requests
    <3> QED BY <1>3, <2>1, <3>2, <3>3, <3>5 DEF Fits
  <2>3. CASE x[1] \notin Requests
    <3>1. x = ToTransmit => s[1] # "edReq"
      BY <1>2, <1>6, <2>1
    <3>2. x = ToTransmit => ~ot'.scan
      BY <1>3, <2>1, <3>1 DEF Fits
    <3> QED BY <1>6, <2>1, <2>3, <3>2 DEF Fits
  <2> QED BY <2>2, <2>3
<1>8. \A x \in Steps(Q) : Fits(x, l)'
  BY <1>1, <1>4, <1>7
<1>9. ASSUME ToTransmit \in Steps(Q), NEW x \in Steps(Q) PROVE x[1] \notin EdRequests
  <2>1. CASE ToTransmit \in Steps(new)
    <3>1. NoRequest(R)
      BY <1>2, <1>4, <1>6, <2>1
    <3> QED BY <1>1, <1>4, <1>6, <1>9, <2>1, <3>1 DEF NoRequest
  <2>2. CASE ToTransmit \in Steps(R)
    <3>1. s[1] \notin EdRequests /\ \A y \in Steps(R) : y[1] \notin EdRequests
      BY <1>1, <1>2, <2>2
    <3>2. CASE x \in Steps(new)
      BY <1>4, <3>1, <3>2
    <3> QED BY <1>1, <1>9, <3>1, <3>2
  <2> QED BY <1>1, <1>9, <2>1, <2>2
<1> QED BY <1>3, <1>5, <1>8, <1>9 DEF Asks

\* A call begun when none is under way.
LEMMA CallAsks ==
  ASSUME PlainRadio, NEW l \in Labels, NEW op \in Ops \cup CallbackOps, NEW st,
         MayCall(op), Pushes(op, st), UNCHANGED <<m, ot>>,
         (l = "idle" /\ op \in Ops) \/ op \in CallbackOps, Settled(l)
  PROVE  Settled(l)' /\ Asks(st, l)'
<1> DEFINE Others == {"roiClear", "roiSet", "roiOff", "state", "resetRing", "sleepTest", "cslStop",
                      "phyDisable", "phyRxOnIdle", "roiRx", "rxTest", "cslPeriod"}
           Goal == Settled(l)' /\ Asks(st, l)'
<1> SUFFICES Goal
  OBVIOUS
<1>1. Settled(l)'
  BY DEF Settled
<1>2. ToTransmit[1] = "state" /\ ToTransmit # <<"state", "SLEEP">> /\ ToTransmit # <<"state", "DISABLED">>
  <2>1. ToTransmit[2] = "TRANSMIT" /\ <<"state", "SLEEP">>[2] = "SLEEP" /\ <<"state", "DISABLED">>[2] = "DISABLED"
    BY DEF ToTransmit
  <2> QED BY <2>1 DEF ToTransmit
<1>3. ASSUME \A x \in Steps(st) : x[1] \in Others /\ x # ToTransmit PROVE Goal
  <2>1. NoRequest(st)
    BY <1>3 DEF NoRequest, Requests
  <2> QED BY <1>1, <1>3, <2>1, RequestOfFew DEF Asks, Fits, TxRequests, EdRequests
<1>4. ASSUME NEW a, op = "EnergyScan", st = << a >>, a[1] = "edTest" PROVE Goal
  <2>1. Steps(st) = {a} /\ OneRequest(st)
    BY <1>4, StepsOfFew, RequestOfFew
  <2>2. ~ot.scan
    BY <1>4 DEF MayCall, Waiting
  <2> QED BY <1>1, <1>2, <1>4, <2>1, <2>2 DEF Asks, Fits, TxRequests, EdRequests
<1>5. ASSUME op = "Transmit", NEW a, NEW b, st = << a, b >>, a[1] = "txFrame", b[1] = "txTest" PROVE Goal
  <2>1. Steps(st) = {a, b} /\ OneRequest(st)
    BY <1>5, StepsOfFew, RequestOfFew DEF Requests
  <2>2. ~ot.scan /\ ~ot.tx
    BY <1>5 DEF MayCall, Waiting
  <2>3. l = "idle"
    BY <1>5 DEF PlainRadio
  <2> QED BY <1>1, <1>2, <1>5, <2>1, <2>2, <2>3 DEF Asks, Fits, TxRequests, EdRequests
<1>6. CASE \/ Steps(st) = {S("roiClear"), RoiSetOff, S("roiOff"), <<"state", "SLEEP">>, S("resetRing")}
           \/ Steps(st) = {S("sleepTest"), S("roiClear"), RoiSetOff, S("roiOff"), S("cslStop"),
                           S("phyDisable"), <<"state", "DISABLED">>}
           \/ Steps(st) = {S("sleepTest")}
           \/ Steps(st) = {S("roiClear"), RoiSetOff, S("roiOff")}
           \/ Steps(st) = {S("roiClear"), RoiSetOn, RxBackOn, S("roiRx")}
  BY <1>2, <1>3, <1>6, StepNames
<1>7. CASE Named(st, {"rxTest"}) \/ Named(st, {"cslPeriod"})
  BY <1>2, <1>3, <1>7 DEF Named
<1>8. Steps(<< S("roiClear"), RoiSetOn, RxBackOn, S("roiRx") >>) = {S("roiClear"), RoiSetOn, RxBackOn, S("roiRx")}
  BY StepsOfFew
<1>9. op # "ReceiveAt"
  BY DEF PlainRadio
<1> HIDE DEF Goal
<1> QED BY <1>4, <1>5, <1>6, <1>7, <1>8, <1>9, Zenon DEF Pushes

\* At first nothing is under way.
LEMMA RequestInit == Init => RequestInv
<1> SUFFICES ASSUME Init PROVE RequestInv
  OBVIOUS
<1>1. PICK c \in Channel :
       m = [sState |-> "DISABLED", sChannel |-> c,
            rx_on_idle_disabled |-> FALSE, is_rx_on_idle |-> FALSE,
            is_ed_scan |-> FALSE, sTxDone |-> FALSE, sEdScanDone |-> FALSE,
            is_tx_poll |-> FALSE, is_rx_after_poll |-> FALSE,
            rx_after_poll_done |-> FALSE, is_radio_event |-> FALSE,
            csl_rx |-> FALSE, sCslPeriod |-> FALSE, sTxStatus |-> "NONE",
            txPoll |-> FALSE, txRxChannel |-> c, ring |-> 0,
            phyOp |-> "idle", phyRxOnIdle |-> FALSE, phyChannel |-> c,
            lpDisallow |-> 0, remoteActive |-> 0]
  BY DEF Init
<1>2. ot \in [tx : BOOLEAN, scan : BOOLEAN]
  BY DEF Init
<1>3. Settled("idle")
  BY <1>1 DEF Settled
<1>4. StackIs(<< >>, "idle")
  <2>1. << >> \in Seq(DriverSteps) /\ "idle" \in Labels /\ stk = << >>
    BY DEF Init, Labels
  <2>2. Base("idle") = << >>
    BY BaseIs
  <2> QED BY <2>1, <2>2 DEF StackIs
<1>5. Asks(<< >>, "idle")
  BY StepsOfFew, RequestOfFew DEF Asks, NoRequest
<1> QED BY <1>2, <1>3, <1>4, <1>5 DEF RequestInv

\* Every step keeps the requests settled.
LEMMA RequestStep ==
  ASSUME PlainRadio
  PROVE  RadioInv /\ RequestInv /\ [Next]_vars => RequestInv'
<1> SUFFICES ASSUME RadioInv, RequestInv, [Next]_vars PROVE RequestInv'
  OBVIOUS
<1>1. Driver(m) /\ m.sState \in RadioState /\ ot \in [tx : BOOLEAN, scan : BOOLEAN]
  BY DEF RadioInv, RequestInv
<1>2. PICK P, l : StackIs(P, l) /\ Settled(l) /\ Asks(P, l)
  BY DEF RequestInv
<1>3. P \in Seq(DriverSteps) /\ l \in Labels
  BY <1>2 DEF StackIs
<1>4. CASE Handler
  <2>1. Settled(l)' /\ Asks(P, l)'
    BY <1>1, <1>2, <1>4, HandlerAsks
  <2>2. UNCHANGED <<ot, stk>>
    BY <1>1, <1>4, HandlerEffect DEF HandlerLeaves
  <2>3. StackIs(P, l)'
    BY <1>2, <2>2 DEF StackIs
  <2> QED BY <1>1, <2>1, <2>2, <2>3 DEF RequestInv
<1>5. ASSUME NEW k \in Labels, StackIs(<< >>, k)', ProcessTo(l, k) PROVE RequestInv'
  <2>1. Settled(k)' /\ Asks(<< >>, k)' /\ ot' \in [tx : BOOLEAN, scan : BOOLEAN]
    BY <1>1, <1>2, <1>3, <1>5, ProcessAsks
  <2> QED BY <1>5, <2>1 DEF RequestInv
<1>6. CASE ProcessStep \/ CallbackReturn
  BY <1>2, <1>5, <1>6, ProcessControl
<1>7. CASE DriverStep
  <2>1. DriverGoes(P, l)
    BY <1>1, <1>2, <1>7, DriverControl
  <2>2. CASE P = << >> /\ StackIs(<< >>, "reenClear")' /\ ProcessTo(l, "reenClear")
    BY <1>5, <2>2 DEF Labels
  <2>3. ASSUME NEW new \in Seq(DriverSteps), NEW Q \in Seq(DriverSteps),
               P # << >>, l \in CallPoints, Tail(P) \in Seq(DriverSteps),
               Steps(P) = {Head(P)} \cup Steps(Tail(P)),
               Q = new \o Tail(P), StackIs(Q, l)',
               Steps(Q) = Steps(new) \cup Steps(Tail(P)), DriverTo(Head(P), new)
        PROVE  RequestInv'
    <3>1. Settled(l)' /\ Asks(Q, l)' /\ ot' \in [tx : BOOLEAN, scan : BOOLEAN]
      BY <1>1, <1>2, <1>3, <2>3, DriverAsks
    <3> QED BY <2>3, <3>1 DEF RequestInv
  <2> QED BY <2>1, <2>2, <2>3 DEF DriverGoes
<1>8. CASE MainLoopCall \/ CallbackCall
  <2>1. P = << >> /\ UNCHANGED <<m, ot>>
    BY <1>2, <1>8, CallControl
  <2>2. PICK op \in Ops \cup CallbackOps, st \in Seq(DriverSteps) :
              /\ MayCall(op) /\ Pushes(op, st) /\ StackIs(st, l)'
              /\ (l = "idle" /\ op \in Ops)
                 \/ (l \in {"inTxDone", "inRxDone", "inEdDone"} /\ op \in CallbackOps)
    BY <1>2, <1>8, CallControl
  <2>3. Settled(l)' /\ Asks(st, l)'
    BY <1>2, <1>3, <2>1, <2>2, CallAsks
  <2> QED BY <1>1, <2>1, <2>2, <2>3 DEF RequestInv
<1>9. CASE StartProcess
  <2>1. P = << >> /\ l = "idle" /\ UNCHANGED <<m, ot>> /\ stk' = ProcessSteps
    BY <1>2, <1>9, EmptyStack DEF StartProcess
  <2>2. StackIs(<< >>, "evClear")'
    <3>1. Base("evClear") = ProcessSteps /\ Base("evClear") \in Seq(AnyStep)
      BY BaseIs, BaseType DEF Labels
    <3>2. << >> \o Base("evClear") = Base("evClear")
      BY <3>1
    <3>3. << >> \in Seq(DriverSteps)
      OBVIOUS
    <3> QED BY <2>1, <3>1, <3>2, <3>3 DEF StackIs, Labels
  <2>3. Settled("evClear")' /\ Asks(<< >>, "evClear")'
    <3>1. Settled("evClear")'
      BY <1>2, <2>1 DEF Settled, AfterEdDone
    <3>2. Asks(<< >>, "evClear")'
      BY StepsOfFew, RequestOfFew DEF Asks, NoRequest
    <3> QED BY <3>1, <3>2
  <2> QED BY <1>1, <2>1, <2>2, <2>3 DEF RequestInv
<1>10. CASE UNCHANGED vars
  <2>1. m' = m /\ ot' = ot /\ stk' = stk
    BY <1>10 DEF vars
  <2>2. StackIs(P, l)' /\ Settled(l)' /\ Asks(P, l)'
    BY <1>2, <2>1 DEF StackIs, Settled, Asks, Fits
  <2> QED BY <1>1, <2>1, <2>2 DEF RequestInv
<1> QED
  BY <1>4, <1>6, <1>7, <1>8, <1>9, <1>10 DEF Next, TaskStep, Handler

\* The low power lock PD_OT_MAC_SapHandler and PLME_OT_MAC_SapHandler take and
\* otPlatRadioProcess releases is held exactly while is_radio_event is set.
THEOREM LockHeldWithEvent == Spec => []SleepLockBalanced
<1>1. RadioInv => SleepLockBalanced
  BY DEF RadioInv
<1> QED BY <1>1, RadioAlways, PTL DEF Spec

\* otPlatRadioProcess forgets no completion, scan result or frame, if OpenThread
\* calls otPlatRadioEnable, which empties the ring, only from its main loop.
THEOREM AllWorkSeen ==
  ASSUME "Enable" \notin CallbackOps
  PROVE  Spec => []NoWorkForgotten
<1>1. RadioInv => NoWorkForgotten
  <2> SUFFICES ASSUME RadioInv, Quiet PROVE ~m.sTxDone /\ ~m.sEdScanDone /\ m.ring = 0
    BY DEF NoWorkForgotten
  <2>1. PICK P, l : StackIs(P, l) /\ WorkSeen(l) /\ RingKept(P, l)
    BY DEF RadioInv
  <2>2. stk = << >> /\ ~m.is_radio_event
    BY DEF Quiet
  <2>3. l = "idle"
    BY <2>1, <2>2, EmptyStack
  <2> QED BY <2>1, <2>2, <2>3 DEF WorkSeen, RingKept, RingSeen
<1> QED BY <1>1, RadioAlways, PTL DEF Spec

\* A driver asked to receive when idle does: the ring that fills, the calls and
\* the process loop leave the PHY told.
THEOREM AlwaysHears == Spec => []NeverDeaf
<1>1. RadioInv => NeverDeaf
  <2> SUFFICES ASSUME RadioInv, Quiet, m.is_rx_on_idle PROVE m.phyRxOnIdle /\ ~m.rx_on_idle_disabled
    BY DEF NeverDeaf
  <2>1. PICK P, l : StackIs(P, l) /\ Hears(P, l)
    BY DEF RadioInv
  <2>2. stk = << >> /\ ~m.is_radio_event
    BY DEF Quiet
  <2>3. l = "idle" /\ P = << >>
    BY <2>1, <2>2, EmptyStack
  <2>4. Steps(<< >>) = {}
    BY StepsOfFew
  <2> QED BY <2>1, <2>2, <2>3, <2>4 DEF Hears, RingSeen
<1> QED BY <1>1, RadioAlways, PTL DEF Spec

\* While sTxDone is set the PHY transmits nothing: OpenThread is told of the end
\* of a transmission, and may write the next frame, only when the PHY is done
\* with the one it has.  It is so where the PHY aborts no reception and ends none
\* by itself and where otPlatRadioTransmit is called from the main loop only.
THEOREM FrameIsFree ==
  ASSUME PlainRadio
  PROVE  Spec => []TxDoneIsFinal
<1>1. RequestInv => TxDoneIsFinal
  BY DEF RequestInv, Settled, TxDoneIsFinal
<1> QED BY <1>1, RadioAlways, RequestInit, RequestStep, PTL DEF Spec
=============================================================================
