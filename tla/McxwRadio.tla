----------------------------- MODULE McxwRadio -----------------------------
(***************************************************************************)
(* The MCXW radio driver, src/src/mcxw/platform/radio.c: the otPlatRadio   *)
(* calls and otPlatRadioProcess run in the OpenThread task and may be      *)
(* preempted between any two accesses to the driver's static variables by  *)
(* PD_OT_MAC_SapHandler and PLME_OT_MAC_SapHandler, which the PHY calls    *)
(* and which run to completion.                                            *)
(*                                                                         *)
(* The task's control is a stack of the steps it has still to make, so a   *)
(* driver call made from inside a callback of otPlatRadioProcess, or a     *)
(* helper called by a driver call, is steps pushed on the stack.  The      *)
(* receive ring is its number of filled slots: RxRing_proofs shows that it *)
(* is a FIFO.                                                              *)
(***************************************************************************)
EXTENDS Integers, Sequences

CONSTANTS
  Capacity,      \* frames the receive ring holds: its slots minus one
  Channel,       \* radio channels
  Ops,           \* the driver calls OpenThread makes from its own code
  CallbackOps,   \* those it makes inside TxDone, ReceiveDone, EnergyScanDone
  FramePending,  \* values of the frame pending bit in received ACKs
  UseNbu,        \* USE_NBU: the PHY runs on another core, never PHY_Disable()
  RxAborts,      \* may the PHY abort a receive sequence (shared radio)?
  MaxDrift,      \* bound: OpenThread stops calling once the balance of
                 \* PLATFORM_RemoteActiveReq is off by more
  PromptPhy      \* may an energy scan end before the request's caller resumes?

ASSUME RadioAssumption ==
  /\ Capacity \in Nat \ {0}
  /\ MaxDrift \in Nat
  /\ Ops \cup CallbackOps \subseteq
       {"Enable", "Disable", "Sleep", "Receive", "RxOnWhenIdle", "Transmit",
        "EnergyScan", "ReceiveAt", "EnableCsl"}
  /\ FramePending \subseteq BOOLEAN
  /\ UseNbu \in BOOLEAN /\ RxAborts \in BOOLEAN /\ PromptPhy \in BOOLEAN

VARIABLES
  m,      \* the driver's static variables and, prefixed, what they drive
  ot,     \* OpenThread: transmissions and scans it is waiting for
  stk     \* the steps the OpenThread task has still to make, next one first

vars == <<m, ot, stk>>

RadioState == {"DISABLED", "SLEEP", "RECEIVE", "TRANSMIT"}

Init ==
  /\ \E c \in Channel :
       m = [sState |-> "DISABLED", sChannel |-> c,
            rx_on_idle_disabled |-> FALSE, is_rx_on_idle |-> FALSE,
            is_ed_scan |-> FALSE, sTxDone |-> FALSE, sEdScanDone |-> FALSE,
            is_tx_poll |-> FALSE, is_rx_after_poll |-> FALSE,
            rx_after_poll_done |-> FALSE, is_radio_event |-> FALSE,
            csl_rx |-> FALSE, sCslPeriod |-> FALSE, sTxStatus |-> "NONE",
            txPoll |-> FALSE, txRxChannel |-> c,      \* sTxFrame
            ring |-> 0,                               \* frames in sRxRing
            phyOp |-> "idle", phyRxOnIdle |-> FALSE, phyChannel |-> c,
            lpDisallow |-> 0,       \* PWR_DisallowDeviceToSleep balance
            remoteActive |-> 0]     \* PLATFORM_RemoteActiveReq balance
  /\ ot = [tx |-> FALSE, scan |-> FALSE]
  /\ stk = << >>

-----------------------------------------------------------------------------
(* The PHY, as the driver uses it (external).  phyOp is the sequence it is *)
(* running; a force-off also ends receiving when idle.                     *)

PhyForceOff(s) == [s EXCEPT !.phyOp = "idle", !.phyRxOnIdle = FALSE]

\* A request is refused while a transmission or a scan is running.
PhyFree(s) == s.phyOp \notin {"tx", "ed"}

-----------------------------------------------------------------------------
(* Helpers shared by the handlers and the task, as functions of the state. *)

StopCsl(s) ==
  IF s.csl_rx THEN [s EXCEPT !.remoteActive = @ - 1, !.csl_rx = FALSE] ELSE s

RfSetChannel(s, c) == [s EXCEPT !.phyChannel = IF c = s.sChannel THEN @ ELSE c,
                                !.sChannel = c]

\* Mutant: the lock is taken for every message.
SignalEventAlways(s) == [s EXCEPT !.is_radio_event = TRUE, !.lpDisallow = @ + 1]

\* OSA_InterruptDisable .. OSA_InterruptEnable around is_radio_event.
SignalEvent(s) ==
  IF s.is_radio_event THEN s
  ELSE [s EXCEPT !.is_radio_event = TRUE, !.lpDisallow = @ + 1]

\* Mutant: the scan is forgotten without a result.
EndScanSilently(s) == [s EXCEPT !.is_ed_scan = FALSE]

\* Any message from the PHY ends a running scan.
EndScan(s) ==
  IF s.is_ed_scan THEN [s EXCEPT !.sEdScanDone = TRUE, !.is_ed_scan = FALSE] ELSE s

\* The state after an activity, and the channel a transmission asked for.
Receiving(s) ==
  LET t == [s EXCEPT !.sState = "RECEIVE"]
  IN  IF s.sTxDone THEN RfSetChannel(t, s.txRxChannel) ELSE t

-----------------------------------------------------------------------------
(* PD_OT_MAC_SapHandler                                                    *)

PdTail(s) ==
  LET a == EndScan(s)
      b == IF a.sTxDone \/ a.sState # "TRANSMIT"
             THEN IF a.is_rx_on_idle \/ a.is_rx_after_poll
                    THEN Receiving(a)
                    ELSE [a EXCEPT !.sState = "SLEEP"]
             ELSE a
  IN  SignalEvent(StopCsl(b))

\* The PHY is able to hand over a frame: it runs a receive sequence, or is
\* idle and left receiving.
CanReceive == m.phyOp \in {"rx", "rxTimed"} \/ (m.phyOp = "idle" /\ m.phyRxOnIdle)

\* gPdDataInd_c, broadcast received where the answer to a poll is awaited.
PdDataIndIgnored ==
  /\ CanReceive
  /\ m.is_rx_after_poll
  /\ \E op \in {m.phyOp, "idle"} : m' = StopCsl([m EXCEPT !.phyOp = op])
  /\ UNCHANGED <<ot, stk>>

\* gPdDataInd_c: the frame goes to the ring if there is room.  With no room
\* left the PHY stops receiving when idle.
PdDataInd ==
  /\ CanReceive
  /\ LET room == m.ring < Capacity
         s1 == [m EXCEPT !.phyOp = "idle",
                         !.rx_after_poll_done = @ \/ m.is_rx_after_poll,
                         !.is_rx_after_poll = FALSE,
                         !.ring = IF room THEN @ + 1 ELSE @]
         full == ~room \/ s1.ring = Capacity
         s2 == IF ~s1.rx_on_idle_disabled /\ s1.is_rx_on_idle /\ full
                 THEN [s1 EXCEPT !.phyRxOnIdle = FALSE, !.rx_on_idle_disabled = TRUE]
                 ELSE s1
     IN  m' = PdTail(s2)
  /\ UNCHANGED <<ot, stk>>

\* gPdDataCnf_c (and any other PD message): a transmission ended.  After a
\* poll answered with frame pending the PHY listens for a while by itself.
PdDataCnf(cnf, fp) ==
  /\ m.phyOp = "tx"
  /\ LET s1 == [m EXCEPT !.phyOp = IF cnf /\ fp /\ m.txPoll THEN "rxTimed" ELSE "idle"]
         s2 == IF m.sState = "TRANSMIT"
                 THEN [s1 EXCEPT !.sTxStatus = IF cnf THEN "NONE" ELSE "ABORT",
                                 !.is_rx_after_poll = @ \/ (cnf /\ fp /\ m.is_tx_poll),
                                 !.sTxDone = TRUE,
                                 !.is_tx_poll = FALSE]
                 ELSE s1
     IN  m' = PdTail(s2)
  /\ UNCHANGED <<ot, stk>>

-----------------------------------------------------------------------------
(* PLME_OT_MAC_SapHandler                                                  *)

PlmeTail(s) ==
  LET a == EndScan(s)
      b == IF a.is_rx_on_idle THEN Receiving(a) ELSE [a EXCEPT !.sState = "SLEEP"]
      c == StopCsl(b)
  IN  IF c.sTxDone \/ c.sEdScanDone THEN SignalEvent(c) ELSE c

\* gPlmeCcaCnf_c with gPhyChannelBusy_c, for the CCA before a transmission.
PlmeCcaBusy ==
  /\ m.phyOp = "tx"
  /\ m' = PlmeTail([m EXCEPT !.phyOp = "idle", !.sTxDone = TRUE,
                             !.sTxStatus = "CHANNEL_ACCESS_FAILURE"])
  /\ UNCHANGED <<ot, stk>>

\* gPlmeEdCnf_c (falls through), gPlmeTimeoutInd_c, gPlmeAbortInd_c.
PlmeDone(status) ==
  LET s == [m EXCEPT !.phyOp = "idle"]
  IN  IF m.sState = "TRANSMIT"
        THEN PlmeTail([s EXCEPT !.sTxStatus = status, !.sTxDone = TRUE,
                                !.is_tx_poll = FALSE, !.is_rx_after_poll = FALSE])
        ELSE PlmeTail(s)

PlmeEdCnf ==
  /\ m.phyOp = "ed"
  /\ PromptPhy \/ m.is_ed_scan
  /\ m' = PlmeDone("ABORT")
  /\ UNCHANGED <<ot, stk>>

PlmeTimeoutInd ==
  /\ m.phyOp \in {"tx", "rxTimed"}
  /\ m' = PlmeDone("NO_ACK")
  /\ UNCHANGED <<ot, stk>>

PlmeAbortInd ==
  /\ \/ m.phyOp = "tx"
     \/ m.phyOp \in {"rx", "rxTimed"} /\ RxAborts
     \/ m.phyOp = "ed" /\ (PromptPhy \/ m.is_ed_scan)
  /\ m' = PlmeDone("ABORT")
  /\ UNCHANGED <<ot, stk>>

\* The outcomes of a transmission or a scan.
PhyCompletes ==
  \/ \E cnf \in BOOLEAN, fp \in FramePending : PdDataCnf(cnf, fp)
  \/ PlmeCcaBusy
  \/ PlmeEdCnf
  \/ PlmeTimeoutInd
  \/ PlmeAbortInd

PhyReceives == PdDataInd \/ PdDataIndIgnored

-----------------------------------------------------------------------------
(* Steps of the task.  A step is a pair <<name, argument>>.                *)

S(n) == <<n, "-">>

\* The task makes the step s: it is replaced by the steps in new.
Does(s, new) == stk # << >> /\ Head(stk) = s /\ stk' = new \o Tail(stk)

\* A step that only updates the driver's state.
Sets(s, new, val) == Does(s, new) /\ m' = val /\ UNCHANGED ot

\* A step that only decides what comes next.
Tests(s, new) == Does(s, new) /\ UNCHANGED <<m, ot>>

\* rf_abort, rf_set_rx_on_idle, assignments to sState, rf_set_channel.
Abort == Sets(S("abort"), << >>, PhyForceOff(m))

PhyRxOnIdle == \E b \in BOOLEAN :
  Sets(<<"phyRxOnIdle", b>>, << >>, [m EXCEPT !.phyRxOnIdle = b])

SetState == \E s \in RadioState : Sets(<<"state", s>>, << >>, [m EXCEPT !.sState = s])

ChTest == \E c \in Channel :
  Tests(<<"chTest", c>>,
        IF c # m.sChannel THEN << <<"chPhy", c>>, <<"chSet", c>> >> ELSE << >>)

ChPhy == \E c \in Channel : Sets(<<"chPhy", c>>, << >>, [m EXCEPT !.phyChannel = c])

ChSet == \E c \in Channel : Sets(<<"chSet", c>>, << >>, [m EXCEPT !.sChannel = c])

\* start_csl_receiver and stop_csl_receiver
CslStart ==
  Tests(S("cslStart"), IF m.sCslPeriod /\ ~m.csl_rx
                         THEN << S("cslReq"), S("cslOn") >> ELSE << >>)

CslReq == Sets(S("cslReq"), << >>, [m EXCEPT !.remoteActive = @ + 1])

CslOn == Sets(S("cslOn"), << >>, [m EXCEPT !.csl_rx = TRUE])

CslStop ==
  Tests(S("cslStop"), IF m.csl_rx THEN << S("cslRel"), S("cslOff") >> ELSE << >>)

CslRel == Sets(S("cslRel"), << >>, [m EXCEPT !.remoteActive = @ - 1])

CslOff == Sets(S("cslOff"), << >>, [m EXCEPT !.csl_rx = FALSE])

-----------------------------------------------------------------------------
(* otPlatRadioSetRxOnWhenIdle                                              *)

RxOnWhenIdle(b) ==
  << S("roiClear"), <<"roiSet", b>> >>
  \o (IF b THEN << <<"phyRxOnIdle", TRUE>>, S("roiRx") >> ELSE << S("roiOff") >>)

RoiClear == Sets(S("roiClear"), << >>, [m EXCEPT !.rx_on_idle_disabled = FALSE])

RoiSet == \E b \in BOOLEAN :
  Sets(<<"roiSet", b>>, << >>, [m EXCEPT !.is_rx_on_idle = b])

RoiRx == Sets(S("roiRx"), << >>,
              [m EXCEPT !.sState = IF @ = "TRANSMIT" THEN @ ELSE "RECEIVE"])

RoiOff ==
  Tests(S("roiOff"), IF ~m.is_ed_scan /\ m.sState # "TRANSMIT"
                       THEN << S("abort"), <<"state", "SLEEP">> >>
                       ELSE << <<"phyRxOnIdle", FALSE>> >>)

-----------------------------------------------------------------------------
(* otPlatRadioEnable, otPlatRadioDisable                                   *)

Enable == RxOnWhenIdle(FALSE) \o << <<"state", "SLEEP">>, S("resetRing") >>

ResetRing == Sets(S("resetRing"), << >>, [m EXCEPT !.ring = 0])

Disable ==
  RxOnWhenIdle(FALSE) \o << S("cslStop"), S("phyDisable"), <<"state", "DISABLED">> >>

PhyDisable == Sets(S("phyDisable"), << >>, IF UseNbu THEN m ELSE PhyForceOff(m))

-----------------------------------------------------------------------------
(* otPlatRadioSleep: waiting for the answer to a poll, the PHY is left to  *)
(* time out by itself.                                                     *)

SleepTest ==
  Tests(S("sleepTest"), IF m.sState \in {"TRANSMIT", "DISABLED"} THEN << >>
                        ELSE << S("cslStop"), S("sleepPoll") >>)

SleepPoll ==
  Tests(S("sleepPoll"),
        IF m.is_rx_after_poll THEN << S("sleepPollClear"), <<"state", "SLEEP">> >>
        ELSE IF m.sState = "SLEEP" THEN << >>
        ELSE << S("abort"), <<"state", "SLEEP">> >>)

SleepPollClear == Sets(S("sleepPollClear"), << >>, [m EXCEPT !.is_rx_after_poll = FALSE])

-----------------------------------------------------------------------------
(* otPlatRadioReceive; every path leaves through ReceiveExit.              *)

ReceiveTest == \E c \in Channel :
  Tests(<<"rxTest", c>>,
        IF m.sState \in {"TRANSMIT", "DISABLED"}
           \/ (m.sState = "RECEIVE" /\ m.sChannel = c)
          THEN << S("rxExit") >>
          ELSE << <<"rxPollTest", c>>, S("rxExit") >>)

ReceivePollTest == \E c \in Channel :
  Tests(<<"rxPollTest", c>>,
        IF m.rx_after_poll_done THEN << >>
        ELSE << <<"state", "RECEIVE">>, <<"chTest", c>>, S("rxReq") >>)

ReceiveRequest ==
  Sets(S("rxReq"), << >>, [m EXCEPT !.phyOp = IF PhyFree(m) THEN "rx" ELSE @])

ReceiveExit == Sets(S("rxExit"), << >>, [m EXCEPT !.rx_after_poll_done = FALSE])

\* otPlatRadioReceiveAt: a timed window for CSL, with sState left at SLEEP.
ReceiveAtTest == \E c \in Channel :
  Tests(<<"rxAtTest", c>>,
        IF m.sState # "SLEEP" THEN << >>
        ELSE << S("cslStart"), <<"chTest", c>>, S("rxAtReq") >>)

ReceiveAtRequest ==
  Sets(S("rxAtReq"), << >>, [m EXCEPT !.phyOp = IF PhyFree(m) THEN "rxTimed" ELSE @])

-----------------------------------------------------------------------------
(* otPlatRadioTransmit.  With a CSL period, a secured frame whose header   *)
(* the PHY must still update carries the CSL IE.                           *)

TransmitTest == \E c \in Channel, poll \in BOOLEAN :
  Tests(<<"txTest", <<c, poll>> >>,
        IF m.sState = "DISABLED" THEN << >>
        ELSE << <<"txPoll", poll>>, <<"chTest", c>>, S("txCsl"), S("txSave") >>)

TransmitPoll == \E poll \in BOOLEAN :
  Sets(<<"txPoll", poll>>, << >>,
       [m EXCEPT !.is_tx_poll = poll, !.is_rx_after_poll = FALSE])

TransmitCsl ==
  \/ Tests(S("txCsl"), << >>)
  \/ /\ m.sCslPeriod
     /\ Tests(S("txCsl"), << S("cslStart"), S("txCslPoll") >>)

TransmitCslPoll == Sets(S("txCslPoll"), << >>, [m EXCEPT !.is_tx_poll = FALSE])

\* Mutant: TRANSMIT is entered after the request, as for an energy scan.
TransmitSaveLate == Tests(S("txSave"), << <<"txReq", m.sState>>, <<"state", "TRANSMIT">> >>)

TransmitSave == Tests(S("txSave"), << <<"state", "TRANSMIT">>, <<"txReq", m.sState>> >>)

\* MAC_PD_SapHandler takes the frame, or refuses it and tmp_state comes back.
TransmitRequest == \E tmp \in RadioState :
  \/ /\ PhyFree(m)
     /\ Does(<<"txReq", tmp>>, << >>)
     /\ m' = [m EXCEPT !.phyOp = "tx"]
     /\ ot' = [ot EXCEPT !.tx = TRUE]
  \/ Tests(<<"txReq", tmp>>, << <<"state", tmp>> >>)

-----------------------------------------------------------------------------
(* otPlatRadioEnergyScan                                                   *)

ScanTest == \E c \in Channel :
  Tests(<<"edTest", c>>,
        IF m.sState \in {"TRANSMIT", "DISABLED"} \/ m.is_ed_scan THEN << >>
        ELSE << <<"chTest", c>>, S("edReq") >>)

ScanRequest ==
  \/ /\ PhyFree(m)
     /\ Does(S("edReq"), << S("edSet") >>)
     /\ m' = [m EXCEPT !.phyOp = "ed"]
     /\ ot' = [ot EXCEPT !.scan = TRUE]
  \/ Tests(S("edReq"), << >>)

ScanSet == Sets(S("edSet"), << >>, [m EXCEPT !.is_ed_scan = TRUE])

-----------------------------------------------------------------------------
(* otPlatRadioProcess and radio_rx_process.  A callback into OpenThread is *)
(* the step ot, during which OpenThread may make driver calls.             *)

\* Mutant: the event is cleared once the work is done.
ProcessStepsLate == << S("txDone"), S("pollDone"), S("rxNext"), S("edDone"), S("evClear") >>

ProcessSteps == << S("evClear"), S("txDone"), S("pollDone"), S("rxNext"), S("edDone") >>

StartProcess ==
  /\ stk = << >>
  /\ stk' = ProcessSteps
  /\ UNCHANGED <<m, ot>>

EventClear ==
  Sets(S("evClear"), << >>,
       IF m.is_radio_event
         THEN [m EXCEPT !.is_radio_event = FALSE, !.lpDisallow = @ - 1] ELSE m)

TxDoneTest ==
  Tests(S("txDone"), IF m.sTxDone THEN << S("txCallback"), S("txClear") >> ELSE << >>)

\* otPlatRadioTxDone
TxCallback ==
  /\ Does(S("txCallback"), << S("ot") >>)
  /\ ot' = [ot EXCEPT !.tx = FALSE]
  /\ UNCHANGED m

\* Mutant: sTxDone is never cleared.
TxClearNot == Tests(S("txClear"), << >>)

TxClear == Sets(S("txClear"), << >>, [m EXCEPT !.sTxDone = FALSE])

PollDoneClear == Sets(S("pollDone"), << >>, [m EXCEPT !.rx_after_poll_done = FALSE])

\* while ((f = get_frame_rx_ring()) != NULL): otPlatRadioReceiveDone, pop.
RxNext ==
  Tests(S("rxNext"), IF m.ring > 0 THEN << S("ot"), S("rxPop"), S("rxNext") >>
                     ELSE << S("reenTest") >>)

RxPop == Sets(S("rxPop"), << >>, [m EXCEPT !.ring = @ - 1])

\* Mutant: the flag is cleared but the PHY is not told.
ReenableTestSilent ==
  Tests(S("reenTest"), IF m.rx_on_idle_disabled THEN << S("reenClear") >> ELSE << >>)

ReenableTest ==
  Tests(S("reenTest"),
        IF m.rx_on_idle_disabled THEN << <<"phyRxOnIdle", TRUE>>, S("reenClear") >>
        ELSE << >>)

ReenableClear == Sets(S("reenClear"), << >>, [m EXCEPT !.rx_on_idle_disabled = FALSE])

EdDoneTest ==
  Tests(S("edDone"), IF m.sEdScanDone THEN << S("edCallback"), S("edClear") >> ELSE << >>)

\* otPlatRadioEnergyScanDone
EdCallback ==
  /\ Does(S("edCallback"), << S("ot") >>)
  /\ ot' = [ot EXCEPT !.scan = FALSE]
  /\ UNCHANGED m

EdClear == Sets(S("edClear"), << >>, [m EXCEPT !.sEdScanDone = FALSE])

-----------------------------------------------------------------------------
(* OpenThread calls the driver, from its main loop or from a callback, one *)
(* transmission or scan at a time; it puts a radio that receives when idle *)
(* to sleep only to disable it (external).                                 *)

Enabled == m.sState # "DISABLED"
Waiting == ot.tx \/ ot.scan


MayCall(op) ==
  CASE op = "Enable" -> ~Enabled
    [] op \in {"RxOnWhenIdle", "EnableCsl"} -> Enabled
    [] op = "Sleep" -> Enabled /\ ~Waiting /\ ~m.is_rx_on_idle
    [] OTHER -> Enabled /\ ~Waiting

CallSteps(op) ==
  CASE op = "Enable" -> {Enable}
    [] op = "Disable" -> {<< S("sleepTest") >> \o Disable}
    [] op = "Sleep" -> {<< S("sleepTest") >>}
    [] op = "Receive" -> {<< <<"rxTest", c>> >> : c \in Channel}
    [] op = "ReceiveAt" -> {<< <<"rxAtTest", c>> >> : c \in Channel}
    [] op = "RxOnWhenIdle" -> {RxOnWhenIdle(b) : b \in BOOLEAN}
    [] op = "EnableCsl" -> {<< <<"cslPeriod", b>> >> : b \in BOOLEAN}
    [] op = "EnergyScan" -> {<< <<"edTest", c>> >> : c \in Channel}
    [] op = "Transmit" -> {<< <<"txFrame", <<poll, rc>> >>, <<"txTest", <<c, poll>> >> >> :
                             c \in Channel, rc \in Channel, poll \in BOOLEAN}

OtCalls(op, rest) ==
  /\ MayCall(op)
  /\ m.remoteActive >= - MaxDrift
  /\ \E steps \in CallSteps(op) : stk' = steps \o rest
  /\ UNCHANGED <<m, ot>>

MainLoopCall == stk = << >> /\ \E op \in Ops : OtCalls(op, << >>)

InCallback == stk # << >> /\ Head(stk) = S("ot")

CallbackCall == InCallback /\ \E op \in CallbackOps : OtCalls(op, stk)

CallbackReturn == Tests(S("ot"), << >>)

\* OpenThread writes the frame into otPlatRadioGetTransmitBuffer().
TxFrame == \E poll \in BOOLEAN, rc \in Channel :
  Sets(<<"txFrame", <<poll, rc>> >>, << >>,
       [m EXCEPT !.txPoll = poll, !.txRxChannel = rc])

\* otPlatRadioEnableCsl
SetCslPeriod == \E b \in BOOLEAN :
  Sets(<<"cslPeriod", b>>, << >>, [m EXCEPT !.sCslPeriod = b])

-----------------------------------------------------------------------------
DriverStep ==
  \/ Abort \/ PhyRxOnIdle \/ SetState \/ ChTest \/ ChPhy \/ ChSet
  \/ CslStart \/ CslReq \/ CslOn \/ CslStop \/ CslRel \/ CslOff \/ SetCslPeriod
  \/ RoiClear \/ RoiSet \/ RoiRx \/ RoiOff \/ ResetRing \/ PhyDisable
  \/ SleepTest \/ SleepPoll \/ SleepPollClear
  \/ ReceiveTest \/ ReceivePollTest \/ ReceiveRequest \/ ReceiveExit
  \/ ReceiveAtTest \/ ReceiveAtRequest
  \/ TxFrame \/ TransmitTest \/ TransmitPoll \/ TransmitCsl \/ TransmitCslPoll
  \/ TransmitSave \/ TransmitRequest
  \/ ScanTest \/ ScanRequest \/ ScanSet

ProcessStep ==
  \/ EventClear \/ TxDoneTest \/ TxCallback \/ TxClear \/ PollDoneClear
  \/ RxNext \/ RxPop \/ ReenableTest \/ ReenableClear
  \/ EdDoneTest \/ EdCallback \/ EdClear

TaskStep == DriverStep \/ ProcessStep \/ CallbackReturn

Next ==
  \/ TaskStep
  \/ StartProcess
  \/ MainLoopCall
  \/ CallbackCall
  \/ PhyCompletes
  \/ PhyReceives

\* The task is never descheduled for ever; its main loop always comes back to
\* otPlatRadioProcess, whatever OpenThread does in between; the PHY ends every
\* transmission and scan it accepted.
Fairness ==
  /\ WF_vars(TaskStep)
  /\ SF_vars(StartProcess)
  /\ WF_vars(m.phyOp \in {"tx", "ed"} /\ PhyCompletes)

Spec == Init /\ [][Next]_vars /\ Fairness

-----------------------------------------------------------------------------
\* Types of the driver's variables; the ring never holds more than its slots.
TypeOK ==
  /\ m.sState \in RadioState
  /\ {m.sChannel, m.phyChannel, m.txRxChannel} \subseteq Channel
  /\ {m.rx_on_idle_disabled, m.is_rx_on_idle, m.is_ed_scan, m.sTxDone, m.sEdScanDone,
      m.is_tx_poll, m.is_rx_after_poll, m.rx_after_poll_done, m.is_radio_event,
      m.csl_rx, m.sCslPeriod, m.txPoll, m.phyRxOnIdle} \subseteq BOOLEAN
  /\ m.sTxStatus \in {"NONE", "ABORT", "NO_ACK", "CHANNEL_ACCESS_FAILURE"}
  /\ m.ring \in 0 .. Capacity
  /\ m.phyOp \in {"idle", "rx", "rxTimed", "tx", "ed"}
  /\ m.lpDisallow \in Int /\ m.remoteActive \in Int
  /\ ot \in [tx : BOOLEAN, scan : BOOLEAN]

\* Between two iterations of the main loop.
Quiet == stk = << >> /\ ~m.is_radio_event

\* Nothing the handlers left for otPlatRadioProcess is forgotten: when the
\* loop is about to sleep with no event pending, there is no completion, no
\* scan result and no frame waiting.  The event is cleared before the work is
\* looked at, so work that arrives meanwhile raises it again.
NoWorkForgotten == Quiet => ~m.sTxDone /\ ~m.sEdScanDone /\ m.ring = 0

\* The driver holds the low power lock exactly while an event is pending,
\* however handler and process interleave.
SleepLockBalanced == m.lpDisallow = IF m.is_radio_event THEN 1 ELSE 0

\* Receiving when idle, switched off by the handler because the ring was full,
\* is back on once the ring has been drained: a driver asked to receive when
\* idle never falls asleep deaf.
NeverDeaf ==
  Quiet /\ Enabled /\ m.is_rx_on_idle => m.phyRxOnIdle /\ ~m.rx_on_idle_disabled

\* "change channel only if it is different": the channel rf_set_channel compares
\* with is the one the PHY is on, though handlers and task both change it.
ChannelTracked == stk = << >> => m.phyChannel = m.sChannel

\* OpenThread hears of a completed transmission only after the PHY is done
\* with the frame, whose buffer it is then free to overwrite.
TxDoneIsFinal == m.sTxDone => m.phyOp # "tx"

\* radio_rx_process drains the ring until it is empty, so it ends only if the
\* frames on air do not always refill it first, and OpenThread's callbacks
\* return; what follows needs that.
LoopEnds == []<>(stk = << >>)

\* Every transmission the PHY accepted is reported by otPlatRadioTxDone and
\* every scan by otPlatRadioEnergyScanDone: no interleaving of the handlers with
\* the process loop loses sTxDone or sEdScanDone.
RequestsReported == LoopEnds => (ot.tx ~> ~ot.tx) /\ (ot.scan ~> ~ot.scan)
=============================================================================
