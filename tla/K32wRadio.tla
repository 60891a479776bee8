----------------------------- MODULE K32wRadio ------------------------------
(***************************************************************************)
(* The radio driver of the K32W0, src/src/k32w0/platform/radio.c, built    *)
(* for a radio co-processor (OT_RCP_TARGET).  The interrupt handler        *)
(* K32WISR fills a ring of receive buffers and ends transmissions; the     *)
(* main loop runs K32WRadioProcess, which goes back to the receive         *)
(* channel, reports the transmission and hands frames to OpenThread.  No   *)
(* lock is taken: an interrupt may come between any two steps of the main  *)
(* loop.  Every call of OpenThread stops the radio before it changes       *)
(* anything the handler uses, so a call is one step, but for               *)
(* otPlatRadioTransmit, which updates the frame counter afterwards.        *)
(*                                                                         *)
(* A receive buffer holds the number of its frame.  u32MMAC_GetTime is     *)
(* left out: DELAY_RX_DELTA may have elapsed at any later turn.            *)
(***************************************************************************)
EXTENDS Naturals, Sequences

CONSTANTS
  RingLen,     \* K32W0_RADIO_NUM_OF_RX_BUFS
  Channels,
  MaxRx,       \* bound: frames received
  MaxTx,       \* bound: frames sent
  MaxCalls     \* bound: other calls of OpenThread

ASSUME K32wRadioAssumption ==
  /\ RingLen \in Nat /\ RingLen > 2 /\ Channels \subseteq Nat \ {0} /\ Channels # {}
  /\ MaxRx \in Nat /\ MaxTx \in Nat /\ MaxCalls \in Nat

VARIABLES
  kState,                                    \* sState
  ringHead, ringTail, ringNext, ringLast,    \* the indices of sRxRing
  bufs,                                      \* the frame in each buffer of sRxRing
  mmac,                                      \* the radio: off, rx or tx
  mmacChannel,                               \* the channel the radio is set to
  sChan, prevRxChannel,                      \* sChannel and sPrevRxChannel (0: not set)
  revert,                                    \* bRevertRxChannel
  kTxDone,                                   \* sTxDone
  txFrame,                                   \* sTxOtFrame: channel and kind
  delayRx,                                   \* bDelayRx and delayRxStart
  allowSleep, sleepLocks,                    \* sAllowDeviceToSleep, the application's count
  procPc,                                    \* where the main loop is
  waiting,                                   \* history: frames in the ring, oldest first
  askedChannel,                              \* history: the channel OpenThread listens on
  txOpen,                                    \* history: frame without its report
  staleDone,                                 \* history: the pending report is of an earlier frame
  rxCount, txCount, callCount                \* bounds

ringVars == <<ringHead, ringTail, ringNext, ringLast, bufs, waiting>>
chanVars == <<mmacChannel, sChan, prevRxChannel, revert, askedChannel>>
txVars == <<kTxDone, txFrame, txOpen, staleDone, txCount>>
lockVars == <<allowSleep, sleepLocks>>
radioVars == <<kState, ringVars, mmac, chanVars, txVars, delayRx, lockVars, procPc, rxCount, callCount>>

RingAfter(i) == (i + 1) % RingLen

NoFrame == [channel |-> 0, kind |-> "none"]

RadioInit ==
  /\ kState = "disabled" /\ mmac = "off" /\ mmacChannel = 0
  /\ ringHead = RingLen - 1 /\ ringTail = RingLen - 1 /\ ringNext = 0 /\ ringLast = 0
  /\ bufs = [i \in 0 .. RingLen - 1 |-> 0] /\ waiting = <<>>
  /\ sChan = 0 /\ prevRxChannel = 0 /\ revert = FALSE /\ askedChannel = 0
  /\ kTxDone = FALSE /\ txFrame = NoFrame /\ txOpen = FALSE /\ staleDone = FALSE
  /\ delayRx = "no" /\ allowSleep = TRUE /\ sleepLocks = 0
  /\ procPc = "idle" /\ rxCount = 0 /\ txCount = 0 /\ callCount = 0

-----------------------------------------------------------------------------
(* The ring.                                                               *)

K32WResetRxRingBuffer ==
  /\ ringHead' = RingLen - 1 /\ ringTail' = RingLen - 1 /\ ringNext' = 0 /\ ringLast' = 0
  /\ waiting' = <<>>
  /\ UNCHANGED bufs

\* Mutant: the buffer that is being read is not kept free.
EnableReceiveInto(head) ==
  /\ kState' = "receive" /\ mmac' = "rx" /\ ringNext' = RingAfter(head)

\* Starts the radio on the buffer after head, or leaves it off if that is the
\* one at tail.
K32WEnableReceive(head) ==
  IF RingAfter(head) = ringTail
  THEN kState' = "rxdisabled" /\ mmac' = "off" /\ UNCHANGED ringNext
  ELSE kState' = "receive" /\ mmac' = "rx" /\ ringNext' = RingAfter(head)

-----------------------------------------------------------------------------
(* K32WISR.                                                                *)

\* A frame without errors is pushed and the radio started again; it also
\* cancels the way back to the receive channel.
RxComplete ==
  /\ kState = "receive" /\ mmac = "rx" /\ rxCount < MaxRx
  /\ rxCount' = rxCount + 1
  /\ bufs' = [bufs EXCEPT ![ringNext] = rxCount + 1]
  /\ waiting' = Append(waiting, rxCount + 1)
  /\ ringHead' = ringNext
  /\ K32WEnableReceive(ringNext)
  /\ revert' = FALSE
  /\ UNCHANGED <<ringTail, ringLast, mmacChannel, sChan, prevRxChannel, askedChannel, txVars, delayRx, lockVars,
                 procPc, callCount>>

\* The buffer is used again.
RxError ==
  /\ kState = "receive" /\ mmac = "rx"
  /\ bufs' = [bufs EXCEPT ![ringNext] = 0]
  /\ K32WEnableReceive(ringHead)
  /\ UNCHANGED <<ringHead, ringTail, ringLast, waiting, chanVars, txVars, delayRx, lockVars, procPc, rxCount,
                 callCount>>

\* What came back: no acknowledgement (or a failed transmission), one with
\* or without frame pending, or a secured one with an information element.
Acks == {"none", "plain", "pending", "secured"}

\* Mutant: the radio is not started again after a transmission.
TxCompleteThenOff ==
  \E ack \in Acks :
    /\ kState = "transmit" /\ mmac = "tx"
    /\ kTxDone' = TRUE /\ kState' = "receive" /\ mmac' = "off"
    /\ UNCHANGED <<ringVars, chanVars, txFrame, txOpen, staleDone, txCount, delayRx, lockVars, procPc, rxCount,
                   callCount>>

\* Unless a data request was answered with frame pending, the main loop is
\* told to go back to the channel before.  A secured acknowledgement delays
\* the next frame of its kind.
TxComplete ==
  \E ack \in Acks :
    /\ kState = "transmit" /\ mmac = "tx"
    /\ kTxDone' = TRUE
    /\ delayRx' = IF ack = "secured" /\ delayRx = "no" THEN "armed" ELSE delayRx
    /\ revert' = (revert \/ (prevRxChannel # txFrame.channel
                             /\ ~(txFrame.kind = "poll" /\ ack = "pending")))
    /\ K32WEnableReceive(ringHead)
    /\ UNCHANGED <<ringHead, ringTail, ringLast, bufs, waiting, mmacChannel, sChan, prevRxChannel, askedChannel,
                   txFrame, txOpen, staleDone, txCount, lockVars, procPc, rxCount, callCount>>

K32WISR == RxComplete \/ RxError \/ TxComplete

-----------------------------------------------------------------------------
(* The calls of OpenThread.  Others: the bounded calls.                    *)

CanCall == callCount < MaxCalls /\ callCount' = callCount + 1

Disallow == allowSleep' = FALSE /\ sleepLocks' = sleepLocks + (IF allowSleep THEN 1 ELSE 0)

\* otPlatRadioReceive, past its test of the state: already receiving on the
\* channel it returns, else it stops the radio and starts it on c.
Receive(c) ==
  IF sChan = c /\ kState \in {"receive", "rxdisabled"}
  THEN UNCHANGED <<kState, mmac, ringNext, mmacChannel, sChan, prevRxChannel, revert, lockVars>>
  ELSE /\ revert' = FALSE
       /\ Disallow
       /\ sChan' = c /\ prevRxChannel' = c /\ mmacChannel' = c
       /\ K32WEnableReceive(ringHead)

otPlatRadioReceive(c) ==
  /\ kState \notin {"transmit", "disabled"} /\ CanCall
  /\ Receive(c)
  /\ askedChannel' = c
  /\ UNCHANGED <<ringHead, ringTail, ringLast, bufs, waiting, txVars, delayRx, procPc, rxCount>>

otPlatRadioSleep ==
  /\ kState \notin {"transmit", "disabled"} /\ CanCall
  /\ mmac' = "off" /\ kState' = "sleep"
  /\ allowSleep' = TRUE /\ sleepLocks' = sleepLocks - (IF allowSleep THEN 0 ELSE 1)
  /\ UNCHANGED <<ringVars, chanVars, txVars, delayRx, procPc, rxCount>>

\* OpenThread enables the radio when it is disabled.  The radio gets its
\* settings back if it has slept or an extended address is set: OpenThread sets
\* one before it listens for the first time.
otPlatRadioEnable ==
  /\ kState = "disabled" /\ CanCall
  /\ allowSleep' = TRUE
  /\ K32WResetRxRingBuffer
  /\ kState' = "sleep"
  /\ \/ mmacChannel' = sChan
     \/ askedChannel = 0 /\ UNCHANGED mmacChannel
  /\ UNCHANGED <<mmac, sChan, prevRxChannel, revert, askedChannel, txVars, delayRx, sleepLocks, procPc, rxCount>>

\* At any time, in the middle of a reception or a transmission too, which then
\* has no report.  The application's count of locks is left as it is.
otPlatRadioDisable ==
  /\ kState # "disabled" /\ CanCall
  /\ mmac' = "off" /\ kState' = "disabled"
  /\ K32WResetRxRingBuffer
  /\ staleDone' = (staleDone \/ kTxDone) /\ txOpen' = FALSE
  /\ UNCHANGED <<chanVars, kTxDone, txFrame, txCount, delayRx, lockVars, procPc, rxCount>>

\* The frame goes out on its channel.  OpenThread has one frame on its way, and
\* has listened before it sends the first.
otPlatRadioTransmit(f) ==
  /\ askedChannel # 0
  /\ kState \in {"sleep", "receive", "rxdisabled"} /\ ~txOpen /\ txCount < MaxTx
  /\ txCount' = txCount + 1 /\ txOpen' = TRUE /\ txFrame' = f
  /\ revert' = FALSE
  /\ mmac' = "tx" /\ kState' = "transmit"
  /\ Disallow
  /\ prevRxChannel' = IF sChan # f.channel THEN sChan ELSE prevRxChannel
  /\ sChan' = f.channel
  /\ mmacChannel' = IF sChan # f.channel THEN f.channel ELSE mmacChannel
  /\ UNCHANGED <<ringVars, askedChannel, kTxDone, staleDone, delayRx, procPc, rxCount, callCount>>

\* otPlatRadioGetRssi, with interrupts disabled, and
\* otPlatRadioSetTransmitPower: reception is stopped and started again.
Restart ==
  IF kState \in {"receive", "rxdisabled"}
  THEN K32WEnableReceive(ringHead)
  ELSE UNCHANGED <<kState, mmac, ringNext>>

otPlatRadioGetRssi ==
  /\ kState \in {"sleep", "receive", "rxdisabled"} /\ CanCall
  /\ Restart
  /\ UNCHANGED <<ringHead, ringTail, ringLast, bufs, waiting, chanVars, txVars, delayRx, lockVars, procPc, rxCount>>

\* The radio is set to the channel again, or to the default before the first.
otPlatRadioSetTransmitPower ==
  /\ kState \notin {"transmit", "disabled"} /\ CanCall
  /\ mmacChannel' = IF sChan # 0 THEN sChan ELSE 11
  /\ Restart
  /\ UNCHANGED <<ringHead, ringTail, ringLast, bufs, waiting, sChan, prevRxChannel, revert, askedChannel, txVars,
                 delayRx, lockVars, procPc, rxCount>>

Frames == [channel : Channels, kind : {"data", "poll"}]

Call ==
  \/ \E c \in Channels : otPlatRadioReceive(c)
  \/ otPlatRadioSleep \/ otPlatRadioEnable \/ otPlatRadioDisable
  \/ \E f \in Frames : otPlatRadioTransmit(f)
  \/ otPlatRadioGetRssi \/ otPlatRadioSetTransmitPower

-----------------------------------------------------------------------------
(* K32WRadioProcess.                                                       *)

ProcGoes(from, to) == procPc = from /\ procPc' = to

\* Back to the receive channel.
RevertChannel ==
  /\ ProcGoes("idle", "tx")
  /\ IF revert /\ kState \notin {"transmit", "disabled"}
     THEN Receive(prevRxChannel)
     ELSE UNCHANGED <<kState, mmac, ringNext, mmacChannel, sChan, prevRxChannel, revert, lockVars>>
  /\ UNCHANGED <<ringHead, ringTail, ringLast, bufs, waiting, askedChannel, txVars, delayRx, rxCount, callCount>>

\* Mutant: the flag is not tested.
ReportsUntested ==
  /\ ProcGoes("tx", "report") /\ kTxDone' = FALSE
  /\ UNCHANGED <<kState, ringVars, mmac, chanVars, txFrame, txOpen, staleDone, txCount, delayRx, lockVars, rxCount,
                 callCount>>

\* The flag is cleared before OpenThread is told.
K32WProcessTxFrame ==
  /\ \/ ProcGoes("tx", "report") /\ kTxDone /\ kTxDone' = FALSE
     \/ ProcGoes("tx", "rx") /\ ~kTxDone /\ UNCHANGED kTxDone
  /\ UNCHANGED <<kState, ringVars, mmac, chanVars, txFrame, txOpen, staleDone, txCount, delayRx, lockVars, rxCount,
                 callCount>>

\* otPlatRadioTxDone: the callback may make calls before it returns.  If the
\* report was of an earlier frame, that of the frame now on its way comes after
\* OpenThread has taken it for sent.
TxDoneCallback ==
  /\ ProcGoes("report", "reported")
  /\ txOpen' = FALSE /\ staleDone' = (kTxDone \/ kState = "transmit")
  /\ UNCHANGED <<kState, ringVars, mmac, chanVars, kTxDone, txFrame, txCount, delayRx, lockVars, rxCount,
                 callCount>>

\* Mutant: the flag is cleared again when the callback has returned.
ClearsAfterCallback ==
  /\ ProcGoes("reported", "rx")
  /\ kTxDone' = FALSE
  /\ UNCHANGED <<kState, ringVars, mmac, chanVars, txFrame, txOpen, staleDone, txCount, delayRx, lockVars, rxCount,
                 callCount>>

TxDoneReturns ==
  /\ ProcGoes("reported", "rx")
  /\ UNCHANGED <<kState, ringVars, mmac, chanVars, txVars, delayRx, lockVars, rxCount, callCount>>

\* bForwardRxFrameToHost: what becomes of the delay, and is the frame held?
\* A frame of the awaited kind starts the delay; while it lasts, every frame
\* is held.
bForwardRxFrameToHost ==
  {<<"no", "no", TRUE>>, <<"armed", "armed", TRUE>>, <<"armed", "running", FALSE>>,
   <<"running", "running", FALSE>>, <<"running", "no", TRUE>>}

\* The oldest frame is taken, or held back, or there is none.
K32WGetRxRingBuffer ==
  /\ procPc = "rx"
  /\ \/ /\ ringTail = ringHead
        /\ procPc' = "end" /\ UNCHANGED <<ringLast, delayRx>>
     \/ /\ ringTail # ringHead
        /\ ringLast' = RingAfter(ringTail)
        /\ \E d \in bForwardRxFrameToHost :
             /\ d[1] = delayRx /\ delayRx' = d[2]
             /\ procPc' = IF d[3] THEN "deliver" ELSE "end"
  /\ UNCHANGED <<kState, ringHead, ringTail, ringNext, bufs, waiting, mmac, chanVars, txVars, lockVars, rxCount,
                 callCount>>

\* otPlatRadioReceiveDone has returned: the buffer is given back.
K32WPopRxRingBuffer ==
  /\ ProcGoes("deliver", "restart")
  /\ ringTail' = ringLast
  /\ waiting' = Tail(waiting)
  /\ UNCHANGED <<kState, ringHead, ringNext, ringLast, bufs, mmac, chanVars, txVars, delayRx, lockVars, rxCount,
                 callCount>>

\* A radio that was stopped for want of a buffer is started again, after
\* every frame and at the end.
K32WProcessRxFrames ==
  /\ ProcGoes("restart", "rx") \/ ProcGoes("end", "idle")
  /\ IF kState = "rxdisabled" THEN K32WEnableReceive(ringHead) ELSE UNCHANGED <<kState, mmac, ringNext>>
  /\ UNCHANGED <<ringHead, ringTail, ringLast, bufs, waiting, chanVars, txVars, delayRx, lockVars, rxCount,
                 callCount>>

K32WRadioProcess ==
  \/ RevertChannel \/ K32WProcessTxFrame \/ TxDoneCallback \/ TxDoneReturns
  \/ K32WGetRxRingBuffer \/ K32WPopRxRingBuffer \/ K32WProcessRxFrames

-----------------------------------------------------------------------------
\* OpenThread calls between two turns and inside the callback of a
\* transmission.
RadioNext ==
  \/ K32WISR
  \/ procPc \in {"idle", "reported"} /\ Call
  \/ K32WRadioProcess

\* The main loop goes round, and the radio ends a transmission.
RadioFairness == WF_radioVars(K32WRadioProcess) /\ WF_radioVars(TxComplete)

RadioSpec == RadioInit /\ [][RadioNext]_radioVars /\ RadioFairness

-----------------------------------------------------------------------------
\* The ring keeps the order: the buffer handed to OpenThread holds the oldest
\* frame, and stays untouched by the radio until it is given back, although
\* handler and main loop share four indices without a lock.
RingIsFifo ==
  /\ procPc = "deliver" => bufs[ringLast] = Head(waiting) /\ ~(mmac = "rx" /\ ringNext = ringLast)
  /\ kState = "receive" => ringNext # ringTail

\* The driver is never deaf by mistake: in state RECEIVE the radio listens on
\* the driver's channel, and it is stopped for want of a buffer only while
\* there is a frame to hand over or the main loop is about to start it again.
HearsOrWillHear ==
  /\ kState = "receive" => mmac = "rx" /\ mmacChannel = sChan
  /\ kState = "rxdisabled" => waiting # <<>> \/ procPc \in {"deliver", "restart", "rx", "end"}

\* A transmission is reported when it is over, never while the frame is in
\* the air, unless the radio was disabled with a report still pending: sTxDone
\* outlives otPlatRadioDisable, and from then on a report may be one frame late.
DoneWhenOver == procPc = "report" /\ ~staleDone => kState # "transmit" /\ txOpen

\* A frame that is sent is reported, unless the radio is disabled.
SentIsReported == txOpen ~> ~txOpen
=============================================================================
