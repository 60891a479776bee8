---------------------------- MODULE SpiInterface ----------------------------
(***************************************************************************)
(* The host's end of Spinel over SPI: src/src/common/spinel/               *)
(* spi_interface.cpp.  The co-processor pulls the interrupt line when it   *)
(* has a frame; the host counts the pulls in the interrupt and makes one   *)
(* full-duplex exchange per PushPullSpi, whose length it has to guess.     *)
(***************************************************************************)
EXTENDS Integers, Sequences

CONSTANTS
  SpiSmall,   \* mSpiSmallPacketSize
  SpiLarge,   \* the longest frame
  SpiRxSlots, \* frames that fit into mRxFrameBuffer
  SpiIn,      \* bound: frames from the co-processor
  SpiOut,     \* bound: frames from the host
  SpiFaults   \* bound: exchanges that fail

VARIABLES
  spCounter,  \* pendingSpiRxDataCounter
  spSignal,   \* is OpenThread's task woken?
  spTx,       \* mSpiTxPayloadSize, 0 unless mSpiTxIsReady
  spDataLen,  \* mSpiSlaveDataLen
  spCall,     \* << >>, or who called PushPullSpi, and after its first half
              \* decreaseSpiRxDataCounter and the accept length
  spKept,     \* frames in mRxFrameBuffer not yet freed
  spWaiting,  \* WaitForFrame is running
  spShown,    \* length of the frame the co-processor has ready, 0 if none
  spFrames,   \* frames the co-processor has had, the host has got,
  spGot,      \* and the host has sent
  spSent,
  spFaults    \* failed exchanges so far

spVars == <<spCounter, spSignal, spTx, spDataLen, spCall, spKept, spWaiting,
            spShown, spFrames, spGot, spSent, spFaults>>

SpiInit ==
  /\ spCounter = 0 /\ spSignal = FALSE /\ spTx = 0 /\ spDataLen = 0 /\ spCall = << >>
  /\ spKept = 0 /\ spWaiting = FALSE
  /\ spShown = 0 /\ spFrames = 0 /\ spGot = 0 /\ spSent = 0 /\ spFaults = 0

-----------------------------------------------------------------------------
(* The co-processor (external): it shows one frame at a time, and shows it *)
(* again when an exchange was too short for it.                            *)

\* It pulls the line: IncreasePendingSpiRxDataCounter, in the interrupt.
ShowFrame(len) ==
  /\ spShown = 0 /\ spFrames < SpiIn
  /\ spShown' = len
  /\ spFrames' = spFrames + 1
  /\ spCounter' = spCounter + 1
  /\ spSignal' = TRUE
  /\ UNCHANGED <<spTx, spDataLen, spCall, spKept, spWaiting, spGot, spSent, spFaults>>

-----------------------------------------------------------------------------
(* PushPullSpi.                                                            *)

\* The length of the exchange: what the host sends, what the co-processor is
\* known to have, or a small packet.
AcceptLen ==
  LET least == IF spDataLen # 0 THEN spDataLen ELSE SpiSmall
  IN  IF spTx > least THEN spTx ELSE least

\* Its first half.  Nothing to do...
PushPullIdle(who) ==
  /\ spCall = <<who>> /\ spCounter = 0 /\ spTx = 0
  /\ spCall' = << >>
  /\ spWaiting' = (spWaiting /\ who # "wait")
  /\ UNCHANGED <<spCounter, spSignal, spTx, spDataLen, spKept, spShown, spFrames, spGot, spSent, spFaults>>

\* What an error does: the task is woken, SendFrame tries once more, and
\* WaitForFrame calls again until it runs out of time.
Failed(who) ==
  /\ spSignal' = TRUE
  /\ spCall' = IF who = "send" THEN <<"again">> ELSE << >>

\* ... no room for a frame...
PushPullNoBufs(who) ==
  /\ spCall = <<who>> /\ (spCounter > 0 \/ spTx > 0)
  /\ spKept = SpiRxSlots
  /\ Failed(who)
  /\ UNCHANGED <<spCounter, spTx, spDataLen, spKept, spWaiting, spShown, spFrames, spGot, spSent, spFaults>>

\* ... or an exchange.
PushPullBegin(who) ==
  /\ spCall = <<who>> /\ (spCounter > 0 \/ spTx > 0)
  /\ spKept < SpiRxSlots
  /\ spCall' = <<who, spCounter > 0, AcceptLen>>
  /\ UNCHANGED <<spCounter, spSignal, spTx, spDataLen, spKept, spWaiting, spShown, spFrames, spGot, spSent, spFaults>>

\* Mutant: the counter is decreased whatever the header says.
ExchangeFailsCounted(who) ==
  /\ Len(spCall) = 3 /\ spCall[1] = who /\ spFaults < SpiFaults
  /\ spFaults' = spFaults + 1
  /\ spCounter' = IF spCall[2] THEN spCounter - 1 ELSE spCounter
  /\ \E garbage \in BOOLEAN : spDataLen' = IF garbage THEN 0 ELSE spDataLen
  /\ Failed(who)
  /\ UNCHANGED <<spTx, spKept, spWaiting, spShown, spFrames, spGot, spSent>>

\* DoSpiTransfer fails, or the header is empty or garbage: the counter stays.
ExchangeFails(who) ==
  /\ Len(spCall) = 3 /\ spCall[1] = who /\ spFaults < SpiFaults
  /\ spFaults' = spFaults + 1
  /\ \E garbage \in BOOLEAN : spDataLen' = IF garbage THEN 0 ELSE spDataLen
  /\ Failed(who)
  /\ UNCHANGED <<spCounter, spTx, spKept, spWaiting, spShown, spFrames, spGot, spSent>>

\* A valid header.  accept: the co-processor has room for what the host sent.
\* A frame that was too long for the exchange is left for the next one, which
\* its length is kept for; the co-processor pulls the line again.
Exchange(who, accept) ==
  LET fits == spShown # 0 /\ spShown <= spCall[3]
      long == spShown > spCall[3]
      counter == (IF spCall[2] THEN spCounter - 1 ELSE spCounter) + (IF long THEN 1 ELSE 0)
      refused == spTx > 0 /\ ~accept
  IN  /\ Len(spCall) = 3 /\ spCall[1] = who
      /\ spDataLen' = IF long THEN spShown ELSE 0
      /\ spGot' = IF fits THEN spGot + 1 ELSE spGot
      /\ spKept' \in (IF fits THEN {spKept, spKept + 1} ELSE {spKept})
      /\ spShown' = IF fits THEN 0 ELSE spShown
      /\ spCounter' = counter
      /\ spTx' = IF refused THEN spTx ELSE 0
      /\ spSignal' = (spSignal \/ refused \/ counter > 0)
      /\ spCall' = IF refused /\ who = "send" THEN <<"again">> ELSE << >>
      /\ spWaiting' = (spWaiting /\ (who # "wait" \/ refused))
      /\ UNCHANGED <<spFrames, spSent, spFaults>>

-----------------------------------------------------------------------------
(* Its callers.                                                            *)

\* Process.
SpiProcess ==
  /\ spCall = << >> /\ spSignal /\ ~spWaiting
  /\ spSignal' = FALSE
  /\ spCall' = <<"process">>
  /\ UNCHANGED <<spCounter, spTx, spDataLen, spKept, spWaiting, spShown, spFrames, spGot, spSent, spFaults>>

\* SendFrame: OT_ERROR_BUSY while a frame waits to be sent.
SpiSendFrame(len) ==
  /\ spCall = << >> /\ ~spWaiting /\ spTx = 0 /\ spSent < SpiOut
  /\ spTx' = len /\ spSent' = spSent + 1
  /\ spCall' = <<"send">>
  /\ UNCHANGED <<spCounter, spSignal, spDataLen, spKept, spWaiting, spShown, spFrames, spGot, spFaults>>

\* WaitForFrame: it returns when an exchange succeeded, none was needed, or
\* it has waited long enough.
SpiWaitForFrame ==
  /\ spCall = << >>
  /\ spWaiting \/ spTx # 0
  /\ spWaiting' = TRUE
  /\ spCall' = <<"wait">>
  /\ UNCHANGED <<spCounter, spSignal, spTx, spDataLen, spKept, spShown, spFrames, spGot, spSent, spFaults>>

SpiWaitOver ==
  /\ spCall = << >> /\ spWaiting
  /\ spWaiting' = FALSE
  /\ UNCHANGED <<spCounter, spSignal, spTx, spDataLen, spCall, spKept, spShown, spFrames, spGot, spSent, spFaults>>

\* The layer above frees a frame.
SpiFree ==
  /\ spKept > 0
  /\ spKept' = spKept - 1
  /\ UNCHANGED <<spCounter, spSignal, spTx, spDataLen, spCall, spWaiting, spShown, spFrames, spGot, spSent, spFaults>>

SpiCaller == {"process", "send", "again", "wait"}

PushPullSpi ==
  \E who \in SpiCaller :
    \/ PushPullIdle(who) \/ PushPullNoBufs(who) \/ PushPullBegin(who) \/ ExchangeFails(who)
    \/ \E accept \in BOOLEAN : Exchange(who, accept)

SpiRest == spFrames = SpiIn /\ spSent = SpiOut /\ UNCHANGED spVars

SpiNext ==
  \/ \E len \in {SpiSmall, SpiLarge} : ShowFrame(len) \/ SpiSendFrame(len)
  \/ PushPullSpi \/ SpiProcess \/ SpiWaitForFrame \/ SpiWaitOver \/ SpiFree \/ SpiRest

\* The task runs when it is woken and does not wait for ever; the frames it got
\* are freed; the co-processor does not refuse for ever.
SpiFairness ==
  /\ WF_spVars(PushPullSpi) /\ SF_spVars(SpiProcess) /\ WF_spVars(SpiFree) /\ SF_spVars(SpiWaitOver)
  /\ SF_spVars(\E who \in SpiCaller : Exchange(who, TRUE))

-----------------------------------------------------------------------------
\* Every frame the co-processor shows reaches the host, also when an exchange
\* fails, is too short for it, finds no buffer, or is made to send another
\* frame while the interrupt comes; and every frame of the host gets out.
SpiDelivered ==
  /\ spShown # 0 ~> spShown = 0
  /\ spTx # 0 ~> spTx = 0
=============================================================================
