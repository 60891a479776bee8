----------------------------- MODULE K32wSerial -----------------------------
(***************************************************************************)
(* The serial links of the K32W0 to its host.                              *)
(*                                                                         *)
(* The serial port with the USART driver (UART_USE_DRIVER):                *)
(* src/src/k32w0/platform/uart.c.  The interrupt handler fills the ring of *)
(* received characters and empties the buffer being sent; the main loop    *)
(* pops one character at a time, with the interrupt masked, and reads it   *)
(* through the pointer it got after the interrupt is enabled again.        *)
(*                                                                         *)
(* The co-processor's end of Spinel over SPI:                              *)
(* src/src/k32w0/platform/spi_slave.c.  The DMA writes what the host sends *)
(* into a ring without end; the main loop compares the DMA's position with *)
(* the one it saw last and, when it stands still, takes packets out of the *)
(* ring.  A packet is a header of two bytes here (not five), a flag that   *)
(* is not zero and the length of the data; zeros fill the transaction up.  *)
(***************************************************************************)
EXTENDS Integers, Sequences, SequencesExt

CONSTANTS
  KuSize,    \* OT_PLAT_UART_RX_BUFFER_SIZE
  KuIn,      \* bound: characters that arrive
  KuOut,     \* bound: buffers that are sent
  KuLen      \* characters of a buffer

ASSUME KuAssumption == KuSize \in Nat \ {0} /\ KuIn \in Nat /\ KuOut \in Nat /\ KuLen \in Nat

VARIABLES
  kuBuf, kuHead, kuTail, kuFull,   \* sUartRxRing0
  kuPtr,     \* slot of the character just popped; -1 if none
  kuDue,     \* history: number of the character popped last
  kuTorn,    \* history: its slot has been written again since
  kuWasFull, \* history: the ring has been full
  kuRx,      \* rx, what K32WProcessReceive has collected: the characters read,
             \* and of each the one that was due and whether its slot was written
  kuNext,    \* number of the next character to arrive
  kuPassed,  \* history: characters passed to otPlatUartReceived
  kuGiven,   \* history: the last of them that was due
  kuOverrun, \* history: characters the hardware lost
  kuOverwritten,  \* history: characters overwritten in the full ring
  kuTx,      \* sUartHandleApp.txDataSize; its txData is NULL when it is 0
  kuDone,    \* sIsTransmitDone
  kuFlush,   \* gTxFlush
  kuSent,    \* buffers accepted, and of these reported done or flushed
  kuTold

kuRingVars == <<kuBuf, kuHead, kuTail, kuFull, kuWasFull, kuNext, kuOverrun, kuOverwritten>>
kuReadVars == <<kuPtr, kuDue, kuTorn, kuRx, kuPassed, kuGiven>>
kuRxVars == <<kuRingVars, kuReadVars>>
kuTxVars == <<kuTx, kuDone, kuFlush, kuSent, kuTold>>
kuVars == <<kuRxVars, kuTxVars>>

KuInit ==
  /\ kuBuf = [i \in 0 .. KuSize - 1 |-> 0]
  /\ kuHead = 0 /\ kuTail = 0 /\ kuFull = FALSE
  /\ kuPtr = -1 /\ kuDue = 0 /\ kuTorn = FALSE /\ kuWasFull = FALSE
  /\ kuRx = << >> /\ kuNext = 1 /\ kuPassed = 0 /\ kuGiven = 0
  /\ kuOverrun = 0 /\ kuOverwritten = 0
  /\ kuTx = 0 /\ kuDone = FALSE /\ kuFlush = FALSE /\ kuSent = 0 /\ kuTold = 0

KuAfter(i) == (i + 1) % KuSize

-----------------------------------------------------------------------------
(* Receiving.                                                              *)

\* K32WPushRxRingBuffer, in the interrupt: the oldest character is overwritten,
\* and so is the one whose slot was handed out last.
K32WPushRxRingBuffer ==
  LET tail == IF kuFull THEN KuAfter(kuTail) ELSE kuTail
  IN  /\ kuNext <= KuIn
      /\ kuBuf' = [kuBuf EXCEPT ![kuHead] = kuNext]
      /\ kuTail' = tail
      /\ kuHead' = KuAfter(kuHead)
      /\ kuFull' = (KuAfter(kuHead) = tail)
      /\ kuNext' = kuNext + 1
      /\ kuWasFull' = (kuWasFull \/ kuFull')
      /\ kuOverwritten' = kuOverwritten + (IF kuFull THEN 1 ELSE 0)
      /\ kuTorn' = (kuTorn \/ kuHead = kuPtr)
      /\ UNCHANGED <<kuPtr, kuDue, kuRx, kuPassed, kuGiven, kuOverrun, kuTxVars>>

KuEmpty == ~kuFull /\ kuHead = kuTail

\* The hardware lost characters (RXERR): they never reach the ring.
RxOverrun ==
  /\ kuNext < KuIn
  /\ kuNext' = kuNext + 1 /\ kuOverrun' = kuOverrun + 1
  /\ UNCHANGED <<kuBuf, kuHead, kuTail, kuFull, kuWasFull, kuOverwritten, kuReadVars, kuTxVars>>

\* Mutant: the address is taken after the tail has moved.
PopAfterMove ==
  /\ kuPtr = -1 /\ ~KuEmpty
  /\ kuPtr' = KuAfter(kuTail) /\ kuTail' = KuAfter(kuTail) /\ kuFull' = FALSE
  /\ kuDue' = kuBuf[kuTail] /\ kuTorn' = FALSE
  /\ UNCHANGED <<kuBuf, kuHead, kuWasFull, kuNext, kuOverrun, kuOverwritten, kuRx, kuPassed,
                 kuGiven, kuTxVars>>

\* UartPopRxRingBuffer: an address, and the slot is free again.
UartPopRxRingBuffer ==
  /\ kuPtr = -1 /\ ~KuEmpty
  /\ kuPtr' = kuTail /\ kuTail' = KuAfter(kuTail) /\ kuFull' = FALSE
  /\ kuDue' = kuBuf[kuTail] /\ kuTorn' = FALSE
  /\ UNCHANGED <<kuBuf, kuHead, kuWasFull, kuNext, kuOverrun, kuOverwritten, kuRx, kuPassed,
                 kuGiven, kuTxVars>>

\* K32WProcessReceive reads the character...
ReadCharacter ==
  /\ kuPtr # -1
  /\ kuRx' = Append(kuRx, [char |-> kuBuf[kuPtr], due |-> kuDue, torn |-> kuTorn])
  /\ kuPtr' = -1
  /\ UNCHANGED <<kuRingVars, kuDue, kuTorn, kuPassed, kuGiven, kuTxVars>>

\* ... and, when the ring is empty, passes on what it has.  Nothing tests that
\* rx, which is as long as the ring, has room for what arrives meanwhile.
K32WProcessReceive ==
  /\ kuPtr = -1 /\ KuEmpty /\ kuRx # << >>
  /\ kuGiven' = kuRx[Len(kuRx)].due /\ kuPassed' = kuPassed + Len(kuRx)
  /\ kuRx' = << >>
  /\ UNCHANGED <<kuRingVars, kuPtr, kuDue, kuTorn, kuTxVars>>

-----------------------------------------------------------------------------
(* Sending.                                                                *)

\* otPlatUartSend: OT_ERROR_BUSY while a buffer is being sent.  It may be called
\* in a flush, by what the CLI does with the characters received there.
KuSend ==
  /\ kuTx = 0 /\ kuSent < KuOut
  /\ kuTx' = KuLen /\ kuSent' = kuSent + 1
  /\ UNCHANGED <<kuRxVars, kuDone, kuFlush, kuTold>>

\* USART0_IRQHandler: one character, and after the last the flag.
USART0_IRQHandler ==
  /\ kuTx > 0
  /\ kuTx' = kuTx - 1
  /\ kuDone' = (kuDone \/ kuTx = 1)
  /\ UNCHANGED <<kuRxVars, kuFlush, kuSent, kuTold>>

\* K32WProcessTransmit and txDone: no report while a flush waits.
K32WProcessTransmit ==
  /\ kuDone
  /\ kuDone' = FALSE
  /\ kuTold' = IF kuFlush THEN kuTold ELSE kuTold + 1
  /\ UNCHANGED <<kuRxVars, kuTx, kuFlush, kuSent>>

\* otPlatUartFlush: its loop runs K32WUartProcess until the buffer is gone or
\* FLUSH_TO ms have passed.
FlushStart ==
  /\ ~kuFlush /\ kuTx > 0
  /\ kuFlush' = TRUE
  /\ UNCHANGED <<kuRxVars, kuTx, kuDone, kuSent, kuTold>>

FlushStop(late) ==
  /\ kuFlush
  /\ late \/ kuTx = 0
  /\ kuFlush' = FALSE
  /\ UNCHANGED <<kuRxVars, kuTx, kuDone, kuSent, kuTold>>

KuRest == kuNext > KuIn /\ kuSent = KuOut /\ UNCHANGED kuVars

KuNext ==
  \/ K32WPushRxRingBuffer \/ RxOverrun \/ UartPopRxRingBuffer \/ ReadCharacter
  \/ K32WProcessReceive
  \/ KuSend \/ USART0_IRQHandler \/ K32WProcessTransmit
  \/ FlushStart \/ (\E late \in BOOLEAN : FlushStop(late)) \/ KuRest

-----------------------------------------------------------------------------
\* Characters that wait in the ring.
KuWaiting ==
  IF kuFull THEN KuSize ELSE IF kuHead >= kuTail THEN kuHead - kuTail ELSE kuHead - kuTail + KuSize

\* The characters come out of the ring in the order of their arrival and none
\* twice, also when the interrupt overwrites the oldest ones.
CharactersInOrder ==
  /\ \A i, j \in DOMAIN kuRx : i < j => kuRx[i].due < kuRx[j].due
  /\ kuRx # << >> => kuGiven < kuRx[1].due

\* Each is read as it arrived although it is read after its slot was given
\* back, unless the interrupt has come round to the slot before that.
CharactersWhole == \A i \in DOMAIN kuRx : kuRx[i].char = kuRx[i].due \/ kuRx[i].torn

\* Every character that arrived was taken out, waits in the ring, was lost by
\* the hardware or was overwritten in a full ring.
CharactersAccounted ==
  kuNext - 1 = kuPassed + Len(kuRx) + (IF kuPtr = -1 THEN 0 ELSE 1)
               + KuWaiting + kuOverrun + kuOverwritten

\* The order, the reading and the loss of characters are kept straight, and as
\* long as the ring has never been full none is overwritten, neither in the ring
\* nor in the slot that was handed out; and no buffer is reported sent twice or
\* before its last character is out, flushed in between or not.
KuSound ==
  /\ CharactersInOrder /\ CharactersWhole /\ CharactersAccounted
  /\ ~kuWasFull => kuOverwritten = 0 /\ \A i \in DOMAIN kuRx : ~kuRx[i].torn
  /\ kuTold <= kuSent - (IF kuTx > 0 THEN 1 ELSE 0)

-----------------------------------------------------------------------------
(* The SPI slave.                                                          *)

CONSTANTS
  SlRing,     \* SPI_RX_RING_BUFFER
  SlInput,    \* aInputBufLen
  SlData,     \* bound: longest data of a packet
  SlPackets,  \* bound: packets
  SlPad       \* bound: zeros after a packet

SlHeader == 2
SlFlag == 9   \* the first byte of a header

ASSUME SlAssumption ==
  /\ SlRing \in Nat \ {0} /\ SlInput \in Nat /\ SlInput >= SlHeader
  /\ SlData \in Nat /\ SlPackets \in Nat /\ SlPad \in Nat

VARIABLES
  slBuf, slDma,   \* spiRxBuffer and the DMA's place in it
  slIn,           \* rxIn
  slLast,         \* the DMA's place seen last (RemainingBytesGlobal)
  slWire,         \* bytes of the transaction the host has not clocked yet
  slUnread,       \* history: bytes in the ring after rxIn
  slBusy,         \* nbBusyStateDuringSpiTrans
  slFirst,        \* firstBoot
  slArmed,        \* is an output frame prepared?
  slInt,          \* pulls of the interrupt line
  slSent, slGot   \* packets sent, and given to sCompleteCallback

slVars == <<slBuf, slDma, slIn, slLast, slWire, slUnread, slBusy, slFirst, slArmed, slInt, slSent, slGot>>

SlInit ==
  /\ slBuf = [i \in 0 .. SlRing - 1 |-> 0] /\ slDma = 0 /\ slIn = 0 /\ slLast = 0
  /\ slWire = << >> /\ slUnread = 0 /\ slBusy = 0 /\ slFirst = TRUE /\ slArmed = FALSE
  /\ slInt = 0 /\ slSent = << >> /\ slGot = << >>

-----------------------------------------------------------------------------
\* The host starts a transaction; data holds the packet's number.  The main
\* loop keeps up: it never has a whole ring to read.
Transaction(len, pad) ==
  LET data == [i \in 1 .. len |-> Len(slSent) + 1]
      bytes == <<SlFlag, len>> \o data \o [i \in 1 .. pad |-> 0]
  IN  /\ slWire = << >> /\ Len(slSent) < SlPackets
      /\ slUnread + Len(bytes) < SlRing
      /\ slWire' = bytes
      /\ slSent' = Append(slSent, data)
      /\ slArmed' = FALSE
      /\ UNCHANGED <<slBuf, slDma, slIn, slLast, slUnread, slBusy, slFirst, slInt, slGot>>

DmaByte ==
  /\ slWire # << >>
  /\ slBuf' = [slBuf EXCEPT ![slDma] = Head(slWire)]
  /\ slDma' = (slDma + 1) % SlRing
  /\ slWire' = Tail(slWire)
  /\ slUnread' = slUnread + 1
  /\ UNCHANGED <<slIn, slLast, slBusy, slFirst, slArmed, slInt, slSent, slGot>>

-----------------------------------------------------------------------------
\* spiCheckRxSate: a transaction is going on if the DMA has moved.
InProgress == slDma # slLast

At(i) == slBuf[(slIn + i) % SlRing]

\* Bytes received, and of these the leading ones that are skipped.
Received == (slDma - slIn + SlRing) % SlRing
Skipped == CHOOSE k \in 0 .. Received :
             /\ \A i \in 0 .. k - 1 : At(i) = 0
             /\ k < Received => At(k) # 0

\* Mutant: when bytes are missing the place goes back a byte too few.
BytesTakenOneMore ==
  LET k == Skipped  n == Received - k
  IN  IF n < SlHeader THEN k
      ELSE IF n < At(k + 1) + SlHeader THEN k + 1
      ELSE k + SlHeader + At(k + 1)

\* How far rxIn moves: past a whole packet, or to the start of one that is not
\* complete yet.
BytesTaken ==
  LET k == Skipped  n == Received - k
  IN  IF n < SlHeader \/ n < At(k + 1) + SlHeader THEN k
      ELSE k + SlHeader + At(k + 1)

Complete ==
  LET k == Skipped  n == Received - k
  IN  n >= SlHeader /\ n >= At(k + 1) + SlHeader

\* The packet, cut to the size of the input buffer.
Packet ==
  LET k == Skipped
      end == IF At(k + 1) + SlHeader > SlInput THEN SlInput - SlHeader ELSE At(k + 1)
  IN  [i \in 1 .. end |-> At(k + SlHeader + i - 1)]

\* K32WSpiSlaveProcess.
K32WSpiSlaveProcess ==
  /\ slLast' = slDma
  /\ IF InProgress
       THEN UNCHANGED <<slIn, slUnread, slGot, slBusy>>
       ELSE /\ slIn' = (slIn + BytesTaken) % SlRing
            /\ slUnread' = slUnread - BytesTaken
            /\ IF Complete
                 THEN slGot' = Append(slGot, Packet) /\ slBusy' = 0
                 ELSE UNCHANGED <<slGot, slBusy>>
  /\ UNCHANGED <<slBuf, slDma, slWire, slFirst, slArmed, slInt, slSent>>

\* otPlatSpiSlavePrepareTransaction: refused while the DMA moves, but for the
\* pull of the line on the first call; three refusals tell the NCP to send its
\* frame again.
otPlatSpiSlavePrepareTransaction(request) ==
  /\ slLast' = slDma
  /\ slFirst' = FALSE
  /\ slArmed' = (slArmed \/ ~InProgress)
  /\ slInt' = IF request /\ (~InProgress \/ slFirst) THEN 1 ELSE slInt
  /\ slBusy' = IF InProgress /\ slBusy < 3 THEN slBusy + 1 ELSE slBusy
  /\ UNCHANGED <<slBuf, slDma, slIn, slWire, slUnread, slSent, slGot>>

SlNext ==
  \/ DmaByte \/ K32WSpiSlaveProcess
  \/ \E request \in BOOLEAN : otPlatSpiSlavePrepareTransaction(request)
  \/ \E len \in 0 .. SlData, pad \in 0 .. SlPad : Transaction(len, pad)

-----------------------------------------------------------------------------
\* The packets come out of the ring whole, once and in order, across its end,
\* with zeros between them and with the DMA halfway through a header when the
\* main loop looks (a packet longer than the input buffer is cut).
SlInOrder ==
  LET cut(d) == SubSeq(d, 1, IF Len(d) + SlHeader > SlInput THEN SlInput - SlHeader ELSE Len(d))
  IN  IsPrefix(slGot, [i \in DOMAIN slSent |-> cut(slSent[i])])
=============================================================================
