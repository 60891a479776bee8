------------------------------ MODULE McxwUart ------------------------------
(***************************************************************************)
(* The serial port of the MCXW devices: src/src/mcxw/platform/uart.c.      *)
(* otPlatUartSend and the interrupt that ends a write both change the      *)
(* count of writes in progress; the increment is a load and a store.       *)
(***************************************************************************)
EXTENDS Integers

CONSTANTS
  MuWrites,  \* bound: writes
  MuTyped    \* bound: characters received

VARIABLES
  muCount,   \* gTxCntSerMgrIf
  muStore,   \* what otPlatUartSend has loaded and is about to store, or -1
  muCounted, \* the write's count is stored; SerialManager_WriteNonBlocking is next
  muUndo,    \* the write was refused: the count is to be taken back
  muOut,     \* writes the serial manager works on
  muSent,
  muFlush,   \* gTxFlush
  muFlushed, \* did the last flush end because the count was zero?
  muRing, muFired, muLock, muRead, muTyped, muGot   \* receiving

muTx == <<muCount, muStore, muCounted, muUndo, muOut, muSent, muFlush, muFlushed>>
muRx == <<muRing, muFired, muLock, muRead, muTyped, muGot>>
muVars == <<muTx, muRx>>

MuInit ==
  /\ muCount = 0 /\ muStore = -1 /\ muCounted = FALSE /\ muUndo = FALSE /\ muOut = 0
  /\ muSent = 0 /\ muFlush = FALSE /\ muFlushed = FALSE
  /\ muRing = 0 /\ muFired = FALSE /\ muLock = 0 /\ muRead = FALSE /\ muTyped = 0 /\ muGot = 0

MuIdle == muStore = -1 /\ ~muCounted /\ ~muUndo /\ ~muFlush

-----------------------------------------------------------------------------
(* Sending.                                                                *)

\* otPlatUartSend loads the count...
MuSend ==
  /\ MuIdle /\ muSent < MuWrites
  /\ muSent' = muSent + 1
  /\ muStore' = muCount + 1
  /\ muFlushed' = FALSE
  /\ UNCHANGED <<muCount, muCounted, muUndo, muOut, muFlush, muRx>>

\* ... stores it plus one (or, for a write that was refused, minus one)...
MuStore ==
  /\ muStore # -1
  /\ muCount' = muStore
  /\ muStore' = -1
  /\ muCounted' = ~muUndo /\ muUndo' = FALSE
  /\ UNCHANGED <<muOut, muSent, muFlush, muFlushed, muRx>>

\* ... and starts the write.
MuWrite(ok) ==
  /\ muCounted
  /\ muCounted' = FALSE
  /\ IF ok THEN muOut' = muOut + 1 /\ UNCHANGED <<muStore, muUndo>>
           ELSE muStore' = muCount - 1 /\ muUndo' = TRUE /\ UNCHANGED muOut
  /\ UNCHANGED <<muCount, muSent, muFlush, muFlushed, muRx>>

\* Mutant: the callback takes all writes for done.
TxCallBackAll(again) ==
  /\ muOut > 0
  /\ muOut' = muOut - 1
  /\ muCount' = 0
  /\ UNCHANGED <<muStore, muCounted, muUndo, muSent, muFlush, muFlushed, muRx>>

\* Uart_TxCallBack, in the interrupt.  Unless the main loop waits in a flush
\* otPlatUartSendDone follows, from which OpenThread may send again: the
\* interrupt then counts and starts the next write itself.
Uart_TxCallBack(again) ==
  /\ muOut > 0
  /\ again => ~muFlush /\ muSent < MuWrites
  /\ LET counted == IF muCount > 0 THEN muCount - 1 ELSE 0
     IN  IF again
         THEN muCount' = counted + 1 /\ muSent' = muSent + 1 /\ UNCHANGED muOut
         ELSE muCount' = counted /\ muOut' = muOut - 1 /\ UNCHANGED muSent
  /\ UNCHANGED <<muStore, muCounted, muUndo, muFlush, muFlushed, muRx>>

\* otPlatUartFlush: until the count is zero, or for FLUSH_TO_MS.  A flush within
\* a flush returns at once.
MuFlushBegin ==
  /\ MuIdle
  /\ muFlush' = TRUE
  /\ UNCHANGED <<muCount, muStore, muCounted, muUndo, muOut, muSent, muFlushed, muRx>>

MuFlushEnd(timeout) ==
  /\ muFlush /\ (timeout <=> muCount # 0)
  /\ muFlush' = FALSE
  /\ muFlushed' = ~timeout
  /\ UNCHANGED <<muCount, muStore, muCounted, muUndo, muOut, muSent, muRx>>

-----------------------------------------------------------------------------
(* Receiving.                                                              *)

\* Uart_RxCallBack.
Uart_RxCallBack ==
  /\ muTyped < MuTyped
  /\ muTyped' = muTyped + 1
  /\ muRing' = muRing + 1
  /\ muFired' = TRUE
  /\ muLock' = IF muFired THEN muLock ELSE muLock + 1
  /\ UNCHANGED <<muRead, muGot, muTx>>

\* otPlatUartProcess takes the flag and the sleep lock with interrupts off...
MuProcess ==
  /\ muFired /\ ~muRead
  /\ muFired' = FALSE /\ muLock' = muLock - 1 /\ muRead' = TRUE
  /\ UNCHANGED <<muRing, muTyped, muGot, muTx>>

\* ... and then reads what there is.
MuTryRead ==
  /\ muRead
  /\ muRead' = FALSE
  /\ muGot' = muGot + muRing /\ muRing' = 0
  /\ UNCHANGED <<muFired, muLock, muTyped, muTx>>

MuRest == muSent = MuWrites /\ muTyped = MuTyped /\ UNCHANGED muVars

MuNext ==
  \/ MuSend \/ MuStore \/ (\E ok \in BOOLEAN : MuWrite(ok)) \/ (\E again \in BOOLEAN : Uart_TxCallBack(again))
  \/ MuFlushBegin \/ (\E timeout \in BOOLEAN : MuFlushEnd(timeout))
  \/ Uart_RxCallBack \/ MuProcess \/ MuTryRead \/ MuRest

-----------------------------------------------------------------------------
\* A flush that ends before its time-out leaves no write in progress, although
\* an interrupt between the load and the store of the count is lost; and no
\* character waits in the ring with nobody awake to read it.
MuSound ==
  /\ muFlushed => muOut = 0
  /\ muRing > 0 => (muFired /\ muLock = 1) \/ muRead
=============================================================================
