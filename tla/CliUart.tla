------------------------------ MODULE CliUart ------------------------------
(***************************************************************************)
(* The serial port of the FreeRTOS applications: src/src/common/uart.c and *)
(* the OpenThread task that drives it (examples/cli/app_ot_freertos.c).    *)
(* The serial manager's callbacks come between any two steps of that task, *)
(* except while it has interrupts disabled.                                *)
(***************************************************************************)
EXTENDS Integers

CONSTANTS
  MaxOut,    \* bound: buffers OpenThread sends
  MaxIn,     \* bound: characters that arrive
  InRing     \* OT_PLAT_UART_SERIAL_MANAGER_RING_BUFFER_SIZE

VARIABLES
  cuOn,      \* otPlatUartEnabled
  cuPc,      \* where the OpenThread task is
  cuIrqOff,  \* interrupts disabled
  cuBusy,    \* serial manager: a write is in progress
  txDone,
  cuRing,    \* characters in the serial manager's ring buffer
  cuSignal,  \* is the task notified?
  cuLeft,    \* buffers OpenThread has still to send
  cuOwed,    \* OpenThread: a buffer was sent and its end not yet reported
  cuIn       \* characters that arrived and were not lost to a full ring

cuVars == <<cuOn, cuPc, cuIrqOff, cuBusy, txDone, cuRing, cuSignal, cuLeft, cuOwed, cuIn>>

UartInit ==
  /\ cuOn = FALSE /\ cuPc = "process" /\ cuIrqOff = FALSE
  /\ cuBusy = FALSE /\ txDone = FALSE /\ cuSignal = FALSE /\ cuOwed = FALSE
  /\ cuRing = 0 /\ cuLeft = MaxOut /\ cuIn = 0

\* otPlatUartEnable; it succeeds or leaves the port off.
UartEnable ==
  /\ ~cuOn /\ cuPc = "wait"
  /\ cuOn' = TRUE
  /\ UNCHANGED <<cuPc, cuIrqOff, cuBusy, txDone, cuRing, cuSignal, cuLeft, cuOwed, cuIn>>

\* OpenThread sends its next buffer, when the last one was reported.
UartSendNext ==
  IF cuLeft > 0
    THEN cuBusy' = TRUE /\ cuLeft' = cuLeft - 1 /\ cuOwed' = TRUE
    ELSE cuOwed' = FALSE /\ UNCHANGED <<cuBusy, cuLeft>>

\* otPlatUartSend from OpenThread's tasklets.
UartSend ==
  /\ cuPc = "wait" /\ cuOn /\ ~cuOwed /\ cuLeft > 0
  /\ UartSendNext
  /\ UNCHANGED <<cuOn, cuPc, cuIrqOff, txDone, cuRing, cuSignal, cuIn>>

\* Uart_TxCallBack and Uart_RxCallBack wake the task.
Uart_TxCallBack ==
  /\ cuBusy /\ ~cuIrqOff
  /\ cuBusy' = FALSE /\ txDone' = TRUE /\ cuSignal' = TRUE
  /\ UNCHANGED <<cuOn, cuPc, cuIrqOff, cuRing, cuLeft, cuOwed, cuIn>>

Uart_RxCallBack ==
  /\ cuOn /\ ~cuIrqOff /\ cuIn < MaxIn /\ cuRing < InRing
  /\ cuRing' = cuRing + 1 /\ cuIn' = cuIn + 1 /\ cuSignal' = TRUE
  /\ UNCHANGED <<cuOn, cuPc, cuIrqOff, cuBusy, txDone, cuLeft, cuOwed>>

-----------------------------------------------------------------------------
(* otPlatCliUartProcess, and otPlatUartFlush.                              *)

ReadAll ==
  /\ cuPc = "process"
  /\ cuRing' = IF cuOn THEN 0 ELSE cuRing
  /\ cuPc' = "test"
  /\ UNCHANGED <<cuOn, cuIrqOff, cuBusy, txDone, cuSignal, cuLeft, cuOwed, cuIn>>

\* Mutant: interrupts stay enabled.
TestIrqOn ==
  /\ cuPc = "test"
  /\ cuPc' = IF txDone THEN "done" ELSE "wait"
  /\ UNCHANGED <<cuOn, cuIrqOff, cuBusy, txDone, cuRing, cuSignal, cuLeft, cuOwed, cuIn>>

\* DisableGlobalIRQ and the test.
TestDone ==
  /\ cuPc = "test"
  /\ cuPc' = IF txDone THEN "done" ELSE "wait"
  /\ cuIrqOff' = txDone
  /\ UNCHANGED <<cuOn, cuBusy, txDone, cuRing, cuSignal, cuLeft, cuOwed, cuIn>>

\* otPlatUartSendDone: OpenThread may send the next buffer from in there.
UartSendDone ==
  /\ cuPc = "done"
  /\ UartSendNext
  /\ cuPc' = "clear"
  /\ UNCHANGED <<cuOn, cuIrqOff, txDone, cuRing, cuSignal, cuIn>>

ClearDone ==
  /\ cuPc = "clear"
  /\ txDone' = FALSE /\ cuIrqOff' = FALSE
  /\ cuPc' = "wait"
  /\ UNCHANGED <<cuOn, cuBusy, cuRing, cuSignal, cuLeft, cuOwed, cuIn>>

\* ulTaskNotifyTake, at the end of the main loop.
NotifyTake ==
  /\ cuPc = "wait" /\ cuSignal
  /\ cuSignal' = FALSE /\ cuPc' = "process"
  /\ UNCHANGED <<cuOn, cuIrqOff, cuBusy, txDone, cuRing, cuLeft, cuOwed, cuIn>>

\* OpenThread flushes a buffer it has sent: the task sleeps until the flag is
\* set, takes it, and counts the buffer as gone.
FlushBegin ==
  /\ cuPc = "wait" /\ cuOwed
  /\ cuPc' = "flush"
  /\ UNCHANGED <<cuOn, cuIrqOff, cuBusy, txDone, cuRing, cuSignal, cuLeft, cuOwed, cuIn>>

FlushEnd ==
  /\ cuPc = "flush" /\ txDone
  /\ txDone' = FALSE /\ cuOwed' = FALSE
  /\ cuPc' = "wait"
  /\ UNCHANGED <<cuOn, cuIrqOff, cuBusy, cuRing, cuSignal, cuLeft, cuIn>>

\* otPlatUartDisable, which OpenThread calls when nothing is on its way.
UartDisable ==
  /\ cuPc = "wait" /\ cuOn /\ ~cuOwed
  /\ cuOn' = FALSE
  /\ UNCHANGED <<cuPc, cuIrqOff, cuBusy, txDone, cuRing, cuSignal, cuLeft, cuOwed, cuIn>>

UartTask == ReadAll \/ TestDone \/ UartSendDone \/ ClearDone \/ NotifyTake \/ FlushEnd

UartRest == cuPc = "wait" /\ ~cuSignal /\ UNCHANGED cuVars

UartNext ==
  \/ UartTask \/ UartEnable \/ UartSend \/ Uart_TxCallBack \/ Uart_RxCallBack
  \/ FlushBegin \/ UartDisable \/ UartRest

UartFairness == WF_cuVars(UartTask) /\ WF_cuVars(Uart_TxCallBack)

-----------------------------------------------------------------------------
\* The end of every buffer is reported, or a flush waits for it, also when the
\* next buffer is sent from the report and is through at once, and although
\* Flush takes the flag that otPlatCliUartProcess looks at.
SendIsReported == cuOwed ~> ~cuOwed
=============================================================================
