----------------------------- MODULE NbuSystem ------------------------------
(***************************************************************************)
(* OpenThread on the radio core of the MCXW72 (src/src/mcxw/mcxw72_nbu):   *)
(* its settings (settings.c), which the main core stores, and the requests *)
(* to the main core (system.c), which share one RPMSG stream with the text *)
(* of the console.  The main core is examples/helper/ncp_basic: ncp_basic.c*)
(* and serial_rpmsg.c.                                                     *)
(*                                                                         *)
(* The radio core shares the settings with the main core in memory and     *)
(* waits for each request in a loop on a status byte.                      *)
(***************************************************************************)
EXTENDS TlvRecords, Integers

CONSTANTS
  ReqLen,    \* SVC_EXT_CMD_LEN, bytes of a request
  MaxText,   \* bound: characters on the console
  NoData     \* no settings in the NVM; no reset asked for

ASSUME NbuAssumption == ReqLen \in Nat /\ ReqLen > 1 /\ MaxText \in Nat

VARIABLES
  nbPc,       \* where the radio core is
  nbBuf,      \* ot_settings_buffer, in shared memory
  nbDone,     \* its status byte, and that of ieee_addr
  svWire,     \* bytes on their way
  svRing,     \* bytes in the main core's ring buffer
  svPend,     \* rx_data_pending
  mcPc,       \* where the main core is
  mcHand,     \* rx_buff, from data[cnt]
  mcCmd,      \* tmp_cmd, its first tmp_cmd_len bytes
  mcSet,      \* plat_settings.ram_buff; NoData while its status is 0
  mcNvm,      \* NVM module: the data set in flash
  nbText, mcText,   \* history: characters written and printed
  nbKept      \* history: settings when OpenThread asked for a reset, until
              \* it changes them

nbVars == <<nbPc, nbBuf, nbDone>>
svVars == <<svWire, svRing, svPend>>
mcVars == <<mcPc, mcHand, mcCmd, mcSet, mcNvm>>
hsVars == <<nbText, mcText, nbKept>>
nbuVars == <<nbVars, svVars, mcVars, hsVars>>

Request == {"reset", "addr", "load", "save"}
Text == "text"

\* A request: its identifier, then bytes that might be text.
Bytes(r) == <<r>> \o [i \in 1 .. ReqLen - 1 |-> Text]

\* Both cores start: plat_restore_plat_settings, then otSysInit.
Start(nvm) ==
  /\ nbPc = "off" /\ nbBuf = << >> /\ nbDone = FALSE
  /\ svWire = << >> /\ svRing = << >> /\ svPend = FALSE
  /\ mcPc = "loop" /\ mcHand = << >> /\ mcCmd = << >>
  /\ mcSet = nvm /\ mcNvm = nvm
  /\ nbText = 0 /\ mcText = 0

ServicesInit == Start(NoData) /\ nbKept = NoData

Restart(nvm) ==
  /\ nbPc' = "off" /\ nbBuf' = << >> /\ nbDone' = FALSE
  /\ svWire' = << >> /\ svRing' = << >> /\ svPend' = FALSE
  /\ mcPc' = "loop" /\ mcHand' = << >> /\ mcCmd' = << >>
  /\ mcSet' = nvm /\ mcNvm' = nvm
  /\ nbText' = 0 /\ mcText' = 0

-----------------------------------------------------------------------------
(* The radio core.                                                         *)

\* otPlatUartSend: the bytes follow what was written before.
Send(bytes) == svWire' = svWire \o bytes

\* The status byte is cleared before the request leaves.
Asks(r, pc) ==
  /\ nbDone' = FALSE
  /\ Send(Bytes(r))
  /\ nbPc' = pc

\* plat_init_ieee_802_15_4_addr.
plat_init_ieee_802_15_4_addr ==
  /\ nbPc = "off"
  /\ Asks("addr", "addr")
  /\ UNCHANGED <<nbBuf, svRing, svPend, mcVars, hsVars>>

\* otPlatSettingsInit: the buffer is cleared, then plat_settings_load.
plat_settings_load ==
  /\ nbPc = "addr" /\ nbDone
  /\ nbBuf' = << >>
  /\ Asks("load", "load")
  /\ UNCHANGED <<svRing, svPend, mcVars, hsVars>>

\* The loops on the status byte end.
Answered ==
  /\ nbPc \in {"load", "save"} /\ nbDone
  /\ nbPc' = "run"
  /\ UNCHANGED <<nbBuf, nbDone, svVars, mcVars, hsVars>>

\* plat_settings_save at the end of every call that changes the buffer.
plat_settings_save(b) ==
  /\ nbPc = "run"
  /\ nbBuf' = b
  /\ Asks("save", "save")
  /\ nbKept' = NoData
  /\ UNCHANGED <<svRing, svPend, mcVars, nbText, mcText>>

NbuAdd(k, v) == AddFits(nbBuf, v) /\ plat_settings_save(Added(nbBuf, k, v))

NbuSet(k, v) == SetFits(nbBuf, k, v) /\ plat_settings_save(WithSet(nbBuf, k, v))

NbuDelete(k, i) == Has(nbBuf, k) /\ plat_settings_save(Without(nbBuf, k, i))

NbuWipe == plat_settings_save(<< >>)

\* Console output.
otPlatUartSend ==
  /\ nbPc = "run" /\ nbText < MaxText
  /\ Send(<<Text>>)
  /\ nbText' = nbText + 1
  /\ UNCHANGED <<nbVars, svRing, svPend, mcVars, mcText, nbKept>>

\* otPlatReset: the radio core resets itself right after its request.
otPlatReset ==
  /\ nbPc = "run"
  /\ Send(Bytes("reset"))
  /\ nbPc' = "off" /\ nbKept' = nbBuf
  /\ UNCHANGED <<nbBuf, nbDone, svRing, svPend, mcVars, nbText, mcText>>

-----------------------------------------------------------------------------
(* The RPMSG adapter and the main core's loop.                             *)

\* Bytes reach the ring buffer, then rx_cb.
rx_cb ==
  \E n \in 1 .. Len(svWire) :
    /\ svRing' = svRing \o SubSeq(svWire, 1, n)
    /\ svWire' = SubSeq(svWire, n + 1, Len(svWire))
    /\ svPend' = TRUE
    /\ UNCHANGED <<nbVars, mcVars, hsVars>>

\* serial_rpmsg_process clears the flag first...
serial_rpmsg_process ==
  /\ mcPc = "loop" /\ svPend
  /\ svPend' = FALSE /\ mcPc' = "read"
  /\ UNCHANGED <<nbVars, svWire, svRing, mcHand, mcCmd, mcSet, mcNvm, hsVars>>

\* ... and reads all there is.
SerialManager_TryRead ==
  /\ mcPc = "read"
  /\ mcHand' = svRing /\ svRing' = << >>
  /\ mcPc' = IF svRing = << >> THEN "loop" ELSE "parse"
  /\ UNCHANGED <<nbVars, svWire, svPend, mcCmd, mcSet, mcNvm, hsVars>>

Took == mcHand' = Tail(mcHand)
ParsesOn == mcPc' = IF Len(mcHand) = 1 THEN "loop" ELSE "parse"

\* A byte of a request: the first of its kind, or any byte while one is open.
Collects == mcPc = "parse" /\ (mcCmd # << >> \/ Head(mcHand) \in Request)

\* Mutant: an unfinished request is dropped at the end of the data.
FillDropped ==
  /\ Collects /\ Len(mcCmd) + 1 < ReqLen
  /\ Took /\ ParsesOn
  /\ mcCmd' = IF Len(mcHand) = 1 THEN << >> ELSE Append(mcCmd, Head(mcHand))
  /\ UNCHANGED <<nbVars, svVars, mcSet, mcNvm, hsVars>>

\* plat_cmd_process: the request stays in tmp_cmd until it is complete.
FillCommand ==
  /\ Collects /\ Len(mcCmd) + 1 < ReqLen
  /\ Took /\ ParsesOn
  /\ mcCmd' = Append(mcCmd, Head(mcHand))
  /\ UNCHANGED <<nbVars, svVars, mcSet, mcNvm, hsVars>>

\* Other bytes are printed.
PrintText ==
  /\ mcPc = "parse" /\ ~Collects
  /\ Took /\ ParsesOn
  /\ mcText' = mcText + 1
  /\ UNCHANGED <<nbVars, svVars, mcCmd, mcSet, mcNvm, nbText, nbKept>>

\* The last byte of request r is there.
Complete(r) == Collects /\ Len(mcCmd) + 1 = ReqLen /\ mcCmd[1] = r

\* plat_reset: NvShutdown, then the whole system restarts.
CmdReset == Complete("reset") /\ Restart(mcNvm) /\ UNCHANGED nbKept

CmdAddr ==
  /\ Complete("addr") /\ Took /\ ParsesOn
  /\ mcCmd' = << >> /\ nbDone' = TRUE
  /\ UNCHANGED <<nbPc, nbBuf, svVars, mcSet, mcNvm, hsVars>>

\* Mutant: the request is answered if there are settings.
LoadAnswersIfValid ==
  /\ Complete("load") /\ Took /\ ParsesOn
  /\ mcCmd' = << >>
  /\ nbBuf' = IF mcSet # NoData THEN mcSet ELSE nbBuf
  /\ nbDone' = (mcSet # NoData)
  /\ UNCHANGED <<nbPc, svVars, mcSet, mcNvm, hsVars>>

\* The settings are copied if there are any.
CmdLoad ==
  /\ Complete("load") /\ Took /\ ParsesOn
  /\ mcCmd' = << >>
  /\ nbBuf' = IF mcSet # NoData THEN mcSet ELSE nbBuf
  /\ nbDone' = TRUE
  /\ UNCHANGED <<nbPc, svVars, mcSet, mcNvm, hsVars>>

\* Copied, answered, and only then stored.
CmdSave ==
  /\ Complete("save") /\ Took
  /\ mcCmd' = << >>
  /\ mcSet' = nbBuf /\ nbDone' = TRUE
  /\ mcPc' = "sync"
  /\ UNCHANGED <<nbPc, nbBuf, svVars, mcNvm, hsVars>>

\* Mutant: the settings are stored when the NVM module is next idle.
SyncLater ==
  /\ mcPc = "sync"
  /\ mcPc' = IF mcHand = << >> THEN "loop" ELSE "parse"
  /\ UNCHANGED <<nbVars, svVars, mcHand, mcCmd, mcSet, mcNvm, hsVars>>

NvSyncSave ==
  /\ mcPc = "sync"
  /\ mcNvm' = mcSet
  /\ mcPc' = IF mcHand = << >> THEN "loop" ELSE "parse"
  /\ UNCHANGED <<nbVars, svVars, mcHand, mcCmd, mcSet, hsVars>>

NbuPowerLoss == Restart(mcNvm) /\ nbKept' = NoData

McStep ==
  \/ rx_cb \/ serial_rpmsg_process \/ SerialManager_TryRead
  \/ FillCommand \/ PrintText \/ CmdReset \/ CmdAddr \/ CmdLoad \/ CmdSave
  \/ NvSyncSave

NbuStep == plat_init_ieee_802_15_4_addr \/ plat_settings_load \/ Answered

ServicesNext ==
  \/ McStep \/ NbuStep \/ NbuPowerLoss \/ otPlatReset \/ otPlatUartSend
  \/ NbuWipe
  \/ \E k \in Key, v \in Value : NbuAdd(k, v) \/ NbuSet(k, v)
  \/ \E k \in Key, i \in {-1, 0} : NbuDelete(k, i)

\* Both cores run.
ServicesFairness == WF_nbuVars(McStep) /\ WF_nbuVars(NbuStep)

-----------------------------------------------------------------------------
\* After a reset that OpenThread asked for it finds the settings it had: the
\* main core answers a save before it stores it, but handles the request for
\* the reset, which waits behind it, after that.
NbuResetKeeps == nbPc = "run" /\ nbKept # NoData => nbBuf = nbKept

\* Every character that OpenThread prints comes out once, and no byte of a
\* request does, however the stream is cut: once all bytes are through, as many
\* characters were printed as written.
ConsoleWhole ==
  svWire \o svRing \o mcHand = << >> => mcText = nbText /\ mcCmd = << >>

\* The radio core does not wait for ever in a loop on a status byte.
NbuWaitEnds == (nbPc \in {"addr", "load", "save"}) ~> (nbPc \in {"off", "run"})

-----------------------------------------------------------------------------
(***************************************************************************)
(* Console input on the MCXW72 with OpenThread on the radio core: from the *)
(* main core's UART (examples/helper/ncp_basic/serial_uart.c) over RPMSG   *)
(* to src/src/mcxw/mcxw72_nbu/uart.c.  Each core sleeps when nothing       *)
(* forbids it; a callback forbids it until its data has been read.         *)
(***************************************************************************)

CONSTANTS
  MaxTyped   \* bound: characters typed

Core == {"main", "radio"}

VARIABLES
  typed,    \* characters typed
  ring,     \* characters in each core's ring buffer
  onWire,   \* characters between the cores
  rxFired,    \* rx_data_pending and sUartRxFired
  lpCnt,    \* each core's counter of reasons not to sleep (lp_cnt)
  reading,  \* between the test of the flag and the read?
  asleep,
  got       \* characters passed to otPlatUartReceived

serVars == <<typed, ring, onWire, rxFired, lpCnt, reading, asleep, got>>

SerialInit ==
  /\ typed = 0 /\ onWire = 0 /\ got = 0
  /\ ring = [c \in Core |-> 0] /\ lpCnt = ring
  /\ rxFired = [c \in Core |-> FALSE] /\ reading = rxFired /\ asleep = rxFired

\* PWR_DisallowDeviceToSleep and PWR_AllowDeviceToSleep stop at their ends.
Disallowed(n) == IF n < 255 THEN n + 1 ELSE n
Allowed(n) == IF n > 0 THEN n - 1 ELSE n

\* Mutant: the callback does not forbid the sleep.
RxCallBackSleeps(c, n) ==
  /\ ring' = [ring EXCEPT ![c] = @ + n]
  /\ rxFired' = [rxFired EXCEPT ![c] = TRUE]
  /\ asleep' = [asleep EXCEPT ![c] = FALSE]
  /\ UNCHANGED <<lpCnt, reading, got>>

\* Uart_RxCallBack, and rx_cb on the main core: once for any number of calls.
RxCallBack(c, n) ==
  /\ ring' = [ring EXCEPT ![c] = @ + n]
  /\ rxFired' = [rxFired EXCEPT ![c] = TRUE]
  /\ lpCnt' = IF rxFired[c] THEN lpCnt ELSE [lpCnt EXCEPT ![c] = Disallowed(@)]
  /\ asleep' = [asleep EXCEPT ![c] = FALSE]
  /\ UNCHANGED <<reading, got>>

Type ==
  /\ typed < MaxTyped
  /\ typed' = typed + 1
  /\ RxCallBack("main", 1)
  /\ UNCHANGED onWire

RpmsgArrives ==
  /\ onWire > 0
  /\ onWire' = 0
  /\ RxCallBack("radio", onWire)
  /\ UNCHANGED typed

\* serial_uart_process and otPlatUartProcess: with interrupts off the flag is
\* tested and cleared.
TakeFlag(c) ==
  /\ ~asleep[c] /\ ~reading[c] /\ rxFired[c]
  /\ rxFired' = [rxFired EXCEPT ![c] = FALSE]
  /\ lpCnt' = [lpCnt EXCEPT ![c] = Allowed(@)]
  /\ reading' = [reading EXCEPT ![c] = TRUE]
  /\ UNCHANGED <<typed, ring, onWire, asleep, got>>

\* Then all of the ring buffer goes to the radio core (serial_rpmsg_tx)...
serial_uart_process ==
  /\ reading["main"]
  /\ reading' = [reading EXCEPT !["main"] = FALSE]
  /\ onWire' = onWire + ring["main"]
  /\ ring' = [ring EXCEPT !["main"] = 0]
  /\ UNCHANGED <<typed, rxFired, lpCnt, asleep, got>>

\* ... or to OpenThread.
otPlatUartProcess ==
  /\ reading["radio"]
  /\ reading' = [reading EXCEPT !["radio"] = FALSE]
  /\ got' = got + ring["radio"]
  /\ ring' = [ring EXCEPT !["radio"] = 0]
  /\ UNCHANGED <<typed, onWire, rxFired, lpCnt, asleep>>

\* otSysProcessDrivers and the main core's idle: the counter is tested with
\* interrupts off.
EnterLowPower(c) ==
  /\ ~reading[c] /\ ~asleep[c] /\ lpCnt[c] = 0
  /\ asleep' = [asleep EXCEPT ![c] = TRUE]
  /\ UNCHANGED <<typed, ring, onWire, rxFired, lpCnt, reading, got>>

SerialStep ==
  \/ RpmsgArrives \/ serial_uart_process \/ otPlatUartProcess
  \/ \E c \in Core : TakeFlag(c)

SerialRest == typed = MaxTyped /\ got = MaxTyped /\ UNCHANGED serVars

SerialNext == Type \/ SerialStep \/ (\E c \in Core : EnterLowPower(c)) \/ SerialRest

SerialFairness == WF_serVars(SerialStep)

-----------------------------------------------------------------------------
\* What is typed on the main core's UART reaches OpenThread on the radio core,
\* although both cores sleep whenever nothing forbids it and the flags stand
\* for any number of callbacks.
InputArrives == (got < typed) ~> (got = typed)
=============================================================================
