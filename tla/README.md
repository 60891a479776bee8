# TLA+ models of the NXP platform layer for OpenThread

The repository (`src/`) is NXP's port of OpenThread: what OpenThread calls to
use a radio, a clock, a flash memory, a serial line and a network interface on
NXP's chips, and the firmware around it (radio co-processors, a network
co-processor for a Matter host, a border router). OpenThread itself, the SDK
(PHY, timer manager, PDM, NVM, file systems, FreeRTOS) and lwIP are other
projects; here they are the environment, modelled from how this code uses them.

The code is small-scale concurrent: interrupt handlers against one task, two
tasks around a mutex, two cores around a stream, an idle task that saves what
another task changes. The project models those parts step by step, checks them
with TLC on small instances and proves the results that matter most with TLAPS.

## 1. Inventory

| component | state | operations | hard part |
|---|---|---|---|
| mcxw radio driver, `mcxw/platform/radio.c` | `sState`, `sChannel`, receive ring, about ten flags, sleep and NBU locks | the `otPlatRadio*` calls, two PHY handlers, `otPlatRadioProcess` | handlers interrupt the task between any two accesses; no lock |
| mcxw alarms and loop, `alarm.c`, `system.c` | software clock, two timers, fired flags, sleep lock | `StartAt`, `Stop`, `otPlatTimeGet`, timer callbacks, `otSysProcessDrivers` | wrap-around, interrupt between the test for work and WFI |
| mcxw serial port, `mcxw/platform/uart.c` | count of writes, receive flag | `Send`, `Flush`, `Process`, callbacks | the count is incremented in two steps |
| settings in a file, `common/flash_fsa.c`, `flash_littlefs.c` | RAM buffer of records, save flag, idle copy, file | `Get`, `Set`, `Add`, `Delete`, `Wipe`, save on idle, reset | save in the idle task, power loss, failing writes, records that must stay adjacent |
| settings in NVM and key-value store, `flash_nvm.c`, `flash_nvs.c` | mirrored buffer; named entries | the same calls | saves on idle or at once; indices in names |
| settings in the PDM, `k32w0/platform/flash_pdm.c`, `pdm_ram_storage_glue.c`, `common/ram_storage.c` | RAM buffer that grows, queue of saves, PDM records | the same calls, `FS_vIdleTask`, recalibration interrupt | two mutexes, a queue without a test for full, an interrupt without mutexes |
| flash pages, `k32w0/platform/flash.c` | pages | read, write, erase | page is erased before it is programmed |
| Spinel over HDLC and SPI, `common/spinel/*` | frame buffers, full flag, event group, encoder; interrupt counter, lengths | `ProcessRxData`, `TryReadAndDecode`, `WaitForFrame`, `SendFrame`; `PushPullSpi` | flow control between two tasks; full-duplex exchanges whose length is guessed |
| radio commands, `radio_cli.c`, `radio.cpp`, `iwx12_vendor_hook.cpp` | the radio's registers | manufacturing, power, CCA, EUI-64, AES commands | numbers converted five times |
| K32W0 radio driver, `k32w0/platform/radio.c` | state, ring, channel, source match tables, frame counter | `otPlatRadio*`, `K32WISR`, `K32WRadioProcess` | interrupt against the main loop, no lock |
| K32W0 serial links, `uart.c`, `spi_slave.c`, `nxp_vendor_hook.cpp` | rings, DMA position, transmit buffer | characters, transactions, HCI beside Spinel | a ring written by DMA, a response that must find room |
| K32W0 alarms and loop, `alarm.c`, `system.c` | targets, wake timer, oscillator | `StartAt`, `Stop`, callbacks, calibration | 28-bit timer, times that wrap |
| FreeRTOS alarm and serial port, `common/alarm_freertos.c`, `common/uart.c` | software timer, fired flag; tx flag | `StartAt`, `Stop`, callback; `Send`, `Flush`, `Process` | orders to the timer task in a queue |
| mcxw72 radio core, `mcxw72_nbu/*`, `examples/helper/ncp_basic/*` | shared settings buffer, RPMSG stream, parse state | settings, reset, console in both directions | requests and text in one stream, two cores that sleep |
| border router, `common/br/*` | sockets, DNS transactions, listeners, link state, groups | lwIP callbacks posted to OpenThread's task and back | sockets closed while packets are on their way |
| lwIP bridge, `common/lwip/*` | two mutexes, mailbox, token bucket, address table | receive, transmit, refill, `UpdateState` | order of the mutexes; a small table kept in step with a list |
| network co-processor, `common/ncp/*` | command queues, contexts, reply buffer, sleep handshake | 100 host calls, callbacks, notifications, sleep | one static reply buffer, a binary semaphore for many commands |
| iperf command, `iperf_cli.c` | one context, sessions, timer | start, abort, reports | context written by one thread and read by another |
| crypto, logging, diagnostics, entropy, boards | none to speak of | library calls | - |

OpenThread calls the platform from one task (`otTaskletsProcess`,
`otSysProcessDrivers` in a loop). Handlers and callbacks leave their results in
flags, rings or buffers, take a sleep lock or signal the loop, and the loop
calls OpenThread back, which may call the platform again from inside. With lwIP
there is a second thread; calls between the two go through mailboxes or hold
both mutexes. `PROJECT.json` lists every component with its status and, under
`hazards`, what is hard to test in this code with the line where it bites.

## 2. Modules

**MCXW** (`MCMcxw` puts them on one bench; `McxwRadio` has configurations of its own)

| module | models |
|---|---|
| `RxRing`, `Fifo`, `RxRing_proofs` | the receive ring of `radio.c`, one step per access, shown to implement a FIFO |
| `McxwRadio`, `McxwRadio_proofs` | the driver's state machine, handlers and process loop; ring as a count, because `RxRing` is a FIFO |
| `McxwAlarm` | clock extension, alarms, main loop and sleep |
| `McxwUart` | `uart.c`, increment of the write count as load and store |
| `NvmSettings` | `flash_nvm.c`, both builds |
| `NbuSystem` | the mcxw72's two cores: settings, reset and console output on one stream; console input with both cores' sleep |

**Settings**

| module | models |
|---|---|
| `TlvRecords` | the buffer of records that four stores share: where a record goes, what fits, what is removed |
| `TlvSettings`, `SettingsStore`, `TlvSettings_proofs` | `flash_fsa.c` with the idle save and the reset of `misc.c`, shown to implement lists of values per key with a complete earlier version on disk |
| `LfsSettings`, `NvsSettings` | `flash_littlefs.c` (writes may fail, the store may be shut down), `flash_nvs.c` |
| `PdmSettings`, `PdmQueue` | one PDM record in `ram_storage.c` with its save, and the queue of saves |
| `FlashPages` | `k32w0/platform/flash.c` |

**K32W0** (`MCK32w`): `K32wRadio` (driver, ring, handler, process loop), `K32wTables`
(source match tables and frame counter, read in the handler), `K32wSerial` (the
serial port and the SPI slave), `K32wAlarm` (with the calibration of `system.c`), `VendorHook`, and the PDM and page
stores above; `K32w_proofs`.

**Host of a co-processor** (`MCHost`): `SpinelHdlc` (both directions), `SpiInterface`,
`RadioCommands`, `CliUart`, `FreertosAlarm`, `LfsSettings`, `NvsSettings`; `Host_proofs`.

**Network co-processor and border router** (`MCNetwork`): `NcpQueries` (replies of the
host's calls), `NcpContexts` (addresses and contexts of the host, SRP entries),
`NcpTask` (the way of a command and its answer), `NcpSleep`; `LwipBridge` (mutexes,
mailbox, token bucket), `NetifAddresses`, `BrSockets` (DNS transactions and TREL; mDNS,
DHCPv6 and ND listeners), `BrManager` (link events, border agent, groups, forwarding),
`IperfCli`; `Network_proofs`.

`Mcxw_proofs` holds the proofs about the other modules of the first table. `Recursion`
is for the proof modules: induction and recursion on naturals and on finite sets.

**Benches.** The parts of a platform share no variables with each other beyond what
a module models as its environment, so their product would only multiply states. A
bench `MC...` extends the modules, has one variable `part` that Init chooses freely,
and lets the chosen part step while the others rest; TLC explores the disjoint union.
The invariants of a bench are those of its parts, joined where they say one thing
(`NcpSound` is what the co-processor and its host share). Fairness of a part is
guarded with `part = ...`: it must hold in the part's behaviours and says nothing of
the others.

How state and actions correspond to the code:

* **RxRing.** Variables are the fields of `rxRingBuffer`, the PHY's pool and two
  program counters. The handler is `GetFree`, `DropFull`, `Fill`, `Push`; the task
  is `GetFrame`, `FreeBuffer`, `Pop`; `Reset` is `otPlatRadioEnable`.
* **McxwRadio.** `m` holds the driver's static variables under their own names and,
  prefixed `phy`, what the PHY was told. `stk` is the list of steps the task has
  still to make: a driver call pushes its steps, each step is one access to shared
  state, and the handlers (`PdDataInd`, `PdDataCnf`, `PlmeCcaBusy`, `PlmeEdCnf`,
  `PlmeTimeoutInd`, `PlmeAbortInd`) may run between any two. A call that OpenThread
  makes inside a callback is pushed on top of the loop's remaining steps.
* **McxwAlarm.** Time is counted in ticks modulo `Cycle`; `sw` and `hw` are the two
  halves of `otPlatTimeGet`; `want` is the specification's view of when OpenThread
  wants to be called.
* **TlvSettings, LfsSettings, NvmSettings, NbuSystem.** A buffer is a sequence of
  records; sizes are counted with headers so that the tests for room are the code's. A
  settings call is one action (it holds the mutex, and the idle task, of the lowest
  priority, `common/spinel/system.c:158`, cannot interrupt it); the idle task's save is
  one step per access.
* **PdmSettings.** The buffer keeps cells, the stale ones behind `len`
  included, because a save copies by length and not by block.
* **PdmQueue.** One pointer, slot or mutex access per step; the idle task
  re-enters an id that could not be written.
* **K32wRadio.** Every call stops the radio before it touches what the handler uses, so
  a call is one step; `K32WRadioProcess` is one step per access, and the handler's
  branches come between any two. `sTxDone` is cleared by the process loop only, so a
  report may outlive `otPlatRadioDisable`, which may also cut off a transmission:
  `staleDone` marks it.
* **K32wTables.** `otPlatRadioTransmit` hands a secured frame to the radio and counts it
  afterwards, by a load and a store (`SendSecured`, `CountSecured`); the handler counts too.
* **K32wSerial.** Each character carries, as history, whether its slot was written again
  before it was read (`torn`), and what was overwritten or overrun is counted.
* **McxwUart.** The interrupt that ends a write may send the next one itself, from
  `otPlatUartSendDone`, unless a flush waits; a flush within a flush changes nothing.
* **SpinelHdlc, SpiInterface.** A pass under `mReadMutex` is one action; frames
  are numbers, bytes are units, chunks cut frames anywhere. Saved frames that OpenThread
  has copied keep their room until the last saved one is read (`ClearSavedFrames`). Encoding is a step per
  call with its error path. An SPI exchange is a step, and fails or is too short.
* **RadioCommands.** A register is a byte; a command is the composition of what the
  command line, `radio.cpp` and the hook do to the number. Commands that read are the
  values they print.
* **NcpQueries.** A handler is the set of replies it may build: which fields it writes
  and which are left from the reply before; and whether it stops the system (a failed
  allocation it does not test, an operation code without a handler). It is one line per
  handler for some 3,200 lines of `ncp_glue_matter.c`, and this table makes up a large share of
  the lines the project maps. No property is about it: several handlers do send bytes
  of an earlier reply, and the table shows which.
* **NcpTask.** Two tasks of equal priority, one step per access to what they share. The
  host takes its permit for a command and gets it back with any reply, the first chunk of
  an answer included; Matter calls and confirmations pass through the same queue without
  one. Commands without a reply (not found, too long) are part of it, and leave the host
  without its permit.
* **NcpSleep.** The host confirms what it reads, late or not (`HostConfirms`), and may
  confirm again or unasked (`HostRepeats`, counted by `strays`).
* **LwipBridge.** One step per lock or unlock; `build` chooses which
  `otPlatLwipSendPacket` is compiled.
* **BrSockets, BrManager, IperfCli.** A posted callback is an item of a queue, read
  by the other thread against the state of that moment. A send that fails frees its message,
  and the exit of `SendQuery` frees it again (`twice`); a late send writes the local port
  of a block that is another socket's by then (`rebound`). `BrInitMdnsHost` tests
  the link in one step and lwIP's thread reports it up in another.

## 3. Runs

| run | what it shows |
|---|---|
| `radio_router` | ring of 2, two channels, all calls of a device that may receive when idle, three of them inside callbacks: no result of a handler is forgotten, the receiver is turned back on, a transmission is over when it is reported, every transmission and scan is reported |
| `radio_sed` | polls with frame pending, CSL windows, aborted receptions, NBU: the sleep lock is held exactly while an event is pending |
| `settings` | 2 keys, values of 1 and 2 bytes, room for 6: adjacency of a key's records, no update left out of the file, the records fit the buffer, resets keep the settings, the abstract store is implemented, saves happen |
| `mcxw` | slots and buffers of the ring have one owner and it is a FIFO; alarms are exact and served; the serial port's count and data; what is wiped stays wiped; the two cores' stream, settings and progress |
| `k32w` | frames once and in order, receiver turned on again, tables answer what was due, settings and pages stored whole, alarms never late, serial links sound, the main loop reports and calibrates, saves arrive |
| `host` | Spinel in both directions whole and without standstill, commands' values through all conversions, littlefs up to date, Add keeps values, serial reports, the FreeRTOS alarm |
| `network` | contexts, entries, commands and sleep of the co-processor; no deadlock of a border router; addresses, sockets, link state and forwarding; every command answered, every sleep handshake ended |
| `radio_channel_cache` | *violation*: the cached channel and the PHY's differ |
| `radio_ack_timeout` | *violation*: a receive window's time-out ends a transmission that is still being sent |
| `pdm_queue_full` | *violation*: a full queue forgets the saves it holds |
| `lwip_locks` | *violation*: the "mutex take order" and the macros of `ot_lwip.h` meet in a deadlock |
| `nat64` | *violation*: the event of a link that came up enables NAT64 after the user disabled it |

**Bounds.** The ring needs 3 slots for full, empty and between; 4 let it wrap at every
point. The radio's flags are Boolean; a ring of 1 or 2 has every relation between
drain and refill. `MaxDrift` stops OpenThread once the balance of NBU requests is off,
because nothing later repairs it. Two keys with two lengths give every relation of a
record to the run of its key and to the end of the buffer. `Cycle` is a common multiple
of the periods of the counter and of the 32-bit times, so time passes without end in a
finite model; `KaWord` and `FaTime` are the same for the other clocks (the tick counter
of FreeRTOS does not wrap in the model). `MaxIndex` covers indices a key does not have.
Queues and tables have as few places as let them be empty, partly and entirely full
(`QueueSize`, `MapLen`, `MailboxSize`, `Slots`, `FilterSlots`, `Pool`). Two commands of any
kinds, a queue of two and answers of two chunks and perhaps a byte let both commands come
before one take of the semaphore, one overwrite the other, and an answer be cut (`MaxCmds`,
`CmdQueueLen`, `MaxChunks`); each of the three is reached in the run. The notification queue has 4 places (20 in the code): with 2, two
stray confirmations (`MaxStrays`) fill it with events and the one of a handshake is
dropped, for which nobody tests. Five characters (`KuIn`) overrun a ring of three twice; two
queries with two transactions and three blocks let a block be reused. `Numbers` has 1,
236 and 276: a power, a negative one in eight bits, and one that does not fit eight bits.
Bounds on how often something happens (`MaxRx`, `MaxCalls`, `UdpRuns`, `BridgeRuns`,
`Changes`, `IperfCmds`, ...) are named for what they count. Deadlock checking is off where
a bound lets a part come to its end; progress is then a property of its own.

**Fairness.** The OpenThread task runs again and comes back to its drivers (`WF`
on its steps, `SF` on the start of a loop turn, which other calls may delay). The PHY
ends every transmission and scan it accepted. The idle task runs when the others
wait; the PDM and the buffer's mutex do not refuse for ever (`SF`). Time passes, and
interrupts are served. Exchanges on the SPI do not fail for ever (`SF`). Each core of the
mcxw72 steps while it is not asleep. The tasks of the co-processor share time, and the
host answers the sleep handshake or its time-out comes. Nothing is assumed of OpenThread
except that it reads the clock again and again. `RequestsReported` carries the premise
`LoopEnds`: `radio_rx_process` drains the ring until it is empty, and under a stream of
frames without end it would not return (`radio.c:1435`).

## 4. Assumptions about the environment

* PHY: handlers run to completion; requests are refused during a transmission or a
  scan; a transmission may be refused; a reception ends a receive sequence; forcing
  the transceiver off also ends receiving when idle; `gPlmeCcaCnf_c` comes only when
  the channel is busy; a scan ends after its request has returned (`PromptPhy`).
* OpenThread: one transmission and one scan at a time; no transmission inside
  `otPlatRadioTxDone` (the driver leaves `OT_RADIO_CAPS_CSMA_BACKOFF` out, so backoff
  uses a timer) and no scan that ends inside `otPlatRadioEnergyScanDone`: both flags are
  cleared after their callback. The timer scheduler starts an alarm again that fired
  early.
* File systems: a file write happens or does not; in `flash_fsa.c`'s model it does not
  fail, in `flash_littlefs.c`'s it may. A missing file reads as no settings. NVM: a data
  set is written entirely or not at all. PDM: a write may fail; a record may be
  unreadable, in which case `getRamBuffer` deletes it.
* Clock: read at least once per wrap of the hardware counter (`MaxGap < Wrap`);
  stopping a timer drops its interrupt if it was not served.
* HDLC: the buffer holds a frame cut one unit short and a whole chunk (`RxSize >=
  FrameLen - 1 + MaxChunk`); with less room the transport task would wait for frames
  that never complete.
* PDM settings: records of one segment, dynamic memory, `PDM_SAVE_IDLE`.
* FreeRTOS: OpenThread's task runs below the timer task (`OtAbove = FALSE`), the
  configuration of the CLI application.
* K32W0 alarms: a delay and the lag of its start time together are shorter than a wrap of
  the 32-bit times, and the lag at most half of one (`KaAssumption`).
* Network co-processor: two draws of `rand()` differ; `gInstance` is set before the first
  handler runs; SDIO transport. The host opens the socket only when it is closed.
* lwIP: a control block is reused once removed; a callback is posted or refused; a
  restart follows a failed assertion.
* K32W0 radio: OpenThread sets the extended address before it listens for the first time.

Where the code itself leaves two things apart (section 6), a history variable marks it
and the property is stated outside: `unsaved` (`PdmSettings`), `preempted` (`PdmQueue`),
`leaked` (`RxRing`), `nsHoles` (`NvsSettings`), `lfFailed` (`LfsSettings`), `stray`
(`IperfCli`), `twice` and `rebound` (`BrSockets`), `lastReport` (`BrManager`), `merged`,
`discarded`, `toldTwice` and `cut` (`NcpTask`), `strays` (`NcpSleep`), `cut`
(`K32wTables`), `torn` (`K32wSerial`). Where it counts what happened (`twice`, `merged`,
`torn` and its companions) the property bounds the damage by it.

## 5. Proofs

TLAPS checks, for every value of the constants that satisfies the named
assumptions:

* `RxRing_proofs`: `RingInvariant`, `RingIsLockFree`, `BuffersAreOwned`,
  `RingImplementsFifo`. `NoSlotShared` is not inductive: that the slot the handler fills
  is free follows from where it was taken. `RingInv` says so (the handler's slot is the
  successor of head and not tail; the task's the successor of tail, which is not head;
  a full slot holds a buffer unless the task has just freed it). The lemmas on `Dist`
  and `Nth` turn the masked arithmetic into arithmetic on distances; `FullSlotsPush`
  and `FullSlotsPop` say how the set of full slots moves. The refinement maps the slots
  between tail and head to the queue, without the first one once it is freed; each
  step is then an enqueue, the begin or finish of a delivery, a clear or a stutter.
* `TlvSettings_proofs`: `KeysStayAdjacent`, `FileIsUpToDate`, `ResetKeepsSettings`,
  `SettingsImplementStore`, `RecordsAlwaysFit`, `RecordsStaySound`, `TypesHold`. The
  invariant `IInv` joins the adjacency of the records in buffer and file with `SaveInv`,
  which follows the save through its steps: under the mutex the length in hand is the
  buffer's, and a copy about to be written is the buffer unless the flag is up again.
  `InsertIsGood`, `ReplaceIsGood` and `DropIsGood` are the facts about memory moves that
  the three changing calls rest on. For the refinement the records of a key are
  a run of positions (`IsRun`; `RunOf` from the adjacency), and its list of values is that of the
  run (`RunHasValues`). `ListGrows`, `ListEndsWith` and `ListShrinks` say what a record more, another
  one at the end of the run and a cut do to the list of the key, and that they leave every
  other list alone. So each call is one of `SettingsStore` (`AddIsAdd`, `SetIsSet`,
  `DeleteIsDelete`), and the save reads its version at `IdleBytes`, under the mutex, and
  leaves it in the file at `IdleWrite` (`StepIsStoreStep`). `FitInv` adds to `RecordsFit` that the
  version about to be written fits. The length of a buffer is the last of the totals of its
  first records (`TotalsExist`, by the induction of `Recursion`), from which
  `InsertedBytes`, `ReplacedBytes` and `CutBytes` say what each call adds and frees.

* `McxwRadio_proofs`: `LockHeldWithEvent`, `AllWorkSeen`, `AlwaysHears`, `FrameIsFree`. The task's pending
  steps are a stack of any depth. `RadioInv` splits it into the steps `P` of the driver
  call in progress and a label for the point `otPlatRadioProcess` has reached, and says
  of both what is still to come: `WorkSeen` (a flag set by a handler is before the test
  that reads it, or its event is pending), `RingKept` (so is a frame in the ring),
  `Hears` (a receiver that is off though it should be on will be turned on by the loop or
  by the call in progress). `DriverStepMakes` lists what each step of a call does and
  pushes, `HandlerEffect` what any message of the PHY leaves; the invariant needs those
  two and the steps of the loop only. `AllWorkSeen` assumes that OpenThread does
  not call `otPlatRadioEnable` from a callback, where it would drop the frame being
  delivered. `FrameIsFree` is `TxDoneIsFinal` under `PlainRadio`: the PHY aborts no reception, no
  ACK has it listen on by itself, OpenThread asks for no timed reception and calls
  `otPlatRadioTransmit` from its main loop only. Without the second, `TxDoneIsFinal` is false
  (`MCRadioAckTimeout`). Its invariant is `RequestInv`, over the same split of the stack:
  what the PHY runs is what OpenThread waits for and nothing is reported of it yet
  (`Settled`), and a call under way makes at most one request, and none while an answer
  is waited for (`Asks`).
* `Mcxw_proofs`: `WipeIsFinal` (what was wiped is in neither copy), `McxwUartSound`,
  `AlarmsAreExact`, `StreamIsWhole`. For the alarms `AlarmInv` adds that the software clock
  is at most one wrap of the counter behind and that each timer's remaining time is
  within its range; the lemmas on remainders stand in for the nonlinear arithmetic. For
  the stream `StreamInv` says where every byte is: the text not yet printed, then at
  most a reset and one request, of which `tmp_cmd`, `rx_buff`, the ring and the wire hold
  consecutive parts; which requests these are follows from where the radio core waits.
  `DataInv` relates the shared buffer, the main core's copy and the flash.
* `K32w_proofs`: `AlarmsInTime`, `HandlerReadsTrue`, `FramesHandedOver`, `NeverDeafByMistake`,
  `SerialLinksSound`, `StoresAreExact`.
  `RingInv` relates the indices to the frames that wait and the buffer the MAC fills
  (`RingHolds`, `RingFed`, `RingTaken`); `FpInv` says that the entries in use are apart and
  that the one being added is not in use yet. `SerialLinksSound` is all of `SerialsSound`: for
  the serial port `KuInv` says that a buffer being sent, or waiting to be reported, is
  not reported yet (`KuReports`), and where each character that came is: delivered, in
  hand, in the ring, overwritten or overrun (`KuOrder`, `CharactersAccounted`); for the slave `SlInv` says that the packets given are those sent first, cut
  to the input buffer (`SlGiven`), and that the bytes after `rxIn`, in the ring and on the
  wire, are the packets not yet given: flag, length, data, zeros between (`SlLaid`).
  `HookInv` is for the vendor hook.
  `StoresAreExact` is all of `StoresExact`, under `RoomForAll`: there are fewer PDM ids than
  the queue of saves has slots (`MAX_QUEUE_SIZE` is 16; with as many ids as slots
  `PdmQueueFull.cfg` refutes it). `PdmInv` joins the layout of the RAM buffer with the saves.
  The loops of the code find a block by going from one to the next; `Blocks` says of a set
  of starts, without recursion, that it is the one they visit, and `StartsAreBlocks` and
  `BlocksAreStarts` turn the one into the other, so that `AddFills`, `RemoveFills` and
  `OverwriteFills` are about positions. `Saves`: what is in hand or in the PDM is the
  buffer's unless a save is queued, or a change was made that no save follows (section 6).
  `Torn`: a torn record was loaded after a reset, and no call was made since. `QueueInv`: the slots between the pointers hold one id each, no id
  twice, as many as `Cardinality(Entered)`; and what the holder of the mutex has seen of them is
  still so. `PagesInv`: whatever lies below `Secured`, the end of what was written back, is
  as it was asked for, and the page in hand is right wherever it was filled.
* `Host_proofs`: `FileUpToDate`, `AlarmNotForgotten` (for `OtAbove = FALSE`),
  `AddReplacesNothing` and all of `SpinelWhole` (`SpinelIsWhole`; `NoWakeupIsLost` and `FramesAreWhole` are parts of it).
  `ReceiveInv` says that what was decoded, what the decoder holds and what is on the
  wire are consecutive parts of what the co-processor sent, and that a chunk in hand is
  one the wire has; the frames a chunk ends are a recursion over its bytes. `SizeInv`
  bounds what the encoder uses, the sum of its parts, which `Recursion` adds up. `RcInv`:
  each register holds what was asked for, as the co-processor converts it; that fields
  are read back as written (`FieldsReadBack`) is a fact about positions in the message.
  `AddReplacesNothing` is `AddKeepsValues`: `NvsInv` says that the values of a key none of
  which was deleted by its index have the indices 0 to n - 1, so that n, which the code
  counts, is free.
* `Network_proofs`: `CoProcessorSound`, `SystemNeverStuck`, `SystemSocketsSound`,
  `SystemRouterSound`, `SystemAddressesFollow`, each from theorems about its parts. For the
  addresses `Assigned` is what the loop of `otPlatLwipUpdateState` has done after some of
  the list: `NoStaleAddress` needs that each assigned slot is the *first* that holds its
  address, else a list that names an address twice could assign two slots. That loop is
  a fold over the list. `CoProcessorSound` holds for any number of commands that follow
  each other in any way: `NoneStrandedUnmerged` is an invariant as it stands, for
  `ChunksKept` `ChunkInv` says where each chunk is, and `ToldInv` when the CLI may write one. For
  `SleepConfirmed` the word that the co-processor wants to sleep is at one place only
  (`WordAtOnePlace`), as long as no confirmation was a stray one.

The assumptions on constants are `ASSUME`s of the modules, and TLC evaluates them in the
runs; those a theorem adds (`RoomForAll`, `PlainRadio`, `OtAbove = FALSE`) are in
its statement. Each inductive invariant was derived from the property and the counterexamples to
its step. Four attempts changed a model. The proof of `FramesHandedOver` needed that no
report is pending when a transmission starts, which TLC refutes with five calls
(transmit, disable before the report is processed, enable, receive, transmit); `staleDone`
comes from there (with `MaxCalls = 4` the run has the late report, the proof the
transmission after it too). The proof of `StoresAreExact` could not choose between two
branches of `RamDelete` (`PdmSettings`): a `CASE` of it had guards that overlapped when the key was absent, where
the code returns first. And it needs that the idle task's name is no PDM id (`PdmQueue`).
For `SettingsImplementStore` the abstract lists of `TlvSettings` (`ValuesOf`) are stated by
positions: the provers cannot expand the filter of the library they were stated with.

`Recursion` proves once what folds and recursive functions need. The provers cannot
instantiate a predicate or an operator, so a predicate is the set of the numbers
that have it and the step of a recursion a function on a set of results:
`SetInduction`, `NatRecursion`, `SetRecursion`, and from them `SumOfNone` and `SumOfOneMore` for
the community modules' `SumFunction`.

Every invariant and action property of the runs is stated by a theorem. The liveness
properties (`Served`, `EventuallySaved`, `RequestsReported`, `NbuProgress`, `MainLoopServes`,
`Saved`, `SpinelProgress`, `SendIsReported`, `EveryCommandAnswered`, `HandshakeEnds`) are only
model-checked: liveness under fairness and `ENABLED` are beyond TLAPS.

## 6. Disagreements met while modelling

Five are runs (`findings` in `PROJECT.json`). The others were reached by TLC in
versions of the same modules without the history variables of section 4, or follow
from the definitions:

* `radio.c:393`: `SetRxOnWhenIdle(false)` clears `rx_on_idle_disabled` before
  `is_rx_on_idle`; a reception that finds the ring full in between makes the loop turn
  receiving when idle on again, against "disable rx on idle".
* `radio.c:688`: a refused transmission restores the state saved before the request;
  if a reception ended the receive sequence meanwhile the driver says RECEIVE and
  `otPlatRadioReceive` returns early as "already in rx on the same channel".
* `radio.c:1075`: `stop_csl_receiver`, interrupted by itself in a handler, releases the NBU
  twice; "NBU has to be awake during CSL receiver trx".
* `radio.c:330`: frames in the ring when the radio is disabled keep their PHY buffers
  after `Enable` (`leaked` in `RxRing`).
* `flash_fsa.c:403` and its three copies: `Delete` with an index the key does not have
  takes the "Case where aIndex == -1" and removes all its values.
* `flash_littlefs.c:479`: the flag is cleared before the copy and the result of the
  write is not tested: a failed save is not repeated until the next change.
* `flash_nvs.c:266`: `Add` names a value by the number of values; after a deletion by
  index that name may be taken, and the value there is overwritten.
* `ram_storage.c:217`: `ramStorageDelete` never finds an index above 0.
* `pdm_ram_storage_glue.c:535`: the length is read before the mutex; a reset between
  that save and the next one loads a cut block, and the assertion at
  `ram_storage.c:227` no longer holds.
* `pdm_ram_storage_glue.c:272`: after a restart `maxLength` may exceed the region, and
  every Add is refused although there is room.
* `ram_storage.c:173`, `flash_pdm.c:280`, `pdm_ram_storage_glue.c:536`: a Set that does not
  fit, a Wipe during a save and the removal of the last value leave the record
  different from the buffer with no save to come.
* `flash_pdm.c:292`: `should_skip_recal` wants both mutexes taken, so the interrupt can
  write the queue slot a task has filled and not yet passed: that task's save is lost
  and a slot that was never filled is entered.
* `k32w0/platform/flash.c:155`: a write that reaches its last page from the beginning erases
  what lies behind its end; `copyFromFlash` (231) takes the number of reads from the
  length alone and comes out short at an unaligned address.
* `spinel_hdlc.cpp:183`: `WaitForFrame` clears the event before it knows that the frame
  fits; with OpenThread's buffer full it times out while a frame is there.
* `spinel_hdlc.cpp:145`: a frame near the maximal size with nearly all bytes escaped
  does not fit the encoder; its opening flag stays, and the next `SendFrame` fails
  its assertion.
* `ncp_glue_matter.c:3864`: a service with more sub-type labels than an entry holds leaves
  its entry allocated for good.
* `ot_lwip.c`, `otPlatLwipNat64Send`: the exit for want of a buffer keeps OpenThread's
  mutex (`HandFails` in `LwipBridge`).
* `br_rtos_manager.c:198`: `BrInitMdnsHost` tests the link, and the report it asks for says
  up (419) when the link has gone down meanwhile.
* `border_agent.c:120`: a link that goes down before it was up has `BorderAgentDeInit` call
  OpenThread with its null instance.
* `udp_plat.c:247`: `otPlatUdpSend` frees the message of a send that failed, and
  `dns_upstream_resolver.c:174` frees it again.
* `udp_plat.c:449`: a send that comes after its socket was closed writes to a control block that
  is another socket's or in the pool.
* `ncp_ot.c:142`, `ncp_glue_ot.c:153`: a command that is not found or too long gets no reply, and
  the host waits for its permit for good.
* `ncp_ot.c:190`: commands are stranded in the queue when wake-ups merge; a chunk
  written while the buffer is forwarded is cut (230) if the CLI was told twice of a byte.
* `ncp_glue_ot.c:183`: a confirmation that answers no event serves for the next sleep.
* `k32w0/platform/uart.c:523`: the address of a character is handed out after its slot
  is given back, and an interrupt may write the slot before it is read.
* `k32w0/platform/radio.c:898`: an acknowledgement between the load and the store of the frame
  counter is not counted.
* `dns_upstream_resolver.c:324`: an answer that waits for OpenThread's task when its
  query is cancelled is handed over without a query.
* `radio_cli.c:716`: `GET_SET_LATENCY` without a value runs on into `CRASH_SIMULATION`; 387:
  276 is taken for 20.

## 7. Not modelled, and what is left

* Cryptography (`common/crypto*`, `ecdsa-*`): the value of a cryptographic function is
  out of TLC's reach, and these files hold no protocol state.
* Logging, diagnostics, entropy, board support (`boards/`, `imx_rt`, pins, clocks, linker
  scripts): register writes and formatting in a fixed order, generated for the most part.
* `common/spinel/radio.cpp` beyond the calls the commands end in: one-line forwards to
  OpenThread's `RadioSpinel`, whose state is another project's.
* In the radio drivers: keys, transmit power tables, CSL phase and timestamps,
  promiscuous mode, coexistence, link metrics. In the PDM: records of several segments.
* Message conversions of the lwIP bridge and the building of ND and RA packets: byte
  copies. The opcode strings and the TLS set-up of the network co-processor.
* The applications under `examples/` other than the parts named above: they start tasks
  and call the platform.

Worth doing next: the SPI slave composed with the host's `SpiInterface`; `OnRcpReset` in
`SpinelHdlc`.
