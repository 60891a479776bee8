------------------------------ MODULE NcpSleep ------------------------------
(***************************************************************************)
(* Low power on the network co-processor: sys/ncp_lp_sys.c, sys/ncp_lpm.c  *)
(* and notify/app_notify.c under src/src/common/ncp.  Before it sleeps the *)
(* co-processor tells the host and waits for its confirmation.  The idle   *)
(* task asks the power manager for sleep again and again; the power        *)
(* manager (external) asks powerManager_PmNotify, then                     *)
(* powerManager_BoardNotify, and sleeps if both agree.  A task of its own  *)
(* sends the events to the host, and does not announce sleep while a       *)
(* command is being handled.  The build is the one for SDIO, whose         *)
(* interface is set up again after a sleep.                                *)
(***************************************************************************)
EXTENDS Naturals, Sequences

CONSTANTS
  ChkRspCnt,       \* ot_chk_rsp_cnt: how often the answer of the CLI is waited for
  MaxEvents,       \* APP_NOTIFY_MAX_EVENTS
  MaxAllocFails,   \* bound: events for which there is no memory
  MaxStrays,       \* bound: confirmations that answer no event
  MaxCliCmds       \* bound: CLI commands

ASSUME NcpSleepAssumption ==
  /\ ChkRspCnt \in Nat \ {0} /\ MaxEvents \in Nat \ {0}
  /\ MaxAllocFails \in Nat /\ MaxStrays \in Nat /\ MaxCliCmds \in Nat

VARIABLES
  suspendFlag,   \* suspend_notify_flag: a subset of {"evt", "cfm"}
  handshake,     \* ncpLowPowerHandshake
  hsCfm,         \* is the semaphore hs_cfm available?
  reinit,        \* is the interface being set up again?
  asleep,
  notifyQueue,   \* app_notify_event_queue
  notifyMsg,     \* the event being handled
  waitsLeft,     \* ot_chk_rsp_cnt
  notifyRet,     \* ret of app_notify_event_handler, FALSE after a failure
  cliHandling,   \* OtNcpDataHandle = OT_NCP_CMD_HANDLING
  hostInbox,     \* events on their way to the host
  consent,       \* history: has the host confirmed since the last sleep?
  strays,        \* history, and bound: confirmations that answered no event
  asserted,      \* has an assertion stopped the program?
  allocFails, cliCmds   \* bounds

sleepVars == <<suspendFlag, handshake, hsCfm, reinit, asleep, notifyQueue, notifyMsg, waitsLeft, notifyRet,
               cliHandling, hostInbox, consent, strays, asserted, allocFails, cliCmds>>

pmVars == <<suspendFlag, handshake, hsCfm, asleep, consent, strays>>
notifyVars == <<notifyMsg, waitsLeft, notifyRet, asserted, allocFails, reinit>>

SleepInit ==
  /\ suspendFlag = {} /\ handshake = "not started" /\ hsCfm = TRUE /\ reinit = FALSE /\ asleep = FALSE
  /\ notifyQueue = <<>> /\ notifyMsg = "none" /\ waitsLeft = 0 /\ notifyRet = TRUE
  /\ cliHandling = FALSE /\ hostInbox = <<>> /\ consent = FALSE /\ asserted = FALSE
  /\ allocFails = 0 /\ cliCmds = 0 /\ strays = 0

\* A full queue drops the event: nobody tests the result.
app_notify_event(e) ==
  notifyQueue' = IF Len(notifyQueue) < MaxEvents THEN Append(notifyQueue, e) ELSE notifyQueue

-----------------------------------------------------------------------------
(* The idle task and the power manager, with interrupts disabled.          *)

\* Mutant: the board does not look at the handshake.
BoardIgnoresHandshake == ~reinit

\* powerManager_BoardNotify is asked second and sees what host_sleep_pre_cfg
\* has just set.
powerManager_BoardNotify == handshake' # "in process" /\ ~reinit

\* host_sleep_pre_cfg: without a handshake one is begun, unless the interface
\* is being set up.  powerManager_PmNotify ignores what it returns.
host_sleep_pre_cfg ==
  IF suspendFlag = {} /\ ~reinit
  THEN /\ suspendFlag' = {"evt"} /\ handshake' = "in process"
       /\ hsCfm' = FALSE
       /\ IF hsCfm THEN app_notify_event("enter") ELSE UNCHANGED notifyQueue
  ELSE UNCHANGED <<suspendFlag, handshake, hsCfm, notifyQueue>>

powerManager_PmNotify == handshake # "in process" /\ host_sleep_pre_cfg

EnterSleep ==
  /\ ~asleep /\ powerManager_PmNotify
  /\ asleep' = powerManager_BoardNotify
  /\ UNCHANGED <<cliHandling, hostInbox, consent, strays, notifyVars, cliCmds>>

\* Waking up: host_sleep_post_cfg reports it and forgets the handshake.
host_sleep_post_cfg ==
  /\ asleep /\ asleep' = FALSE /\ consent' = FALSE
  /\ \/ /\ suspendFlag # {}
        /\ handshake' = "not started" /\ app_notify_event("exit")
     \/ /\ suspendFlag = {}
        /\ UNCHANGED <<handshake, notifyQueue>>
  /\ suspendFlag' = {}
  /\ UNCHANGED <<hsCfm, cliHandling, hostInbox, strays, notifyVars, cliCmds>>

-----------------------------------------------------------------------------
(* app_notify_event_handler, while awake.                                  *)

MsgQGet ==
  /\ notifyMsg = "none" /\ notifyQueue # <<>>
  /\ notifyMsg' = Head(notifyQueue) /\ notifyQueue' = Tail(notifyQueue)
  /\ waitsLeft' = ChkRspCnt
  /\ reinit' = (Head(notifyQueue) = "exit")
  /\ UNCHANGED <<pmVars, notifyRet, asserted, allocFails, cliHandling, hostInbox, cliCmds>>

\* A wait of 50 ms; the last one fails the assertion whatever has happened.
WaitForAnswer ==
  /\ notifyMsg = "enter" /\ waitsLeft > 0
  /\ waitsLeft' = waitsLeft - 1
  /\ asserted' = (waitsLeft = 1)
  /\ notifyMsg' = IF waitsLeft > 1 /\ ~cliHandling THEN "enter now" ELSE "enter"
  /\ UNCHANGED <<pmVars, notifyQueue, notifyRet, allocFails, reinit, cliHandling, hostInbox, cliCmds>>

\* Mutant: only the end of a sleep is sent to the host.
SendsExitOnly ==
  /\ notifyMsg \in {"enter now", "exit"}
  /\ hostInbox' = IF notifyMsg = "exit" THEN Append(hostInbox, "exit") ELSE hostInbox
  /\ notifyMsg' = "none" /\ waitsLeft' = 0 /\ reinit' = FALSE
  /\ UNCHANGED <<pmVars, notifyQueue, notifyRet, allocFails, asserted, cliHandling, cliCmds>>

\* The event is built and sent; ret keeps a failure for all events to come.
SendEvent ==
  /\ notifyMsg \in {"enter now", "exit"}
  /\ \/ /\ allocFails < MaxAllocFails /\ allocFails' = allocFails + 1
        /\ notifyRet' = FALSE
        /\ UNCHANGED hostInbox
     \/ /\ hostInbox' = IF notifyRet
                        THEN Append(hostInbox, IF notifyMsg = "exit" THEN "exit" ELSE "enter")
                        ELSE hostInbox
        /\ UNCHANGED <<notifyRet, allocFails>>
  /\ notifyMsg' = "none" /\ waitsLeft' = 0 /\ reinit' = FALSE
  /\ UNCHANGED <<pmVars, notifyQueue, asserted, cliHandling, cliCmds>>

app_notify_event_handler == ~asleep /\ (MsgQGet \/ WaitForAnswer \/ SendEvent)

-----------------------------------------------------------------------------
(* The host, through otNcpTask.                                            *)

\* Mutant: hs_cfm is not posted.
ConfirmWithoutPost ==
  /\ suspendFlag' = (suspendFlag \ {"evt"}) \cup {"cfm"}
  /\ handshake' = "done" /\ consent' = TRUE
  /\ UNCHANGED hsCfm

\* The handler of the host's confirmation tests nothing.
ot_ncp_system_sleep ==
  /\ suspendFlag' = (suspendFlag \ {"evt"}) \cup {"cfm"}
  /\ handshake' = "done" /\ hsCfm' = TRUE /\ consent' = TRUE

\* The host reads that the co-processor wants to sleep and confirms.  A late
\* confirmation is one to an event that lies long in hostInbox.
HostConfirms ==
  /\ hostInbox # <<>> /\ Head(hostInbox) = "enter"
  /\ hostInbox' = Tail(hostInbox)
  /\ ot_ncp_system_sleep
  /\ UNCHANGED <<asleep, notifyQueue, strays, notifyVars, cliHandling, cliCmds>>

\* The host confirms again, or unasked.
HostRepeats ==
  /\ strays < MaxStrays /\ strays' = strays + 1
  /\ ot_ncp_system_sleep
  /\ UNCHANGED <<asleep, notifyQueue, notifyVars, cliHandling, hostInbox, cliCmds>>

HostReadsExit ==
  /\ hostInbox # <<>> /\ Head(hostInbox) = "exit"
  /\ hostInbox' = Tail(hostInbox)
  /\ UNCHANGED <<pmVars, notifyQueue, notifyVars, cliHandling, cliCmds>>

CliCommand ==
  /\ cliCmds < MaxCliCmds /\ cliCmds' = cliCmds + 1
  /\ cliHandling' = TRUE
  /\ UNCHANGED <<pmVars, notifyQueue, notifyVars, hostInbox>>

CliAnswer ==
  /\ cliHandling /\ cliHandling' = FALSE
  /\ UNCHANGED <<pmVars, notifyQueue, notifyVars, hostInbox, cliCmds>>

Host == ~asleep /\ (HostConfirms \/ HostReadsExit)

-----------------------------------------------------------------------------
\* The program has stopped, or waits for the host.
SleepRest == (asserted \/ handshake = "in process") /\ UNCHANGED sleepVars

SleepNext ==
  \/ ~asserted /\ \/ EnterSleep \/ host_sleep_post_cfg \/ app_notify_event_handler \/ Host
                  \/ ~asleep /\ (HostRepeats \/ CliCommand \/ CliAnswer)
  \/ SleepRest

SleepFairness ==
  /\ WF_sleepVars(~asserted /\ EnterSleep) /\ WF_sleepVars(~asserted /\ host_sleep_post_cfg)
  /\ WF_sleepVars(~asserted /\ app_notify_event_handler) /\ WF_sleepVars(~asserted /\ Host)

SleepSpec == SleepInit /\ [][SleepNext]_sleepVars /\ SleepFairness

-----------------------------------------------------------------------------
\* Is there word for the host that the co-processor wants to sleep?
Announced ==
  \/ notifyMsg \in {"enter", "enter now"}
  \/ \E i \in 1 .. Len(notifyQueue) : notifyQueue[i] = "enter"
  \/ \E i \in 1 .. Len(hostInbox) : hostInbox[i] = "enter"

\* A confirmation serves for one sleep: the co-processor sleeps only if the host
\* has confirmed since it slept last, and the sleep that begins the handshake
\* does not slip through although its refusal is not looked at.  As long as the
\* host confirms only what it was asked, the confirmation is for this very
\* sleep: no word of an earlier handshake is left that the host could still
\* confirm.  A confirmation that answers no event serves for the next sleep, of
\* which the host is then not told.
SleepConfirmed ==
  /\ asleep => consent
  /\ strays = 0 => (Announced => handshake = "in process")

\* The semaphore hs_cfm is taken exactly during a handshake, so that the wait
\* without delay in host_sleep_pre_cfg never finds it taken and never leaves a
\* handshake of which the host was not told.
TokenMatchesHandshake == hsCfm <=> handshake # "in process"

\* A handshake ends, and with it sleep becomes possible, unless an event could
\* not be built (the failure is kept for good) or the wait for the CLI's
\* answer failed its assertion.
HandshakeEnds ==
  handshake = "in process" ~> (handshake # "in process" \/ asserted \/ ~notifyRet)
=============================================================================
