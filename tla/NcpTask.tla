------------------------------ MODULE NcpTask -------------------------------
(***************************************************************************)
(* The way of a command through the network co-processor.  The transport   *)
(* calls otNcpCallback (ncp_ot.c), which queues the command and gives a    *)
(* binary semaphore; otNcpTask takes the semaphore, hands ONE command on   *)
(* and forwards what the CLI has written.  The OpenThread task runs        *)
(* mainloop of ncp_ot_freertos.c, in it otPlatCliUartProcess of ncp.c.     *)
(* The two tasks have the same priority and share time, so either may be   *)
(* interrupted anywhere; a command or a chunk is copied in one step.       *)
(*                                                                         *)
(* Of the commands, "cli" goes to the CLI through otCurrentCmd and         *)
(* "matter" to the queue of the OpenThread task; "encrypt" is answered on  *)
(* the spot; "confirm", the word to sleep (NcpSleep), has no answer; "bad" *)
(* is one that no table lists or that is too long, and has none either.    *)
(* The CLI's host keeps a binary semaphore of its own, permit: it takes it *)
(* for a command and gives it back with every reply, be it only the first  *)
(* chunk of an answer.  The confirmation needs no permit, and nothing is   *)
(* assumed of the host of the Matter calls, which is not in the repository.*)
(*                                                                         *)
(* The CLI of OpenThread (external) echoes a command and prints its answer *)
(* in chunks: it hands one to otPlatUartSend and the next only after       *)
(* otPlatUartSendDone.  A chunk of one byte comes from the wrap of its     *)
(* ring buffer.                                                            *)
(***************************************************************************)
EXTENDS Naturals, Sequences

CONSTANTS
  MaxCmds,     \* bound: commands the host sends
  MaxChunks,   \* bound: chunks the CLI prints for a command, but for a last byte
  CmdQueueLen, \* OT_NCP_COMMAND_QUEUE_NUM
  MatterQueueLen,  \* OT_NCP_MATTER_QUEUE_NUM
  MaxFails     \* bound: allocations that fail

ASSUME NcpTaskAssumption ==
  /\ MaxCmds \in Nat /\ MaxFails \in Nat
  /\ MaxChunks \in Nat \ {0} /\ CmdQueueLen \in Nat \ {0} /\ MatterQueueLen \in Nat \ {0}

VARIABLES
  cmdQueue,     \* sOtNcpCmdQueue
  ncpSem,       \* is sNcpLock given?
  matterQueue,  \* sOtmatterNcpCmdQueue
  otNotified,   \* the notification of the OpenThread task
  cmdReady,     \* otNcpCmdFlag
  currentCmd,   \* the command in otCurrentCmd
  txBuffer,     \* otNcpTxBuffer: the chunks up to otNcpTxLength
  autoRsp,      \* sAutoRspFlag
  txDoneFlag,   \* txDone of ncp.c
  ncpPc, otPc,  \* where the two tasks are
  forwarding,   \* the chunks otNcpTask has copied to rsp_buf
  received,     \* the command the OpenThread task has copied
  cli,          \* the CLI: is a chunk with the platform? which chunks follow?
  permit,       \* is the host's semaphore ncp_cmd_resp_sem given?
  waitsFor,     \* commands whose answer the host waits for
  sentCount,    \* bound: commands the host has sent
  fails,        \* bound: failed allocations
  merged,       \* history: commands whose wake-up was merged with an earlier one's
  discarded,      \* history: commands thrown away without a reply
  printed,      \* history: chunks printed so far
  got,          \* history: the numbers of the chunks the host has got
  cut,          \* history: chunks put in the buffer while it was being forwarded
  byteTold,     \* history: has the CLI been told of the byte left in the buffer?
  toldTwice     \* history: was it told again of the same byte?

cmdVars == <<cmdReady, currentCmd>>
queueVars == <<cmdQueue, ncpSem, merged>>
bufferVars == <<txBuffer, cut, byteTold>>
cliVars == <<otPc, received, cli, printed>>
hostVars == <<permit, waitsFor, sentCount, fails, discarded, got>>
taskVars == <<queueVars, matterQueue, otNotified, cmdVars, bufferVars, toldTwice, autoRsp, txDoneFlag,
              ncpPc, forwarding, cliVars, hostVars>>

Cmd == [id : 1 .. MaxCmds, kind : {"cli", "matter", "encrypt", "confirm", "bad"}]
NoCmd == [id |-> 0, kind |-> "none"]

\* A chunk: its number, the command it answers, is it longer than a byte, is
\* it the last of the answer?
Chunk(n, id, long, last) == [n |-> n, cmd |-> id, long |-> long, last |-> last]

\* The CLI prints its prompt at its start, before there is a semaphore to give.
Prompt == Chunk(0, 0, TRUE, FALSE)

TaskInit ==
  /\ cmdQueue = <<>> /\ ncpSem = FALSE /\ matterQueue = <<>> /\ otNotified = FALSE
  /\ cmdReady = FALSE /\ currentCmd = NoCmd
  /\ txBuffer = <<Prompt>> /\ autoRsp = FALSE /\ txDoneFlag = FALSE
  /\ ncpPc = "wait" /\ otPc = "rx" /\ forwarding = <<>> /\ received = NoCmd
  /\ cli = [sending |-> TRUE, rest |-> <<>>]
  /\ permit = TRUE /\ waitsFor = {} /\ sentCount = 0 /\ fails = 0 /\ merged = 0 /\ discarded = {}
  /\ printed = 0 /\ got = {} /\ cut = {} /\ byteTold = FALSE /\ toldTwice = FALSE

-----------------------------------------------------------------------------
(* The host and the transport.                                             *)

\* ot_ncp_host_input_task waits for the permit before it sends a command.
HostSends(c) ==
  /\ c.id = sentCount + 1 /\ sentCount' = c.id
  /\ IF c.kind \in {"cli", "encrypt", "bad"} THEN permit /\ permit' = FALSE ELSE UNCHANGED permit
  /\ waitsFor' = IF c.kind = "confirm" THEN waitsFor ELSE waitsFor \cup {c.id}

\* Mutant: the semaphore is given only when the queue is full.
GivesWhenFull(c) ==
  /\ HostSends(c)
  /\ cmdQueue' = Append(cmdQueue, c)
  /\ UNCHANGED <<ncpSem, merged, fails, discarded, matterQueue, otNotified, cmdVars, bufferVars, toldTwice,
                 autoRsp, txDoneFlag, ncpPc, forwarding, cliVars, got>>

\* otNcpCallback: without memory the command is dropped, without room in the
\* queue too, but then the task is woken.
otNcpCallback(c) ==
  /\ HostSends(c)
  /\ \/ /\ fails < MaxFails /\ fails' = fails + 1
        /\ discarded' = discarded \cup {c.id}
        /\ UNCHANGED queueVars
     \/ /\ Len(cmdQueue) < CmdQueueLen
        /\ cmdQueue' = Append(cmdQueue, c) /\ ncpSem' = TRUE
        /\ merged' = IF ncpSem /\ cmdQueue # <<>> THEN merged + 1 ELSE merged
        /\ UNCHANGED <<fails, discarded>>
     \/ /\ Len(cmdQueue) >= CmdQueueLen
        /\ discarded' = discarded \cup {c.id} /\ ncpSem' = TRUE
        /\ UNCHANGED <<cmdQueue, merged, fails>>
  /\ UNCHANGED <<matterQueue, otNotified, cmdVars, bufferVars, toldTwice, autoRsp, txDoneFlag, ncpPc,
                 forwarding, cliVars, got>>

-----------------------------------------------------------------------------
(* otNcpTask.                                                              *)

NcpGoes(from, to) == ncpPc = from /\ ncpPc' = to

Take ==
  /\ NcpGoes("wait", "receive") /\ ncpSem
  /\ ncpSem' = FALSE
  /\ UNCHANGED <<cmdQueue, merged, matterQueue, otNotified, cmdVars, bufferVars, toldTwice, autoRsp,
                 txDoneFlag, forwarding, cliVars, hostVars>>

\* Mutant: the OpenThread task is not told of the call.
MatterWithoutNotify(c) ==
  /\ c.kind = "matter"
  /\ matterQueue' = Append(matterQueue, c)
  /\ UNCHANGED <<otNotified, permit, waitsFor, discarded, fails, cmdVars>>

\* ncp_matter_ot_cmd_handle: a copy goes to the queue of the OpenThread task;
\* without memory or room the command is dropped.
ncp_matter_ot_cmd_handle(c) ==
  /\ c.kind = "matter"
  /\ \/ /\ Len(matterQueue) < MatterQueueLen
        /\ matterQueue' = Append(matterQueue, c) /\ otNotified' = TRUE
        /\ UNCHANGED <<discarded, fails>>
     \/ /\ \/ Len(matterQueue) >= MatterQueueLen /\ UNCHANGED fails
           \/ fails < MaxFails /\ fails' = fails + 1
        /\ discarded' = discarded \cup {c.id}
        /\ UNCHANGED <<matterQueue, otNotified>>
  /\ UNCHANGED <<permit, waitsFor, cmdVars>>

\* The text goes to otCurrentCmd and the OpenThread task is told.  A command
\* still there that has not been copied is gone.
ot_ncp_cmd_handle(c) ==
  /\ c.kind = "cli"
  /\ currentCmd' = c /\ cmdReady' = TRUE /\ otNotified' = TRUE
  /\ discarded' = IF cmdReady /\ currentCmd # received THEN discarded \cup {currentCmd.id} ELSE discarded
  /\ UNCHANGED <<matterQueue, permit, waitsFor, fails>>

\* ncp_sys_encrypt replies before it returns, and so gives the host its permit.
ncp_sys_encrypt(c) ==
  /\ c.kind = "encrypt"
  /\ permit' = TRUE /\ waitsFor' = waitsFor \ {c.id}
  /\ UNCHANGED <<matterQueue, otNotified, discarded, fails, cmdVars>>

\* A command that is not found, or longer than OT_COMMANDS_MAX_LEN
\* (ncp_glue_ot.c:151-157), is thrown away without a reply; a confirmation,
\* whose effect is that of NcpSleep, has none.
Unanswered(c) ==
  /\ c.kind \in {"bad", "confirm"}
  /\ discarded' = IF c.kind = "bad" THEN discarded \cup {c.id} ELSE discarded
  /\ UNCHANGED <<matterQueue, otNotified, permit, waitsFor, fails, cmdVars>>

Handle(c) ==
  ncp_matter_ot_cmd_handle(c) \/ ot_ncp_cmd_handle(c) \/ ncp_sys_encrypt(c) \/ Unanswered(c)

\* One command is taken from the queue and handed on.
ot_ncp_command_handle_input ==
  /\ NcpGoes("receive", "forward") /\ cmdQueue # <<>>
  /\ cmdQueue' = Tail(cmdQueue)
  /\ Handle(Head(cmdQueue))
  /\ UNCHANGED <<ncpSem, merged, bufferVars, toldTwice, autoRsp, txDoneFlag, forwarding, cliVars, sentCount, got>>

\* The queue is empty: it was the CLI that woke the task.
NoCommand ==
  /\ NcpGoes("receive", "forward") /\ cmdQueue = <<>>
  /\ UNCHANGED <<queueVars, matterQueue, otNotified, cmdVars, bufferVars, toldTwice, autoRsp,
                 txDoneFlag, forwarding, cliVars, hostVars>>

ForwardNothing ==
  /\ NcpGoes("forward", "wait") /\ txBuffer = <<>>
  /\ UNCHANGED <<queueVars, matterQueue, otNotified, cmdVars, bufferVars, toldTwice, autoRsp,
                 txDoneFlag, forwarding, cliVars, hostVars>>

OneByte == Len(txBuffer) = 1 /\ ~txBuffer[1].long

\* The byte is left in the buffer and the CLI may go on; each further wake-up
\* that finds it there tells the CLI so again.
ForwardByte ==
  /\ NcpGoes("forward", "wait") /\ OneByte
  /\ txDoneFlag' = TRUE /\ otNotified' = TRUE
  /\ byteTold' = TRUE /\ toldTwice' = (toldTwice \/ byteTold)
  /\ UNCHANGED <<queueVars, matterQueue, cmdVars, txBuffer, cut, autoRsp, forwarding, cliVars, hostVars>>

\* The echo of the command is taken off and the rest copied.
ot_ncp_handle_response ==
  /\ NcpGoes("forward", "send") /\ txBuffer # <<>> /\ ~OneByte
  /\ forwarding' = txBuffer
  /\ UNCHANGED <<queueVars, matterQueue, otNotified, cmdVars, bufferVars, toldTwice, autoRsp,
                 txDoneFlag, cliVars, hostVars>>

Numbers(s) == {s[i].n : i \in 1 .. Len(s)}
Ends(s) == {s[i].cmd : i \in {j \in 1 .. Len(s) : s[j].last}}

\* The prompt of the start is not sent, everything else is; without memory for
\* the copy the host gets an error in its place, even of the prompt.  Either way
\* it has its permit, and so only the prompt tells the two apart here.
ot_send_response ==
  /\ NcpGoes("send", "clear")
  /\ \/ /\ ~autoRsp /\ forwarding = <<Prompt>>
        /\ autoRsp' = TRUE
        /\ UNCHANGED <<permit, waitsFor, got, fails>>
     \/ /\ IF ~autoRsp /\ forwarding = <<Prompt>>
           THEN fails < MaxFails /\ fails' = fails + 1
           ELSE UNCHANGED fails
        /\ got' = got \cup Numbers(forwarding)
        /\ permit' = TRUE /\ waitsFor' = waitsFor \ Ends(forwarding)
        /\ UNCHANGED autoRsp
  /\ forwarding' = <<>>
  /\ UNCHANGED <<queueVars, matterQueue, otNotified, cmdVars, bufferVars, toldTwice, txDoneFlag, cliVars,
                 sentCount, discarded>>

EmptyBuffer ==
  /\ txBuffer' = <<>>
  /\ UNCHANGED <<queueVars, matterQueue, otNotified, cmdVars, cut, byteTold, toldTwice, autoRsp,
                 txDoneFlag, forwarding, cliVars, hostVars>>

Ot_Data_TxDone ==
  /\ txDoneFlag' = TRUE /\ otNotified' = TRUE
  /\ UNCHANGED <<queueVars, matterQueue, cmdVars, bufferVars, toldTwice, autoRsp, forwarding, cliVars,
                 hostVars>>

\* Mutant: the CLI is told before the buffer is emptied.
DoneThenClear ==
  \/ NcpGoes("clear", "done") /\ Ot_Data_TxDone
  \/ NcpGoes("done", "wait") /\ EmptyBuffer

\* otNcpTxLength is cleared, then the CLI is told.
ClearThenDone ==
  \/ NcpGoes("clear", "done") /\ EmptyBuffer
  \/ NcpGoes("done", "wait") /\ Ot_Data_TxDone

otNcpTask ==
  \/ Take \/ ot_ncp_command_handle_input \/ NoCommand \/ ForwardNothing \/ ForwardByte
  \/ ot_ncp_handle_response \/ ot_send_response \/ ClearThenDone

-----------------------------------------------------------------------------
(* The OpenThread task.                                                    *)

OtGoes(from, to) == otPc = from /\ otPc' = to

\* Is there a command?  It is copied.
CopyCmd ==
  /\ \/ OtGoes("rx", "receive") /\ cmdReady /\ received' = currentCmd
     \/ OtGoes("rx", "txdone") /\ ~cmdReady /\ UNCHANGED received
  /\ UNCHANGED <<queueVars, matterQueue, otNotified, cmdVars, bufferVars, toldTwice, autoRsp, txDoneFlag,
                 ncpPc, forwarding, cli, printed, hostVars>>

\* otPlatUartSend: the chunk is added to the buffer and otNcpTask woken.
otPlatUartSend(c) ==
  /\ txBuffer' = Append(txBuffer, c) /\ ncpSem' = TRUE
  /\ cut' = IF ncpPc \in {"send", "clear"} THEN cut \cup {c} ELSE cut
  /\ byteTold' = FALSE

\* What the CLI prints for a command: the lengths of its chunks up to the one
\* with the result and perhaps a byte after it.
Answers == [body : UNION {[1 .. k -> BOOLEAN] : k \in 0 .. MaxChunks - 1}, tail : BOOLEAN]

Chunks(a, id) ==
  LET k == Len(a.body)
  IN  [i \in 1 .. k |-> Chunk(printed + i, id, a.body[i], FALSE)]
        \o <<Chunk(printed + k + 1, id, TRUE, TRUE)>>
        \o (IF a.tail THEN <<Chunk(printed + k + 2, id, FALSE, FALSE)>> ELSE <<>>)

\* The CLI prints its answer: one chunk at once if none is on its way.
otPlatUartReceived ==
  /\ OtGoes("receive", "clear")
  /\ \E a \in Answers :
       LET out == cli.rest \o Chunks(a, received.id)
       IN  /\ printed' = printed + Len(Chunks(a, received.id))
           /\ \/ /\ cli.sending
                 /\ cli' = [cli EXCEPT !.rest = out]
                 /\ UNCHANGED <<bufferVars, ncpSem>>
              \/ /\ ~cli.sending
                 /\ otPlatUartSend(Head(out))
                 /\ cli' = [sending |-> TRUE, rest |-> Tail(out)]
  /\ UNCHANGED <<cmdQueue, merged, matterQueue, otNotified, cmdVars, toldTwice, autoRsp, txDoneFlag,
                 ncpPc, forwarding, received, hostVars>>

\* A command that otNcpTask has put in place of the one just executed is gone.
ot_ncp_clear_cmd_ready ==
  /\ OtGoes("clear", "txdone")
  /\ cmdReady' = FALSE /\ received' = NoCmd
  /\ discarded' = IF currentCmd # received THEN discarded \cup {currentCmd.id} ELSE discarded
  /\ UNCHANGED <<queueVars, matterQueue, otNotified, currentCmd, bufferVars, toldTwice, autoRsp,
                 txDoneFlag, ncpPc, forwarding, cli, printed, permit, waitsFor, sentCount, fails, got>>

\* With interrupts off: otPlatUartSendDone makes the CLI send its next chunk.
UartDone ==
  /\ OtGoes("txdone", "matter")
  /\ \/ ~txDoneFlag /\ UNCHANGED <<cli, bufferVars, ncpSem>>
     \/ /\ txDoneFlag /\ cli.rest = <<>>
        /\ cli' = [cli EXCEPT !.sending = FALSE]
        /\ UNCHANGED <<bufferVars, ncpSem>>
     \/ /\ txDoneFlag /\ cli.rest # <<>>
        /\ otPlatUartSend(Head(cli.rest))
        /\ cli' = [sending |-> TRUE, rest |-> Tail(cli.rest)]
  /\ txDoneFlag' = FALSE
  /\ UNCHANGED <<cmdQueue, merged, matterQueue, otNotified, cmdVars, toldTwice, autoRsp, ncpPc,
                 forwarding, received, printed, hostVars>>

otPlatCliUartProcess == CopyCmd \/ otPlatUartReceived \/ ot_ncp_clear_cmd_ready \/ UartDone

\* A Matter call is processed and answered, and the loop goes round again.
ncp_ot_fct_process ==
  /\ \/ /\ OtGoes("matter", "rx") /\ matterQueue # <<>>
        /\ matterQueue' = Tail(matterQueue)
        /\ waitsFor' = waitsFor \ {Head(matterQueue).id}
     \/ /\ OtGoes("matter", "sleep") /\ matterQueue = <<>>
        /\ UNCHANGED <<matterQueue, waitsFor>>
  /\ UNCHANGED <<queueVars, otNotified, cmdVars, bufferVars, toldTwice, autoRsp, txDoneFlag, ncpPc,
                 forwarding, received, cli, printed, permit, sentCount, fails, discarded, got>>

ulTaskNotifyTake ==
  /\ OtGoes("sleep", "rx") /\ otNotified
  /\ otNotified' = FALSE
  /\ UNCHANGED <<queueVars, matterQueue, cmdVars, bufferVars, toldTwice, autoRsp, txDoneFlag, ncpPc,
                 forwarding, received, cli, printed, hostVars>>

mainloop == otPlatCliUartProcess \/ ncp_ot_fct_process \/ ulTaskNotifyTake

-----------------------------------------------------------------------------
\* Both tasks wait for the host.
TaskRest ==
  /\ ncpPc = "wait" /\ ~ncpSem /\ otPc = "sleep" /\ ~otNotified
  /\ UNCHANGED taskVars

TaskNext == (\E c \in Cmd : otNcpCallback(c)) \/ otNcpTask \/ mainloop \/ TaskRest

TaskFairness == WF_taskVars(otNcpTask) /\ WF_taskVars(mainloop)

TaskSpec == TaskInit /\ [][TaskNext]_taskVars /\ TaskFairness

-----------------------------------------------------------------------------
\* Wake-ups still to be used for a command.
WakeUps == (IF ncpSem THEN 1 ELSE 0) + (IF ncpPc = "receive" THEN 1 ELSE 0)

\* A wake-up takes one command from the queue, and the binary semaphore merges
\* two of them: the commands that wait in the queue with nobody woken for them
\* are no more than the wake-ups merged so far, and none before the first.
NoneStrandedUnmerged == Len(cmdQueue) <= WakeUps + merged

\* What the CLI has printed is not lost between the two tasks, nor forwarded
\* twice: every chunk is with the host (or an error in its place), in the
\* buffer or still with the CLI, but for those put in the buffer between its
\* copy and its clearing; and there are none of these until the CLI is told
\* twice of a byte left in the buffer.
ChunksKept ==
  /\ 1 .. printed \subseteq got \cup Numbers(txBuffer) \cup Numbers(cli.rest) \cup {c.n : c \in cut}
  /\ ncpPc # "clear" => Numbers(txBuffer) \cap got = {}
  /\ ~toldTwice => cut = {}

\* Command i waits in the queue, and nothing is on its way to wake otNcpTask.
Stranded(i) == ncpPc = "wait" /\ ~ncpSem /\ \E j \in 1 .. Len(cmdQueue) : cmdQueue[j].id = i

\* A command whose answer the host waits for is answered, unless the
\* co-processor throws it away (for want of memory or room, as unknown or too
\* long, or overwritten in otCurrentCmd), is left with it in the queue, or
\* cuts off a chunk of its answer.
EveryCommandAnswered ==
  \A i \in 1 .. MaxCmds :
    i \in waitsFor ~> \/ i \notin waitsFor \/ i \in discarded \/ Stranded(i)
                      \/ i \in {c.cmd : c \in cut}
=============================================================================
