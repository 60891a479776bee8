----------------------------- MODULE SpinelHdlc -----------------------------
(***************************************************************************)
(* Reception in src/src/common/spinel/spinel_hdlc.cpp: the transport task  *)
(* decodes what the co-processor sends into mRxSpinelFrameBuffer and stops *)
(* when the buffer is full; the OpenThread task moves the saved frames to  *)
(* OpenThread's own buffer, from its loop (Process) or while it waits for  *)
(* an answer (WaitForFrame).  Both hold mReadMutex, so that one pass of    *)
(* either is one action.                                                   *)
(*                                                                         *)
(* The bytes on the wire are units: a frame is FrameLen of them, and the   *)
(* transport hands over any number of units at a time.                     *)
(***************************************************************************)
EXTENDS Naturals, Sequences, SequencesExt, FiniteSetsExt, FiniteSets

CONSTANTS
  Kinds,      \* the frames the co-processor sends, by kind; bounds the run
  FrameLen,   \* units of a frame
  MaxChunk,   \* largest number of units handed over at a time
  RxSize,     \* kMaxMultiFrameSize, in units
  OtSize      \* OpenThread's RxFrameBuffer, in units

ASSUME HdlcAssumption ==
  /\ Kinds \in Seq({"spinel", "other", "bad"})
  /\ {FrameLen, MaxChunk, OtSize} \subseteq Nat \ {0}
  /\ RxSize \in Nat /\ RxSize >= FrameLen - 1 + MaxChunk

VARIABLES
  arrived,   \* units handed over and decoded
  saved,     \* frames saved in mRxSpinelFrameBuffer, by number
  copied,    \* how many of them OpenThread has: mSavedFrame is the last of these
  isFull,    \* mIsSpinelBufferFull
  token,     \* is there an event in mMsqQueue?
  rx,        \* the transport task: "idle", "check" a chunk, or "wait" for room
  chunk,     \* its len
  ready,     \* kSpinelHdlcFrameReadyEvent
  signal,    \* otTaskletsSignalPending: the OpenThread loop has work
  otBuf,     \* frames in OpenThread's buffer
  handled,   \* frames OpenThread has handled
  ot         \* the OpenThread task: in its "loop" or in WaitForFrame: "wait"

rxVars == <<arrived, saved, copied, isFull, token, rx, chunk, ready, signal>>
receiveVars == <<rxVars, otBuf, handled, ot>>

ReceiveInit ==
  /\ arrived = 0 /\ saved = << >> /\ copied = 0 /\ isFull = FALSE /\ token = FALSE
  /\ rx = "idle" /\ chunk = 0
  /\ ready = FALSE /\ signal = FALSE
  /\ otBuf = << >> /\ handled = << >> /\ ot = "loop"

Total == Len(Kinds) * FrameLen

\* Of the frames after the first a, the next k, those HandleHdlcFrame saves: a
\* frame with an error, or that is not Spinel, is discarded.
FramesAfter(a) ==
  LET s[k \in Nat] == IF k = 0 THEN << >>
                      ELSE IF Kinds[a + k] = "spinel" THEN Append(s[k - 1], a + k) ELSE s[k - 1]
  IN  s

\* What is saved when the units up to n follow those up to m.
NewFrames(m, n) == FramesAfter(m \div FrameLen)[(n \div FrameLen) - (m \div FrameLen)]

\* mRxSpinelFrameBuffer has room for: the saved frames, those that are copied
\* too until ClearSavedFrames, and the unfinished one share it.
BufferRoom == RxSize - Len(saved) * FrameLen - (arrived % FrameLen)

-----------------------------------------------------------------------------
(* The transport task: HdlcRxCallback, ProcessRxData.                      *)

Receive(n) ==
  /\ rx = "idle" /\ arrived + n <= Total
  /\ rx' = "check" /\ chunk' = n
  /\ UNCHANGED <<arrived, saved, copied, isFull, token, ready, signal, otBuf, handled, ot>>

Decode ==
  /\ rx = "check" /\ BufferRoom >= chunk
  /\ arrived' = arrived + chunk
  /\ saved' = saved \o NewFrames(arrived, arrived')
  /\ rx' = "idle" /\ chunk' = 0
  /\ ready' = (ready \/ saved' # saved) /\ signal' = (signal \/ saved' # saved)
  /\ UNCHANGED <<copied, isFull, token, otBuf, handled, ot>>

\* Mutant: OpenThread is not told that the buffer is full.
BufferFullSilent ==
  /\ rx = "check" /\ BufferRoom < chunk
  /\ rx' = "wait"
  /\ UNCHANGED <<arrived, saved, copied, isFull, token, chunk, ready, signal, otBuf, handled, ot>>

BufferFull ==
  /\ rx = "check" /\ BufferRoom < chunk
  /\ isFull' = TRUE /\ signal' = TRUE
  /\ rx' = "wait"
  /\ UNCHANGED <<arrived, saved, copied, token, chunk, ready, otBuf, handled, ot>>

\* Mutant: the task goes back to waiting.
WakeNot ==
  /\ rx = "wait" /\ token
  /\ token' = FALSE
  /\ isFull' = TRUE
  /\ UNCHANGED <<arrived, saved, copied, rx, chunk, ready, signal, otBuf, handled, ot>>

\* xQueueReceive returns.
Wake ==
  /\ rx = "wait" /\ token
  /\ token' = FALSE
  /\ rx' = "check"
  /\ UNCHANGED <<arrived, saved, copied, isFull, chunk, ready, signal, otBuf, handled, ot>>

-----------------------------------------------------------------------------
(* The OpenThread task.                                                    *)

\* The saved frames GetNextSavedFrame has still to return.
Unread == SubSeq(saved, copied + 1, Len(saved))

\* How many of them OpenThread's buffer takes.
Fitting == Min({Len(Unread), (OtSize - Len(otBuf) * FrameLen) \div FrameLen})

\* totalBytesRead: the bytes of a frame that did not fit are undone but counted.
BytesRead ==
  IF Fitting = Len(Unread) THEN Fitting * FrameLen ELSE OtSize - Len(otBuf) * FrameLen

\* Mutant: a frame that does not fit is cleared with the frames before it.
TryReadAndDecodeLossy ==
  /\ otBuf' = otBuf \o SubSeq(Unread, 1, Fitting)
  /\ saved' = << >> /\ copied' = 0
  /\ isFull' = FALSE /\ token' = (token \/ isFull)

\* The frames that fit are copied; only when none is left to read does
\* ClearSavedFrames give their room back, and is the transport task told.
TryReadAndDecode ==
  /\ otBuf' = otBuf \o SubSeq(Unread, 1, Fitting)
  /\ IF Fitting = Len(Unread)
     THEN /\ saved' = << >> /\ copied' = 0
          /\ isFull' = FALSE /\ token' = (token \/ isFull)
     ELSE /\ copied' = copied + Fitting
          /\ UNCHANGED <<saved, isFull, token>>

\* One turn of the loop: Process, after which OpenThread handles its frames; the
\* turn is asked for again when a frame did not fit.
Process ==
  /\ ot = "loop" /\ signal
  /\ TryReadAndDecode
  /\ signal' = (saved' # << >>)
  /\ UNCHANGED <<arrived, rx, chunk, ready, handled, ot>>

Handle ==
  /\ ot = "loop" /\ otBuf # << >>
  /\ handled' = handled \o otBuf
  /\ otBuf' = << >>
  /\ UNCHANGED <<rxVars, ot>>

\* OpenThread sent a request and waits for the answer.
WaitForFrame ==
  /\ ot = "loop"
  /\ ot' = "wait"
  /\ UNCHANGED <<rxVars, otBuf, handled>>

\* The event is set: if nothing could be read it was for an earlier frame.
FrameReady ==
  /\ ot = "wait" /\ ready
  /\ ready' = FALSE
  /\ TryReadAndDecode
  /\ signal' = (signal \/ saved' # << >>)
  /\ ot' = IF BytesRead # 0 THEN "loop" ELSE "wait"
  /\ UNCHANGED <<arrived, rx, chunk, handled>>

Timeout ==
  /\ ot = "wait" /\ ~ready
  /\ ot' = "loop"
  /\ UNCHANGED <<rxVars, otBuf, handled>>

-----------------------------------------------------------------------------
RxStep == Decode \/ BufferFull \/ Wake

OtStep == Process \/ Handle \/ FrameReady \/ Timeout

ReceiveNext == (\E n \in 1 .. MaxChunk : Receive(n)) \/ RxStep \/ OtStep \/ WaitForFrame

\* Both tasks run, and the co-processor sends all its frames.
ReceiveFairness ==
  /\ WF_receiveVars(RxStep) /\ WF_receiveVars(\E n \in 1 .. MaxChunk : Receive(n))
  /\ SF_receiveVars(Process) /\ SF_receiveVars(Handle) /\ WF_receiveVars(FrameReady \/ Timeout)

ReceiveSpec == ReceiveInit /\ [][ReceiveNext]_receiveVars /\ ReceiveFairness

-----------------------------------------------------------------------------
\* Types, and neither buffer ever holds more than it has room for; a frame that
\* is kept is kept because one after it is unread.
ReceiveTypeOK ==
  /\ arrived \in 0 .. Total /\ BufferRoom \in 0 .. RxSize
  /\ IF saved = << >> THEN copied = 0 ELSE copied < Len(saved)
  /\ {isFull, token, ready, signal} \subseteq BOOLEAN
  /\ rx \in {"idle", "check", "wait"} /\ chunk \in 0 .. MaxChunk
  /\ Len(otBuf) * FrameLen <= OtSize
  /\ ot \in {"loop", "wait"}

\* Every Spinel frame that arrived intact is in one place, once, and the places
\* in their order hold the frames in the order of the wire, however full the
\* buffers were.
InOrder == handled \o otBuf \o Unread = NewFrames(0, arrived)

\* The transport task and OpenThread do not wait for each other: one that waits
\* for room has its event coming or OpenThread called, no event is left over for
\* a later wait, and OpenThread is called as long as frames are saved.
NoLostWakeup ==
  /\ rx = "wait" => token \/ (isFull /\ signal)
  /\ token \/ isFull => rx = "wait"
  /\ saved # << >> => signal

\* Everything the co-processor sent is handled.
AllHandled == <>(handled = NewFrames(0, Total))

-----------------------------------------------------------------------------
(***************************************************************************)
(* SendFrame of src/src/common/spinel/spinel_hdlc.cpp: the OpenThread task *)
(* and, when Bluetooth shares the transport (spinel_hci_hdlc.cpp), the     *)
(* host stack's task encode their frames in the one encoder buffer.        *)
(***************************************************************************)

CONSTANTS
  Task,       \* the tasks that send
  MaxFrame,   \* SPINEL_FRAME_MAX_SIZE
  Flag, Fcs,  \* bytes of an HDLC flag and of the check sequence
  NoTask

ASSUME SendAssumption ==
  MaxFrame \in Nat \ {0} /\ Flag \in Nat /\ Fcs \in Nat /\ NoTask \notin Task

VARIABLES
  mutex,    \* who holds mWriteMutex
  encoder,  \* mEncoderBuffer: the parts of frames encoded in it
  pc,       \* where each task is in SendFrame
  frame,    \* its frame: length, and how many bytes need an escape
  sent      \* what PLATFORM_SendHdlcMessage was last given

sendVars == <<mutex, encoder, pc, frame, sent>>

Frame == {f \in [len : 1 .. MaxFrame, esc : 0 .. MaxFrame] : f.esc <= f.len}

SendInit ==
  /\ mutex = NoTask /\ encoder = << >> /\ sent = << >>
  /\ pc = [t \in Task |-> "out"]
  /\ frame \in [Task -> {[len |-> 1, esc |-> 0]}]

Used == SumFunction([i \in DOMAIN encoder |-> encoder[i].size])

\* kEncoderBufferSize
EncoderRoom == 2 * MaxFrame - Used

Goes(t, l) == pc' = [pc EXCEPT ![t] = l]

\* Task t enters SendFrame.
SendFrame(t, f) ==
  /\ pc[t] = "out"
  /\ frame' = [frame EXCEPT ![t] = f]
  /\ Goes(t, "lock")
  /\ UNCHANGED <<mutex, encoder, sent>>

\* Mutant: the mutex is not waited for.
LockNot(t) ==
  /\ pc[t] = "lock"
  /\ mutex' = t
  /\ Goes(t, "begin")
  /\ UNCHANGED <<encoder, frame, sent>>

\* The mutex, and the assertion that the encoder is empty: it stops the program.
Lock(t) ==
  /\ pc[t] = "lock" /\ mutex = NoTask /\ encoder = << >>
  /\ mutex' = t
  /\ Goes(t, "begin")
  /\ UNCHANGED <<encoder, frame, sent>>

\* The encoder appends a part of the frame, or fails and appends nothing.
Part(t, from, name, size, to) ==
  /\ pc[t] = from
  /\ \/ /\ EncoderRoom >= size
        /\ encoder' = Append(encoder, [task |-> t, part |-> name, size |-> size])
        /\ Goes(t, to)
     \/ /\ EncoderRoom < size
        /\ Goes(t, "exit")
        /\ UNCHANGED encoder
  /\ UNCHANGED <<mutex, frame, sent>>

Encode(t) ==
  \/ Part(t, "begin", "flag", Flag, "data")
  \/ Part(t, "data", "data", frame[t].len + frame[t].esc, "end")
  \/ Part(t, "end", "end", Fcs + Flag, "write")

\* Write clears the encoder whether the platform took the message or not.
Write(t) ==
  /\ pc[t] = "write"
  /\ sent' = encoder
  /\ encoder' = << >>
  /\ Goes(t, "exit")
  /\ UNCHANGED <<mutex, frame>>

\* Mutant: an error returns without the mutex being given.
ExitOnError(t) ==
  /\ pc[t] = "exit"
  /\ mutex' = IF encoder = << >> THEN NoTask ELSE mutex
  /\ Goes(t, "out")
  /\ UNCHANGED <<encoder, frame, sent>>

Exit(t) ==
  /\ pc[t] = "exit"
  /\ mutex' = NoTask
  /\ Goes(t, "out")
  /\ UNCHANGED <<encoder, frame, sent>>

Step(t) == Lock(t) \/ Encode(t) \/ Write(t) \/ Exit(t)

SendNext == \E t \in Task : Step(t) \/ \E f \in Frame : SendFrame(t, f)

SendFairness == \A t \in Task : SF_sendVars(Step(t))

SendSpec == SendInit /\ [][SendNext]_sendVars /\ SendFairness

-----------------------------------------------------------------------------
\* Types, and the encoder never holds more than its buffer.
SendTypeOK ==
  /\ mutex \in Task \cup {NoTask}
  /\ Used <= 2 * MaxFrame
  /\ \A t \in Task : pc[t] \in {"out", "lock", "begin", "data", "end", "write", "exit"}

\* "Protect concurrent Send operation to avoid any buffer corruption": every
\* message the platform gets is one frame of one task, complete.
WholeFrames ==
  sent = << >> \/ /\ [i \in DOMAIN sent |-> sent[i].part] = <<"flag", "data", "end">>
                  /\ Cardinality({sent[i].task : i \in DOMAIN sent}) = 1

\* SendFrame returns, on its error paths too, unless the assertion stopped it.
Stopped == mutex = NoTask /\ encoder # << >>

SendReturns == \A t \in Task : pc[t] # "out" ~> pc[t] = "out" \/ Stopped
=============================================================================
