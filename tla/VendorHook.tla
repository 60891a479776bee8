----------------------------- MODULE VendorHook -----------------------------
(***************************************************************************)
(* The K32W0 co-processor that carries Spinel and Bluetooth's HCI on one   *)
(* serial line (src/k32w0/platform/nxp_vendor_hook.cpp).  Frames from the  *)
(* host are told apart by their first byte; frames to the host share the   *)
(* buffer mTxFrameBuffer, a queue of frames with room for HookRoom units.  *)
(* The host sends a frame over the radio, waits for the response and       *)
(* asserts if none comes, so the response must find room: the hook takes   *)
(* frames out at the front until it does.                                  *)
(***************************************************************************)
EXTENDS Naturals, Sequences, SequencesExt

CONSTANTS
  HookRoom,      \* units of mTxFrameBuffer
  HookFrames     \* bound: frames the radio, the host and Bluetooth produce

Small == 1       \* a received frame, an HCI event, a reply
Large == 2       \* a response with its acknowledgement

ASSUME VendorHookAssumption == HookRoom \in Nat /\ HookRoom >= Large

VARIABLES
  mTxFrameBuffer,    \* frames on their way to the host
  mCurTransmitTID,   \* the transaction of the transmission, 0 when there is none
  radioBusy,         \* the radio is transmitting for the host
  hostTID,           \* the transaction the host waits for, 0 when none
  fromHost,          \* the frame the decoder has put together
  bleOn,             \* Bluetooth is running
  produced           \* frames so far

hookVars == <<mTxFrameBuffer, mCurTransmitTID, radioBusy, hostTID, fromHost, bleOn, produced>>

NoHostFrame == [kind |-> "none", tid |-> 0]

HookInit ==
  /\ mTxFrameBuffer = <<>> /\ mCurTransmitTID = 0 /\ radioBusy = FALSE
  /\ hostTID = 0 /\ fromHost = NoHostFrame /\ bleOn = TRUE /\ produced = 0

-----------------------------------------------------------------------------
Used(frames) == FoldSeq(LAMBDA f, n : n + f.size, 0, frames)

\* mEncoder: the whole frame, or nothing when it does not fit.
Fits(frames, size) == Used(frames) + size <= HookRoom

Encoded(frame) ==
  mTxFrameBuffer' = IF Fits(mTxFrameBuffer, frame.size) THEN Append(mTxFrameBuffer, frame)
                    ELSE mTxFrameBuffer

Produces == produced < HookFrames /\ produced' = produced + 1

\* The next transaction identifier of the host.
Tid == 1 + (produced % 3)

-----------------------------------------------------------------------------
(* From the host.                                                          *)

\* The host asks for a transmission, sets the Bluetooth state, or sends an
\* HCI packet; the line may damage any of it, and a request that is damaged is
\* not counted as waited for.  The host waits for one transmission at a time.
HostSends(kind) ==
  /\ fromHost = NoHostFrame /\ Produces
  /\ kind = "transmit" => hostTID = 0
  /\ fromHost' \in {[kind |-> kind, tid |-> Tid], [kind |-> "damaged", tid |-> Tid]}
  /\ hostTID' = IF kind = "transmit" /\ fromHost'.kind = kind THEN Tid ELSE hostTID
  /\ UNCHANGED <<mTxFrameBuffer, mCurTransmitTID, radioBusy, bleOn>>

\* HandleFrameHook: a good frame goes to Spinel or to HCI; the receive buffer
\* is cleared in every case.
HandleFrameHook ==
  /\ fromHost # NoHostFrame /\ fromHost' = NoHostFrame
  /\ CASE fromHost.kind = "transmit" ->      \* __wrap_otLinkRawTransmit
            mCurTransmitTID' = fromHost.tid /\ radioBusy' = TRUE /\ UNCHANGED <<mTxFrameBuffer, bleOn>>
       [] fromHost.kind = "bleOff" ->        \* VendorSetPropertyHandler; there is no getter
            /\ bleOn' = FALSE
            /\ Encoded([kind |-> "notFound", tid |-> fromHost.tid, size |-> Small])
            /\ UNCHANGED <<mCurTransmitTID, radioBusy>>
       [] OTHER -> UNCHANGED <<mTxFrameBuffer, mCurTransmitTID, radioBusy, bleOn>>
  /\ UNCHANGED <<hostTID, produced>>

-----------------------------------------------------------------------------
(* To the host.                                                            *)

\* A received frame, or an HCI event (GenerateHdlcMessageAndSent): dropped when
\* it does not fit, the latter with gHciTransportError_c.
Indication(kind) ==
  /\ Produces /\ (kind = "hci" => bleOn)
  /\ Encoded([kind |-> kind, tid |-> 0, size |-> Small])
  /\ UNCHANGED <<mCurTransmitTID, radioBusy, hostTID, fromHost, bleOn>>

\* The shortest run of frames at the front that makes room.
Evicted(size) ==
  CHOOSE n \in 0 .. Len(mTxFrameBuffer) :
    /\ Fits(SubSeq(mTxFrameBuffer, n + 1, Len(mTxFrameBuffer)), size)
    /\ \A m \in 0 .. n - 1 : ~Fits(SubSeq(mTxFrameBuffer, m + 1, Len(mTxFrameBuffer)), size)

\* Mutant: as without the hook, a response that does not fit is given up.
ResponseIfItFits(size) ==
  /\ Encoded([kind |-> "response", tid |-> mCurTransmitTID, size |-> size])
  /\ mCurTransmitTID' = 0

\* LinkRawTransmitDoneHook.
RespondsInAnyCase(size) ==
  /\ mTxFrameBuffer' = Append(SubSeq(mTxFrameBuffer, Evicted(size) + 1, Len(mTxFrameBuffer)),
                              [kind |-> "response", tid |-> mCurTransmitTID, size |-> size])
  /\ mCurTransmitTID' = 0

\* The radio is done: with an acknowledgement the response is a large one.
TransmitDone(size) ==
  /\ radioBusy /\ radioBusy' = FALSE
  /\ IF mCurTransmitTID = 0 THEN UNCHANGED <<mTxFrameBuffer, mCurTransmitTID>> ELSE RespondsInAnyCase(size)
  /\ UNCHANGED <<hostTID, fromHost, bleOn, produced>>

\* SendHdlcHook: the frame at the front has been sent, and the host takes it.
FrameSent ==
  /\ mTxFrameBuffer # <<>>
  /\ mTxFrameBuffer' = Tail(mTxFrameBuffer)
  /\ hostTID' = IF Head(mTxFrameBuffer).kind = "response" /\ Head(mTxFrameBuffer).tid = hostTID THEN 0 ELSE hostTID
  /\ UNCHANGED <<mCurTransmitTID, radioBusy, fromHost, bleOn, produced>>

HookRests == produced = HookFrames /\ UNCHANGED hookVars

HookNext ==
  \/ \E kind \in {"transmit", "bleOff", "hciPacket"} : HostSends(kind)
  \/ HandleFrameHook
  \/ \E kind \in {"received", "hci"} : Indication(kind)
  \/ \E size \in {Small, Large} : TransmitDone(size)
  \/ FrameSent \/ HookRests

HookSpec == HookInit /\ [][HookNext]_hookVars

-----------------------------------------------------------------------------
\* While the host waits for a transmission, the request is on its way in, or
\* the radio is working on it, or the response is on its way out, exactly one of
\* the three and for that very transaction, however full received frames and HCI
\* events keep the buffer.
ResponseOnItsWay ==
  hostTID # 0 =>
    LET here == fromHost.kind = "transmit" /\ fromHost.tid = hostTID
        there == radioBusy /\ mCurTransmitTID = hostTID
        back == {i \in DOMAIN mTxFrameBuffer : mTxFrameBuffer[i].kind = "response"
                                               /\ mTxFrameBuffer[i].tid = hostTID}
    IN  \/ here /\ ~there /\ back = {}
        \/ ~here /\ there /\ back = {}
        \/ ~here /\ ~there /\ \E i \in back : back = {i}
=============================================================================
