----------------------------- MODULE LwipBridge -----------------------------
(***************************************************************************)
(* The two mutexes under which OpenThread and lwIP call each other         *)
(* (src/common/lwip/ot_lwip.h, ot_lwip.c, the send callbacks of            *)
(* src/common/br) and the token bucket that limits what lwIP sends.        *)
(*                                                                         *)
(* The OpenThread task holds the OT mutex while it runs; lwIP's thread     *)
(* holds the TCP/IP mutex while it handles a message of its mailbox.  An   *)
(* OT function calls lwIP under both (CALL_LWIP_API_FROM_OT_CONTEXT) or    *)
(* posts it a callback (POST_LWIP_CALLBACK_FROM_OT_CONTEXT); lwIP sends a  *)
(* packet on the Thread interface, and its callbacks free OT messages.     *)
(* build is what the firmware was built for: "br" posts packets to the OT  *)
(* task, "plain" and "nat64" hand them over under both mutexes.            *)
(***************************************************************************)
EXTENDS Integers, Sequences

CONSTANTS Builds,      \* the builds looked at
          MailboxSize, \* messages the mailbox of lwIP's thread holds
          BridgeRuns,  \* callbacks posted and packets sent, at most
          TokenRate,   \* what the bucket holds when full
          TokenStep,   \* what one period of its timer adds
          PacketLen,   \* the tokens a packet costs
          NoOne        \* holder of a free mutex

ASSUME BridgeAssumption ==
  MailboxSize \in Nat \ {0} /\ NoOne \notin {"ot", "tcp"}

VARIABLES build, otLock, tcpLock, otAt, tcpAt, mailbox, toOt, tokens, runs
lbVars == <<build, otLock, tcpLock, otAt, tcpAt, mailbox, toOt, tokens, runs>>

BridgeInit ==
  /\ build \in Builds
  /\ otLock = NoOne /\ tcpLock = NoOne
  /\ otAt = "idle" /\ tcpAt = "idle"
  /\ mailbox = <<>> /\ toOt = 0
  /\ tokens = TokenRate
  /\ runs = BridgeRuns

----------------------------------------------------------------------------
\* Each step of a thread takes it from one place to the next.
BridgeOtGoes(from, to) == otAt = from /\ otAt' = to /\ UNCHANGED <<build, tcpAt>>
TcpGoes(from, to) == tcpAt = from /\ tcpAt' = to /\ UNCHANGED <<build, otAt>>

Takes(who, lock) == lock = NoOne /\ lock' = who
Gives(who, lock) == lock = who /\ lock' = NoOne

\* The main loop takes the OT mutex, works through what lwIP posted, and
\* lets go of it.
OtLoopIn == BridgeOtGoes("idle", "running") /\ Takes("ot", otLock) /\ UNCHANGED <<tcpLock, mailbox, toOt, tokens, runs>>
OtLoopOut == BridgeOtGoes("running", "idle") /\ Gives("ot", otLock) /\ UNCHANGED <<tcpLock, mailbox, toOt, tokens, runs>>

OtReceive ==
  /\ otAt = "running" /\ toOt > 0
  /\ toOt' = toOt - 1
  /\ UNCHANGED <<build, otLock, tcpLock, otAt, tcpAt, mailbox, tokens, runs>>

\* Mutant: the OT mutex is kept while the TCP/IP mutex is waited for.
CallKeepsOt == BridgeOtGoes("running", "callTcp") /\ UNCHANGED <<otLock, tcpLock, mailbox, toOt, tokens, runs>>

\* CALL_LWIP_API_FROM_OT_CONTEXT: let go of the OT mutex, take TCP/IP's,
\* take OT's again, call, let go of TCP/IP's.
CallLwip == BridgeOtGoes("running", "callTcp") /\ Gives("ot", otLock) /\ UNCHANGED <<tcpLock, mailbox, toOt, tokens, runs>>
CallTakesTcp == BridgeOtGoes("callTcp", "callOt") /\ Takes("ot", tcpLock) /\ UNCHANGED <<otLock, mailbox, toOt, tokens, runs>>
CallTakesOt ==
  /\ BridgeOtGoes("callOt", "call")
  /\ IF otLock = "ot" THEN UNCHANGED otLock ELSE Takes("ot", otLock)
  /\ UNCHANGED <<tcpLock, mailbox, toOt, tokens, runs>>
CallEnds == BridgeOtGoes("call", "running") /\ Gives("ot", tcpLock) /\ UNCHANGED <<otLock, mailbox, toOt, tokens, runs>>

\* POST_LWIP_CALLBACK_FROM_OT_CONTEXT: let go of the OT mutex, post, which
\* waits for room in the mailbox, take it again.
PostLwip ==
  /\ BridgeOtGoes("running", "post") /\ runs > 0
  /\ runs' = runs - 1
  /\ Gives("ot", otLock)
  /\ UNCHANGED <<tcpLock, mailbox, toOt, tokens>>
PostQueued ==
  /\ BridgeOtGoes("post", "posted") /\ Len(mailbox) < MailboxSize
  /\ mailbox' = Append(mailbox, "callback")
  /\ UNCHANGED <<otLock, tcpLock, toOt, tokens, runs>>
PostEnds == BridgeOtGoes("posted", "running") /\ Takes("ot", otLock) /\ UNCHANGED <<tcpLock, mailbox, toOt, tokens, runs>>

----------------------------------------------------------------------------
\* A packet arrives that lwIP will route to the Thread interface.
PacketIn ==
  /\ runs > 0 /\ Len(mailbox) < MailboxSize
  /\ runs' = runs - 1
  /\ mailbox' = Append(mailbox, "packet")
  /\ UNCHANGED <<build, otLock, tcpLock, otAt, tcpAt, toOt, tokens>>

\* lwIP's thread takes a message from its mailbox under the TCP/IP mutex.
TcpFetches ==
  /\ mailbox # <<>>
  /\ TcpGoes("idle", Head(mailbox)) /\ Takes("tcp", tcpLock)
  /\ mailbox' = Tail(mailbox)
  /\ UNCHANGED <<otLock, toOt, tokens, runs>>

TcpDone == TcpGoes("done", "idle") /\ Gives("tcp", tcpLock) /\ UNCHANGED <<otLock, mailbox, toOt, tokens, runs>>

\* The send callbacks: the datagram is sent, then its OT message is freed
\* under the OT mutex.
CallbackTakesOt == TcpGoes("callback", "freeing") /\ Takes("tcp", otLock) /\ UNCHANGED <<tcpLock, mailbox, toOt, tokens, runs>>
CallbackFrees == TcpGoes("freeing", "done") /\ Gives("tcp", otLock) /\ UNCHANGED <<tcpLock, mailbox, toOt, tokens, runs>>

----------------------------------------------------------------------------
CanTake(n) == n <= tokens

\* otTokenBucketCallback, in the timer task.
Refilled == IF tokens + TokenStep >= TokenRate THEN TokenRate ELSE tokens + TokenStep
otTokenBucketCallback ==
  /\ tokens # TokenRate
  /\ tokens' = Refilled
  /\ UNCHANGED <<build, otLock, tcpLock, otAt, tcpAt, mailbox, toOt, runs>>

\* otPlatLwipSendPacket of a border router: a link-local multicast is
\* dropped; else tokens are taken and a copy is posted to the OT task.
SendDropped == TcpGoes("packet", "done") /\ UNCHANGED <<otLock, tcpLock, mailbox, toOt, tokens, runs>>

SendPacketBr ==
  /\ build # "plain" /\ TcpGoes("packet", "done")
  /\ CanTake(PacketLen)
  /\ tokens' = tokens - PacketLen
  /\ \/ toOt' = toOt + 1
     \/ UNCHANGED toOt                      \* no memory for the copy
  /\ UNCHANGED <<otLock, tcpLock, mailbox, runs>>

SendLimited ==
  /\ build # "plain" /\ TcpGoes("packet", "done") /\ ~CanTake(PacketLen)
  /\ UNCHANGED <<otLock, tcpLock, mailbox, toOt, tokens, runs>>

\* otPlatLwipNat64Send, and otPlatLwipSendPacket of the other builds: let go
\* of the TCP/IP mutex, take OT's, take TCP/IP's again, hand the packet over.
HandOver ==
  /\ build \in {"plain", "nat64"} /\ TcpGoes("packet", "handOt")
  /\ build = "nat64" => CanTake(PacketLen)
  /\ Gives("tcp", tcpLock)
  /\ UNCHANGED <<otLock, mailbox, toOt, tokens, runs>>
HandTakesOt == TcpGoes("handOt", "handTcp") /\ Takes("tcp", otLock) /\ UNCHANGED <<tcpLock, mailbox, toOt, tokens, runs>>
HandTakesTcp == TcpGoes("handTcp", "hand") /\ Takes("tcp", tcpLock) /\ UNCHANGED <<otLock, mailbox, toOt, tokens, runs>>
HandEnds ==
  /\ TcpGoes("hand", "done") /\ Gives("tcp", otLock)
  /\ \/ tokens' = IF CanTake(PacketLen) THEN tokens - PacketLen ELSE tokens
     \/ build = "nat64" /\ UNCHANGED tokens     \* not translated
  /\ UNCHANGED <<tcpLock, mailbox, toOt, runs>>

\* otPlatLwipNat64Send without a buffer: the exit keeps the OT mutex.
HandFails ==
  /\ build = "nat64" /\ TcpGoes("hand", "done")
  /\ UNCHANGED <<otLock, tcpLock, mailbox, toOt, tokens, runs>>

----------------------------------------------------------------------------
\* A thread that can only wait.
OtWaits ==
  \/ otAt \in {"idle", "posted"} /\ otLock # NoOne
  \/ otAt = "callTcp" /\ tcpLock # NoOne
  \/ otAt = "callOt" /\ otLock \notin {NoOne, "ot"}
  \/ otAt = "post" /\ Len(mailbox) = MailboxSize

TcpWaits ==
  \/ tcpAt = "idle" /\ mailbox # <<>> /\ tcpLock # NoOne
  \/ tcpAt \in {"callback", "handOt"} /\ otLock # NoOne
  \/ tcpAt = "handTcp" /\ tcpLock # NoOne

BridgeStuck == OtWaits /\ (TcpWaits \/ (tcpAt = "idle" /\ mailbox = <<>>))

\* Nothing is left to do, or nothing can be done.
BridgeRests == (BridgeStuck \/ runs = 0) /\ UNCHANGED lbVars

BridgeNext ==
  \/ OtLoopIn \/ OtLoopOut \/ OtReceive
  \/ CallLwip \/ CallTakesTcp \/ CallTakesOt \/ CallEnds
  \/ PostLwip \/ PostQueued \/ PostEnds
  \/ PacketIn \/ TcpFetches \/ TcpDone \/ CallbackTakesOt \/ CallbackFrees
  \/ otTokenBucketCallback \/ SendDropped \/ SendPacketBr \/ SendLimited
  \/ HandOver \/ HandTakesOt \/ HandTakesTcp \/ HandEnds \/ HandFails
  \/ BridgeRests

BridgeSpec == BridgeInit /\ [][BridgeNext]_lbVars

----------------------------------------------------------------------------
\* In a border router that does not translate, the OpenThread task and lwIP's
\* thread never wait for each other for ever: the macros let go of the OT
\* mutex before they take the TCP/IP mutex or wait for the mailbox, because
\* lwIP's callbacks take the OT mutex under the TCP/IP one.  Nor does either
\* thread sleep in its loop with a mutex in its hands.
BrNeverStuck ==
  build = "br" => /\ ~BridgeStuck
                  /\ otAt \in {"idle", "callTcp", "post", "posted"} => otLock # "ot"
                  /\ tcpAt = "idle" => "tcp" \notin {otLock, tcpLock}

\* What otPlatLwipNat64Send and otPlatLwipSendPacket promise of the same two
\* mutexes: the order in which they take them avoids deadlock.
LocksAvoidDeadlock == ~BridgeStuck
=============================================================================
