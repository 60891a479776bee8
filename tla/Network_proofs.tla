--------------------------- MODULE Network_proofs ---------------------------
(***************************************************************************)
(* Proofs about the parts of the network co-processor and of the border    *)
(* router, each for its own specification and for every value of its       *)
(* constants.                                                              *)
(***************************************************************************)
EXTENDS MCNetwork, Recursion, SequenceTheorems, FiniteSetTheorems, WellFoundedInduction, TLAPS

-----------------------------------------------------------------------------
(* LwipBridge: the two mutexes of a border router that does not translate. *)

\* Who holds which mutex follows from where the two threads are.
LocksPlaced ==
  /\ otAt \in {"idle", "running", "callTcp", "callOt", "call", "post", "posted"}
  /\ tcpAt \in {"idle", "callback", "packet", "freeing", "done"}
  /\ otLock = IF otAt \in {"running", "call"} THEN "ot"
              ELSE IF tcpAt = "freeing" THEN "tcp" ELSE NoOne
  /\ otAt \in {"running", "call"} => tcpAt # "freeing"
  /\ tcpLock = IF otAt \in {"callOt", "call"} THEN "ot"
               ELSE IF tcpAt # "idle" THEN "tcp" ELSE NoOne
  /\ otAt \in {"callOt", "call"} => tcpAt = "idle"
  /\ mailbox \in Seq({"callback", "packet"})

\* The inductive invariant of the bridge.
BridgeInv == build = "br" => LocksPlaced

\* A step of the OpenThread task keeps the mutexes where they belong.
LEMMA BridgeOtStep ==
  ASSUME build = "br", LocksPlaced,
         \/ OtLoopIn \/ OtLoopOut \/ OtReceive
         \/ CallLwip \/ CallTakesTcp \/ CallTakesOt \/ CallEnds
         \/ PostLwip \/ PostQueued \/ PostEnds
  PROVE  LocksPlaced'
<1> USE BridgeAssumption DEF LocksPlaced, BridgeOtGoes, Takes, Gives
<1>1. CASE OtLoopIn BY <1>1 DEF OtLoopIn
<1>2. CASE OtLoopOut BY <1>2 DEF OtLoopOut
<1>3. CASE OtReceive BY <1>3 DEF OtReceive
<1>4. CASE CallLwip BY <1>4 DEF CallLwip
<1>5. CASE CallTakesTcp BY <1>5 DEF CallTakesTcp
<1>6. CASE CallTakesOt BY <1>6 DEF CallTakesOt
<1>7. CASE CallEnds BY <1>7 DEF CallEnds
<1>8. CASE PostLwip BY <1>8 DEF PostLwip
<1>9. CASE PostQueued BY <1>9 DEF PostQueued
<1>10. CASE PostEnds BY <1>10 DEF PostEnds
<1> QED BY <1>1, <1>2, <1>3, <1>4, <1>5, <1>6, <1>7, <1>8, <1>9, <1>10

\* So does a step of lwIP's thread, or of the timer, or a packet that arrives.
LEMMA BridgeTcpStep ==
  ASSUME build = "br", LocksPlaced,
         \/ PacketIn \/ TcpFetches \/ TcpDone \/ CallbackTakesOt \/ CallbackFrees
         \/ otTokenBucketCallback \/ SendDropped \/ SendPacketBr \/ SendLimited
         \/ HandOver \/ HandTakesOt \/ HandTakesTcp \/ HandEnds \/ HandFails
         \/ BridgeRests
  PROVE  LocksPlaced'
<1> USE BridgeAssumption DEF LocksPlaced, TcpGoes, Takes, Gives
<1>1. CASE PacketIn BY <1>1 DEF PacketIn
<1>2. CASE TcpFetches
  <2>1. Head(mailbox) \in {"callback", "packet"} /\ Tail(mailbox) \in Seq({"callback", "packet"})
    BY <1>2 DEF TcpFetches
  <2> QED BY <1>2, <2>1 DEF TcpFetches
<1>3. CASE TcpDone BY <1>3 DEF TcpDone
<1>4. CASE CallbackTakesOt BY <1>4 DEF CallbackTakesOt
<1>5. CASE CallbackFrees BY <1>5 DEF CallbackFrees
<1>6. CASE otTokenBucketCallback BY <1>6 DEF otTokenBucketCallback
<1>7. CASE SendDropped BY <1>7 DEF SendDropped
<1>8. CASE SendPacketBr BY <1>8 DEF SendPacketBr
<1>9. CASE SendLimited BY <1>9 DEF SendLimited
<1>10. CASE HandOver \/ HandTakesOt \/ HandTakesTcp \/ HandEnds \/ HandFails
  BY <1>10 DEF HandOver, HandTakesOt, HandTakesTcp, HandEnds, HandFails
<1>11. CASE BridgeRests BY <1>11 DEF BridgeRests, lbVars
<1> QED BY <1>1, <1>2, <1>3, <1>4, <1>5, <1>6, <1>7, <1>8, <1>9, <1>10, <1>11

\* In the invariant no thread waits for the other: whoever waits for a mutex
\* or for room in the mailbox waits for a thread that can go on.
LEMMA LocksPlacedNeverStuck ==
  ASSUME build = "br" => LocksPlaced PROVE BrNeverStuck
<1> SUFFICES ASSUME build = "br", LocksPlaced PROVE BrNeverStuck
  BY DEF BrNeverStuck
<1>1. otAt \in {"idle", "callTcp", "post", "posted"} => otLock # "ot"
  BY BridgeAssumption DEF LocksPlaced
<1>2. tcpAt = "idle" => "tcp" \notin {otLock, tcpLock}
  BY BridgeAssumption DEF LocksPlaced
<1>3. ~BridgeStuck
  BY BridgeAssumption DEF LocksPlaced, BridgeStuck, OtWaits, TcpWaits
<1> QED BY <1>1, <1>2, <1>3 DEF BrNeverStuck

\* The OpenThread task and lwIP's thread of a border router never wait for each
\* other for ever, whatever the size of the mailbox: the macros of ot_lwip.h let
\* go of the OT mutex before they wait for lwIP.
THEOREM BridgeNeverStuck == BridgeSpec => []BrNeverStuck
<1>1. BridgeInit => BridgeInv
  BY BridgeAssumption DEF BridgeInit, BridgeInv, LocksPlaced
<1>2. BridgeInv /\ [BridgeNext]_lbVars => BridgeInv'
  <2> SUFFICES ASSUME BridgeInv, [BridgeNext]_lbVars, build' = "br" PROVE LocksPlaced'
    BY DEF BridgeInv
  <2>1. CASE UNCHANGED lbVars
    BY <2>1 DEF BridgeInv, LocksPlaced, lbVars
  <2>2. CASE BridgeNext
    <3>1. build = "br"
      BY <2>2 DEF BridgeNext, OtLoopIn, OtLoopOut, OtReceive, CallLwip, CallTakesTcp,
         CallTakesOt, CallEnds, PostLwip, PostQueued, PostEnds, PacketIn, TcpFetches, TcpDone,
         CallbackTakesOt, CallbackFrees, otTokenBucketCallback, SendDropped, SendPacketBr,
         SendLimited, HandOver, HandTakesOt, HandTakesTcp, HandEnds, HandFails, BridgeRests,
         BridgeOtGoes, TcpGoes, lbVars
    <3> QED BY <2>2, <3>1, BridgeOtStep, BridgeTcpStep DEF BridgeInv, BridgeNext
  <2> QED BY <2>1, <2>2
<1>3. BridgeInv => BrNeverStuck
  BY LocksPlacedNeverStuck DEF BridgeInv
<1> QED BY <1>1, <1>2, <1>3, PTL DEF BridgeSpec

-----------------------------------------------------------------------------
(* NcpContexts: the SRP services.                                          *)

\* The SRP client never holds a freed entry, whatever the size of the pool.
THEOREM ServicesAllocated == ServiceSpec => []ListedAllocated
<1>1. ServiceInit => ListedAllocated
  BY DEF ServiceInit, ListedAllocated
<1>2. ListedAllocated /\ [ServiceNext]_serviceVars => ListedAllocated'
  <2> SUFFICES ASSUME ListedAllocated, [ServiceNext]_serviceVars PROVE ListedAllocated'
    OBVIOUS
  <2> USE DEF ListedAllocated
  <2>1. CASE process_otSrpClientAddService
    BY <2>1 DEF process_otSrpClientAddService, AddServiceDone, AddServiceTooManyLabels,
                AddServiceRefused, serviceVars
  <2>2. ASSUME NEW e \in Entry,
               process_otSrpClientRemoveService(e) \/ process_otSrpClientClearService(e)
        PROVE  ListedAllocated'
    BY <2>2 DEF process_otSrpClientRemoveService, process_otSrpClientClearService
  <2>3. CASE process_otSrpClientRemoveHostAndServices
    BY <2>3 DEF process_otSrpClientRemoveHostAndServices
  <2>4. CASE process_otSrpClientSetCallback
    BY <2>4 DEF process_otSrpClientSetCallback
  <2>5. ASSUME NEW gone \in SUBSET removing, ncp_SrpClientCallback(gone)
        PROVE  ListedAllocated'
    BY <2>5 DEF ncp_SrpClientCallback
  <2>6. CASE HostReadsRemoved
    BY <2>6 DEF HostReadsRemoved
  <2>7. CASE UNCHANGED serviceVars
    BY <2>7 DEF serviceVars
  <2> QED BY <2>1, <2>2, <2>3, <2>4, <2>5, <2>6, <2>7 DEF ServiceNext
<1> QED BY <1>1, <1>2, PTL DEF ServiceSpec

-----------------------------------------------------------------------------
(* NcpSleep: the handshake before a sleep.                                 *)

\* suspend_notify_flag goes with the state of the handshake, and only a
\* handshake that is done, with the host's word, lets the co-processor sleep.
HandshakeInv ==
  /\ handshake \in {"not started", "in process", "done"}
  /\ suspendFlag = IF handshake = "not started" THEN {}
                   ELSE IF handshake = "in process" THEN {"evt"} ELSE {"cfm"}
  /\ handshake = "done" => consent
  /\ asleep => handshake = "done"
  /\ hsCfm \in BOOLEAN /\ asleep \in BOOLEAN
  /\ hsCfm = (handshake # "in process")

\* Every step of the idle task, the notification task and the host keeps it.
LEMMA HandshakeStep == HandshakeInv /\ [SleepNext]_sleepVars => HandshakeInv'
<1> SUFFICES ASSUME HandshakeInv, [SleepNext]_sleepVars PROVE HandshakeInv'
  OBVIOUS
<1> USE DEF HandshakeInv
<1>1. CASE EnterSleep
  <2>1. asleep' \in BOOLEAN /\ consent' = consent /\ (asleep' => handshake' # "in process")
    BY <1>1 DEF EnterSleep, powerManager_BoardNotify
  <2>2. asleep' => ~reinit
    BY <1>1 DEF EnterSleep, powerManager_BoardNotify
  <2>3. handshake # "in process" /\ host_sleep_pre_cfg
    BY <1>1 DEF EnterSleep, powerManager_PmNotify
  <2>4. CASE suspendFlag = {} /\ ~reinit
    BY <2>1, <2>3, <2>4 DEF host_sleep_pre_cfg
  <2>5. CASE ~(suspendFlag = {} /\ ~reinit)
    <3>1. UNCHANGED <<suspendFlag, handshake, hsCfm>>
      BY <2>3, <2>5 DEF host_sleep_pre_cfg
    <3>2. asleep' => handshake = "done"
      BY <2>2, <2>3, <2>5
    <3> QED BY <2>1, <3>1, <3>2
  <2> QED BY <2>4, <2>5
<1>2. CASE host_sleep_post_cfg
  <2>1. suspendFlag = {"cfm"}
    BY <1>2 DEF host_sleep_post_cfg
  <2>2. asleep' = FALSE /\ suspendFlag' = {} /\ handshake' = "not started" /\ hsCfm' = hsCfm
    BY <1>2, <2>1 DEF host_sleep_post_cfg
  <2>3. hsCfm = TRUE
    BY <1>2 DEF host_sleep_post_cfg
  <2> QED BY <2>2, <2>3
<1> HIDE DEF HandshakeInv
<1>0. ASSUME UNCHANGED pmVars PROVE HandshakeInv'
  BY <1>0 DEF HandshakeInv, pmVars
<1>3. CASE app_notify_event_handler
  <2>1. UNCHANGED pmVars
    BY <1>3 DEF app_notify_event_handler, MsgQGet, WaitForAnswer, SendEvent
  <2> QED BY <2>1, <1>0
<1>4. CASE HostConfirms \/ HostRepeats
  BY <1>4 DEF HandshakeInv, HostConfirms, HostRepeats, ot_ncp_system_sleep
<1>5. CASE HostReadsExit \/ CliCommand \/ CliAnswer
  <2>1. UNCHANGED pmVars
    BY <1>5 DEF HostReadsExit, CliCommand, CliAnswer
  <2> QED BY <2>1, <1>0
<1>6. CASE UNCHANGED sleepVars
  BY <1>6, <1>0 DEF sleepVars, pmVars
<1> QED BY <1>1, <1>2, <1>3, <1>4, <1>5, <1>6 DEF SleepNext, SleepRest, Host

\* The places of a queue at which the word for the host lies.
Enters(s) == {i \in 1 .. Len(s) : s[i] = "enter"}

\* As long as the host confirms only what it was asked, the word that the
\* co-processor wants to sleep is at one place at most, and only during a
\* handshake.
WordAtOnePlace ==
  /\ \A i, j \in Enters(notifyQueue) : i = j
  /\ \A i, j \in Enters(hostInbox) : i = j
  /\ Enters(notifyQueue) = {} \/ Enters(hostInbox) = {}
  /\ notifyMsg \in {"enter", "enter now"} => Enters(notifyQueue) = {} /\ Enters(hostInbox) = {}

WordInv ==
  /\ notifyQueue \in Seq({"enter", "exit"}) /\ hostInbox \in Seq({"enter", "exit"})
  /\ strays \in Nat
  /\ strays = 0 => /\ WordAtOnePlace
                   /\ handshake # "in process" => ~Announced

\* What is appended lies behind all the rest, what is taken lay first.
LEMMA EntersAppend ==
  ASSUME NEW s \in Seq({"enter", "exit"}), NEW e \in {"enter", "exit"}
  PROVE  /\ Append(s, e) \in Seq({"enter", "exit"})
         /\ Enters(Append(s, e)) = IF e = "enter" THEN Enters(s) \cup {Len(s) + 1} ELSE Enters(s)
BY DEF Enters

LEMMA EntersTail ==
  ASSUME NEW s \in Seq({"enter", "exit"}), s # <<>>
  PROVE  /\ Head(s) \in {"enter", "exit"} /\ Tail(s) \in Seq({"enter", "exit"})
         /\ \A i \in Enters(Tail(s)) : i + 1 \in Enters(s) \ {1}
         /\ Head(s) = "enter" => 1 \in Enters(s)
BY DEF Enters

LEMMA AnnouncedEnters ==
  Announced <=> \/ notifyMsg \in {"enter", "enter now"}
                \/ Enters(notifyQueue) # {} \/ Enters(hostInbox) # {}
BY DEF Announced, Enters

\* The word is handed on from place to place and is gone when the host confirms.
LEMMA WordStep == HandshakeInv /\ WordInv /\ [SleepNext]_sleepVars => WordInv'
<1> SUFFICES ASSUME HandshakeInv, WordInv, [SleepNext]_sleepVars PROVE WordInv'
  OBVIOUS
<1> DEFINE Q == Enters(notifyQueue)
           H == Enters(hostInbox)
           M == notifyMsg \in {"enter", "enter now"}
<1>a. /\ Announced <=> M \/ Q # {} \/ H # {}
      /\ Announced' <=> M' \/ Q' # {} \/ H' # {}
  <2>1. Announced' <=> M' \/ Q' # {} \/ H' # {}
    BY DEF Announced, Enters
  <2> QED BY <2>1, AnnouncedEnters
<1>b. /\ notifyQueue \in Seq({"enter", "exit"}) /\ hostInbox \in Seq({"enter", "exit"})
      /\ strays \in Nat
  BY DEF WordInv
<1>0. ASSUME UNCHANGED <<notifyQueue, notifyMsg, hostInbox, handshake, strays>> PROVE WordInv'
  BY <1>0 DEF WordInv, WordAtOnePlace, Announced, Enters
<1>1. CASE EnterSleep
  <2>1. UNCHANGED <<notifyMsg, hostInbox, strays>>
    BY <1>1 DEF EnterSleep, notifyVars
  <2>2. handshake # "in process" /\ host_sleep_pre_cfg
    BY <1>1 DEF EnterSleep, powerManager_PmNotify
  <2>3. CASE suspendFlag = {} /\ ~reinit
    <3>1. handshake' = "in process" /\ app_notify_event("enter")
      BY <2>2, <2>3 DEF host_sleep_pre_cfg, HandshakeInv
    <3>2. /\ notifyQueue' \in Seq({"enter", "exit"})
          /\ Q' = Q \/ Q' = Q \cup {Len(notifyQueue) + 1}
      BY <3>1, <1>b, EntersAppend DEF app_notify_event
    <3>3. strays = 0 => ~M /\ Q = {} /\ H = {}
      BY <2>2, <1>a DEF WordInv
    <3>4. H' = H /\ (M' <=> M)
      BY <2>1
    <3> QED BY <1>a, <1>b, <2>1, <3>1, <3>2, <3>3, <3>4 DEF WordInv, WordAtOnePlace
  <2>4. CASE ~(suspendFlag = {} /\ ~reinit)
    BY <1>0, <2>1, <2>2, <2>4 DEF host_sleep_pre_cfg
  <2> QED BY <2>3, <2>4
<1>2. CASE host_sleep_post_cfg
  <2>1. /\ UNCHANGED <<notifyMsg, hostInbox, strays>>
        /\ handshake = "done" /\ handshake' = "not started" /\ app_notify_event("exit")
    BY <1>2 DEF host_sleep_post_cfg, notifyVars, HandshakeInv
  <2>2. notifyQueue' \in Seq({"enter", "exit"}) /\ Q' = Q
    BY <2>1, <1>b, EntersAppend DEF app_notify_event
  <2>3. strays = 0 => ~M /\ Q = {} /\ H = {}
    BY <2>1, <1>a DEF WordInv
  <2>4. H' = H /\ (M' <=> M)
    BY <2>1
  <2> QED BY <1>a, <1>b, <2>1, <2>2, <2>3, <2>4 DEF WordInv, WordAtOnePlace
<1>3. CASE MsgQGet
  <2>1. /\ notifyMsg = "none" /\ notifyQueue # <<>>
        /\ notifyMsg' = Head(notifyQueue) /\ notifyQueue' = Tail(notifyQueue)
        /\ UNCHANGED <<hostInbox, handshake, strays>>
    BY <1>3 DEF MsgQGet, pmVars
  <2>2. /\ Tail(notifyQueue) \in Seq({"enter", "exit"}) /\ Head(notifyQueue) \in {"enter", "exit"}
        /\ \A i \in Q' : i + 1 \in Q \ {1}
        /\ Head(notifyQueue) = "enter" => 1 \in Q
    BY <1>b, <2>1, EntersTail
  <2>3. H' = H /\ ~M /\ (M' <=> Head(notifyQueue) = "enter")
    BY <2>1, <2>2
  <2>4. \A i \in Q : i \in Nat
    BY DEF Enters
  <2>5. \A i \in Q' : i \in Nat
    BY DEF Enters
  <2>6. ASSUME strays = 0 PROVE WordAtOnePlace' /\ (handshake' # "in process" => ~Announced')
    <3>1. /\ \A i, j \in Q : i = j
          /\ \A i, j \in H : i = j
          /\ Q = {} \/ H = {}
          /\ handshake # "in process" => Q = {} /\ H = {}
      BY <2>6, <1>a DEF WordInv, WordAtOnePlace
    <3>2. \A i, j \in Q' : i = j
      <4> SUFFICES ASSUME NEW i \in Q', NEW j \in Q' PROVE i = j
        OBVIOUS
      <4>1. i \in Nat /\ j \in Nat /\ i + 1 \in Q /\ j + 1 \in Q
        BY <2>2, <2>5
      <4>2. i + 1 = j + 1
        BY <3>1, <4>1
      <4> HIDE DEF Q
      <4> QED BY <4>1, <4>2
    <3>3. Q' # {} => Q # {}
      BY <2>2
    <3>4. M' => Q' = {} /\ H' = {}
      BY <2>2, <2>3, <3>1
    <3>5. handshake' # "in process" => ~M' /\ Q' = {} /\ H' = {}
      BY <2>1, <2>2, <2>3, <3>1, <3>3
    <3> QED BY <1>a, <2>3, <3>1, <3>2, <3>3, <3>4, <3>5 DEF WordAtOnePlace
  <2> QED BY <1>b, <2>1, <2>2, <2>6 DEF WordInv
<1>4. CASE WaitForAnswer
  <2>1. UNCHANGED <<notifyQueue, hostInbox, handshake, strays>> /\ M /\ M'
    BY <1>4 DEF WaitForAnswer, pmVars
  <2>2. Q' = Q /\ H' = H
    BY <2>1
  <2> QED BY <1>a, <1>b, <2>1, <2>2 DEF WordInv, WordAtOnePlace
<1>5. CASE SendEvent
  <2>1. UNCHANGED <<notifyQueue, handshake, strays>> /\ ~M'
    BY <1>5 DEF SendEvent, pmVars
  <2>2. /\ hostInbox' \in Seq({"enter", "exit"})
        /\ H' = H \/ (M /\ H' = H \cup {Len(hostInbox) + 1})
    <3>1. CASE UNCHANGED hostInbox
      BY <3>1, <1>b
    <3>2. CASE hostInbox' = Append(hostInbox, IF notifyMsg = "exit" THEN "exit" ELSE "enter")
      <4>1. notifyMsg \in {"enter now", "exit"}
        BY <1>5 DEF SendEvent
      <4> QED BY <4>1, <3>2, <1>b, EntersAppend
    <3> QED BY <1>5, <3>1, <3>2 DEF SendEvent
  <2>3. Q' = Q
    BY <2>1
  <2>4. ASSUME strays = 0 PROVE WordAtOnePlace' /\ (handshake' # "in process" => ~Announced')
    <3>1. /\ \A i, j \in Q : i = j
          /\ \A i, j \in H : i = j
          /\ Q = {} \/ H = {}
          /\ M => Q = {} /\ H = {}
          /\ handshake # "in process" => ~M /\ Q = {} /\ H = {}
      BY <2>4, <1>a DEF WordInv, WordAtOnePlace
    <3> QED BY <1>a, <2>1, <2>2, <2>3, <3>1 DEF WordAtOnePlace
  <2> QED BY <1>b, <2>1, <2>2, <2>4 DEF WordInv
<1>6. CASE HostConfirms \/ HostReadsExit
  <2>1. /\ hostInbox # <<>> /\ hostInbox' = Tail(hostInbox)
        /\ UNCHANGED <<notifyQueue, notifyMsg, strays>>
        /\ Head(hostInbox) = "enter" \/ handshake' = handshake
    BY <1>6 DEF HostConfirms, HostReadsExit, pmVars, notifyVars
  <2>2. /\ Tail(hostInbox) \in Seq({"enter", "exit"})
        /\ \A i \in H' : i + 1 \in H \ {1}
        /\ Head(hostInbox) = "enter" => 1 \in H
    BY <1>b, <2>1, EntersTail
  <2>3. Q' = Q /\ (M' <=> M)
    BY <2>1
  <2>4. \A i \in H' : i \in Nat
    BY DEF Enters
  <2>5. ASSUME strays = 0 PROVE WordAtOnePlace' /\ (handshake' # "in process" => ~Announced')
    <3>1. /\ \A i, j \in Q : i = j
          /\ \A i, j \in H : i = j
          /\ Q = {} \/ H = {}
          /\ M => Q = {} /\ H = {}
          /\ handshake # "in process" => ~M /\ Q = {} /\ H = {}
      BY <2>5, <1>a DEF WordInv, WordAtOnePlace
    <3>2. \A i, j \in H' : i = j
      <4> SUFFICES ASSUME NEW i \in H', NEW j \in H' PROVE i = j
        OBVIOUS
      <4>1. i \in Nat /\ j \in Nat /\ i + 1 \in H /\ j + 1 \in H
        BY <2>2, <2>4
      <4>2. i + 1 = j + 1
        BY <3>1, <4>1
      <4> HIDE DEF H
      <4> QED BY <4>1, <4>2
    <3>3. H' # {} => H # {}
      BY <2>2
    <3>4. Head(hostInbox) = "enter" => ~M' /\ Q' = {} /\ H' = {}
      BY <2>2, <2>3, <3>1
    <3> QED BY <1>a, <2>1, <2>3, <3>1, <3>2, <3>3, <3>4 DEF WordAtOnePlace
  <2> QED BY <1>b, <2>1, <2>2, <2>5 DEF WordInv
<1>7. CASE HostRepeats
  <2>1. UNCHANGED <<notifyQueue, hostInbox>> /\ strays' = strays + 1
    BY <1>7 DEF HostRepeats
  <2>2. strays' \in Nat /\ strays' # 0
    BY <1>b, <2>1
  <2> QED BY <1>b, <2>1, <2>2 DEF WordInv
<1>8. CASE CliCommand \/ CliAnswer
  BY <1>8, <1>0 DEF CliCommand, CliAnswer, pmVars, notifyVars
<1>9. CASE UNCHANGED sleepVars
  BY <1>9, <1>0 DEF sleepVars
<1> QED BY <1>1, <1>2, <1>3, <1>4, <1>5, <1>6, <1>7, <1>8, <1>9
        DEF SleepNext, SleepRest, Host, app_notify_event_handler

\* It is so whatever the scheduling.
LEMMA SleepSafe ==
  SleepInit /\ [][SleepNext]_sleepVars => [](SleepConfirmed /\ TokenMatchesHandshake)
<1>1. SleepInit => HandshakeInv /\ WordInv
  <2> SUFFICES ASSUME SleepInit PROVE HandshakeInv /\ WordInv
    OBVIOUS
  <2>1. HandshakeInv
    BY DEF SleepInit, HandshakeInv
  <2>2. WordInv
    <3>1. /\ notifyQueue = <<>> /\ hostInbox = <<>> /\ strays = 0
          /\ notifyMsg \notin {"enter", "enter now"}
      BY DEF SleepInit
    <3>2. Enters(<<>>) = {}
      BY Len(<<>>) = 0 DEF Enters
    <3>3. <<>> \in Seq({"enter", "exit"})
      OBVIOUS
    <3>4. Enters(notifyQueue) = {} /\ Enters(hostInbox) = {} /\ ~Announced
      BY <3>1, <3>2, AnnouncedEnters
    <3>5. WordAtOnePlace
      BY <3>1, <3>4 DEF WordAtOnePlace
    <3> QED BY <3>1, <3>3, <3>4, <3>5 DEF WordInv
  <2> QED BY <2>1, <2>2
<1>2. HandshakeInv /\ WordInv => SleepConfirmed /\ TokenMatchesHandshake
  BY DEF HandshakeInv, WordInv, SleepConfirmed, TokenMatchesHandshake
<1> QED BY <1>1, <1>2, HandshakeStep, WordStep, PTL

\* The co-processor sleeps only with a confirmation of its own, for this very
\* sleep if the host confirms only what it was asked, and hs_cfm is taken exactly
\* during a handshake.
THEOREM SleepIsConfirmed == SleepSpec => [](SleepConfirmed /\ TokenMatchesHandshake)
BY SleepSafe, PTL DEF SleepSpec

-----------------------------------------------------------------------------
(* NcpContexts: the table of addresses.                                    *)

\* A nonempty set of naturals has a least element, and Min is it.
LEMMA MinOfNaturals ==
  ASSUME NEW S \in SUBSET Nat, S # {}
  PROVE  Min(S) \in S /\ \A y \in S : Min(S) <= y
<1>1. PICK x \in S : \A y \in S : ~(<<y, x>> \in OpToRel(<, Nat))
  BY NatLessThanWellFounded, WFMin
<1>2. \A y \in S : ~(y < x)
  BY <1>1 DEF OpToRel
<1>3. \E z \in S : \A y \in S : z <= y
  BY <1>2
<1> QED BY <1>3, Zenon DEF Min

\* What the table may hold: a context of the host for a context that was drawn
\* or for the socket, 0 for a message.
TableEntry == [addr32 : DeviceCtx \cup {Sock} \cup Msg, addr64 : HostCtx \cup {NoHost}]

InTable(t, a32, a64) == \E i \in 1 .. Len(t) : t[i] = Mapped(a32, a64)

\* No address is in the table twice.
OneEach(t) == \A i, j \in 1 .. Len(t) : t[i].addr32 = t[j].addr32 => i = j

IsTable(t) == t \in Seq(TableEntry) /\ OneEach(t)

\* A new address is appended.
LEMMA MapAdds ==
  ASSUME NEW t, IsTable(t), NEW a \in DeviceCtx \cup {Sock} \cup Msg,
         NEW h \in HostCtx \cup {NoHost}, Places(t, a) = {}
  PROVE  LET u == map_32_to_64_addr(t, a, h)
         IN  /\ IsTable(u)
             /\ \A b, g : InTable(u, b, g) <=> InTable(t, b, g) \/ (b = a /\ g = h)
<1> DEFINE u == map_32_to_64_addr(t, a, h)
<1>1. Mapped(a, h) \in TableEntry /\ Mapped(a, h).addr32 = a
  BY DEF Mapped, TableEntry
<1>2. u = Append(t, Mapped(a, h))
  BY <1>1 DEF map_32_to_64_addr, Places
<1>3. /\ u \in Seq(TableEntry) /\ Len(u) = Len(t) + 1 /\ u[Len(t) + 1] = Mapped(a, h)
      /\ \A i \in 1 .. Len(t) : u[i] = t[i]
  BY <1>1, <1>2 DEF IsTable
<1>4. OneEach(u)
  BY <1>1, <1>3 DEF OneEach, IsTable, Places
<1>5. ASSUME NEW b, NEW g PROVE InTable(u, b, g) <=> InTable(t, b, g) \/ (b = a /\ g = h)
  <2>0. Len(t) \in Nat
    BY DEF IsTable
  <2>1. ASSUME InTable(u, b, g), ~InTable(t, b, g) PROVE b = a /\ g = h
    BY <2>0, <2>1, <1>3 DEF InTable, Mapped
  <2>2. ASSUME InTable(t, b, g) PROVE InTable(u, b, g)
    BY <2>0, <2>2, <1>3 DEF InTable
  <2>3. InTable(u, a, h)
    BY <2>0, <1>3 DEF InTable
  <2> QED BY <2>1, <2>2, <2>3
<1> QED BY <1>3, <1>4, <1>5 DEF IsTable

\* An address in the table is translated into what it was mapped to.
LEMMA GetFinds ==
  ASSUME NEW t, IsTable(t), NEW a, NEW h, InTable(t, a, h)
  PROVE  get_64_mapped_addr(t, a) = h
<1>1. PICK i \in 1 .. Len(t) : t[i] = Mapped(a, h)
  BY DEF InTable
<1>2. t[i].addr32 = a /\ t[i].addr64 = h
  BY <1>1 DEF Mapped
<1>3. Places(t, a) = {i}
  BY <1>2 DEF Places, IsTable, OneEach
<1>4. Min({i}) = i
  BY DEF Min
<1> QED BY <1>2, <1>3, <1>4 DEF get_64_mapped_addr

\* An address is in the table when it has a place there.
LEMMA PlacesHolds ==
  ASSUME NEW t, IsTable(t), NEW a
  PROVE  Places(t, a) # {} <=> \E h \in HostCtx \cup {NoHost} : InTable(t, a, h)
<1>1. \A i \in 1 .. Len(t) :
        t[i].addr64 \in HostCtx \cup {NoHost} /\ t[i] = Mapped(t[i].addr32, t[i].addr64)
  <2>1. \A i \in 1 .. Len(t) : t[i] \in TableEntry
    BY DEF IsTable
  <2>2. \A e \in TableEntry :
          e.addr64 \in HostCtx \cup {NoHost} /\ e = Mapped(e.addr32, e.addr64)
    BY DEF TableEntry, Mapped
  <2> QED BY <2>1, <2>2
<1>2. ASSUME Places(t, a) # {} PROVE \E h \in HostCtx \cup {NoHost} : InTable(t, a, h)
  <2>1. PICK i \in 1 .. Len(t) : t[i].addr32 = a
    BY <1>2 DEF Places
  <2> QED BY <1>1, <2>1 DEF InTable
<1>3. ASSUME NEW h, InTable(t, a, h) PROVE Places(t, a) # {}
  BY <1>3 DEF InTable, Places, Mapped
<1> QED BY <1>2, <1>3

\* Removing an address takes its entry out and leaves the others.
LEMMA RemoveTakesOut ==
  ASSUME NEW t, IsTable(t), NEW a
  PROVE  LET u == remove_64_mapped_addr(t, a)
         IN  /\ IsTable(u)
             /\ \A b, h : InTable(u, b, h) <=> InTable(t, b, h) /\ b # a
<1> DEFINE u == remove_64_mapped_addr(t, a)
<1>0. Len(t) \in Nat /\ \A i \in 1 .. Len(t) : t[i] \in TableEntry
  BY DEF IsTable
<1>1. CASE Places(t, a) = {}
  BY <1>1 DEF remove_64_mapped_addr, InTable, Places, Mapped
<1>2. CASE Places(t, a) # {}
  <2>1. PICK p \in 1 .. Len(t) : t[p].addr32 = a /\ Places(t, a) = {p}
    BY <1>2 DEF Places, IsTable, OneEach
  <2>2. Min({p}) = p
    BY DEF Min
  <2> DEFINE v == [t EXCEPT ![p] = t[Len(t)]]
  <2>3. v \in Seq(TableEntry) /\ Len(v) = Len(t)
    BY <1>0, <2>1 DEF IsTable
  <2>4. u = SubSeq(v, 1, Len(t) - 1)
    BY <1>2, <2>1, <2>2 DEF remove_64_mapped_addr
  <2>5. /\ u \in Seq(TableEntry) /\ Len(u) = Len(t) - 1
        /\ \A i \in 1 .. Len(t) - 1 : u[i] = IF i = p THEN t[Len(t)] ELSE t[i]
    <3> HIDE DEF u
    <3>1. Len(t) - 1 \in 0 .. Len(v) /\ \A i \in 1 .. Len(t) - 1 : v[i] \in TableEntry
      BY <1>0, <2>1, <2>3
    <3>2. u \in Seq(TableEntry) /\ Len(u) = Len(t) - 1 /\ \A i \in 1 .. Len(t) - 1 : u[i] = v[i]
      BY <1>0, <2>3, <2>4, <3>1
    <3>3. \A i \in 1 .. Len(t) - 1 : v[i] = IF i = p THEN t[Len(t)] ELSE t[i]
      BY <1>0, <2>1 DEF IsTable
    <3> QED BY <3>2, <3>3
  <2> HIDE DEF u, v
  <2>6. OneEach(u)
    BY <1>0, <2>1, <2>5 DEF OneEach, IsTable
  <2>7. ASSUME NEW b, NEW h PROVE InTable(u, b, h) <=> InTable(t, b, h) /\ b # a
    <3>1. ASSUME InTable(u, b, h) PROVE InTable(t, b, h) /\ b # a
      <4>1. PICK i \in 1 .. Len(u) : u[i] = Mapped(b, h)
        BY <3>1 DEF InTable
      <4>2. PICK j \in 1 .. Len(t) : j # p /\ t[j] = Mapped(b, h)
        BY <4>1, <1>0, <2>1, <2>5
      <4>3. t[j].addr32 = b
        BY <4>2 DEF Mapped
      <4> QED BY <4>2, <4>3, <2>1 DEF InTable, IsTable, OneEach
    <3>2. ASSUME InTable(t, b, h), b # a PROVE InTable(u, b, h)
      <4>1. PICK i \in 1 .. Len(t) : t[i] = Mapped(b, h)
        BY <3>2 DEF InTable
      <4>2. i # p
        BY <4>1, <3>2, <2>1 DEF Mapped
      <4>3. CASE i = Len(t)
        BY <4>1, <4>2, <4>3, <1>0, <2>1, <2>5 DEF InTable
      <4>4. CASE i # Len(t)
        BY <4>1, <4>2, <4>4, <1>0, <2>5 DEF InTable
      <4> QED BY <4>3, <4>4
    <3> QED BY <3>1, <3>2
  <2> QED BY <2>5, <2>6, <2>7 DEF IsTable, u
<1> QED BY <1>1, <1>2

\* The socket is in the table, and its context in ptr_eventid_array, exactly
\* while OpenThread holds the UDP callback.
UdpKept ==
  /\ \A a, b \in Asking("udp") : a = b
  /\ Places(addrMap, Sock) # {} <=> Asking("udp") # {}
  /\ Asking("udp") = {} => \A r \in udpCtx : r.event # "udp"
  /\ \A a \in Asking("udp") : \E r \in udpCtx : r.event = "udp"
  /\ \A a \in Asking("udp"), r \in udpCtx : r.event = "udp" => r.ptr = a.ctx

CallbackKind == {"state", "discover", "udp", "browse", "service", "address", "ip6"}

\* Every callback OpenThread holds has an entry of its own in the table, and so
\* has every message the host owns.
CallbacksKept ==
  /\ IsTable(addrMap)
  /\ asked \subseteq [kind : CallbackKind, ctx : DeviceCtx, host : HostCtx]
  /\ \A a \in asked : InTable(addrMap, a.ctx, a.host)
  /\ \A a, b \in asked : a.ctx = b.ctx => a = b
  /\ msgs \subseteq Msg
  /\ \A m \in Msg : m \in msgs <=> Places(addrMap, m) # {}

\* The inductive invariant.
ContextInv ==
  /\ EventsReachOwner
  /\ stopped = "no" => CallbacksKept /\ UdpKept

\* The context that is drawn is of no use to anybody else.
LEMMA DrawnIsNew ==
  ASSUME CallbacksKept, DeviceCtx \ Used # {}
  PROVE  /\ Drawn \in DeviceCtx /\ Drawn # Sock /\ Drawn \notin Msg
         /\ Places(addrMap, Drawn) = {}
         /\ \A a \in asked : a.ctx # Drawn
         /\ \A r \in udpCtx : r.ptr # Drawn
<1>1. Drawn \in DeviceCtx \ Used
  BY MinOfNaturals, NcpContextsAssumption DEF Drawn
<1>2. Places(addrMap, Drawn) = {}
  BY <1>1 DEF Places, Used
<1>3. \A a \in asked : Places(addrMap, a.ctx) # {}
  BY PlacesHolds DEF CallbacksKept
<1> QED BY <1>1, <1>2, <1>3, NcpContextsAssumption DEF Used

\* The fields of a callback's registration.
LEMMA CallbackFields ==
  ASSUME NEW kind \in CallbackKind, NEW h \in HostCtx, Drawn \in DeviceCtx
  PROVE  /\ Callback(kind, h) \in [kind : CallbackKind, ctx : DeviceCtx, host : HostCtx]
         /\ Callback(kind, h).kind = kind /\ Callback(kind, h).ctx = Drawn
         /\ Callback(kind, h).host = h
BY DEF Callback

\* Mapping the context drawn for a callback of another kind than "udp".
LEMMA RegisterKeeps ==
  ASSUME CallbacksKept, UdpKept, DeviceCtx \ Used # {}, NEW kind \in CallbackKind, kind # "udp",
         NEW h \in HostCtx, NEW old, old \subseteq asked, \A a \in asked : a.kind = "udp" => a \in old,
         asked' = old \cup {Callback(kind, h)},
         Store(map_32_to_64_addr(addrMap, Drawn, h)),
         stopped' = "no", stopped = "no", msgs' = msgs,
         udpCtx' = udpCtx \/ udpCtx' = register_ptr_eventid(kind, Drawn)
  PROVE  CallbacksKept' /\ UdpKept'
<1>0. /\ Drawn \in DeviceCtx /\ Drawn # Sock /\ Drawn \notin Msg
      /\ Places(addrMap, Drawn) = {}
      /\ \A a \in asked : a.ctx # Drawn
  BY DrawnIsNew
<1>1. addrMap' = map_32_to_64_addr(addrMap, Drawn, h)
  BY DEF Store
<1>2. /\ IsTable(addrMap')
      /\ \A b, g : InTable(addrMap', b, g) <=> InTable(addrMap, b, g) \/ (b = Drawn /\ g = h)
  BY <1>0, <1>1, MapAdds DEF CallbacksKept
<1>3. \A b : b # Drawn => (Places(addrMap', b) # {} <=> Places(addrMap, b) # {})
  BY <1>2, PlacesHolds DEF CallbacksKept
<1>4. /\ Callback(kind, h) \in [kind : CallbackKind, ctx : DeviceCtx, host : HostCtx]
      /\ Callback(kind, h).kind = kind /\ Callback(kind, h).ctx = Drawn
      /\ Callback(kind, h).host = h
  BY <1>0, CallbackFields
<1>5. CallbacksKept'
  <2>1. \A a \in asked' : InTable(addrMap', a.ctx, a.host)
    BY <1>2, <1>4 DEF CallbacksKept
  <2>2. \A a, b \in asked' : a.ctx = b.ctx => a = b
    BY <1>0, <1>4 DEF CallbacksKept
  <2>3. \A m \in Msg : m \in msgs' <=> Places(addrMap', m) # {}
    BY <1>0, <1>3 DEF CallbacksKept
  <2> QED BY <1>2, <1>4, <2>1, <2>2, <2>3 DEF CallbacksKept
<1>6. UdpKept'
  <2>1. Asking("udp")' = Asking("udp")
    BY <1>4 DEF Asking
  <2>2. Places(addrMap', Sock) # {} <=> Places(addrMap, Sock) # {}
    BY <1>0, <1>3
  <2>3. \A r : r.event = "udp" => (r \in udpCtx' <=> r \in udpCtx)
    BY DEF register_ptr_eventid
  <2> QED BY <2>1, <2>2, <2>3 DEF UdpKept
<1> QED BY <1>5, <1>6

\* Opening the socket maps the context drawn and the socket.
LEMMA UdpOpenKeeps ==
  ASSUME CallbacksKept, UdpKept, NEW h \in HostCtx, process_otUdpOpen(h),
         stopped = "no", stopped' = "no"
  PROVE  CallbacksKept' /\ UdpKept'
<1> DEFINE u == map_32_to_64_addr(addrMap, Drawn, h)
<1>0. /\ Asking("udp") = {} /\ DeviceCtx \ Used # {}
      /\ asked' = asked \cup {Callback("udp", h)}
      /\ udpCtx' = register_ptr_eventid("udp", Drawn)
      /\ addrMap' = map_32_to_64_addr(u, Sock, h)
      /\ msgs' = msgs
  BY DEF process_otUdpOpen, Store
<1>1. /\ Drawn \in DeviceCtx /\ Drawn # Sock /\ Drawn \notin Msg
      /\ Places(addrMap, Drawn) = {}
      /\ \A a \in asked : a.ctx # Drawn
  BY <1>0, DrawnIsNew
<1>2. /\ IsTable(u)
      /\ \A b, g : InTable(u, b, g) <=> InTable(addrMap, b, g) \/ (b = Drawn /\ g = h)
  BY <1>1, MapAdds DEF CallbacksKept
<1> HIDE DEF u
<1>3. Places(u, Sock) = {}
  BY <1>0, <1>1, <1>2, PlacesHolds DEF CallbacksKept, UdpKept
<1>4. /\ IsTable(addrMap')
      /\ \A b, g : InTable(addrMap', b, g) <=> InTable(u, b, g) \/ (b = Sock /\ g = h)
  BY <1>0, <1>2, <1>3, MapAdds
<1>5. \A b : b # Drawn /\ b # Sock => (Places(addrMap', b) # {} <=> Places(addrMap, b) # {})
  BY <1>2, <1>4, PlacesHolds DEF CallbacksKept
<1>6. Places(addrMap', Sock) # {}
  BY <1>4, PlacesHolds
<1>7. /\ Callback("udp", h) \in [kind : CallbackKind, ctx : DeviceCtx, host : HostCtx]
      /\ Callback("udp", h).kind = "udp" /\ Callback("udp", h).ctx = Drawn
      /\ Callback("udp", h).host = h
  <2>1. "udp" \in CallbackKind
    BY DEF CallbackKind
  <2> QED BY <1>1, <2>1, CallbackFields
<1>8. CallbacksKept'
  <2>1. \A a \in asked' : InTable(addrMap', a.ctx, a.host)
    BY <1>0, <1>2, <1>4, <1>7 DEF CallbacksKept
  <2>2. \A a, b \in asked' : a.ctx = b.ctx => a = b
    BY <1>0, <1>1, <1>7 DEF CallbacksKept
  <2>3. \A m \in Msg : m \in msgs' <=> Places(addrMap', m) # {}
    BY <1>0, <1>1, <1>5, NcpContextsAssumption DEF CallbacksKept
  <2> QED BY <1>0, <1>4, <1>7, <2>1, <2>2, <2>3 DEF CallbacksKept
<1>9. UdpKept'
  <2>1. Asking("udp")' = {Callback("udp", h)}
    BY <1>0, <1>7 DEF Asking
  <2>2. \A r \in udpCtx : r.event # "udp"
    BY <1>0 DEF UdpKept
  <2>3. udpCtx' = udpCtx \cup {[event |-> "udp", ptr |-> Drawn]}
    BY <1>0, <2>2 DEF register_ptr_eventid
  <2> DEFINE n == [event |-> "udp", ptr |-> Drawn]
  <2>4. n.event = "udp" /\ n.ptr = Drawn
    OBVIOUS
  <2>5. \A r \in udpCtx' : r.event = "udp" => r = n
    BY <2>2, <2>3
  <2>6. n \in udpCtx'
    BY <2>3
  <2> HIDE DEF n
  <2> QED BY <1>6, <1>7, <2>1, <2>4, <2>5, <2>6 DEF UdpKept
<1> QED BY <1>8, <1>9

\* Closing the socket takes both entries out again.
LEMMA UdpCloseKeeps ==
  ASSUME CallbacksKept, UdpKept, process_otudpClose
  PROVE  CallbacksKept' /\ UdpKept'
<1>0. PICK a \in Asking("udp") :
        /\ asked' = asked \ {a}
        /\ addrMap' = remove_64_mapped_addr(remove_64_mapped_addr(addrMap, Sock), get_ptr_from_eventid("udp"))
        /\ udpCtx' = remove_ptr_eventid("udp")
        /\ msgs' = msgs
  BY DEF process_otudpClose
<1>1. a \in asked /\ a.ctx \in DeviceCtx
  BY DEF Asking, CallbacksKept
<1>2. get_ptr_from_eventid("udp") = a.ctx
  BY DEF get_ptr_from_eventid, UdpKept
<1> DEFINE u == remove_64_mapped_addr(addrMap, Sock)
<1>3. IsTable(u) /\ \A b, h : InTable(u, b, h) <=> InTable(addrMap, b, h) /\ b # Sock
  BY RemoveTakesOut DEF CallbacksKept
<1> HIDE DEF u
<1>4. IsTable(addrMap') /\ \A b, h : InTable(addrMap', b, h) <=> InTable(u, b, h) /\ b # a.ctx
  BY <1>0, <1>2, <1>3, RemoveTakesOut DEF u
<1>5. \A b : Places(addrMap', b) # {} <=> Places(addrMap, b) # {} /\ b # Sock /\ b # a.ctx
  BY <1>3, <1>4, PlacesHolds DEF CallbacksKept
<1>6. CallbacksKept'
  <2>1. \A b \in asked' : InTable(addrMap', b.ctx, b.host)
    <3> SUFFICES ASSUME NEW b \in asked' PROVE InTable(addrMap', b.ctx, b.host)
      OBVIOUS
    <3>1. b \in asked /\ b # a /\ b.ctx \in DeviceCtx
      BY <1>0 DEF CallbacksKept
    <3>2. b.ctx # a.ctx /\ b.ctx # Sock
      BY <1>1, <3>1, NcpContextsAssumption DEF CallbacksKept
    <3> QED BY <1>3, <1>4, <3>1, <3>2 DEF CallbacksKept
  <2>2. \A m \in Msg : m \in msgs' <=> Places(addrMap', m) # {}
    BY <1>0, <1>1, <1>5, NcpContextsAssumption DEF CallbacksKept
  <2> QED BY <1>0, <1>4, <2>1, <2>2 DEF CallbacksKept
<1>7. UdpKept'
  <2>1. Asking("udp")' = {}
    BY <1>0 DEF Asking, UdpKept
  <2>2. \A r \in udpCtx' : r.event # "udp"
    BY <1>0 DEF remove_ptr_eventid
  <2> QED BY <1>5, <2>1, <2>2 DEF UdpKept
<1> QED BY <1>6, <1>7

\* The answer to a DNS query takes its entry out.
LEMMA DnsAnswerKeeps ==
  ASSUME CallbacksKept, UdpKept, NEW a \in asked, a.kind # "udp", DnsAnswer(a)
  PROVE  CallbacksKept' /\ UdpKept'
<1>0. /\ asked' = asked \ {a} /\ addrMap' = remove_64_mapped_addr(addrMap, a.ctx)
      /\ udpCtx' = udpCtx /\ msgs' = msgs
  BY DEF DnsAnswer
<1>1. a.ctx \in DeviceCtx /\ a.ctx # Sock /\ a.ctx \notin Msg
  BY NcpContextsAssumption DEF CallbacksKept
<1>2. IsTable(addrMap') /\ \A b, h : InTable(addrMap', b, h) <=> InTable(addrMap, b, h) /\ b # a.ctx
  BY <1>0, RemoveTakesOut DEF CallbacksKept
<1>3. \A b : b # a.ctx => (Places(addrMap', b) # {} <=> Places(addrMap, b) # {})
  BY <1>2, PlacesHolds DEF CallbacksKept
<1>4. CallbacksKept'
  BY <1>0, <1>1, <1>2, <1>3 DEF CallbacksKept
<1>5. Asking("udp")' = Asking("udp")
  BY <1>0 DEF Asking
<1> QED BY <1>0, <1>1, <1>3, <1>4, <1>5 DEF UdpKept

\* A message that leaves the host takes its entry out.
LEMMA MessageGone ==
  ASSUME CallbacksKept, UdpKept, NEW m \in msgs, msgs' = msgs \ {m},
         addrMap' = remove_64_mapped_addr(addrMap, m), UNCHANGED <<udpCtx, asked>>
  PROVE  CallbacksKept' /\ UdpKept'
<1>1. m \in Msg /\ m # Sock /\ m \notin DeviceCtx
  BY NcpContextsAssumption DEF CallbacksKept
<1>2. IsTable(addrMap') /\ \A b, h : InTable(addrMap', b, h) <=> InTable(addrMap, b, h) /\ b # m
  BY RemoveTakesOut DEF CallbacksKept
<1>3. \A b : Places(addrMap', b) # {} <=> Places(addrMap, b) # {} /\ b # m
  BY <1>2, PlacesHolds DEF CallbacksKept
<1>4. CallbacksKept'
  <2>1. \A b \in asked : b.ctx # m
    BY <1>1 DEF CallbacksKept
  <2> QED BY <1>2, <1>3, <2>1 DEF CallbacksKept
<1>5. Asking("udp")' = Asking("udp")
  BY DEF Asking
<1> QED BY <1>1, <1>3, <1>4, <1>5 DEF UdpKept

\* A message that the host allocates gets one.
LEMMA NewMessageKeeps ==
  ASSUME CallbacksKept, UdpKept, NewMessage, stopped = "no", stopped' = "no"
  PROVE  CallbacksKept' /\ UdpKept'
<1>0. PICK m \in Msg \ (msgs \cup sending) :
        /\ msgs' = msgs \cup {m} /\ addrMap' = map_32_to_64_addr(addrMap, m, NoHost)
        /\ UNCHANGED <<udpCtx, asked>>
  BY DEF NewMessage, Store
<1>1. m # Sock /\ Places(addrMap, m) = {}
  BY NcpContextsAssumption DEF CallbacksKept
<1>2. /\ IsTable(addrMap')
      /\ \A b, g : InTable(addrMap', b, g) <=> InTable(addrMap, b, g) \/ (b = m /\ g = NoHost)
  BY <1>0, <1>1, MapAdds DEF CallbacksKept
<1>3. \A b : Places(addrMap', b) # {} <=> Places(addrMap, b) # {} \/ b = m
  BY <1>2, PlacesHolds DEF CallbacksKept
<1>4. CallbacksKept'
  BY <1>0, <1>2, <1>3 DEF CallbacksKept
<1>5. Asking("udp")' = Asking("udp")
  BY <1>0 DEF Asking
<1> QED BY <1>0, <1>1, <1>3, <1>4, <1>5 DEF UdpKept

\* Where no callback and no message comes or goes, nothing changes.
LEMMA KeptUnchanged ==
  ASSUME CallbacksKept, UdpKept, UNCHANGED <<addrMap, udpCtx, asked, msgs>>
  PROVE  CallbacksKept' /\ UdpKept'
<1>1. Asking("udp")' = Asking("udp")
  BY DEF Asking
<1>2. CallbacksKept'
  BY DEF CallbacksKept
<1> QED BY <1>1, <1>2 DEF UdpKept

\* The host is told the context it gave when it asked.
LEMMA TellReachesOwner ==
  ASSUME CallbacksKept, NEW a \in asked, Tell(a)
  PROVE  EventsReachOwner'
BY GetFinds DEF CallbacksKept, Tell, EventsReachOwner

\* A registration keeps the contexts.
LEMMA RegisterStep ==
  ASSUME ContextInv, stopped = "no", RegisterNext
  PROVE  ContextInv'
<1> PICK h \in HostCtx :
     \/ process_otSetStateChangedCallback(h) \/ process_otThreadDiscover(h) \/ process_otUdpOpen(h)
     \/ process_otDnsClientBrowse(h) \/ process_otDnsClientResolveService(h)
     \/ process_otDnsClientResolveAddress(h) \/ process_otIp6SetReceiveCallback(h)
  BY DEF RegisterNext
<1>0. CallbacksKept /\ UdpKept
  BY DEF ContextInv
<1>1. EventsReachOwner'
  BY DEF ContextInv, EventsReachOwner, process_otSetStateChangedCallback, process_otThreadDiscover,
     process_otUdpOpen, process_otDnsClientBrowse, process_otDnsClientResolveService,
     process_otDnsClientResolveAddress, process_otIp6SetReceiveCallback, DnsQuery, Register
<1> SUFFICES ASSUME stopped' = "no" PROVE CallbacksKept' /\ UdpKept'
  BY <1>1 DEF ContextInv
<1>2. ASSUME NEW kind \in {"state", "discover", "browse", "service", "address"}, Register(kind, h),
             udpCtx' = udpCtx \/ udpCtx' = register_ptr_eventid(kind, Drawn)
      PROVE  CallbacksKept' /\ UdpKept'
  <2>1. asked' = asked \cup {Callback(kind, h)} /\ DeviceCtx \ Used # {}
    BY <1>2 DEF Register
  <2>2. Store(map_32_to_64_addr(addrMap, Drawn, h)) /\ msgs' = msgs
    BY <1>2 DEF Register
  <2>3. kind \in CallbackKind /\ kind # "udp"
    BY DEF CallbackKind
  <2> QED BY <1>0, <1>2, <2>1, <2>2, <2>3, RegisterKeeps
<1>3. CASE process_otSetStateChangedCallback(h)
  BY <1>2, <1>3 DEF process_otSetStateChangedCallback
<1>4. CASE process_otThreadDiscover(h)
  BY <1>2, <1>4 DEF process_otThreadDiscover
<1>5. CASE process_otUdpOpen(h)
  BY <1>0, <1>5, UdpOpenKeeps
<1>6. CASE process_otDnsClientBrowse(h)
  BY <1>2, <1>6 DEF process_otDnsClientBrowse, DnsQuery
<1>7. CASE process_otDnsClientResolveService(h)
  BY <1>2, <1>7 DEF process_otDnsClientResolveService, DnsQuery
<1>8. CASE process_otDnsClientResolveAddress(h)
  BY <1>2, <1>8 DEF process_otDnsClientResolveAddress, DnsQuery
<1>9. CASE process_otIp6SetReceiveCallback(h)
  <2>1. /\ asked' = (asked \ Asking("ip6")) \cup {Callback("ip6", h)} /\ DeviceCtx \ Used # {}
        /\ Store(map_32_to_64_addr(addrMap, Drawn, h)) /\ msgs' = msgs /\ udpCtx' = udpCtx
    BY <1>9 DEF process_otIp6SetReceiveCallback
  <2>2. \A a \in asked : a.kind = "udp" => a \in asked \ Asking("ip6")
    BY DEF Asking
  <2>3. "ip6" \in CallbackKind /\ "ip6" # "udp"
    BY DEF CallbackKind
  <2> QED BY <1>0, <2>1, <2>2, <2>3, RegisterKeeps
<1> QED BY <1>3, <1>4, <1>5, <1>6, <1>7, <1>8, <1>9

\* A callback keeps the contexts.
LEMMA CallbackStep ==
  ASSUME ContextInv, stopped = "no", CallbackNext
  PROVE  ContextInv'
<1>0. CallbacksKept /\ UdpKept /\ EventsReachOwner
  BY DEF ContextInv
<1>1. ASSUME NEW a \in asked, Tell(a), UNCHANGED <<addrMap, udpCtx, asked, msgs>>
      PROVE  ContextInv'
  BY <1>0, <1>1, TellReachesOwner, KeptUnchanged DEF ContextInv
<1>2. ASSUME NEW a \in asked, a.kind # "udp", DnsAnswer(a) PROVE ContextInv'
  BY <1>0, <1>2, TellReachesOwner, DnsAnswerKeeps DEF ContextInv, DnsAnswer
<1>3. CASE processStateChange
  BY <1>1, <1>3 DEF processStateChange, Asking
<1>4. ASSUME NEW last \in BOOLEAN, HandleActiveScanResult(last) PROVE ContextInv'
  <2>1. PICK a \in Asking("discover") :
          /\ Tell(a) /\ asked' = IF last THEN asked \ {a} ELSE asked
          /\ UNCHANGED <<addrMap, udpCtx, msgs>>
    BY <1>4 DEF HandleActiveScanResult
  <2>2. a \in asked /\ a.kind = "discover"
    BY DEF Asking
  <2>3. EventsReachOwner'
    BY <1>0, <2>1, <2>2, TellReachesOwner
  <2>4. asked' \subseteq asked /\ Asking("udp")' = Asking("udp")
    BY <2>1, <2>2 DEF Asking
  <2>5. CallbacksKept'
    BY <1>0, <2>1, <2>4 DEF CallbacksKept
  <2>6. UdpKept'
    BY <1>0, <2>1, <2>4 DEF UdpKept
  <2> QED BY <2>3, <2>5, <2>6 DEF ContextInv
<1>5. CASE HandleUdpReceive
  BY <1>1, <1>5 DEF HandleUdpReceive, Asking
<1>6. CASE ncp_otIp6Receive_cb
  BY <1>1, <1>6 DEF ncp_otIp6Receive_cb, Asking
<1>7. CASE ncp_OnDnsBrowseResult
  <2>1. PICK a \in Asking("browse") :
          DnsAnswer(a) \/ (stopped' = "instances" /\ UNCHANGED event)
    BY <1>7 DEF ncp_OnDnsBrowseResult
  <2>2. a \in asked /\ a.kind # "udp"
    BY DEF Asking
  <2>3. CASE stopped' = "instances" /\ UNCHANGED event
    BY <1>0, <2>3 DEF ContextInv, EventsReachOwner
  <2> QED BY <1>2, <2>1, <2>2, <2>3
<1>8. CASE ncp_otDnsService_cb
  BY <1>2, <1>8 DEF ncp_otDnsService_cb, Asking
<1>9. CASE ncp_otDnsAddress_cb
  BY <1>2, <1>9 DEF ncp_otDnsAddress_cb, Asking
<1> QED BY <1>3, <1>4, <1>5, <1>6, <1>7, <1>8, <1>9, CallbackNext DEF CallbackNext

\* A message keeps the contexts.
LEMMA MessageStep ==
  ASSUME ContextInv, stopped = "no", MessageNext
  PROVE  ContextInv'
<1>0. CallbacksKept /\ UdpKept /\ EventsReachOwner
  BY DEF ContextInv
<1>1. event' = event
  BY DEF MessageNext, process_otUdpNewMessage, process_otIp6NewMessage, NewMessage,
     process_otUdpSend, process_otIp6Send, process_otMessageFree, MessageSent
<1>2. EventsReachOwner'
  BY <1>0, <1>1 DEF EventsReachOwner
<1>3. CASE NewMessage
  BY <1>0, <1>2, <1>3, NewMessageKeeps DEF ContextInv
<1>4. ASSUME NEW m \in Msg, process_otUdpSend(m) \/ process_otIp6Send(m) \/ process_otMessageFree(m)
      PROVE  ContextInv'
  <2>1. /\ m \in msgs /\ msgs' = msgs \ {m} /\ addrMap' = remove_64_mapped_addr(addrMap, m)
        /\ UNCHANGED <<udpCtx, asked>>
    BY <1>4 DEF process_otUdpSend, process_otIp6Send, process_otMessageFree
  <2> QED BY <1>0, <1>2, <2>1, MessageGone DEF ContextInv
<1>5. CASE MessageSent
  <2>1. UNCHANGED <<addrMap, udpCtx, asked, msgs>>
    BY <1>5 DEF MessageSent
  <2> QED BY <1>0, <1>2, <2>1, KeptUnchanged DEF ContextInv
<1> QED BY <1>3, <1>4, <1>5, MessageNext DEF MessageNext, process_otUdpNewMessage, process_otIp6NewMessage

\* Every step keeps the contexts.
LEMMA ContextStep == ContextInv /\ [ContextNext]_contextVars => ContextInv'
<1> SUFFICES ASSUME ContextInv, [ContextNext]_contextVars PROVE ContextInv'
  OBVIOUS
<1>1. CASE UNCHANGED contextVars
  <2>1. UNCHANGED <<addrMap, udpCtx, asked, msgs>> /\ stopped' = stopped /\ event' = event
    BY <1>1 DEF contextVars
  <2> QED BY <2>1, KeptUnchanged DEF ContextInv, EventsReachOwner
<1>2. CASE stopped = "no" /\ process_otudpClose
  BY <1>2, UdpCloseKeeps DEF ContextInv, process_otudpClose, EventsReachOwner
<1> QED BY <1>1, <1>2, RegisterStep, CallbackStep, MessageStep DEF ContextNext, Halted

\* A message is in the table once.
LEMMA TrackedFromKept == CallbacksKept => MessagesTracked
<1> SUFFICES ASSUME CallbacksKept PROVE MessagesTracked
  OBVIOUS
<1>1. {m \in Msg : Places(addrMap, m) # {}} = msgs
  BY DEF CallbacksKept
<1>2. \A m \in msgs : Cardinality(Places(addrMap, m)) = 1
  <2> SUFFICES ASSUME NEW m \in msgs PROVE Cardinality(Places(addrMap, m)) = 1
    OBVIOUS
  <2>1. PICK p : p \in Places(addrMap, m)
    BY DEF CallbacksKept
  <2>2. Places(addrMap, m) = {p}
    BY <2>1 DEF CallbacksKept, Places, IsTable, OneEach
  <2> QED BY <2>2, FS_Singleton
<1> QED BY <1>1, <1>2 DEF MessagesTracked

\* Whatever the host registers, sends, receives and closes, and in whatever
\* order, an event carries the context it was asked with, and the table holds a
\* message exactly while the host owns it: for any number of contexts and
\* messages and any size of the table.
THEOREM ContextsKept == ContextSpec => [](EventsReachOwner /\ MessagesTracked)
<1>1. ContextInit => ContextInv
  BY DEF ContextInit, ContextInv, EventsReachOwner, NoEvent, CallbacksKept, UdpKept, IsTable,
         OneEach, Places, Asking
<1>2. ContextInv => EventsReachOwner /\ MessagesTracked
  BY TrackedFromKept DEF ContextInv, MessagesTracked
<1> QED BY <1>1, <1>2, ContextStep, PTL DEF ContextSpec

-----------------------------------------------------------------------------
(* NcpTask: commands and chunks between the two tasks.                     *)

ChunkType == [n : Nat, cmd : Nat, long : BOOLEAN, last : BOOLEAN]

NcpPlaces == {"wait", "receive", "forward", "send", "clear", "done"}

TaskTypes ==
  /\ cmdQueue \in Seq(Cmd) /\ merged \in Nat /\ ncpSem \in BOOLEAN /\ ncpPc \in NcpPlaces
  /\ currentCmd \in Cmd \cup {NoCmd} /\ received \in Cmd \cup {NoCmd}
  /\ txBuffer \in Seq(ChunkType) /\ forwarding \in Seq(ChunkType)
  /\ cli \in [sending : BOOLEAN, rest : Seq(ChunkType)]
  /\ printed \in Nat

Distinct(s) == \A i, j \in 1 .. Len(s) : s[i].n = s[j].n => i = j

\* Where the chunks are, by their numbers: p have been printed, the host has
\* those in g, b are in the buffer, r with the CLI, c were cut off, and f are
\* being forwarded.
Kept(p, g, b, r, c, f, pc) ==
  /\ g \cup b \cup r \subseteq 0 .. p
  /\ b \cap r = {} /\ r \cap g = {}
  /\ pc # "clear" => b \cap g = {}
  /\ pc = "send" => f \subseteq b /\ b \subseteq f \cup c
  /\ pc = "clear" => b \subseteq g \cup c \cup {0}
  /\ 1 .. p \subseteq g \cup b \cup r \cup c

ChunkInv ==
  /\ Distinct(cli.rest)
  /\ Kept(printed, got, Numbers(txBuffer), Numbers(cli.rest), {x.n : x \in cut}, Numbers(forwarding), ncpPc)

\* The CLI is told once of each chunk it hands over: while the buffer is being
\* forwarded it waits, unless it has been told twice of a byte.
ToldInv ==
  /\ byteTold => OneByte /\ ncpPc \notin {"send", "clear"}
  /\ ~toldTwice =>
       /\ cut = {}
       /\ ncpPc \in {"send", "clear", "done"} => ~txDoneFlag /\ cli.sending
       /\ ncpPc = "done" => txBuffer = <<>>
       /\ ~cli.sending => ~txDoneFlag /\ cli.rest = <<>> /\ (txBuffer = <<>> \/ byteTold)
       /\ txDoneFlag => txBuffer = <<>> \/ byteTold

\* What the CLI prints for a command: chunks with consecutive numbers.
LEMMA ChunksShape ==
  ASSUME printed \in Nat, NEW a \in Answers, NEW id \in Nat
  PROVE  /\ Chunks(a, id) \in Seq(ChunkType) /\ Len(Chunks(a, id)) > 0
         /\ \A i \in 1 .. Len(Chunks(a, id)) : Chunks(a, id)[i].n = printed + i
<1>1. PICK k \in 0 .. MaxChunks - 1 : a.body \in [1 .. k -> BOOLEAN]
  BY DEF Answers
<1>2. k \in Nat
  BY <1>1, NcpTaskAssumption
<1> DEFINE b == a.body
<1>3. b \in Seq(BOOLEAN) /\ Len(b) = k /\ a.tail \in BOOLEAN
  BY <1>1, <1>2 DEF Answers
<1> DEFINE f == [i \in 1 .. k |-> Chunk(printed + i, id, b[i], FALSE)]
           x == Chunk(printed + k + 1, id, TRUE, TRUE)
           y == Chunk(printed + k + 2, id, FALSE, FALSE)
           t == IF a.tail THEN <<y>> ELSE <<>>
<1>4. /\ \A i \in 1 .. k : f[i].n = printed + i
      /\ f \in Seq(ChunkType) /\ Len(f) = k
  <2>1. \A i \in 1 .. k : Chunk(printed + i, id, b[i], FALSE) \in ChunkType
    BY <1>1, <1>2 DEF Chunk, ChunkType
  <2> QED BY <1>2, <2>1 DEF Chunk
<1>5. /\ x \in ChunkType /\ x.n = printed + (k + 1)
      /\ y \in ChunkType /\ y.n = printed + (k + 2)
  BY <1>2 DEF Chunk, ChunkType
<1>6. Chunks(a, id) = f \o <<x>> \o t
  BY <1>3 DEF Chunks
<1> HIDE DEF f, x, y
<1> DEFINE c == Append(f, x)
<1>7. /\ c \in Seq(ChunkType) /\ Len(c) = k + 1
      /\ \A i \in 1 .. k + 1 : c[i].n = printed + i
  <2>1. c \in Seq(ChunkType) /\ Len(c) = k + 1 /\ c[k + 1] = x /\ \A i \in 1 .. k : c[i] = f[i]
    BY <1>2, <1>4, <1>5
  <2>2. ASSUME NEW i \in 1 .. k + 1 PROVE c[i].n = printed + i
    <3>1. CASE i \in 1 .. k
      BY <3>1, <1>4, <2>1
    <3>2. CASE i = k + 1
      BY <3>2, <1>5, <2>1
    <3>3. i \in 1 .. k \/ i = k + 1
      BY <1>2
    <3> QED BY <3>1, <3>2, <3>3
  <2> QED BY <2>1, <2>2
<1>8. f \o <<x>> = c
  BY <1>4, <1>5, AppendIsConcat
<1> HIDE DEF c, b
<1>9. CASE ~a.tail
  <2>1. Chunks(a, id) = c
    <3>1. c \o <<>> = c
      BY <1>7, ConcatEmptySeq
    <3> QED BY <1>6, <1>8, <1>9, <3>1
  <2> QED BY <2>1, <1>2, <1>7
<1>10. CASE a.tail
  <2> DEFINE d == Append(c, y)
  <2>1. Chunks(a, id) = d
    <3>1. c \o <<y>> = d
      BY <1>5, <1>7, AppendIsConcat
    <3> QED BY <1>6, <1>8, <1>10, <3>1
  <2>2. d \in Seq(ChunkType) /\ Len(d) = k + 2 /\ d[k + 2] = y /\ \A i \in 1 .. k + 1 : d[i] = c[i]
    BY <1>2, <1>5, <1>7
  <2> HIDE DEF d
  <2>3. ASSUME NEW i \in 1 .. k + 2 PROVE d[i].n = printed + i
    <3>1. CASE i \in 1 .. k + 1
      BY <3>1, <1>7, <2>2
    <3>2. CASE i = k + 2
      BY <3>2, <1>5, <2>2
    <3> QED BY <3>1, <3>2, <1>2
  <2> QED BY <1>2, <2>1, <2>2, <2>3
<1> QED BY <1>3, <1>9, <1>10

\* What is with the CLI after it has printed an answer.
LEMMA OutShape ==
  ASSUME TaskTypes, ChunkInv, NEW a \in Answers, NEW id \in Nat
  PROVE  LET out == cli.rest \o Chunks(a, id)
             l == Len(Chunks(a, id))
         IN  /\ out \in Seq(ChunkType) /\ out # <<>> /\ Distinct(out) /\ l \in Nat
             /\ Numbers(out) = Numbers(cli.rest) \cup (printed + 1 .. printed + l)
<1> DEFINE c == Chunks(a, id)
           r == cli.rest
           l == Len(c)
           out == r \o c
<1>1. r \in Seq(ChunkType) /\ printed \in Nat /\ Distinct(r) /\ Numbers(r) \subseteq 0 .. printed
  BY DEF TaskTypes, ChunkInv, Kept
<1>2. c \in Seq(ChunkType) /\ l > 0 /\ \A i \in 1 .. l : c[i].n = printed + i
  BY <1>1, ChunksShape
<1> HIDE DEF c, r
<1>3. l \in Nat /\ Len(r) \in Nat
  BY <1>1, <1>2
<1>4. out \in Seq(ChunkType) /\ Len(out) = Len(r) + l
  BY <1>1, <1>2, ConcatProperties
<1>5. \A i \in 1 .. Len(r) + l : out[i] = IF i <= Len(r) THEN r[i] ELSE c[i - Len(r)]
  BY <1>1, <1>2, ConcatProperties
<1> HIDE DEF out
<1>6. \A i \in 1 .. Len(r) : out[i].n = r[i].n /\ r[i].n \in 0 .. printed
  <2>1. \A i \in 1 .. Len(r) : r[i].n \in Numbers(r)
    BY DEF Numbers
  <2>2. \A i \in 1 .. Len(r) : i \in 1 .. Len(r) + l /\ i <= Len(r)
    BY <1>3
  <2>3. \A i \in 1 .. Len(r) : out[i] = r[i]
    BY <1>5, <2>2, Zenon
  <2> QED BY <1>1, <2>1, <2>3
<1>7. \A i \in Len(r) + 1 .. Len(r) + l : out[i].n = printed + (i - Len(r))
  <2>1. \A i \in Len(r) + 1 .. Len(r) + l :
          i - Len(r) \in 1 .. l /\ i \in 1 .. Len(r) + l /\ ~(i <= Len(r))
    BY <1>3
  <2>2. \A i \in Len(r) + 1 .. Len(r) + l : out[i] = c[i - Len(r)]
    BY <1>5, <2>1, Zenon
  <2> QED BY <1>2, <2>1, <2>2, Zenon
<1>8. \A i \in 1 .. Len(out) : i \in 1 .. Len(r) \/ i \in Len(r) + 1 .. Len(r) + l
  BY <1>3, <1>4
<1>9. Distinct(out)
  <2>1. ASSUME NEW i \in 1 .. Len(out), NEW j \in 1 .. Len(out), out[i].n = out[j].n PROVE i = j
    <3>1. CASE i \in 1 .. Len(r) /\ j \in 1 .. Len(r)
      BY <3>1, <2>1, <1>1, <1>6 DEF Distinct
    <3>2. CASE i \in 1 .. Len(r) /\ j \in Len(r) + 1 .. Len(r) + l
      <4>1. out[i].n \in 0 .. printed /\ out[j].n = printed + (j - Len(r))
        BY <3>2, <1>6, <1>7
      <4> QED BY <4>1, <3>2, <2>1, <1>1, <1>3
    <3>3. CASE j \in 1 .. Len(r) /\ i \in Len(r) + 1 .. Len(r) + l
      <4>1. out[j].n \in 0 .. printed /\ out[i].n = printed + (i - Len(r))
        BY <3>3, <1>6, <1>7
      <4> QED BY <4>1, <3>3, <2>1, <1>1, <1>3
    <3>4. CASE i \in Len(r) + 1 .. Len(r) + l /\ j \in Len(r) + 1 .. Len(r) + l
      <4>1. printed + (i - Len(r)) = printed + (j - Len(r))
        BY <3>4, <2>1, <1>7
      <4> QED BY <4>1, <3>4, <1>1, <1>3
    <3> QED BY <3>1, <3>2, <3>3, <3>4, <1>8
  <2> QED BY <2>1 DEF Distinct
<1>10. Numbers(out) = Numbers(r) \cup (printed + 1 .. printed + l)
  <2>1. ASSUME NEW i \in 1 .. Len(out) PROVE out[i].n \in Numbers(r) \cup (printed + 1 .. printed + l)
    <3>1. CASE i \in 1 .. Len(r)
      BY <3>1, <1>6 DEF Numbers
    <3>2. CASE i \in Len(r) + 1 .. Len(r) + l
      BY <3>2, <1>1, <1>3, <1>7
    <3> QED BY <3>1, <3>2, <1>8
  <2>2. ASSUME NEW i \in 1 .. Len(r) PROVE r[i].n \in Numbers(out)
    <3>1. i \in 1 .. Len(out)
      BY <1>3, <1>4
    <3> QED BY <3>1, <1>6 DEF Numbers
  <2>3. ASSUME NEW n \in printed + 1 .. printed + l PROVE n \in Numbers(out)
    <3> DEFINE i == n - printed + Len(r)
    <3>1. i \in Len(r) + 1 .. Len(r) + l /\ i \in 1 .. Len(out) /\ printed + (i - Len(r)) = n
      BY <1>1, <1>3, <1>4
    <3> HIDE DEF i
    <3> QED BY <3>1, <1>7 DEF Numbers
  <2> QED BY <2>1, <2>2, <2>3 DEF Numbers
<1>11. out # <<>>
  BY <1>2, <1>3, <1>4
<1> QED BY <1>3, <1>4, <1>9, <1>10, <1>11 DEF c, r, out

LEMMA AppendOrSame ==
  ASSUME NEW S, NEW s \in Seq(S), NEW x \in S, NEW t, t = s \/ t = Append(s, x)
  PROVE  t \in Seq(S)
OBVIOUS

\* What is taken from a sequence leaves one.
LEMMA TailOrSame ==
  ASSUME NEW S, NEW s \in Seq(S), NEW t, t = s \/ (s # <<>> /\ t = Tail(s))
  PROVE  t \in Seq(S)
OBVIOUS

\* The first element of a sequence and the others.
LEMMA TailShape ==
  ASSUME NEW S, NEW s \in Seq(S), s # <<>>
  PROVE  /\ Len(s) \in Nat /\ Len(s) > 0 /\ Head(s) = s[1] /\ Head(s) \in S
         /\ Tail(s) \in Seq(S) /\ Len(Tail(s)) = Len(s) - 1
         /\ \A i \in 1 .. Len(s) - 1 : Tail(s)[i] = s[i + 1]
         /\ Tail(s) = <<>> <=> Len(s) = 1
         /\ Tail(s) # <<>> => Tail(s)[Len(Tail(s))] = s[Len(s)]
<1>1. /\ Len(s) \in Nat /\ Len(s) > 0 /\ Head(s) = s[1] /\ Head(s) \in S
      /\ Tail(s) \in Seq(S) /\ Len(Tail(s)) = Len(s) - 1
      /\ \A i \in 1 .. Len(s) - 1 : Tail(s)[i] = s[i + 1]
  OBVIOUS
<1> DEFINE t == Tail(s)
<1>2. t \in Seq(S) /\ Len(t) = Len(s) - 1 /\ \A i \in 1 .. Len(s) - 1 : t[i] = s[i + 1]
  BY <1>1
<1> HIDE DEF t
<1>3. t = <<>> <=> Len(s) = 1
  BY <1>1, <1>2
<1>4. t # <<>> => t[Len(t)] = s[Len(s)]
  BY <1>1, <1>2, <1>3
<1> QED BY <1>1, <1>3, <1>4 DEF t

\* The forms the command line's state can take.
LEMMA CliForms ==
  ASSUME NEW S, NEW r \in [sending : BOOLEAN, rest : S], NEW s \in S, NEW u \in S, NEW q,
         q = [r EXCEPT !.rest = s] \/ q = [sending |-> TRUE, rest |-> u]
  PROVE  q \in [sending : BOOLEAN, rest : S]
<1>1. [r EXCEPT !.rest = s] \in [sending : BOOLEAN, rest : S]
  OBVIOUS
<1>2. [sending |-> TRUE, rest |-> u] \in [sending : BOOLEAN, rest : S]
  OBVIOUS
<1> QED BY <1>1, <1>2, Zenon

\* Every step keeps the types of the tasks' state.
\* The numbers after a chunk was added, and after the first was taken.
LEMMA NumbersAppend ==
  ASSUME NEW s \in Seq(ChunkType), NEW x \in ChunkType
  PROVE  Numbers(Append(s, x)) = Numbers(s) \cup {x.n}
<1> DEFINE t == Append(s, x)
<1>1. Len(s) \in Nat /\ Len(t) = Len(s) + 1 /\ t[Len(s) + 1] = x /\ \A i \in 1 .. Len(s) : t[i] = s[i]
  OBVIOUS
<1> HIDE DEF t
<1>2. \A i \in 1 .. Len(t) : i \in 1 .. Len(s) \/ i = Len(s) + 1
  BY <1>1
<1>3. \A i \in 1 .. Len(s) : i \in 1 .. Len(t)
  BY <1>1
<1>4. Len(s) + 1 \in 1 .. Len(t)
  BY <1>1
<1>5. Numbers(t) = Numbers(s) \cup {x.n}
  <2>1. ASSUME NEW i \in 1 .. Len(t) PROVE t[i].n \in Numbers(s) \cup {x.n}
    BY <1>1, <1>2 DEF Numbers
  <2>2. ASSUME NEW i \in 1 .. Len(s) PROVE s[i].n \in Numbers(t)
    BY <1>1, <1>3 DEF Numbers
  <2>3. x.n \in Numbers(t)
    BY <1>1, <1>4 DEF Numbers
  <2> QED BY <2>1, <2>2, <2>3 DEF Numbers
<1> QED BY <1>5 DEF t

LEMMA NumbersTail ==
  ASSUME NEW s \in Seq(ChunkType), s # <<>>, Distinct(s)
  PROVE  /\ Numbers(s) = Numbers(Tail(s)) \cup {Head(s).n}
         /\ Head(s).n \notin Numbers(Tail(s)) /\ Distinct(Tail(s))
         /\ Head(s) \in ChunkType /\ Tail(s) \in Seq(ChunkType)
<1> DEFINE t == Tail(s)
           h == Head(s)
<1>1. /\ Len(s) \in Nat /\ Len(s) > 0 /\ h = s[1] /\ h \in ChunkType
      /\ t \in Seq(ChunkType) /\ Len(t) = Len(s) - 1
      /\ \A i \in 1 .. Len(s) - 1 : t[i] = s[i + 1]
  BY TailShape
<1> HIDE DEF t, h
<1>2. \A i \in 1 .. Len(t) : t[i] = s[i + 1] /\ i + 1 \in 1 .. Len(s) /\ i + 1 # 1
  BY <1>1
<1>3. \A i \in 1 .. Len(s) : i = 1 \/ (i - 1 \in 1 .. Len(t) /\ s[i] = t[i - 1])
  BY <1>1
<1>4. 1 \in 1 .. Len(s)
  BY <1>1
<1>5. Numbers(s) = Numbers(t) \cup {h.n}
  <2>1. ASSUME NEW i \in 1 .. Len(s) PROVE s[i].n \in Numbers(t) \cup {h.n}
    BY <1>1, <1>3 DEF Numbers
  <2>2. ASSUME NEW i \in 1 .. Len(t) PROVE t[i].n \in Numbers(s)
    BY <1>2 DEF Numbers
  <2>3. h.n \in Numbers(s)
    BY <1>1, <1>4 DEF Numbers
  <2> QED BY <2>1, <2>2, <2>3 DEF Numbers
<1>6. h.n \notin Numbers(t)
  BY <1>1, <1>2, <1>4 DEF Numbers, Distinct
<1>7. Distinct(t)
  <2>1. ASSUME NEW i \in 1 .. Len(t), NEW j \in 1 .. Len(t), t[i].n = t[j].n PROVE i = j
    <3>1. i + 1 = j + 1
      BY <1>2, <2>1 DEF Distinct
    <3> QED BY <3>1
  <2> QED BY <2>1 DEF Distinct
<1> QED BY <1>1, <1>5, <1>6, <1>7 DEF t, h

\* Printed chunks are with the CLI.
LEMMA KeptPrinted ==
  ASSUME NEW p \in Nat, NEW g, NEW b, NEW r, NEW c, NEW f, NEW pc, NEW l \in Nat,
         Kept(p, g, b, r, c, f, pc)
  PROVE  Kept(p + l, g, b, r \cup (p + 1 .. p + l), c, f, pc)
<1>1. g \cup b \cup r \subseteq 0 .. p
  BY DEF Kept
<1>2. 0 .. p \subseteq 0 .. p + l /\ p + 1 .. p + l \subseteq 0 .. p + l
  OBVIOUS
<1>3. (0 .. p) \cap (p + 1 .. p + l) = {}
  OBVIOUS
<1>4. 1 .. p + l \subseteq (1 .. p) \cup (p + 1 .. p + l)
  OBVIOUS
<1> QED BY <1>1, <1>2, <1>3, <1>4, Zenon DEF Kept

\* A chunk goes from the CLI to the buffer; while that is being forwarded it is
\* cut off.
LEMMA KeptMoved ==
  ASSUME NEW p \in Nat, NEW g, NEW b, NEW r, NEW c, NEW f, NEW pc, NEW n, n \notin r,
         Kept(p, g, b, r \cup {n}, c, f, pc)
  PROVE  Kept(p, g, b \cup {n}, r, IF pc \in {"send", "clear"} THEN c \cup {n} ELSE c, f, pc)
BY DEF Kept

\* Every step keeps the types of the tasks' state.
LEMMA TaskTypesStep ==
  ASSUME TaskTypes, ChunkInv, TaskNext
  PROVE  TaskTypes'
<1> USE DEF TaskTypes
<1>1. ASSUME NEW k \in Cmd, otNcpCallback(k) PROVE TaskTypes'
  <2>1. cmdQueue' \in Seq(Cmd) /\ ncpSem' \in BOOLEAN /\ merged' \in Nat
    <3>1. cmdQueue' = cmdQueue \/ cmdQueue' = Append(cmdQueue, k)
      BY <1>1 DEF otNcpCallback, queueVars
    <3>2. (ncpSem' = ncpSem \/ ncpSem' = TRUE) /\ (merged' = merged \/ merged' = merged + 1)
      BY <1>1 DEF otNcpCallback, queueVars
    <3>3. cmdQueue' \in Seq(Cmd)
      BY <3>1, AppendOrSame, Zenon
    <3>4. ncpSem' \in BOOLEAN
      BY <3>2
    <3>5. merged' \in Nat
      BY <3>2
    <3> QED BY <3>3, <3>4, <3>5
  <2> QED BY <1>1, <2>1 DEF otNcpCallback, cmdVars, cliVars, bufferVars
<1>2. CASE Take
  BY <1>2 DEF Take, NcpGoes, NcpPlaces, cmdVars, cliVars, hostVars, bufferVars
<1>3. CASE ot_ncp_command_handle_input
  <2>1. Head(cmdQueue) \in Cmd /\ Tail(cmdQueue) \in Seq(Cmd)
    BY <1>3 DEF ot_ncp_command_handle_input
  <2>2. currentCmd' \in Cmd \cup {NoCmd}
    <3>1. currentCmd' = currentCmd \/ currentCmd' = Head(cmdQueue)
      BY <1>3 DEF ot_ncp_command_handle_input, Handle, ncp_matter_ot_cmd_handle, ot_ncp_cmd_handle, ncp_sys_encrypt,
                  Unanswered, cmdVars
    <3> QED BY <2>1, <3>1
  <2> QED BY <1>3, <2>1, <2>2 DEF ot_ncp_command_handle_input, NcpGoes, NcpPlaces, cliVars, bufferVars
<1>4. CASE NoCommand \/ ForwardNothing \/ ForwardByte \/ ot_ncp_handle_response
  BY <1>4 DEF NoCommand, ForwardNothing, ForwardByte, ot_ncp_handle_response, NcpGoes, NcpPlaces,
              queueVars, bufferVars, cmdVars, cliVars, hostVars
<1>5. CASE ot_send_response
  <2>1. <<>> \in Seq(ChunkType)
    OBVIOUS
  <2> QED BY <1>5, <2>1 DEF ot_send_response, NcpGoes, NcpPlaces, queueVars, bufferVars, cmdVars, cliVars
<1>6. CASE ClearThenDone
  <2>1. <<>> \in Seq(ChunkType)
    OBVIOUS
  <2> QED BY <1>6, <2>1 DEF ClearThenDone, EmptyBuffer, Ot_Data_TxDone, NcpGoes, NcpPlaces, queueVars,
                            bufferVars, cmdVars, cliVars, hostVars
<1>7. CASE CopyCmd
  BY <1>7 DEF CopyCmd, OtGoes, queueVars, bufferVars, cmdVars, hostVars
<1>8. CASE otPlatUartReceived
  <2>1. PICK a \in Answers :
          /\ printed' = printed + Len(Chunks(a, received.id))
          /\ \/ /\ cli.sending
                /\ cli' = [cli EXCEPT !.rest = cli.rest \o Chunks(a, received.id)]
                /\ UNCHANGED <<bufferVars, ncpSem>>
             \/ /\ ~cli.sending
                /\ otPlatUartSend(Head(cli.rest \o Chunks(a, received.id)))
                /\ cli' = [sending |-> TRUE, rest |-> Tail(cli.rest \o Chunks(a, received.id))]
    BY <1>8 DEF otPlatUartReceived
  <2>2. received.id \in Nat
    BY DEF Cmd, NoCmd
  <2> DEFINE out == cli.rest \o Chunks(a, received.id)
  <2>3. out \in Seq(ChunkType) /\ out # <<>> /\ Len(Chunks(a, received.id)) \in Nat
    BY <2>2, OutShape
  <2>4. Head(out) \in ChunkType /\ Tail(out) \in Seq(ChunkType)
    <3> HIDE DEF out
    <3> QED BY <2>3
  <2>5. printed' \in Nat
    BY <2>1, <2>3
  <2>6. txBuffer' \in Seq(ChunkType) /\ ncpSem' \in BOOLEAN
    <3>1. txBuffer' = txBuffer \/ txBuffer' = Append(txBuffer, Head(out))
      BY <2>1 DEF otPlatUartSend, bufferVars
    <3>2. ncpSem' = ncpSem \/ ncpSem' = TRUE
      BY <2>1 DEF otPlatUartSend
    <3>3. txBuffer' \in Seq(ChunkType)
      BY <2>4, <3>1, AppendOrSame, Zenon
    <3> QED BY <3>2, <3>3
  <2>7. cli' \in [sending : BOOLEAN, rest : Seq(ChunkType)]
    <3>1. cli' = [cli EXCEPT !.rest = out] \/ cli' = [sending |-> TRUE, rest |-> Tail(out)]
      BY <2>1
    <3> HIDE DEF out, TaskTypes
    <3>2. cli \in [sending : BOOLEAN, rest : Seq(ChunkType)]
      BY DEF TaskTypes
    <3> QED BY <2>3, <2>4, <3>1, <3>2, CliForms
  <2> QED BY <1>8, <2>5, <2>6, <2>7 DEF otPlatUartReceived, OtGoes, cmdVars, hostVars
<1>9. CASE ot_ncp_clear_cmd_ready
  BY <1>9 DEF ot_ncp_clear_cmd_ready, queueVars, bufferVars
<1>10. CASE UartDone
  <2>1. cli.rest # <<>> => Head(cli.rest) \in ChunkType /\ Tail(cli.rest) \in Seq(ChunkType)
    OBVIOUS
  <2>2. txBuffer' \in Seq(ChunkType) /\ ncpSem' \in BOOLEAN
    <3>1. \/ txBuffer' = txBuffer
          \/ cli.rest # <<>> /\ txBuffer' = Append(txBuffer, Head(cli.rest))
      BY <1>10 DEF UartDone, otPlatUartSend, bufferVars
    <3>2. ncpSem' = ncpSem \/ ncpSem' = TRUE
      BY <1>10 DEF UartDone, otPlatUartSend
    <3>3. txBuffer' \in Seq(ChunkType)
      <4>1. CASE txBuffer' = txBuffer
        BY <4>1
      <4>2. CASE cli.rest # <<>> /\ txBuffer' = Append(txBuffer, Head(cli.rest))
        BY <2>1, <4>2, AppendOrSame, Zenon
      <4> QED BY <3>1, <4>1, <4>2
    <3> QED BY <3>2, <3>3
  <2>3. cli' \in [sending : BOOLEAN, rest : Seq(ChunkType)]
    <3>1. \/ cli' = cli \/ cli' = [cli EXCEPT !.sending = FALSE]
          \/ cli.rest # <<>> /\ cli' = [sending |-> TRUE, rest |-> Tail(cli.rest)]
      BY <1>10 DEF UartDone
    <3>2. CASE cli' = cli \/ cli' = [cli EXCEPT !.sending = FALSE]
      BY <3>2
    <3>3. CASE cli.rest # <<>> /\ cli' = [sending |-> TRUE, rest |-> Tail(cli.rest)]
      <4> HIDE DEF TaskTypes
      <4>1. Tail(cli.rest) \in Seq(ChunkType)
        BY <2>1, <3>3
      <4> QED BY <3>3, <4>1
    <3> QED BY <3>1, <3>2, <3>3
  <2> QED BY <1>10, <2>2, <2>3 DEF UartDone, cmdVars, hostVars
<1>11. CASE ncp_ot_fct_process \/ ulTaskNotifyTake \/ TaskRest
  BY <1>11 DEF ncp_ot_fct_process, ulTaskNotifyTake, TaskRest, taskVars, queueVars, bufferVars, cmdVars, hostVars,
               cliVars
<1> QED BY <1>1, <1>2, <1>3, <1>4, <1>5, <1>6, <1>7, <1>8, <1>9, <1>10, <1>11
        DEF TaskNext, otNcpTask, mainloop, otPlatCliUartProcess

\* A step that touches neither the queue nor the buffer nor the CLI, nor what
\* has become of them.
ChunksAlone ==
  UNCHANGED <<bufferVars, cli, printed, got, forwarding, toldTwice>>

\* The numbers of the chunks cut off, after one more.
LEMMA CutNumbers ==
  ASSUME NEW s, NEW x
  PROVE  {y.n : y \in s \cup {x}} = {y.n : y \in s} \cup {x.n}
OBVIOUS

\* Every step leaves each chunk where it is to be found.
LEMMA ChunkStep ==
  ASSUME TaskTypes, ChunkInv, TaskNext
  PROVE  ChunkInv'
<1> USE DEF ChunkInv
<1> DEFINE C == {x.n : x \in cut}
<1>1. CASE ChunksAlone /\ ncpPc \notin {"clear"} /\ ncpPc' \notin {"send", "clear"}
  BY <1>1 DEF ChunksAlone, bufferVars, Kept
<1>2. CASE ChunksAlone /\ UNCHANGED ncpPc
  BY <1>2 DEF ChunksAlone, bufferVars, Kept
<1>3. CASE ForwardByte
  BY <1>3 DEF ForwardByte, NcpGoes, cliVars, hostVars, Kept
<1>4. CASE ot_ncp_handle_response
  BY <1>4 DEF ot_ncp_handle_response, NcpGoes, cliVars, hostVars, bufferVars, Kept
<1>5. CASE ot_send_response
  <2>0. ncpPc = "send" /\ ncpPc' = "clear"
    BY <1>5 DEF ot_send_response, NcpGoes
  <2>1. UNCHANGED <<txBuffer, cut, cli, printed>>
    BY <1>5 DEF ot_send_response, bufferVars, cliVars
  <2>2. CASE forwarding = <<Prompt>> /\ got' = got
    <3>1. Numbers(<<Prompt>>) = {0}
      BY DEF Numbers, Prompt, Chunk
    <3> QED BY <2>0, <2>1, <2>2, <3>1 DEF Kept
  <2>3. CASE got' = got \cup Numbers(forwarding)
    BY <2>0, <2>1, <2>3 DEF Kept
  <2> QED BY <1>5, <2>2, <2>3 DEF ot_send_response
<1>6. CASE ClearThenDone /\ ncpPc = "clear"
  <2>1. Numbers(<<>>) = {}
    BY DEF Numbers
  <2>2. txBuffer' = <<>> /\ ncpPc' = "done" /\ UNCHANGED <<cut, cli, printed, got>>
    BY <1>6 DEF ClearThenDone, EmptyBuffer, NcpGoes, cliVars, hostVars
  <2>3. 1 .. printed \subseteq got \cup Numbers(cli.rest) \cup C
    BY <1>6 DEF Kept
  <2> QED BY <1>6, <2>1, <2>2, <2>3 DEF Kept
<1>7. CASE otPlatUartReceived
  <2>1. PICK a \in Answers :
          /\ printed' = printed + Len(Chunks(a, received.id))
          /\ \/ /\ cli.sending
                /\ cli' = [cli EXCEPT !.rest = cli.rest \o Chunks(a, received.id)]
                /\ UNCHANGED <<bufferVars, ncpSem>>
             \/ /\ ~cli.sending
                /\ otPlatUartSend(Head(cli.rest \o Chunks(a, received.id)))
                /\ cli' = [sending |-> TRUE, rest |-> Tail(cli.rest \o Chunks(a, received.id))]
    BY <1>7 DEF otPlatUartReceived
  <2>2. received.id \in Nat
    BY DEF TaskTypes, Cmd, NoCmd
  <2> DEFINE out == cli.rest \o Chunks(a, received.id)
             l == Len(Chunks(a, received.id))
  <2>3. /\ out \in Seq(ChunkType) /\ out # <<>> /\ Distinct(out) /\ l \in Nat
        /\ Numbers(out) = Numbers(cli.rest) \cup (printed + 1 .. printed + l)
    BY <2>2, OutShape
  <2>4. UNCHANGED <<got, forwarding, ncpPc>>
    BY <1>7 DEF otPlatUartReceived, hostVars
  <2> HIDE DEF out
  <2>5. Kept(printed + l, got, Numbers(txBuffer), Numbers(out), C, Numbers(forwarding), ncpPc)
    <3>1. printed \in Nat
      BY DEF TaskTypes
    <3> HIDE DEF C, l
    <3>2. Kept(printed, got, Numbers(txBuffer), Numbers(cli.rest), C, Numbers(forwarding), ncpPc)
      BY DEF C
    <3>3. Kept(printed + l, got, Numbers(txBuffer), Numbers(cli.rest) \cup (printed + 1 .. printed + l), C,
               Numbers(forwarding), ncpPc)
      BY <2>3, <3>1, <3>2, KeptPrinted DEF l
    <3> QED BY <2>3, <3>3 DEF l
  <2>6. CASE cli.sending
    <3>1. cli'.rest = out /\ UNCHANGED <<txBuffer, cut>>
      BY <2>1, <2>6 DEF out, TaskTypes, bufferVars
    <3> QED BY <2>1, <2>3, <2>4, <2>5, <3>1
  <2>7. CASE ~cli.sending
    <3>1. otPlatUartSend(Head(out)) /\ cli'.rest = Tail(out)
      <4>1. otPlatUartSend(Head(out)) /\ cli' = [sending |-> TRUE, rest |-> Tail(out)]
        BY <2>1, <2>7, Zenon DEF out
      <4> QED BY <4>1
    <3>2. /\ Numbers(out) = Numbers(Tail(out)) \cup {Head(out).n}
          /\ Head(out).n \notin Numbers(Tail(out)) /\ Distinct(Tail(out)) /\ Head(out) \in ChunkType
      BY <2>3, NumbersTail
    <3>3. Numbers(txBuffer') = Numbers(txBuffer) \cup {Head(out).n}
      BY <3>1, <3>2, NumbersAppend DEF otPlatUartSend, TaskTypes
    <3>4. {x.n : x \in cut'} = IF ncpPc \in {"send", "clear"} THEN C \cup {Head(out).n} ELSE C
      BY <3>1, CutNumbers DEF otPlatUartSend
    <3>5. printed + l \in Nat
      BY <2>3 DEF TaskTypes
    <3>6. Kept(printed + l, got, Numbers(txBuffer) \cup {Head(out).n}, Numbers(Tail(out)),
               IF ncpPc \in {"send", "clear"} THEN C \cup {Head(out).n} ELSE C, Numbers(forwarding), ncpPc)
      BY <2>5, <3>2, <3>5, KeptMoved
    <3> QED BY <2>1, <2>4, <3>1, <3>2, <3>3, <3>4, <3>6
  <2> QED BY <2>6, <2>7
<1>8. CASE UartDone
  <2>1. UNCHANGED <<got, forwarding, ncpPc, printed>>
    BY <1>8 DEF UartDone, hostVars
  <2>2. CASE UNCHANGED <<txBuffer, cut>> /\ cli'.rest = cli.rest
    BY <2>1, <2>2
  <2>3. CASE cli.rest # <<>> /\ otPlatUartSend(Head(cli.rest)) /\ cli'.rest = Tail(cli.rest)
    <3> DEFINE out == cli.rest
    <3>1. out \in Seq(ChunkType)
      BY DEF TaskTypes
    <3>2. /\ Numbers(out) = Numbers(Tail(out)) \cup {Head(out).n}
          /\ Head(out).n \notin Numbers(Tail(out)) /\ Distinct(Tail(out)) /\ Head(out) \in ChunkType
      BY <2>3, <3>1, NumbersTail
    <3>3. Numbers(txBuffer') = Numbers(txBuffer) \cup {Head(out).n}
      BY <2>3, <3>2, NumbersAppend DEF otPlatUartSend, TaskTypes
    <3>4. {x.n : x \in cut'} = IF ncpPc \in {"send", "clear"} THEN C \cup {Head(out).n} ELSE C
      BY <2>3, CutNumbers DEF otPlatUartSend
    <3>5. printed \in Nat
      BY DEF TaskTypes
    <3>6. Kept(printed, got, Numbers(txBuffer) \cup {Head(out).n}, Numbers(Tail(out)),
               IF ncpPc \in {"send", "clear"} THEN C \cup {Head(out).n} ELSE C, Numbers(forwarding), ncpPc)
      BY <3>2, <3>5, KeptMoved
    <3> QED BY <2>1, <2>3, <3>2, <3>3, <3>4, <3>6
  <2>4. \/ UNCHANGED <<txBuffer, cut>> /\ cli'.rest = cli.rest
        \/ cli.rest # <<>> /\ otPlatUartSend(Head(cli.rest)) /\ cli'.rest = Tail(cli.rest)
    BY <1>8 DEF UartDone, bufferVars, TaskTypes
  <2> QED BY <2>2, <2>3, <2>4
<1>9. ASSUME NEW k \in Cmd, otNcpCallback(k) PROVE ChunksAlone /\ UNCHANGED ncpPc
  BY <1>9 DEF otNcpCallback, ChunksAlone, cliVars
<1>10. CASE Take \/ ot_ncp_command_handle_input \/ NoCommand \/ ForwardNothing \/ (ClearThenDone /\ ncpPc # "clear")
  <2>1. ChunksAlone /\ ncpPc \notin {"clear"} /\ ncpPc' \notin {"send", "clear"}
    BY <1>10 DEF Take, ot_ncp_command_handle_input, NoCommand, ForwardNothing, ClearThenDone, Ot_Data_TxDone,
                 NcpGoes, ChunksAlone, cliVars, hostVars
  <2> QED BY <1>1, <2>1
<1>11. CASE CopyCmd \/ ot_ncp_clear_cmd_ready \/ ncp_ot_fct_process \/ ulTaskNotifyTake \/ TaskRest
  <2>1. ChunksAlone /\ UNCHANGED ncpPc
    BY <1>11 DEF CopyCmd, ot_ncp_clear_cmd_ready, ncp_ot_fct_process, ulTaskNotifyTake, TaskRest, taskVars,
                 ChunksAlone, cliVars, hostVars
  <2> QED BY <1>2, <2>1
<1> QED BY <1>2, <1>3, <1>4, <1>5, <1>6, <1>7, <1>8, <1>9, <1>10, <1>11
        DEF TaskNext, otNcpTask, mainloop, otPlatCliUartProcess

\* The CLI is told of a chunk only when it waits to be told.
LEMMA ToldStep ==
  ASSUME TaskTypes, ToldInv, TaskNext
  PROVE  ToldInv'
<1> USE DEF ToldInv, OneByte
<1>1. CASE ChunksAlone /\ UNCHANGED txDoneFlag /\ ncpPc' \notin {"send", "clear", "done"}
  BY <1>1 DEF ChunksAlone, bufferVars
<1>2. CASE ChunksAlone /\ UNCHANGED <<txDoneFlag, ncpPc>>
  BY <1>2 DEF ChunksAlone, bufferVars
<1>3. CASE ForwardByte
  <2>1. txBuffer # <<>>
    BY <1>3 DEF ForwardByte
  <2>2. UNCHANGED <<txBuffer, cut, cli>> /\ ncpPc = "forward" /\ ncpPc' = "wait" /\ byteTold' /\ txDoneFlag'
    BY <1>3 DEF ForwardByte, NcpGoes, cliVars
  <2>3. OneByte /\ toldTwice' = (toldTwice \/ byteTold)
    BY <1>3 DEF ForwardByte
  <2> QED BY <2>1, <2>2, <2>3
<1>4. CASE ot_ncp_handle_response
  <2>1. txBuffer # <<>> /\ ~OneByte /\ ncpPc' = "send"
    BY <1>4 DEF ot_ncp_handle_response, NcpGoes
  <2>2. UNCHANGED <<txBuffer, cut, byteTold, toldTwice, cli, txDoneFlag>>
    BY <1>4 DEF ot_ncp_handle_response, bufferVars, cliVars
  <2> QED BY <2>1, <2>2
<1>5. CASE ot_send_response
  BY <1>5 DEF ot_send_response, NcpGoes, bufferVars, cliVars
<1>6. CASE ClearThenDone
  BY <1>6 DEF ClearThenDone, EmptyBuffer, Ot_Data_TxDone, NcpGoes, bufferVars, cliVars
<1>7. CASE otPlatUartReceived
  <2>1. UNCHANGED <<toldTwice, txDoneFlag, ncpPc>>
    BY <1>7 DEF otPlatUartReceived
  <2>2. CASE cli.sending /\ UNCHANGED bufferVars /\ cli'.sending
    BY <2>1, <2>2 DEF bufferVars
  <2>3. CASE ~cli.sending /\ cli'.sending /\ ~byteTold' /\ (cut' = cut \/ ncpPc \in {"send", "clear"})
    BY <2>1, <2>3
  <2>4. \/ cli.sending /\ UNCHANGED bufferVars /\ cli'.sending
        \/ ~cli.sending /\ cli'.sending /\ ~byteTold' /\ (cut' = cut \/ ncpPc \in {"send", "clear"})
    <3>1. PICK out : \/ /\ cli.sending
                       /\ cli' = [cli EXCEPT !.rest = out]
                       /\ UNCHANGED bufferVars
                    \/ /\ ~cli.sending
                       /\ otPlatUartSend(Head(out))
                       /\ cli' = [sending |-> TRUE, rest |-> Tail(out)]
      BY <1>7, Zenon DEF otPlatUartReceived
    <3>2. cli.sending /\ cli' = [cli EXCEPT !.rest = out] => cli'.sending
      BY DEF TaskTypes
    <3>3. cli' = [sending |-> TRUE, rest |-> Tail(out)] => cli'.sending
      OBVIOUS
    <3>4. otPlatUartSend(Head(out)) => ~byteTold' /\ (cut' = cut \/ ncpPc \in {"send", "clear"})
      BY DEF otPlatUartSend
    <3> QED BY <3>1, <3>2, <3>3, <3>4
  <2> QED BY <2>2, <2>3, <2>4
<1>8. CASE UartDone
  <2>1. UNCHANGED <<toldTwice, ncpPc>> /\ ~txDoneFlag'
    BY <1>8 DEF UartDone
  <2>2. CASE ~txDoneFlag /\ UNCHANGED <<cli, bufferVars>>
    BY <2>1, <2>2 DEF bufferVars
  <2>3. CASE txDoneFlag /\ cli'.rest = <<>> /\ UNCHANGED bufferVars
    BY <2>1, <2>3 DEF bufferVars
  <2>4. CASE txDoneFlag /\ cli'.sending /\ ~byteTold' /\ (cut' = cut \/ ncpPc \in {"send", "clear"})
    BY <2>1, <2>4
  <2>5. \/ ~txDoneFlag /\ UNCHANGED <<cli, bufferVars>>
        \/ txDoneFlag /\ cli'.rest = <<>> /\ UNCHANGED bufferVars
        \/ txDoneFlag /\ cli'.sending /\ ~byteTold' /\ (cut' = cut \/ ncpPc \in {"send", "clear"})
    BY <1>8 DEF UartDone, otPlatUartSend, TaskTypes
  <2> QED BY <2>2, <2>3, <2>4, <2>5
<1>9. ASSUME NEW k \in Cmd, otNcpCallback(k) PROVE ChunksAlone /\ UNCHANGED <<txDoneFlag, ncpPc>>
  BY <1>9 DEF otNcpCallback, ChunksAlone, cliVars
<1>10. CASE Take \/ ot_ncp_command_handle_input \/ NoCommand \/ ForwardNothing
  <2>1. ChunksAlone /\ UNCHANGED txDoneFlag /\ ncpPc' \notin {"send", "clear", "done"}
    BY <1>10 DEF Take, ot_ncp_command_handle_input, NoCommand, ForwardNothing, NcpGoes, ChunksAlone, cliVars, hostVars
  <2> QED BY <1>1, <2>1
<1>11. CASE CopyCmd \/ ot_ncp_clear_cmd_ready \/ ncp_ot_fct_process \/ ulTaskNotifyTake \/ TaskRest
  <2>1. ChunksAlone /\ UNCHANGED <<txDoneFlag, ncpPc>>
    BY <1>11 DEF CopyCmd, ot_ncp_clear_cmd_ready, ncp_ot_fct_process, ulTaskNotifyTake, TaskRest, taskVars,
                 ChunksAlone, cliVars, hostVars
  <2> QED BY <1>2, <2>1
<1> QED BY <1>2, <1>3, <1>4, <1>5, <1>6, <1>7, <1>8, <1>9, <1>10, <1>11
        DEF TaskNext, otNcpTask, mainloop, otPlatCliUartProcess

\* No step takes a wake-up without a command, or adds a command without one,
\* but where two wake-ups merge.
LEMMA WakeUpStep ==
  ASSUME TaskTypes, NoneStrandedUnmerged, TaskNext
  PROVE  NoneStrandedUnmerged'
<1> USE DEF TaskTypes, NoneStrandedUnmerged, WakeUps
<1> DEFINE n == Len(cmdQueue)
<1>0. n \in Nat
  OBVIOUS
<1>1. ASSUME NEW k \in Cmd, otNcpCallback(k) PROVE NoneStrandedUnmerged'
  <2>1. ncpPc' = ncpPc
    BY <1>1 DEF otNcpCallback
  <2>2. CASE UNCHANGED <<cmdQueue, merged>> /\ (ncpSem' = ncpSem \/ ncpSem')
    BY <1>0, <2>1, <2>2
  <2>3. CASE /\ cmdQueue' = Append(cmdQueue, k) /\ ncpSem'
             /\ merged' = IF ncpSem /\ cmdQueue # <<>> THEN merged + 1 ELSE merged
    <3>1. Len(cmdQueue') = n + 1
      BY <2>3
    <3>2. cmdQueue = <<>> => n = 0
      OBVIOUS
    <3> QED BY <1>0, <2>1, <2>3, <3>1, <3>2
  <2> QED BY <1>1, <2>2, <2>3 DEF otNcpCallback, queueVars
<1>2. CASE Take
  BY <1>0, <1>2 DEF Take, NcpGoes
<1>3. CASE ot_ncp_command_handle_input
  <2>1. Len(cmdQueue') = n - 1 /\ UNCHANGED <<ncpSem, merged>> /\ ncpPc = "receive" /\ ncpPc' = "forward"
    BY <1>3 DEF ot_ncp_command_handle_input, NcpGoes
  <2> QED BY <1>0, <2>1
<1>4. CASE NoCommand
  BY <1>4 DEF NoCommand, NcpGoes, queueVars
<1>5. CASE ForwardNothing \/ ForwardByte \/ ot_ncp_handle_response \/ ot_send_response \/ ClearThenDone
  <2>1. UNCHANGED queueVars /\ ncpPc # "receive" /\ ncpPc' # "receive"
    BY <1>5 DEF ForwardNothing, ForwardByte, ot_ncp_handle_response, ot_send_response, ClearThenDone, EmptyBuffer,
                Ot_Data_TxDone, NcpGoes
  <2> QED BY <2>1 DEF queueVars
<1>6. CASE mainloop \/ TaskRest
  <2>1. UNCHANGED <<cmdQueue, merged, ncpPc>> /\ (ncpSem' = ncpSem \/ ncpSem')
    BY <1>6 DEF mainloop, otPlatCliUartProcess, CopyCmd, otPlatUartReceived, otPlatUartSend, ot_ncp_clear_cmd_ready,
                UartDone, ncp_ot_fct_process, ulTaskNotifyTake, TaskRest, taskVars, queueVars
  <2> QED BY <1>0, <2>1
<1> QED BY <1>1, <1>2, <1>3, <1>4, <1>5, <1>6 DEF TaskNext, otNcpTask

\* However many commands the host sends and whatever it waits for, the commands
\* in the queue that nobody is woken for are no more than the merged wake-ups,
\* and a chunk is lost only if it comes while the buffer is forwarded, which it
\* does not until the CLI was told twice of a byte: for any lengths of the two
\* queues and of the answers.
LEMMA TaskSafe == TaskInit /\ [][TaskNext]_taskVars => [](NoneStrandedUnmerged /\ ChunksKept)
<1> DEFINE Inv == TaskTypes /\ ChunkInv /\ ToldInv /\ NoneStrandedUnmerged
<1>1. TaskInit => Inv
  <2> SUFFICES ASSUME TaskInit PROVE Inv
    OBVIOUS
  <2>1. TaskTypes
    <3>1. Prompt \in ChunkType
      BY DEF Prompt, Chunk, ChunkType
    <3>2. <<Prompt>> \in Seq(ChunkType) /\ <<>> \in Seq(ChunkType) /\ <<>> \in Seq(Cmd)
      BY <3>1
    <3>3. [sending |-> TRUE, rest |-> <<>>] \in [sending : BOOLEAN, rest : Seq(ChunkType)]
      BY <3>2
    <3> QED BY <3>2, <3>3 DEF TaskInit, TaskTypes, NcpPlaces
  <2>2. cli.rest = <<>> /\ txBuffer = <<Prompt>> /\ cli.sending
    BY DEF TaskInit
  <2>3. Numbers(<<Prompt>>) = {0} /\ Numbers(<<>>) = {}
    BY DEF Numbers, Prompt, Chunk
  <2>4. ChunkInv
    BY <2>2, <2>3 DEF TaskInit, ChunkInv, Kept, Distinct
  <2>5. ToldInv
    BY <2>2 DEF TaskInit, ToldInv
  <2>6. NoneStrandedUnmerged
    BY DEF TaskInit, NoneStrandedUnmerged, WakeUps
  <2> QED BY <2>1, <2>4, <2>5, <2>6
<1>2. Inv /\ [TaskNext]_taskVars => Inv'
  <2> SUFFICES ASSUME Inv, [TaskNext]_taskVars PROVE Inv'
    OBVIOUS
  <2>1. CASE TaskNext
    BY <2>1, TaskTypesStep, ChunkStep, ToldStep, WakeUpStep
  <2>2. CASE UNCHANGED taskVars
    <3> USE <2>2 DEF taskVars, queueVars, bufferVars, cmdVars, cliVars, hostVars
    <3>1. TaskTypes'
      BY DEF TaskTypes
    <3>2. ChunkInv'
      BY DEF ChunkInv
    <3>3. ToldInv'
      BY DEF ToldInv, OneByte
    <3>4. NoneStrandedUnmerged'
      BY DEF NoneStrandedUnmerged, WakeUps
    <3> QED BY <3>1, <3>2, <3>3, <3>4
  <2> QED BY <2>1, <2>2
<1>3. Inv => NoneStrandedUnmerged /\ ChunksKept
  BY DEF ChunkInv, Kept, ToldInv, ChunksKept
<1> QED BY <1>1, <1>2, <1>3, PTL

THEOREM CommandsAndChunksKept == TaskSpec => [](NoneStrandedUnmerged /\ ChunksKept)
BY TaskSafe, PTL DEF TaskSpec

-----------------------------------------------------------------------------
(* BrSockets: the control blocks of the DNS transactions.                  *)

UdpTypes ==
  /\ sTransactions \in [1..Txns -> [ctx : Query \cup {NoQuery}, handle : 0..Pool, port : Nat]]
  /\ pcbs \in [1..Pool -> 0..Txns + 2]
  /\ ports = [p \in 1..Pool |-> ports[p]]
  /\ trel \in [on : BOOLEAN, handle : 0..Pool]
  /\ ran \in Nat

\* The link keeps the block it was enabled with: no transaction that closes
\* takes it away.
TrelOwnsPcb == trel.on => trel.handle \in 1..Pool /\ pcbs[trel.handle] = Trel

\* The block of a transaction is its own: the first half of
\* TransactionsOwnPcbs.
BlocksOwned ==
  \A i \in 1..Txns :
    {p \in 1..Pool : pcbs[p] = i}
      = IF sTransactions[i].ctx = NoQuery THEN {} ELSE {sTransactions[i].handle}

UdpInv == UdpTypes /\ TrelOwnsPcb /\ BlocksOwned

\* The block lwIP hands out is free, and the slot the resolver finds is one of
\* those it looked for.
LEMMA FirstIsIn ==
  ASSUME NEW S \in SUBSET Nat, S # {}
  PROVE  (CHOOSE x \in S : \A y \in S : x <= y) \in S
<1>1. \E x \in S : \A y \in S : x <= y
  BY MinOfNaturals
<1> QED BY <1>1, Zenon

\* A new control block was not in use.
LEMMA NewBlockIsFree ==
  ASSUME Free # {}
  PROVE  NewBlock \in 1..Pool /\ pcbs[NewBlock] = 0
<1>1. Free \in SUBSET Nat
  BY BrSocketsAssumption DEF Free
<1>2. NewBlock \in Free
  BY <1>1, FirstIsIn DEF NewBlock
<1> QED BY <1>2 DEF Free

\* The lowest transaction of a set is one of it.
LEMMA LowestIsIn ==
  ASSUME NEW S \in SUBSET (1..Txns), S # {}
  PROVE  Lowest(S) \in S
<1>1. S \in SUBSET Nat
  BY BrSocketsAssumption
<1> QED BY <1>1, FirstIsIn DEF Lowest

\* A transaction that closes frees its own block and no other.
LEMMA CloseKeeps ==
  ASSUME UdpInv, NEW q, q # NoQuery, CloseTransaction(q), UNCHANGED <<trel, ports, ran>>
  PROVE  UdpInv'
<1>1. CASE Holds(q) = {}
  BY <1>1 DEF CloseTransaction, UdpInv, UdpTypes, TrelOwnsPcb, BlocksOwned
<1>2. CASE Holds(q) # {}
  <2>1. PICK i \in 1..Txns : /\ sTransactions[i].ctx = q
                             /\ pcbs' = Closed(sTransactions[i].handle)
                             /\ sTransactions' = [sTransactions EXCEPT ![i] = NoSocket]
    <3>1. Lowest(Holds(q)) \in Holds(q)
      BY <1>2, LowestIsIn DEF Holds
    <3> QED BY <1>2, <3>1 DEF CloseTransaction, Holds
  <2> DEFINE h == sTransactions[i].handle
  <2>2. {p \in 1..Pool : pcbs[p] = i} = {h}
    BY <2>1 DEF UdpInv, BlocksOwned
  <2>3. h \in 1..Pool /\ pcbs[h] = i
    BY <2>2
  <2>4. pcbs' = [pcbs EXCEPT ![h] = 0]
    BY <2>1, <2>3 DEF Closed, Removed
  <2>5. UdpTypes'
    BY <2>1, <2>3, <2>4, BrSocketsAssumption DEF UdpInv, UdpTypes, NoSocket
  <2>6. TrelOwnsPcb'
    <3>1. i # Trel
      BY BrSocketsAssumption DEF Trel
    <3> QED BY <2>3, <2>4, <3>1 DEF UdpInv, UdpTypes, TrelOwnsPcb
  <2>7. ASSUME NEW j \in 1..Txns
        PROVE  {p \in 1..Pool : pcbs'[p] = j}
                 = IF sTransactions'[j].ctx = NoQuery THEN {} ELSE {sTransactions'[j].handle}
    <3>0. {p \in 1..Pool : pcbs[p] = j}
            = IF sTransactions[j].ctx = NoQuery THEN {} ELSE {sTransactions[j].handle}
      BY DEF UdpInv, BlocksOwned
    <3>1. CASE j = i
      <4>1. {p \in 1..Pool : pcbs'[p] = j} = {}
        BY <2>2, <2>3, <2>4, <3>1, BrSocketsAssumption DEF UdpInv, UdpTypes
      <4>2. sTransactions'[j].ctx = NoQuery
        BY <2>1, <3>1 DEF UdpInv, UdpTypes, NoSocket
      <4> QED BY <4>1, <4>2
    <3>2. CASE j # i
      <4>1. {p \in 1..Pool : pcbs'[p] = j} = {p \in 1..Pool : pcbs[p] = j}
        BY <2>3, <2>4, <3>2, BrSocketsAssumption DEF UdpInv, UdpTypes
      <4>2. sTransactions'[j] = sTransactions[j]
        BY <2>1, <3>2 DEF UdpInv, UdpTypes
      <4> QED BY <3>0, <4>1, <4>2
    <3> QED BY <3>1, <3>2
  <2>8. BlocksOwned'
    BY <2>7 DEF BlocksOwned
  <2> QED BY <2>5, <2>6, <2>8 DEF UdpInv
<1> QED BY <1>1, <1>2

\* A query gets a slot that is free and a block that is free.
LEMMA QueryKeeps ==
  ASSUME UdpInv, NEW q \in Query, otPlatDnsStartUpstreamQuery(q)
  PROVE  UdpInv'
<1>0. UNCHANGED trel /\ ran \in Nat /\ ran' = ran + 1 /\ ran' \in Nat
  BY DEF otPlatDnsStartUpstreamQuery, UdpInv, UdpTypes
<1>1. CASE ~CanCreate(q)
  BY <1>1 DEF otPlatDnsStartUpstreamQuery, UdpInv, UdpTypes, TrelOwnsPcb, BlocksOwned
<1>2. CASE CanCreate(q)
  <2>1. PICK i \in 1..Txns : /\ sTransactions[i].ctx = NoQuery
                             /\ Sent(i, q) \/ BindFails(i)
    <3>1. Lowest(StopsAt(q)) \in StopsAt(q)
      BY <1>2, LowestIsIn DEF CanCreate, StopsAt, Holds
    <3> QED BY <1>2, <3>1 DEF otPlatDnsStartUpstreamQuery, CanCreate, StopsAt, Holds
  <2>2. NewBlock \in 1..Pool /\ pcbs[NewBlock] = 0
    BY <1>2, NewBlockIsFree DEF CanCreate
  <2> DEFINE b == NewBlock
  <2> HIDE DEF b
  <2>3. CASE BindFails(i)
    <3>1. pcbs' = pcbs /\ ports' = ports /\ sTransactions' = [sTransactions EXCEPT ![i].handle = b]
      BY <2>3 DEF BindFails, b
    <3>2. b \in 0..Pool
      BY <2>2, BrSocketsAssumption DEF b
    <3>3. UdpTypes'
      BY <1>0, <3>1, <3>2 DEF UdpInv, UdpTypes
    <3>4. \A j \in 1..Txns : /\ sTransactions'[j].ctx = sTransactions[j].ctx
                             /\ j # i => sTransactions'[j] = sTransactions[j]
      BY <3>1 DEF UdpInv, UdpTypes
    <3>5. BlocksOwned'
      BY <2>1, <3>1, <3>4 DEF UdpInv, BlocksOwned
    <3> QED BY <1>0, <3>1, <3>3, <3>5 DEF UdpInv, TrelOwnsPcb
  <2>4. CASE Sent(i, q)
    <3>1. /\ pcbs' = [pcbs EXCEPT ![b] = i] /\ ports' = [ports EXCEPT ![b] = ran + 1]
          /\ sTransactions' = [sTransactions EXCEPT ![i] = [ctx |-> q, handle |-> b, port |-> ran + 1]]
      BY <2>4 DEF Sent, b
    <3>2. b \in 1..Pool /\ pcbs[b] = 0 /\ i # Trel /\ Trel # 0 /\ q # NoQuery
      BY <2>2, BrSocketsAssumption DEF b, Trel
    <3>3. UdpTypes'
      <4>1. ports' = [p \in 1..Pool |-> ports'[p]]
        BY <3>1 DEF UdpInv, UdpTypes
      <4>2. pcbs' \in [1..Pool -> 0..Txns + 2]
        BY <3>1, <3>2, BrSocketsAssumption DEF UdpInv, UdpTypes
      <4>3. sTransactions' \in [1..Txns -> [ctx : Query \cup {NoQuery}, handle : 0..Pool, port : Nat]]
        BY <1>0, <3>1, <3>2, BrSocketsAssumption DEF UdpInv, UdpTypes
      <4> QED BY <1>0, <4>1, <4>2, <4>3 DEF UdpInv, UdpTypes
    <3>4. TrelOwnsPcb'
      BY <1>0, <3>1, <3>2 DEF UdpInv, UdpTypes, TrelOwnsPcb
    <3>5. ASSUME NEW j \in 1..Txns
          PROVE  {p \in 1..Pool : pcbs'[p] = j}
                   = IF sTransactions'[j].ctx = NoQuery THEN {} ELSE {sTransactions'[j].handle}
      <4>0. {p \in 1..Pool : pcbs[p] = j}
              = IF sTransactions[j].ctx = NoQuery THEN {} ELSE {sTransactions[j].handle}
        BY DEF UdpInv, BlocksOwned
      <4>1. CASE j = i
        <5>1. {p \in 1..Pool : pcbs'[p] = j} = {b}
          BY <2>1, <3>1, <3>2, <4>0, <4>1 DEF UdpInv, UdpTypes
        <5>2. sTransactions'[j] = [ctx |-> q, handle |-> b, port |-> ran + 1]
          BY <3>1, <4>1 DEF UdpInv, UdpTypes
        <5> QED BY <3>2, <5>1, <5>2
      <4>2. CASE j # i
        <5>1. {p \in 1..Pool : pcbs'[p] = j} = {p \in 1..Pool : pcbs[p] = j}
          BY <3>1, <3>2, <4>2, BrSocketsAssumption DEF UdpInv, UdpTypes
        <5>2. sTransactions'[j] = sTransactions[j]
          BY <3>1, <4>2 DEF UdpInv, UdpTypes
        <5> QED BY <4>0, <5>1, <5>2
      <4> QED BY <4>1, <4>2
    <3>6. BlocksOwned'
      BY <3>5 DEF BlocksOwned
    <3> QED BY <3>3, <3>4, <3>6 DEF UdpInv
  <2> QED BY <2>1, <2>3, <2>4
<1> QED BY <1>1, <1>2

\* Enabling and disabling the link touches no block of a transaction.
LEMMA TrelKeeps ==
  ASSUME UdpInv, otPlatTrelEnable \/ otPlatTrelDisable
  PROVE  UdpInv'
<1>0. UNCHANGED sTransactions /\ Trel \notin 1..Txns /\ 0 \notin 1..Txns /\ Trel \in 0..Txns + 1
  BY BrSocketsAssumption DEF otPlatTrelEnable, otPlatTrelDisable, Trel
<1>1. CASE otPlatTrelEnable
  <2> DEFINE b == NewBlock
  <2>1. b \in 1..Pool /\ pcbs[b] = 0
    BY <1>1, NewBlockIsFree DEF otPlatTrelEnable
  <2> HIDE DEF b
  <2>2. pcbs' = [pcbs EXCEPT ![b] = Trel] /\ ports' = [ports EXCEPT ![b] = 0] /\ ran' = ran + 1
       /\ \E bound \in BOOLEAN : trel' = [on |-> bound, handle |-> b]
    BY <1>1 DEF otPlatTrelEnable, b
  <2>3. UdpTypes'
    <3>1. ports' = [p \in 1..Pool |-> ports'[p]]
      BY <2>2 DEF UdpInv, UdpTypes
    <3>2. pcbs' \in [1..Pool -> 0..Txns + 2]
      BY <2>1, <2>2, BrSocketsAssumption DEF UdpInv, UdpTypes, Trel
    <3>3. trel' \in [on : BOOLEAN, handle : 0..Pool]
      BY <2>1, <2>2, BrSocketsAssumption
    <3> QED BY <1>0, <2>2, <3>1, <3>2, <3>3 DEF UdpInv, UdpTypes
  <2>4. TrelOwnsPcb'
    BY <2>1, <2>2 DEF UdpInv, UdpTypes, TrelOwnsPcb
  <2>5. \A j \in 1..Txns : {p \in 1..Pool : pcbs'[p] = j} = {p \in 1..Pool : pcbs[p] = j}
    BY <1>0, <2>1, <2>2 DEF UdpInv, UdpTypes
  <2> QED BY <1>0, <2>3, <2>4, <2>5 DEF UdpInv, BlocksOwned
<1>2. CASE otPlatTrelDisable
  <2>1. trel.handle \in 1..Pool /\ pcbs[trel.handle] = Trel
    BY <1>2 DEF otPlatTrelDisable, UdpInv, TrelOwnsPcb
  <2>2. pcbs' = [pcbs EXCEPT ![trel.handle] = 0] /\ UNCHANGED <<ports, ran>> /\ trel' = [on |-> FALSE, handle |-> 0]
    BY <1>2, <2>1 DEF otPlatTrelDisable, Closed, Removed
  <2>3. UdpTypes'
    BY <1>0, <2>1, <2>2, BrSocketsAssumption DEF UdpInv, UdpTypes
  <2>4. \A j \in 1..Txns : {p \in 1..Pool : pcbs'[p] = j} = {p \in 1..Pool : pcbs[p] = j}
    BY <1>0, <2>1, <2>2 DEF UdpInv, UdpTypes
  <2> QED BY <1>0, <2>2, <2>3, <2>4 DEF UdpInv, BlocksOwned, TrelOwnsPcb
<1> QED BY <1>1, <1>2

\* No socket is open at first.
LEMMA UdpStart ==
  ASSUME sTransactions = [i \in 1..Txns |-> NoSocket], pcbs = FreeBlocks, ports = FreeBlocks, ran \in Nat,
         trel = [on |-> FALSE, handle |-> 0]
  PROVE  UdpInv
BY BrSocketsAssumption DEF UdpInv, UdpTypes, TrelOwnsPcb, BlocksOwned, NoSocket, FreeBlocks

\* A late send may lose free blocks; it takes none that is in use.
LEMMA TaskCbKeeps ==
  ASSUME UdpInv, UdpPlatLwipTaskCb
  PROVE  UdpInv'
<1> DEFINE c == Head(sends)
<1>1. /\ UNCHANGED <<sTransactions, trel, ran>> /\ ports' = [ports EXCEPT ![c.pcb] = c.port]
      /\ \/ UNCHANGED pcbs
         \/ \E behind \in SUBSET Free : pcbs' = [p \in 1..Pool |-> IF p \in behind THEN Gone ELSE pcbs[p]]
  BY DEF UdpPlatLwipTaskCb
<1> HIDE DEF c
<1>2. /\ pcbs' \in [1..Pool -> 0..Txns + 2]
      /\ \A p \in 1..Pool, i \in 1..Txns + 1 : pcbs'[p] = i <=> pcbs[p] = i
  <2>1. CASE UNCHANGED pcbs
    BY <2>1 DEF UdpInv, UdpTypes
  <2>2. ASSUME NEW behind \in SUBSET Free, pcbs' = [p \in 1..Pool |-> IF p \in behind THEN Gone ELSE pcbs[p]]
        PROVE  /\ pcbs' \in [1..Pool -> 0..Txns + 2]
               /\ \A p \in 1..Pool, i \in 1..Txns + 1 : pcbs'[p] = i <=> pcbs[p] = i
    BY <2>2, BrSocketsAssumption DEF UdpInv, UdpTypes, Free, Gone
  <2> QED BY <1>1, <2>1, <2>2
<1>3. UdpTypes'
  BY <1>1, <1>2 DEF UdpInv, UdpTypes
<1>4. TrelOwnsPcb'
  BY <1>1, <1>2, BrSocketsAssumption DEF UdpInv, UdpTypes, TrelOwnsPcb, Trel
<1>5. BlocksOwned'
  <2>1. \A i \in 1..Txns : {p \in 1..Pool : pcbs'[p] = i} = {p \in 1..Pool : pcbs[p] = i}
    BY <1>2, BrSocketsAssumption
  <2> QED BY <1>1, <2>1 DEF UdpInv, BlocksOwned
<1> QED BY <1>3, <1>4, <1>5 DEF UdpInv

\* Every step keeps each socket with its owner.
LEMMA UdpStep == UdpInv /\ [UdpNext]_udVars => UdpInv'
<1> SUFFICES ASSUME UdpInv, [UdpNext]_udVars PROVE UdpInv'
  OBVIOUS
<1>1. ASSUME UNCHANGED socketVars, ran' \in Nat PROVE UdpInv'
  BY <1>1 DEF UdpInv, UdpTypes, TrelOwnsPcb, BlocksOwned, socketVars
<1>2. CASE otPlatDnsIsUpstreamQueryAvailable \/ otPlatTrelSend \/ NoMessage
           \/ UdpRests \/ (\E d \in wire : Answered(d) \/ DatagramLost(d)) \/ UNCHANGED udVars
  <2>1. UNCHANGED socketVars /\ ran' \in {ran, ran + 1} /\ ran \in Nat
    BY <1>2 DEF otPlatDnsIsUpstreamQueryAvailable, otPlatTrelSend, NoMessage,
       UdpRests, Answered, DatagramLost, udVars, socketVars, UdpInv, UdpTypes
  <2> QED BY <1>1, <2>1
<1>7. CASE UdpPlatLwipTaskCb
  BY <1>7, TaskCbKeeps
<1>3. CASE \E q \in Query : otPlatDnsStartUpstreamQuery(q)
  BY <1>3, QueryKeeps
<1>4. CASE \E q \in Query : otPlatDnsCancelUpstreamQuery(q)
  BY <1>4, CloseKeeps, BrSocketsAssumption DEF otPlatDnsCancelUpstreamQuery
<1>5. CASE otPlatTrelEnable \/ otPlatTrelDisable
  BY <1>5, TrelKeeps
<1>6. CASE ProcessOtReceive
  <2> DEFINE s == Head(inbox)
  <2>1. CASE s # Trel /\ sTransactions[s].ctx = NoQuery
    <3>1. Asserted
      BY <1>6, <2>1 DEF ProcessOtReceive
    <3>2. /\ sTransactions' = [i \in 1..Txns |-> NoSocket] /\ pcbs' = FreeBlocks /\ ports' = FreeBlocks
          /\ trel' = [on |-> FALSE, handle |-> 0] /\ ran' \in Nat
      BY <3>1, BrSocketsAssumption DEF Asserted
    <3> QED BY <3>2, BrSocketsAssumption
            DEF UdpInv, UdpTypes, TrelOwnsPcb, BlocksOwned, NoSocket, FreeBlocks
  <2>2. CASE s = Trel
    BY <1>1, <1>6, <2>2 DEF ProcessOtReceive, socketVars, UdpInv, UdpTypes
  <2>3. CASE s # Trel /\ sTransactions[s].ctx # NoQuery
    BY <1>6, <2>3, CloseKeeps DEF ProcessOtReceive
  <2> QED BY <2>1, <2>2, <2>3
<1> QED BY <1>2, <1>3, <1>4, <1>5, <1>6, <1>7 DEF UdpNext

\* The block of a transaction listens on its port.
PortsKept ==
  ~rebound => \A i \in 1..Txns :
    sTransactions[i].ctx # NoQuery => ports[sTransactions[i].handle] = sTransactions[i].port

\* The block a transaction holds is marked as its own.
LEMMA OwnBlock ==
  ASSUME UdpInv, NEW i \in 1..Txns, sTransactions[i].ctx # NoQuery
  PROVE  sTransactions[i].handle \in 1..Pool /\ pcbs[sTransactions[i].handle] = i
BY DEF UdpInv, BlocksOwned

\* A port is written only to a block that is new, or by a send that finds it
\* changed.
LEMMA PortsStep == UdpInv /\ PortsKept /\ [UdpNext]_udVars => PortsKept'
<1> SUFFICES ASSUME UdpInv, PortsKept, [UdpNext]_udVars PROVE PortsKept'
  OBVIOUS
<1>1. ASSUME UNCHANGED <<ports, rebound>>,
             \A i \in 1..Txns : sTransactions'[i].ctx # NoQuery => sTransactions'[i] = sTransactions[i]
      PROVE  PortsKept'
  BY <1>1 DEF PortsKept
<1>2. ASSUME NEW q, CloseTransaction(q)
      PROVE  \A i \in 1..Txns : sTransactions'[i].ctx # NoQuery => sTransactions'[i] = sTransactions[i]
  <2>1. CASE Holds(q) = {}
    BY <1>2, <2>1 DEF CloseTransaction
  <2>2. CASE Holds(q) # {}
    <3> DEFINE l == Lowest(Holds(q))
    <3>1. sTransactions' = [sTransactions EXCEPT ![l] = NoSocket]
      BY <1>2, <2>2 DEF CloseTransaction
    <3> HIDE DEF l
    <3> QED BY <3>1 DEF UdpInv, UdpTypes, NoSocket
  <2> QED BY <2>1, <2>2
<1>3. CASE otPlatDnsIsUpstreamQueryAvailable \/ otPlatTrelSend \/ NoMessage \/ UdpRests
           \/ otPlatTrelDisable \/ (\E d \in wire : Answered(d) \/ DatagramLost(d)) \/ UNCHANGED udVars
  <2>1. UNCHANGED <<ports, rebound, sTransactions>>
    BY <1>3 DEF otPlatDnsIsUpstreamQueryAvailable, otPlatTrelSend, NoMessage, otPlatTrelDisable,
       UdpRests, Answered, DatagramLost, udVars, socketVars
  <2> QED BY <1>1, <2>1
<1>4. CASE \E q \in Query : otPlatDnsCancelUpstreamQuery(q)
  BY <1>1, <1>2, <1>4 DEF otPlatDnsCancelUpstreamQuery
<1>5. ASSUME NEW b, b = NewBlock, Free # {}, UNCHANGED rebound,
             NEW i \in 1..Txns, sTransactions[i].ctx = NoQuery, NEW port, ports' = [ports EXCEPT ![b] = port],
             \A j \in 1..Txns : j # i => sTransactions'[j] = sTransactions[j],
             sTransactions'[i].ctx # NoQuery => sTransactions'[i].handle = b /\ sTransactions'[i].port = port
      PROVE  PortsKept'
  <2>1. b \in 1..Pool /\ pcbs[b] = 0
    BY <1>5, NewBlockIsFree
  <2>2. ASSUME NEW j \in 1..Txns, j # i, sTransactions[j].ctx # NoQuery
        PROVE  sTransactions[j].handle \in 1..Pool /\ sTransactions[j].handle # b
    BY <2>1, <2>2, OwnBlock, BrSocketsAssumption
  <2>3. \A p \in 1..Pool : ports'[p] = IF p = b THEN port ELSE ports[p]
    BY <1>5, <2>1 DEF UdpInv, UdpTypes
  <2> QED BY <1>5, <2>1, <2>2, <2>3 DEF PortsKept
<1>6. ASSUME NEW q \in Query, otPlatDnsStartUpstreamQuery(q) PROVE PortsKept'
  <2>1. CASE ~CanCreate(q)
    BY <1>1, <1>6, <2>1 DEF otPlatDnsStartUpstreamQuery
  <2>2. CASE CanCreate(q)
    <3>1. PICK i \in 1..Txns : /\ sTransactions[i].ctx = NoQuery
                               /\ Sent(i, q) \/ BindFails(i)
      <4>1. Lowest(StopsAt(q)) \in StopsAt(q)
        BY <2>2, LowestIsIn DEF CanCreate, StopsAt, Holds
      <4> QED BY <1>6, <2>2, <4>1 DEF otPlatDnsStartUpstreamQuery, CanCreate, StopsAt, Holds
    <3>2. UNCHANGED rebound /\ Free # {}
      BY <1>6, <2>2 DEF otPlatDnsStartUpstreamQuery, CanCreate
    <3>3. CASE BindFails(i)
      <4>1. UNCHANGED ports /\ \A j \in 1..Txns : sTransactions'[j].ctx = sTransactions[j].ctx
                               /\ (j # i => sTransactions'[j] = sTransactions[j])
        BY <3>3 DEF BindFails, UdpInv, UdpTypes
      <4> QED BY <1>1, <3>1, <3>2, <4>1
    <3>4. CASE Sent(i, q)
      <4> DEFINE b == NewBlock
                 port == ran + 1
      <4>1. /\ ports' = [ports EXCEPT ![b] = port]
            /\ sTransactions' = [sTransactions EXCEPT ![i] = [ctx |-> q, handle |-> b, port |-> port]]
        BY <3>4 DEF Sent
      <4>0. b = NewBlock
        OBVIOUS
      <4> HIDE DEF b, port
      <4>2. /\ sTransactions'[i] = [ctx |-> q, handle |-> b, port |-> port]
            /\ \A j \in 1..Txns : j # i => sTransactions'[j] = sTransactions[j]
        BY <4>1 DEF UdpInv, UdpTypes
      <4>3. sTransactions'[i].handle = b /\ sTransactions'[i].port = port
        BY <4>2
      <4>4. UNCHANGED rebound /\ sTransactions[i].ctx = NoQuery /\ ports' = [ports EXCEPT ![b] = port]
        BY <3>1, <3>2, <4>1
      <4> QED BY <1>5, <3>2, <4>0, <4>2, <4>3, <4>4, Zenon
    <3> QED BY <3>1, <3>3, <3>4
  <2> QED BY <2>1, <2>2
<1>7. CASE otPlatTrelEnable
  <2>1. /\ Free # {} /\ UNCHANGED <<sTransactions, rebound>> /\ ports' = [ports EXCEPT ![NewBlock] = 0]
    BY <1>7 DEF otPlatTrelEnable
  <2>2. NewBlock \in 1..Pool /\ pcbs[NewBlock] = 0
    BY <2>1, NewBlockIsFree
  <2>3. ASSUME NEW j \in 1..Txns, sTransactions[j].ctx # NoQuery
        PROVE  ports'[sTransactions[j].handle] = ports[sTransactions[j].handle]
    <3>1. sTransactions[j].handle \in 1..Pool /\ sTransactions[j].handle # NewBlock
      BY <2>2, <2>3, OwnBlock, BrSocketsAssumption
    <3> QED BY <2>1, <3>1 DEF UdpInv, UdpTypes
  <2> QED BY <2>1, <2>3 DEF PortsKept
<1>8. CASE UdpPlatLwipTaskCb
  <2> DEFINE c == Head(sends)
  <2>1. /\ UNCHANGED sTransactions /\ ports' = [ports EXCEPT ![c.pcb] = c.port]
        /\ rebound' = (rebound \/ ports[c.pcb] # c.port)
    BY <1>8 DEF UdpPlatLwipTaskCb
  <2> HIDE DEF c
  <2>2. ~rebound' => ~rebound /\ ports' = ports
    BY <2>1 DEF UdpInv, UdpTypes
  <2> QED BY <2>1, <2>2 DEF PortsKept
<1>9. CASE ProcessOtReceive
  <2> DEFINE s == Head(inbox)
  <2>1. CASE Asserted
    BY <2>1 DEF Asserted, PortsKept, NoSocket
  <2>2. CASE s = Trel
    BY <1>1, <1>9, <2>2 DEF ProcessOtReceive
  <2>3. CASE s # Trel /\ sTransactions[s].ctx # NoQuery
    BY <1>1, <1>2, <1>9, <2>3 DEF ProcessOtReceive
  <2> QED BY <1>9, <2>1, <2>2, <2>3 DEF ProcessOtReceive
<1> QED BY <1>3, <1>4, <1>6, <1>7, <1>8, <1>9 DEF UdpNext

\* The messages that are allocated.
MessageTypes ==
  /\ udpMsgs \in Int /\ twice \in Int /\ servers.count \in Nat
  /\ \E Context_ : sends \in Seq(Context_)

MessageInv == MessageTypes /\ MessagesFreed

\* Every message is posted and freed by the callback, or freed at once.
LEMMA MessagesStep == MessageInv /\ [UdpNext]_udVars => MessageInv'
<1> SUFFICES ASSUME MessageInv, [UdpNext]_udVars PROVE MessageInv'
  OBVIOUS
<1>0. PICK S : sends \in Seq(S)
  BY DEF MessageInv, MessageTypes
<1>1. ASSUME UNCHANGED messageVars, servers'.count \in Nat PROVE MessageInv'
  BY <1>1 DEF MessageInv, MessageTypes, MessagesFreed, messageVars
<1>2. CASE otPlatDnsIsUpstreamQueryAvailable
  <2> DEFINE set == {i \in 1..DnsMax : dns[i]}
  <2>1. IsFiniteSet(1..DnsMax)
    BY BrSocketsAssumption, FS_Interval
  <2>2. Cardinality(set) \in Nat
    BY <2>1, FS_Subset, FS_CardinalityType
  <2>3. UNCHANGED messageVars /\ servers'.count = Cardinality(set)
    BY <1>2 DEF otPlatDnsIsUpstreamQueryAvailable
  <2> QED BY <1>1, <2>2, <2>3
<1>3. CASE otPlatTrelEnable \/ otPlatTrelDisable \/ NoMessage \/ UdpRests
           \/ (\E q \in Query : otPlatDnsCancelUpstreamQuery(q))
           \/ (\E d \in wire : Answered(d) \/ DatagramLost(d)) \/ UNCHANGED udVars
  <2>1. UNCHANGED <<messageVars, servers>>
    BY <1>3 DEF otPlatTrelEnable, otPlatTrelDisable, NoMessage, otPlatDnsCancelUpstreamQuery,
       UdpRests, Answered, DatagramLost, udVars, messageVars
  <2> QED BY <1>1, <2>1 DEF MessageInv, MessageTypes
<1>4. ASSUME SendsToAll, UNCHANGED servers PROVE MessageInv'
  <2>0. PICK k \in 0..servers.count : \E posted \in SUBSET (1..k) :
          LET again == IF k = servers.count /\ k > 0 /\ k \notin posted THEN 1 ELSE 0
              C(n) == Context(NewBlock, ran + 1,
                              Lowest({s \in posted : Cardinality({r \in posted : r < s}) = n - 1})) IN
          /\ sends' = sends \o [n \in 1..Cardinality(posted) |-> C(n)]
          /\ udpMsgs' = udpMsgs + Cardinality(posted) - again
          /\ twice' = twice + again
    BY <1>4 DEF SendsToAll
<2>1. PICK posted \in SUBSET (1..k) :
          LET again == IF k = servers.count /\ k > 0 /\ k \notin posted THEN 1 ELSE 0
              C(n) == Context(NewBlock, ran + 1,
                              Lowest({s \in posted : Cardinality({r \in posted : r < s}) = n - 1})) IN
          /\ sends' = sends \o [n \in 1..Cardinality(posted) |-> C(n)]
          /\ udpMsgs' = udpMsgs + Cardinality(posted) - again
          /\ twice' = twice + again
    BY <2>0
  <2> DEFINE again == IF k = servers.count /\ k > 0 /\ k \notin posted THEN 1 ELSE 0
             C(n) == Context(NewBlock, ran + 1,
                             Lowest({s \in posted : Cardinality({r \in posted : r < s}) = n - 1}))
             len == Cardinality(posted)
             new == [n \in 1..len |-> C(n)]
  <2>2. len \in Nat
    <3>1. k \in Int /\ IsFiniteSet(1..k)
      BY FS_Interval DEF MessageInv, MessageTypes
    <3> QED BY <3>1, FS_Subset, FS_CardinalityType
  <2>3. again \in {0, 1} /\ udpMsgs' = udpMsgs + len - again /\ twice' = twice + again /\ sends' = sends \o new
    BY <2>1
  <2> HIDE DEF again, len, C
  <2> DEFINE T == S \cup {C(n) : n \in 1..len}
  <2>4. new \in Seq(T) /\ Len(new) = len /\ sends \in Seq(T)
    BY <1>0, <2>2
  <2> HIDE DEF new, T
  <2>5. sends' \in Seq(T) /\ Len(sends') = Len(sends) + len
    BY <2>3, <2>4, ConcatProperties
  <2>6. MessageTypes'
    BY <1>4, <2>2, <2>3, <2>5 DEF MessageInv, MessageTypes
  <2>7. Len(sends) \in Nat
    BY <1>0
  <2>8. udpMsgs \in Int /\ twice \in Int /\ udpMsgs + twice = Len(sends)
    BY DEF MessageInv, MessageTypes, MessagesFreed
  <2>9. udpMsgs' + twice' = Len(sends) + len
    <3>1. \A m, t, a, n \in Int : (m + n - a) + (t + a) = (m + t) + n
      OBVIOUS
    <3>2. again \in Int /\ len \in Int
      BY <2>2, <2>3
    <3>3. udpMsgs' + twice' = (udpMsgs + len - again) + (twice + again)
      BY <2>3, Zenon
    <3>4. (udpMsgs + len - again) + (twice + again) = (udpMsgs + twice) + len
      <4> DEFINE m == udpMsgs
                 t == twice
      <4>1. m \in Int /\ t \in Int
        BY <2>8
      <4> HIDE DEF m, t
      <4>2. (m + len - again) + (t + again) = (m + t) + len
        BY <3>1, <3>2, <4>1
      <4> QED BY <4>2 DEF m, t
    <3> QED BY <2>8, <3>3, <3>4, Zenon
  <2> QED BY <2>5, <2>6, <2>9 DEF MessageInv, MessagesFreed
<1>5. ASSUME NEW q \in Query, otPlatDnsStartUpstreamQuery(q) PROVE MessageInv'
  <2>1. UNCHANGED servers /\ (UNCHANGED messageVars \/ SendsToAll)
    BY <1>5 DEF otPlatDnsStartUpstreamQuery, Sent
  <2> QED BY <1>1, <1>4, <2>1 DEF MessageInv, MessageTypes
<1>6. CASE otPlatTrelSend
  <2> DEFINE c == Context(trel.handle, 0, 0)
  <2>1. UNCHANGED servers /\ (UNCHANGED messageVars \/ (sends' = Append(sends, c) /\ udpMsgs' = udpMsgs + 1 /\ UNCHANGED twice))
    BY <1>6 DEF otPlatTrelSend
  <2> HIDE DEF c
  <2>2. CASE sends' = Append(sends, c) /\ udpMsgs' = udpMsgs + 1 /\ UNCHANGED twice
    <3>1. Len(sends) \in Nat /\ Len(sends') = Len(sends) + 1 /\ sends' \in Seq(S \cup {c})
      <4>1. sends \in Seq(S \cup {c})
        BY <1>0
      <4> QED BY <2>2, <4>1
    <3> QED BY <2>1, <2>2, <3>1 DEF MessageInv, MessageTypes, MessagesFreed
  <2> QED BY <1>1, <2>1, <2>2 DEF MessageInv, MessageTypes
<1>7. CASE UdpPlatLwipTaskCb
  <2>1. sends # <<>> /\ sends' = Tail(sends) /\ udpMsgs' = udpMsgs - 1 /\ UNCHANGED <<servers, twice>>
    BY <1>7 DEF UdpPlatLwipTaskCb
  <2>2. sends' \in Seq(S) /\ Len(sends) \in Nat /\ Len(sends') = Len(sends) - 1
    BY <1>0, <2>1
  <2> QED BY <2>1, <2>2 DEF MessageInv, MessageTypes, MessagesFreed
<1>8. CASE ProcessOtReceive
  <2>1. Asserted \/ UNCHANGED <<messageVars, servers>>
    BY <1>8 DEF ProcessOtReceive
  <2>2. CASE Asserted
    <3>1. sends' = <<>> /\ udpMsgs' = 0 /\ twice' = 0 /\ servers'.count = 0
      BY <2>2 DEF Asserted
    <3>2. <<>> \in Seq({}) /\ Len(<<>>) = 0
      OBVIOUS
    <3> QED BY <3>1, <3>2 DEF MessageInv, MessageTypes, MessagesFreed
  <2> QED BY <1>1, <2>1, <2>2 DEF MessageInv, MessageTypes
<1> QED BY <1>2, <1>3, <1>5, <1>6, <1>7, <1>8 DEF UdpNext

\* The DNS transactions own exactly their control blocks, and the messages are
\* accounted for, for any number of transactions and servers and any size of
\* the pool.
THEOREM TransactionsOwn == UdpSpec => [](TransactionsOwnPcbs /\ MessagesFreed)
<1>1. UdpInit => UdpInv /\ PortsKept /\ MessageInv
  <2> SUFFICES ASSUME UdpInit PROVE UdpInv /\ PortsKept /\ MessageInv
    OBVIOUS
  <2>1. UdpInv
    BY UdpStart DEF UdpInit
  <2>2. PortsKept
    BY DEF UdpInit, PortsKept, NoSocket
  <2>3. <<>> \in Seq({}) /\ Len(<<>>) = 0
    OBVIOUS
  <2>4. MessageInv
    BY <2>3 DEF UdpInit, MessageInv, MessageTypes, MessagesFreed
  <2> QED BY <2>1, <2>2, <2>4
<1>2. UdpInv /\ PortsKept /\ MessageInv => TransactionsOwnPcbs /\ MessagesFreed
  BY DEF UdpInv, BlocksOwned, PortsKept, MessageInv, TransactionsOwnPcbs
<1> QED BY <1>1, <1>2, UdpStep, PortsStep, MessagesStep, PTL DEF UdpSpec

-----------------------------------------------------------------------------
(* BrSockets: the listeners, and what they pass between the threads.       *)

Posting == [who : Listener, item : Item]
Waiting(q) == {q[n].item : n \in 1..Len(q)}
OnceIn(q) == \A m, n \in 1..Len(q) : q[m].item = q[n].item => m = n

LsTypes ==
  /\ box \in Seq(Posting) /\ back \in Seq(Posting)
  /\ state \in [Item -> {"new", "held", "freed", "twice"}]
  /\ groups \in [v6 : Nat, v4 : Nat]

\* A listener has a block exactly while it is enabled.
BlocksOfEnabled ==
  /\ live \ {"nd"} = on
  /\ "mdns" \in on => groups.v6 > 0 /\ groups.v4 > 0

\* What waits for the other thread waits once, in one of the two queues, and is
\* held; before InfraIfDeInit nothing else is.
WaitsOnce ==
  /\ OnceIn(box) /\ OnceIn(back) /\ Waiting(box) \cap Waiting(back) = {}
  /\ \A i \in Waiting(box) \cup Waiting(back) : state[i] = "held"
  /\ \A i \in Item : state[i] # "twice"
  /\ fresh => \A i \in Item : state[i] = "held" => i \in Waiting(box) \cup Waiting(back)

ListenersInv == LsTypes /\ BlocksOfEnabled /\ WaitsOnce

\* What waits in the mailbox is an item.
LEMMA WaitingItems ==
  ASSUME NEW q \in Seq(Posting)
  PROVE  Waiting(q) \subseteq Item
<1>1. \A n \in 1..Len(q) : q[n] \in Posting
  OBVIOUS
<1> QED BY <1>1 DEF Waiting, Posting

\* An item posted once waits once.
LEMMA PostedWaits ==
  ASSUME NEW q \in Seq(Posting), NEW e \in Posting, OnceIn(q), e.item \notin Waiting(q)
  PROVE  /\ Append(q, e) \in Seq(Posting) /\ OnceIn(Append(q, e))
         /\ Waiting(Append(q, e)) = Waiting(q) \cup {e.item}
<1> DEFINE a == Append(q, e)
<1>1. /\ Len(q) \in Nat /\ Len(a) = Len(q) + 1 /\ a[Len(q) + 1] = e /\ a \in Seq(Posting)
      /\ \A i \in 1 .. Len(q) : a[i] = q[i]
  OBVIOUS
<1> HIDE DEF a
<1>2. 1 .. Len(a) = (1 .. Len(q)) \cup {Len(q) + 1}
  BY <1>1
<1>3. Waiting(a) = Waiting(q) \cup {e.item}
  BY <1>1, <1>2 DEF Waiting
<1>4. \A m \in 1 .. Len(q) : a[m].item # e.item
  BY <1>1 DEF Waiting
<1>5. OnceIn(a)
  BY <1>1, <1>2, <1>4 DEF OnceIn
<1> QED BY <1>1, <1>3, <1>5 DEF a

\* An item taken from the mailbox waits no more.
LEMMA TakenWaitsNoMore ==
  ASSUME NEW q \in Seq(Posting), q # <<>>, OnceIn(q)
  PROVE  /\ Tail(q) \in Seq(Posting) /\ OnceIn(Tail(q)) /\ Head(q) \in Posting
         /\ Waiting(Tail(q)) = Waiting(q) \ {Head(q).item} /\ Head(q).item \in Waiting(q)
<1> DEFINE t == Tail(q)
           h == Head(q)
<1>1. /\ Len(q) \in Nat /\ Len(q) > 0 /\ h = q[1] /\ h \in Posting /\ Len(t) = Len(q) - 1
      /\ t \in Seq(Posting) /\ \A i \in 1 .. Len(q) - 1 : t[i] = q[i + 1]
  BY TailShape
<1> HIDE DEF t, h
<1>2. \A i \in 1 .. Len(t) : i + 1 \in 1 .. Len(q) /\ t[i] = q[i + 1]
  BY <1>1
<1>3. OnceIn(t)
  <2> SUFFICES ASSUME NEW m \in 1..Len(t), NEW n \in 1..Len(t), t[m].item = t[n].item PROVE m = n
    BY DEF OnceIn
  <2>1. m + 1 = n + 1
    BY <1>2 DEF OnceIn
  <2> QED BY <1>1, <2>1
<1>4. h.item \in Waiting(q)
  BY <1>1 DEF Waiting
<1>5. Waiting(t) \subseteq Waiting(q) \ {h.item}
  <2> SUFFICES ASSUME NEW m \in 1..Len(t) PROVE t[m].item \in Waiting(q) \ {h.item}
    BY DEF Waiting
  <2>1. m + 1 \in 1 .. Len(q) /\ 1 \in 1 .. Len(q) /\ m + 1 # 1 /\ t[m] = q[m + 1]
    BY <1>1, <1>2
  <2>2. t[m].item # q[1].item
    BY <2>1 DEF OnceIn
  <2> QED BY <1>1, <2>1, <2>2 DEF Waiting
<1>6. Waiting(q) \ {h.item} \subseteq Waiting(t)
  <2> SUFFICES ASSUME NEW m \in 1..Len(q), q[m].item # h.item PROVE q[m].item \in Waiting(t)
    BY DEF Waiting
  <2>1. m - 1 \in 1 .. Len(t) /\ t[m - 1] = q[(m - 1) + 1] /\ (m - 1) + 1 = m
    BY <1>1
  <2> QED BY <2>1 DEF Waiting
<1> QED BY <1>1, <1>3, <1>4, <1>5, <1>6 DEF t, h

\* Starting and stopping a listener.
LEMMA BlocksStep ==
  ASSUME ListenersInv, [ListenersNext]_blVars
  PROVE  groups' \in [v6 : Nat, v4 : Nat] /\ BlocksOfEnabled'
<1>0. groups \in [v6 : Nat, v4 : Nat] /\ BlocksOfEnabled /\ "nd" \notin on
  BY DEF ListenersInv, LsTypes, BlocksOfEnabled
<1>1. ASSUME UNCHANGED <<on, live, groups>> PROVE groups' \in [v6 : Nat, v4 : Nat] /\ BlocksOfEnabled'
  BY <1>0, <1>1 DEF BlocksOfEnabled
<1>2. CASE Dhcp6Starts
  BY <1>0, <1>2 DEF Dhcp6Starts, BlocksOfEnabled
<1>3. CASE MdnsStarts
  BY <1>0, <1>3 DEF MdnsStarts, BlocksOfEnabled
<1>4. CASE MdnsStartFails
  <2>1. groups' = groups \/ groups' = [groups EXCEPT !.v6 = @ + 1]
    BY <1>4 DEF MdnsStartFails, Joined
  <2>2. groups' \in [v6 : Nat, v4 : Nat]
    <3>1. CASE groups' = groups
      BY <1>0, <3>1
    <3>2. CASE groups' = [groups EXCEPT !.v6 = @ + 1]
      BY <1>0, <3>2
    <3> QED BY <2>1, <3>1, <3>2
  <2> QED BY <1>0, <1>4, <2>2 DEF MdnsStartFails, BlocksOfEnabled
<1>5. ASSUME NEW l \in Listener, ListenerStops(l)
      PROVE  groups' \in [v6 : Nat, v4 : Nat] /\ BlocksOfEnabled'
  <2>1. CASE l = "mdns"
    <3>1. groups' = LeftAll /\ "mdns" \notin on' /\ live' = live \ {l} /\ on' = on \ {l}
      BY <1>5, <2>1 DEF ListenerStops
    <3>2. DOMAIN groups = {"v6", "v4"} /\ groups["v6"] \in Nat /\ groups["v4"] \in Nat
      BY <1>0
    <3>3. LeftAll \in [v6 : Nat, v4 : Nat]
      BY <3>2 DEF LeftAll
    <3> QED BY <1>0, <3>1, <3>3 DEF BlocksOfEnabled
  <2>2. CASE l # "mdns"
    BY <1>0, <1>5, <2>2 DEF ListenerStops, BlocksOfEnabled
  <2> QED BY <2>1, <2>2
<1>6. CASE InfraIfDeInit
  BY <1>0, <1>6 DEF InfraIfDeInit, BlocksOfEnabled
<1>7. CASE (\E l \in Listener, m \in MsgIds : ListenerSends(l, m))
           \/ (\E l \in Listener, p \in PktIds : ListenerReceives(l, p))
           \/ ListenerTaskCb \/ ListenerProcesses \/ UNCHANGED blVars
  BY <1>1, <1>7 DEF ListenerSends, ListenerReceives, ListenerTaskCb, ListenerProcesses, blVars
<1> QED BY <1>2, <1>3, <1>4, <1>5, <1>6, <1>7 DEF ListenersNext

ItemsInv == box \in Seq(Posting) /\ back \in Seq(Posting)
            /\ state \in [Item -> {"new", "held", "freed", "twice"}] /\ WaitsOnce

\* A new item is posted, or freed at once.
LEMMA NewItemKeeps ==
  ASSUME ItemsInv, NEW l \in Listener, NEW i \in Item, state[i] = "new", UNCHANGED fresh,
         \/ box' = Append(box, [who |-> l, item |-> i]) /\ UNCHANGED back /\ state' = Held(i)
         \/ back' = Append(back, [who |-> l, item |-> i]) /\ UNCHANGED box /\ state' = Held(i)
         \/ state' = [state EXCEPT ![i] = "freed"] /\ UNCHANGED <<box, back>>
  PROVE  ItemsInv'
<1> DEFINE e == [who |-> l, item |-> i]
<1>1. e \in Posting /\ e.item = i /\ i \notin Waiting(box) \cup Waiting(back)
  BY DEF ItemsInv, WaitsOnce, Posting
<1> HIDE DEF e
<1>2. CASE box' = Append(box, e) /\ UNCHANGED back /\ state' = Held(i)
  <2>1. box' \in Seq(Posting) /\ OnceIn(box') /\ Waiting(box') = Waiting(box) \cup {i}
    BY <1>1, <1>2, PostedWaits DEF ItemsInv, WaitsOnce
  <2>2. state' \in [Item -> {"new", "held", "freed", "twice"}] /\ state'[i] = "held"
        /\ \A j \in Item : j # i => state'[j] = state[j]
    BY <1>2 DEF ItemsInv, Held
  <2>3. \A j \in Waiting(box) \cup Waiting(back) : j \in Item
    BY WaitingItems DEF ItemsInv
  <2> QED BY <1>1, <1>2, <2>1, <2>2, <2>3 DEF ItemsInv, WaitsOnce
<1>3. CASE back' = Append(back, e) /\ UNCHANGED box /\ state' = Held(i)
  <2>1. back' \in Seq(Posting) /\ OnceIn(back') /\ Waiting(back') = Waiting(back) \cup {i}
    BY <1>1, <1>3, PostedWaits DEF ItemsInv, WaitsOnce
  <2>2. state' \in [Item -> {"new", "held", "freed", "twice"}] /\ state'[i] = "held"
        /\ \A j \in Item : j # i => state'[j] = state[j]
    BY <1>3 DEF ItemsInv, Held
  <2>3. \A j \in Waiting(box) \cup Waiting(back) : j \in Item
    BY WaitingItems DEF ItemsInv
  <2> QED BY <1>1, <1>3, <2>1, <2>2, <2>3 DEF ItemsInv, WaitsOnce
<1>4. CASE state' = [state EXCEPT ![i] = "freed"] /\ UNCHANGED <<box, back>>
  <2>2. state' \in [Item -> {"new", "held", "freed", "twice"}] /\ state'[i] = "freed"
        /\ \A j \in Item : j # i => state'[j] = state[j]
    BY <1>4 DEF ItemsInv
  <2>3. \A j \in Waiting(box) \cup Waiting(back) : j \in Item
    BY WaitingItems DEF ItemsInv
  <2> QED BY <1>1, <1>4, <2>2, <2>3 DEF ItemsInv, WaitsOnce
<1> QED BY <1>2, <1>3, <1>4 DEF e

\* The first of a queue is taken and freed, or (after InfraIfDeInit) kept.
LEMMA TakenItemKeeps ==
  ASSUME ItemsInv, UNCHANGED fresh, NEW q, q \in {box, back}, q # <<>>,
         q = box => box' = Tail(box) /\ UNCHANGED back,
         q # box => back' = Tail(back) /\ UNCHANGED box,
         state' = FreedItem(Head(q).item) \/ (~fresh /\ UNCHANGED state)
  PROVE  ItemsInv'
<1> DEFINE i == Head(q).item
<1>1. q \in Seq(Posting) /\ OnceIn(q)
  BY DEF ItemsInv, WaitsOnce
<1>2. /\ Tail(q) \in Seq(Posting) /\ OnceIn(Tail(q)) /\ Head(q) \in Posting
      /\ Waiting(Tail(q)) = Waiting(q) \ {i} /\ i \in Waiting(q)
  BY <1>1, TakenWaitsNoMore
<1>3. i \in Item
  BY <1>2 DEF Posting
<1> HIDE DEF i
<1>4. state[i] = "held" /\ Waiting(box) \cap Waiting(back) = {}
  BY <1>2 DEF ItemsInv, WaitsOnce
<1>5. /\ box' \in Seq(Posting) /\ back' \in Seq(Posting) /\ OnceIn(box') /\ OnceIn(back')
      /\ Waiting(box') \cup Waiting(back') = (Waiting(box) \cup Waiting(back)) \ {i}
      /\ Waiting(box') \cap Waiting(back') = {}
  <2>1. CASE q = box
    BY <1>2, <1>4, <2>1 DEF ItemsInv, WaitsOnce
  <2>2. CASE q # box
    BY <1>2, <1>4, <2>2 DEF ItemsInv, WaitsOnce
  <2> QED BY <2>1, <2>2
<1>6. /\ state' \in [Item -> {"new", "held", "freed", "twice"}]
      /\ \A j \in Item : j # i => state'[j] = state[j]
      /\ state'[i] = "freed" \/ (~fresh /\ state'[i] = "held")
  <2>1. CASE state' = FreedItem(i)
    BY <1>3, <1>4, <2>1 DEF ItemsInv, FreedItem
  <2>2. CASE ~fresh /\ UNCHANGED state
    BY <1>3, <1>4, <2>2 DEF ItemsInv
  <2> QED BY <2>1, <2>2 DEF i
<1>7. \A j \in Waiting(box) \cup Waiting(back) : j \in Item
  BY WaitingItems DEF ItemsInv
<1> QED BY <1>3, <1>5, <1>6, <1>7 DEF ItemsInv, WaitsOnce

\* Every step keeps each item in the mailbox at most once.
LEMMA ItemsStep ==
  ASSUME ItemsInv, [ListenersNext]_blVars
  PROVE  ItemsInv'
<1>1. ASSUME UNCHANGED <<box, back, state>>, fresh' => fresh PROVE ItemsInv'
  BY <1>1 DEF ItemsInv, WaitsOnce
<1>2. CASE Dhcp6Starts \/ MdnsStarts \/ MdnsStartFails \/ (\E l \in Listener : ListenerStops(l))
           \/ InfraIfDeInit \/ UNCHANGED blVars
  BY <1>1, <1>2 DEF Dhcp6Starts, MdnsStarts, MdnsStartFails, ListenerStops, InfraIfDeInit, blVars
<1>3. ASSUME NEW l \in Listener, NEW m \in MsgIds, ListenerSends(l, m) PROVE ItemsInv'
  BY <1>3, NewItemKeeps DEF ListenerSends, Item
<1>4. ASSUME NEW l \in Listener, NEW p \in PktIds, ListenerReceives(l, p) PROVE ItemsInv'
  BY <1>4, NewItemKeeps DEF ListenerReceives, Item
<1>5. CASE ListenerTaskCb
  BY <1>5, TakenItemKeeps DEF ListenerTaskCb
<1>6. CASE ListenerProcesses
  <2>1. /\ back # <<>> /\ back' = Tail(back) /\ UNCHANGED <<box, fresh>>
        /\ state' = FreedItem(Head(back).item) \/ (~fresh /\ UNCHANGED state)
    BY <1>6 DEF ListenerProcesses
  <2>2. back # box
    <3>1. Head(back).item \in Waiting(back)
      BY <2>1, TakenWaitsNoMore DEF ItemsInv, WaitsOnce
    <3> QED BY <3>1 DEF ItemsInv, WaitsOnce
  <2> QED BY <2>1, <2>2, TakenItemKeeps
<1> QED BY <1>2, <1>3, <1>4, <1>5, <1>6 DEF ListenersNext

\* What OpenThread sends and lwIP receives is freed exactly once, for any
\* number of messages and packets.
THEOREM ListenersFreeOnce == ListenersSpec => []FreedOnce
<1>1. ListenersInit => ListenersInv
  <2> SUFFICES ASSUME ListenersInit PROVE ListenersInv
    OBVIOUS
  <2>1. box = <<>> /\ back = <<>> /\ Waiting(box) = {} /\ Waiting(back) = {}
    BY DEF ListenersInit, Waiting
  <2>2. OnceIn(box) /\ OnceIn(back)
    BY <2>1 DEF OnceIn
  <2>3. LsTypes
    BY <2>1 DEF ListenersInit, LsTypes
  <2> QED BY <2>1, <2>2, <2>3 DEF ListenersInit, ListenersInv, BlocksOfEnabled, WaitsOnce
<1>2. ListenersInv /\ [ListenersNext]_blVars => ListenersInv'
  BY BlocksStep, ItemsStep DEF ListenersInv, LsTypes, ItemsInv
<1>3. ListenersInv => FreedOnce
  BY DEF ListenersInv, LsTypes, BlocksOfEnabled, WaitsOnce, FreedOnce, Waiting
<1> QED BY <1>1, <1>2, <1>3, PTL DEF ListenersSpec

-----------------------------------------------------------------------------
(* IperfCli: the sessions an abort reaches.                                *)

Ids == 1 .. IperfCmds + 1
Kinds == {"client", "dual", "tradeoff"}

IperfTypes ==
  /\ iperfCtx \in [server : BOOLEAN, tcp : BOOLEAN, type : Kinds, session : 0 .. IperfCmds + 1]
  /\ sessions \subseteq [id : Ids, server : BOOLEAN, tcp : BOOLEAN, type : Kinds,
                         left : SUBSET {"tx", "rx"}]
  /\ iperfCalls \in Seq({"abort", "start", "poll"})
  /\ ticklessOff \in BOOLEAN

\* No two sessions are at the same address, and a test that is not in both
\* directions has one part.
SessionsApart ==
  /\ \A s, t \in sessions : s.id = t.id => s = t
  /\ \A s \in sessions : ~s.server /\ s.type = "client" => s.left = {"tx"}

Reached(s) ==
  \/ s.id = iperfCtx.session /\ ticklessOff
  \/ ~s.server /\ s.type = "dual" /\ s.left \in {{"tx"}, {"rx"}}

\* No command waits for lwIP's thread.
NothingAsked == \A i \in DOMAIN iperfCalls : iperfCalls[i] = "poll"

\* Then ctx describes the session it names.
CtxIsOf(s) == s.id = iperfCtx.session => s.server = iperfCtx.server /\ s.type = iperfCtx.type

IperfInv ==
  /\ IperfTypes /\ SessionsApart
  /\ ~stray => /\ \A s \in sessions : Reached(s)
               /\ NothingAsked => \A s \in sessions : CtxIsOf(s)

\* A report of a session that ctx describes.
LEMMA ReportKeeps ==
  ASSUME IperfInv, NEW s \in sessions, NEW p \in {"tx", "rx", "none"},
         p = "none" => sessions' = IF s.server THEN sessions ELSE sessions \ {s},
         p # "none" => PartDone(s, p),
         lwiperf_report(s, p), iperfCalls' \in Seq({"abort", "start", "poll"}),
         NothingAsked' => NothingAsked
  PROVE  IperfInv'
<1> DEFINE r == [s EXCEPT !.left = @ \ {p}]
<1>0. IperfTypes /\ SessionsApart
  BY DEF IperfInv
<1>1. s \in [id : Ids, server : BOOLEAN, tcp : BOOLEAN, type : Kinds, left : SUBSET {"tx", "rx"}]
  BY <1>0 DEF IperfTypes
<1>2. /\ r \in [id : Ids, server : BOOLEAN, tcp : BOOLEAN, type : Kinds, left : SUBSET {"tx", "rx"}]
      /\ r.id = s.id /\ r.server = s.server /\ r.type = s.type /\ r.left = s.left \ {p}
  BY <1>1
<1> HIDE DEF r
<1>3. /\ s.server => sessions' = sessions
      /\ ~s.server => sessions' \in {sessions \ {s}, (sessions \ {s}) \cup {r}}
      /\ ~s.server /\ r \in sessions' => p # "none" /\ p \in s.left /\ r.left # {}
  <2>1. CASE p = "none"
    <3>1. r = s
      BY <1>1, <1>2, <2>1 DEF r
    <3> QED BY <2>1, <3>1
  <2>2. CASE p # "none"
    <3>1. p \in s.left /\ sessions' = IF s.server THEN sessions
                 ELSE (sessions \ {s}) \cup {x \in {r} : x.left # {}}
      BY <2>2 DEF PartDone, r
    <3>2. r \notin sessions \ {s}
      BY <1>0, <1>2 DEF SessionsApart
    <3> QED BY <2>2, <3>1, <3>2
  <2> QED BY <2>1, <2>2
<1>4. /\ iperfCtx' = (IF ReportEnds(p) THEN [iperfCtx EXCEPT !.session = 0] ELSE iperfCtx)
      /\ ticklessOff' = (ticklessOff /\ ~iperf_need_enable_tickless_idle(p))
  BY DEF lwiperf_report
<1>5. IperfTypes'
  <2>1. iperfCtx' \in [server : BOOLEAN, tcp : BOOLEAN, type : Kinds, session : 0 .. IperfCmds + 1]
    <3>1. 0 \in 0 .. IperfCmds + 1
      BY IperfAssumption
    <3> QED BY <1>0, <1>4, <3>1 DEF IperfTypes
  <2>2. sessions' \subseteq [id : Ids, server : BOOLEAN, tcp : BOOLEAN, type : Kinds,
                             left : SUBSET {"tx", "rx"}]
    BY <1>0, <1>2, <1>3 DEF IperfTypes
  <2>3. ticklessOff' \in BOOLEAN
    BY <1>4
  <2> QED BY <2>1, <2>2, <2>3 DEF IperfTypes
<1>6. SessionsApart'
  <2>1. \A t, u \in sessions' : t.id = u.id => t = u
    BY <1>0, <1>2, <1>3 DEF SessionsApart
  <2>2. ~s.server /\ s.type = "client" => r \notin sessions'
    BY <1>0, <1>2, <1>3 DEF SessionsApart
  <2> QED BY <1>0, <1>2, <1>3, <2>1, <2>2 DEF SessionsApart
<1>7. ASSUME ~stray'
      PROVE  /\ \A t \in sessions' : Reached(t)'
             /\ NothingAsked' => \A t \in sessions' : CtxIsOf(t)'
  <2>1. ~stray /\ s.id = iperfCtx.session /\ NothingAsked
    BY <1>7 DEF lwiperf_report, NothingAsked
  <2>2. /\ \A t \in sessions : Reached(t)
        /\ \A t \in sessions : CtxIsOf(t)
    BY <2>1 DEF IperfInv
  <2>3. s.server = iperfCtx.server /\ s.type = iperfCtx.type
    BY <2>1, <2>2 DEF CtxIsOf
  <2>4. \A t \in sessions : t # s => t.id # s.id /\ ~t.server /\ t.type = "dual" /\ t.left \in {{"tx"}, {"rx"}}
    BY <1>0, <2>1, <2>2 DEF SessionsApart, Reached
  <2>5. CASE s.server
    <3>1. ~ReportEnds(p) /\ ~iperf_need_enable_tickless_idle(p)
      BY <2>3, <2>5 DEF ReportEnds, iperf_need_enable_tickless_idle
    <3>2. iperfCtx' = iperfCtx /\ ticklessOff' = ticklessOff /\ sessions' = sessions
      BY <1>3, <1>4, <2>5, <3>1, <1>0 DEF IperfTypes
    <3> QED BY <2>2, <3>2 DEF Reached, CtxIsOf
  <2>6. CASE ~s.server /\ s.type = "tradeoff" /\ p = "tx"
    <3>1. ~ReportEnds(p) /\ ~iperf_need_enable_tickless_idle(p)
      BY <2>3, <2>6 DEF ReportEnds, iperf_need_enable_tickless_idle
    <3>2. iperfCtx' = iperfCtx /\ ticklessOff' = ticklessOff
      BY <1>4, <3>1, <1>0 DEF IperfTypes
    <3>3. \A t \in sessions' : t = r \/ (t \in sessions /\ t # s)
      BY <1>3, <2>6
    <3>4. ticklessOff
      BY <2>2, <2>6 DEF Reached
    <3>5. \A t \in sessions' : Reached(t)'
      BY <1>2, <2>1, <2>2, <3>2, <3>3, <3>4 DEF Reached
    <3>6. \A t \in sessions' : CtxIsOf(t)'
      BY <1>2, <2>3, <2>4, <2>1, <3>2, <3>3 DEF CtxIsOf
    <3> QED BY <3>5, <3>6
  <2>7. CASE ~s.server /\ ~(s.type = "tradeoff" /\ p = "tx")
    <3>1. ReportEnds(p)
      BY <2>3, <2>7 DEF ReportEnds
    <3>2. iperfCtx'.session = 0
      BY <1>4, <3>1, <1>0 DEF IperfTypes
    <3>3. \A t \in sessions' : t.id # 0
      BY <1>5, IperfAssumption DEF IperfTypes, Ids
    <3>4. r \in sessions' => s.type = "dual" /\ r.left \in {{"tx"}, {"rx"}}
      <4> SUFFICES ASSUME r \in sessions' PROVE s.type = "dual" /\ r.left \in {{"tx"}, {"rx"}}
        OBVIOUS
      <4>1. p \in s.left /\ p # "none" /\ r.left # {} /\ r.left = s.left \ {p}
        BY <1>2, <1>3, <2>7
      <4>2. s.left \in SUBSET {"tx", "rx"} /\ p \in {"tx", "rx"}
        BY <1>1, <4>1
      <4>3. s.type # "client"
        BY <1>0, <2>7, <4>1 DEF SessionsApart
      <4>4. s.type # "tradeoff"
        <5>1. s.type = "tradeoff" /\ "tx" \in s.left => p = "tx"
          BY <4>1 DEF PartDone
        <5> QED BY <2>7, <4>1, <4>2, <5>1
      <4>5. s.type = "dual"
        BY <1>1, <4>3, <4>4 DEF Kinds
      <4>6. r.left \in {{"tx"}, {"rx"}}
        BY <4>1, <4>2
      <4> QED BY <4>5, <4>6
    <3>5. \A t \in sessions' : t = r \/ (t \in sessions /\ t # s)
      BY <1>3, <2>7
    <3>6. \A t \in sessions' : Reached(t)'
      BY <1>2, <2>4, <2>7, <3>4, <3>5 DEF Reached
    <3>7. \A t \in sessions' : CtxIsOf(t)'
      BY <3>2, <3>3 DEF CtxIsOf
    <3> QED BY <3>6, <3>7
  <2> QED BY <2>5, <2>6, <2>7
<1> QED BY <1>5, <1>6, <1>7 DEF IperfInv

\* A test that starts, or an abort, leaves only the second halves of tests in
\* both directions behind.
LEMMA StartKeeps ==
  ASSUME IperfInv, iperf_test_start \/ iperf_test_abort
  PROVE  IperfInv'
<1> DEFINE gone == Aborted(iperfCtx.session)
<1>0. IperfTypes /\ SessionsApart /\ UNCHANGED stray
  BY DEF IperfInv, iperf_test_start, iperf_test_abort
<1>1. gone \subseteq sessions /\ \A s \in gone : s.id # iperfCtx.session
  BY DEF Aborted
<1>2. ~stray => \A s \in gone : ~s.server /\ s.type = "dual" /\ s.left \in {{"tx"}, {"rx"}}
  BY <1>1 DEF IperfInv, Reached
<1>3. iperfCalls' \in Seq({"abort", "start", "poll"}) /\ ticklessOff' \in BOOLEAN
  <2>1. iperfCalls # <<>> /\ iperfCalls' = Tail(iperfCalls)
    BY DEF iperf_test_start, iperf_test_abort, Runs
  <2>2. iperfCalls' \in Seq({"abort", "start", "poll"})
    BY <1>0, <2>1 DEF IperfTypes
  <2>3. ticklessOff' = ticklessOff \/ ticklessOff' = TRUE
    BY DEF iperf_test_start, iperf_test_abort
  <2> QED BY <1>0, <2>2, <2>3 DEF IperfTypes
<1> HIDE DEF gone
<1>4. \A s \in gone : s.id # 0
  BY <1>0, <1>1, IperfAssumption DEF IperfTypes, Ids
<1>5. CASE /\ sessions' = gone
           /\ iperfCtx' \in [server : BOOLEAN, tcp : BOOLEAN, type : Kinds, session : {0}]
  <2>1. 0 \in 0 .. IperfCmds + 1 /\ iperfCtx'.session = 0
    BY <1>5, IperfAssumption
  <2>2. IperfTypes'
    BY <1>0, <1>1, <1>3, <1>5, <2>1 DEF IperfTypes
  <2>3. SessionsApart'
    BY <1>0, <1>1, <1>5 DEF SessionsApart
  <2> QED BY <1>0, <1>2, <1>4, <1>5, <2>1, <2>2, <2>3 DEF IperfInv, Reached, CtxIsOf
<1>6. CASE /\ FreeIds # {} /\ sessions' = gone \cup {Started} /\ ticklessOff' = TRUE
           /\ iperfCtx' = [iperfCtx EXCEPT !.session = NewId]
  <2>1. NewId \in Ids /\ \A s \in gone : s.id # NewId
    <3>1. NewId \in FreeIds
      BY <1>6, Zenon DEF NewId
    <3> QED BY <3>1 DEF FreeIds, Ids, gone
  <2> DEFINE n == Started
  <2>2. /\ n \in [id : Ids, server : BOOLEAN, tcp : BOOLEAN, type : Kinds, left : SUBSET {"tx", "rx"}]
        /\ n.id = NewId /\ n.server = iperfCtx.server /\ n.type = iperfCtx.type
        /\ ~n.server /\ n.type = "client" => n.left = {"tx"}
    BY <1>0, <2>1 DEF Started, IperfTypes
  <2>3. /\ iperfCtx' \in [server : BOOLEAN, tcp : BOOLEAN, type : Kinds, session : 0 .. IperfCmds + 1]
        /\ iperfCtx'.session = NewId /\ iperfCtx'.server = iperfCtx.server /\ iperfCtx'.type = iperfCtx.type
    <3>1. NewId \in 0 .. IperfCmds + 1
      BY <2>1, IperfAssumption DEF Ids
    <3> QED BY <1>0, <1>6, <3>1 DEF IperfTypes
  <2> HIDE DEF n
  <2>4. sessions' = gone \cup {n}
    BY <1>6 DEF n
  <2>5. IperfTypes'
    BY <1>0, <1>1, <1>3, <2>2, <2>3, <2>4 DEF IperfTypes
  <2>6. SessionsApart'
    BY <1>0, <1>1, <2>1, <2>2, <2>4 DEF SessionsApart
  <2>7. ~stray' => \A s \in sessions' : Reached(s)'
    BY <1>0, <1>2, <1>6, <2>2, <2>3, <2>4 DEF Reached
  <2>8. \A s \in sessions' : CtxIsOf(s)'
    BY <2>1, <2>2, <2>3, <2>4 DEF CtxIsOf
  <2> QED BY <2>5, <2>6, <2>7, <2>8 DEF IperfInv
<1>7. CASE iperf_test_abort
  <2>1. sessions' = gone /\ iperfCtx' = NoTest
    BY <1>7 DEF iperf_test_abort, gone
  <2>2. NoTest \in [server : BOOLEAN, tcp : BOOLEAN, type : Kinds, session : {0}]
    BY DEF NoTest, Kinds
  <2> QED BY <1>5, <2>1, <2>2
<1>8. CASE iperf_test_start
  <2>1. [iperfCtx EXCEPT !.session = 0] \in [server : BOOLEAN, tcp : BOOLEAN, type : Kinds, session : {0}]
    BY <1>0 DEF IperfTypes
  <2> QED BY <1>5, <1>6, <1>8, <2>1 DEF iperf_test_start, gone
<1> QED BY <1>7, <1>8

\* Every step keeps the sessions apart.
LEMMA IperfStep == IperfInv /\ [IperfNext]_iperfVars => IperfInv'
<1> SUFFICES ASSUME IperfInv, [IperfNext]_iperfVars PROVE IperfInv'
  OBVIOUS
<1>0. IperfTypes /\ SessionsApart
  BY DEF IperfInv
<1>1. ASSUME NEW chosen \in Tests, ProcessIperf(chosen) PROVE IperfInv'
  <2>1. chosen.call \in {"abort", "start"}
        /\ (chosen.call # "abort" => chosen.server \in BOOLEAN /\ chosen.tcp \in BOOLEAN /\ chosen.type \in Kinds)
    <3>1. PICK info \in SUBSET Flags : chosen = Chosen(info)
      BY DEF Tests
    <3>2. CASE "abort" \in info
      BY <3>1, <3>2 DEF Chosen
    <3>3. CASE "abort" \notin info
      <4> DEFINE k == IF {"dual", "dserver"} \cap info # {} THEN "dual"
                      ELSE IF "tradeoff" \in info THEN "tradeoff" ELSE "client"
      <4>1. k \in Kinds
        BY DEF Kinds
      <4> HIDE DEF k
      <4>2. chosen = [call |-> "start", server |-> "server" \in info, tcp |-> "udp" \notin info, type |-> k]
        BY <3>1, <3>3 DEF Chosen, k
      <4>3. /\ chosen.call = "start" /\ chosen.type = k
            /\ chosen.server = ("server" \in info) /\ chosen.tcp = ("udp" \notin info)
        BY <4>2
      <4>4. ("server" \in info) \in BOOLEAN /\ ("udp" \notin info) \in BOOLEAN
        OBVIOUS
      <4>5. chosen.server \in BOOLEAN /\ chosen.tcp \in BOOLEAN
        BY <4>3, <4>4, Zenon
      <4> QED BY <4>1, <4>3, <4>5
    <3> QED BY <3>2, <3>3
  <2>2. /\ iperfCtx'.session = iperfCtx.session
        /\ iperfCtx' \in [server : BOOLEAN, tcp : BOOLEAN, type : Kinds, session : 0 .. IperfCmds + 1]
    BY <1>0, <1>1, <2>1 DEF ProcessIperf, IperfTypes
  <2>3. iperfCalls' = Append(iperfCalls, chosen.call) /\ UNCHANGED <<sessions, ticklessOff, stray>>
    BY <1>1 DEF ProcessIperf
  <2>4. iperfCalls' \in Seq({"abort", "start", "poll"}) /\ ~NothingAsked'
    <3>1. iperfCalls \in Seq({"abort", "start", "poll"}) /\ chosen.call \in {"abort", "start", "poll"}
      BY <1>0, <2>1 DEF IperfTypes
    <3>2. /\ iperfCalls' \in Seq({"abort", "start", "poll"}) /\ Len(iperfCalls) + 1 \in DOMAIN iperfCalls'
          /\ iperfCalls'[Len(iperfCalls) + 1] = chosen.call
      BY <2>3, <3>1
    <3> QED BY <2>1, <3>2 DEF NothingAsked
  <2> QED BY <1>0, <2>2, <2>3, <2>4 DEF IperfInv, IperfTypes, SessionsApart, Reached
<1>2. CASE timer_poll_udp_client
  <2>1. iperfCalls' = Append(iperfCalls, "poll") /\ UNCHANGED <<iperfCtx, sessions, ticklessOff, stray>>
    BY <1>2 DEF timer_poll_udp_client
  <2>2. iperfCalls' \in Seq({"abort", "start", "poll"}) /\ (NothingAsked' => NothingAsked)
    <3>1. iperfCalls \in Seq({"abort", "start", "poll"})
      BY <1>0 DEF IperfTypes
    <3>2. /\ iperfCalls' \in Seq({"abort", "start", "poll"})
          /\ \A i \in DOMAIN iperfCalls : i \in DOMAIN iperfCalls' /\ iperfCalls'[i] = iperfCalls[i]
      BY <2>1, <3>1
    <3> QED BY <3>2 DEF NothingAsked
  <2> QED BY <1>0, <2>1, <2>2 DEF IperfInv, IperfTypes, SessionsApart, Reached, CtxIsOf
<1>3. CASE poll_udp_client
  <2>1. iperfCalls' \in Seq({"abort", "start", "poll"}) /\ (NothingAsked' => NothingAsked)
    <3>1. iperfCalls \in Seq({"abort", "start", "poll"})
      BY <1>0 DEF IperfTypes
    <3>2. iperfCalls # <<>> /\ Head(iperfCalls) = "poll" /\ iperfCalls' = Tail(iperfCalls)
      BY <1>3 DEF poll_udp_client, Runs
    <3>3. iperfCalls' \in Seq({"abort", "start", "poll"})
      BY <3>1, <3>2
    <3>4. ASSUME NothingAsked', NEW i \in DOMAIN iperfCalls PROVE iperfCalls[i] = "poll"
      <4>1. CASE i = 1
        BY <3>1, <3>2, <4>1
      <4>2. CASE i # 1
        <5>1. i - 1 \in DOMAIN iperfCalls' /\ iperfCalls'[i - 1] = iperfCalls[i]
          BY <3>1, <3>2, <4>2
        <5> QED BY <3>4, <5>1 DEF NothingAsked
      <4> QED BY <4>1, <4>2
    <3> QED BY <3>3, <3>4 DEF NothingAsked
  <2>2. CASE UNCHANGED <<iperfCtx, sessions, iperfTimer, ticklessOff, stray>>
    BY <1>0, <2>1, <2>2 DEF IperfInv, IperfTypes, SessionsApart, Reached, CtxIsOf
  <2>3. CASE \E s \in sessions : UdpSending(s, "tx") /\ PartDone(s, "tx")
    <3>1. PICK s \in sessions : PartDone(s, "tx")
      BY <2>3
    <3>2. lwiperf_report(s, "tx")
      BY <3>1 DEF PartDone
    <3> QED BY <2>1, <3>1, <3>2, ReportKeeps
  <2> QED BY <1>3, <2>2, <2>3 DEF poll_udp_client
<1>4. CASE iperf_test_start \/ iperf_test_abort
  BY <1>4, StartKeeps
<1>5. ASSUME NEW s \in sessions, SessionEvent(s) PROVE IperfInv'
  <2>1. iperfCalls' \in Seq({"abort", "start", "poll"}) /\ (NothingAsked' => NothingAsked)
    BY <1>0, <1>5 DEF SessionEvent, IperfTypes, NothingAsked
  <2>2. ASSUME NEW p \in {"tx", "rx"}, PartDone(s, p) PROVE IperfInv'
    <3>1. lwiperf_report(s, p)
      BY <2>2 DEF PartDone
    <3> QED BY <2>1, <2>2, <3>1, ReportKeeps
  <2>3. CASE SessionFails(s)
    BY <2>1, <2>3, ReportKeeps DEF SessionFails
  <2> QED BY <1>5, <2>2, <2>3 DEF SessionEvent
<1>6. CASE UNCHANGED iperfVars
  BY <1>0, <1>6 DEF iperfVars, IperfInv, IperfTypes, SessionsApart, Reached, CtxIsOf, NothingAsked
<1> QED BY <1>1, <1>2, <1>3, <1>4, <1>5, <1>6 DEF IperfNext, IperfRests

\* While every report finds the ctx of its own test, `iperf -a' reaches every
\* session but the second half of a test in both directions, and tickless idle
\* stays off: for any number of commands.
THEOREM IperfAbortReaches == IperfSpec => []AbortReachesAll
<1>1. IperfInit => IperfInv
  <2> SUFFICES ASSUME IperfInit PROVE IperfInv
    OBVIOUS
  <2>1. 0 \in 0 .. IperfCmds + 1
    BY IperfAssumption
  <2>2. iperfCtx \in [server : BOOLEAN, tcp : BOOLEAN, type : Kinds, session : 0 .. IperfCmds + 1]
    BY <2>1 DEF IperfInit, NoTest, Kinds
  <2>3. sessions = {} /\ iperfCalls = <<>> /\ ticklessOff \in BOOLEAN
    BY DEF IperfInit
  <2>4. iperfCalls \in Seq({"abort", "start", "poll"})
    BY <2>3
  <2> QED BY <2>2, <2>3, <2>4 DEF IperfInv, IperfTypes, SessionsApart
<1>2. IperfInv => AbortReachesAll
  <2>1. Cardinality({"tx"}) = 1 /\ Cardinality({"rx"}) = 1
    BY FS_Singleton
  <2> QED BY <2>1 DEF IperfInv, Reached, AbortReachesAll
<1> QED BY <1>1, <1>2, IperfStep, PTL DEF IperfSpec

-----------------------------------------------------------------------------
(* BrManager: the link events.                                             *)

Evt ==
  {[type |-> "init"], [type |-> "ip6"]} \cup [type : {"link"}, up : BOOLEAN]
  \cup [type : {"ip4"}, cidr : BOOLEAN, nat64 : BOOLEAN]

IsLink(e) == e.type = "link"

\* The event of the link after which there is no other.
LastLink(q, i) == IsLink(q[i]) /\ \A j \in 1..Len(q) : IsLink(q[j]) => j <= i

\* The last event of the link that waits says what was last reported of the
\* link; when none waits OpenThread has been told.
LinkToldIn(q, told, up) ==
  /\ \A i \in 1..Len(q) : LastLink(q, i) => q[i].up = up
  /\ (\A i \in 1..Len(q) : ~IsLink(q[i])) => told = up

Netif == [link : BOOLEAN, ip4 : {"none", "address", "routed"}, watched : BOOLEAN]

ManagerTypes ==
  /\ evts \in Seq(Evt)
  /\ netif \in Netif
  /\ sNat64TranslatorEnable \in BOOLEAN
  /\ ot \in [infra : BOOLEAN, services : BOOLEAN, nat64 : BOOLEAN]
  /\ agent \in [init : BOOLEAN, key : {"stopped", "starting", "started", "disabled"}, active : BOOLEAN]

\* A key is started only while the border agent is on, and the services run
\* once they are started; the agent knows the instance from then on.
AgentKept ==
  /\ agent.active => agent.init
  /\ agent.key \in {"starting", "started"} => agent.init
  /\ ot.services = sBrIsInitialized
  /\ ot.infra => ot.services
  /\ fault = "agent" => ~ot.services

LinkTold == ~dropped => LinkToldIn(evts, ot.infra, sExternalNetifState)

\* What the manager lastReport of the link last.
HeardIs ==
  /\ lastReport = "truth" => sExternalNetifState = netif.link
  /\ lastReport = "late" => sExternalNetifState /\ ~netif.link

LinkInv == ManagerTypes /\ AgentKept /\ LinkTold /\ HeardIs

\* A new event of the link is the last one.
LEMMA LinkAppended ==
  ASSUME NEW q \in Seq(Evt), NEW e \in Evt, NEW told, NEW up
  PROVE  /\ ~IsLink(e) /\ LinkToldIn(q, told, up) => LinkToldIn(Append(q, e), told, up)
         /\ IsLink(e) => LinkToldIn(Append(q, e), told, e.up)
<1> DEFINE a == Append(q, e)
<1>1. /\ Len(q) \in Nat /\ Len(a) = Len(q) + 1 /\ a[Len(q) + 1] = e
      /\ \A i \in 1 .. Len(q) : a[i] = q[i]
  OBVIOUS
<1> HIDE DEF a
<1>2. 1 .. Len(a) = (1 .. Len(q)) \cup {Len(q) + 1}
  BY <1>1
<1>3. ASSUME ~IsLink(e), LinkToldIn(q, told, up) PROVE LinkToldIn(a, told, up)
  BY <1>1, <1>2, <1>3 DEF LinkToldIn, LastLink
<1>4. ASSUME IsLink(e) PROVE LinkToldIn(a, told, e.up)
  <2>1. ASSUME NEW i \in 1..Len(a), LastLink(a, i) PROVE i = Len(q) + 1
    <3>1. Len(q) + 1 \in 1..Len(a) /\ Len(q) + 1 <= i
      BY <1>1, <1>4, <2>1 DEF LastLink
    <3> QED BY <1>1, <3>1
  <2> QED BY <1>1, <1>2, <1>4, <2>1 DEF LinkToldIn
<1> QED BY <1>3, <1>4 DEF a

\* An event that is handled has told OpenThread.
LEMMA LinkTaken ==
  ASSUME NEW q \in Seq(Evt), q # <<>>, NEW told, NEW up, LinkToldIn(q, told, up)
  PROVE  LinkToldIn(Tail(q), IF IsLink(Head(q)) THEN Head(q).up ELSE told, up)
<1> DEFINE t == Tail(q)
           h == Head(q)
<1>1. /\ Len(q) \in Nat /\ Len(q) > 0 /\ h = q[1] /\ Len(t) = Len(q) - 1
      /\ \A i \in 1 .. Len(q) - 1 : t[i] = q[i + 1]
  BY TailShape
<1> HIDE DEF t, h
<1>2. \A i \in 1 .. Len(t) : i + 1 \in 1 .. Len(q) /\ t[i] = q[i + 1]
  BY <1>1
<1>3. \A j \in 1 .. Len(q) : j = 1 \/ (j - 1 \in 1 .. Len(t) /\ q[j] = t[j - 1])
  BY <1>1
<1>4. ASSUME NEW i \in 1..Len(t), LastLink(t, i) PROVE t[i].up = up
  <2>1. IsLink(q[i + 1]) /\ i + 1 \in 1..Len(q)
    BY <1>2, <1>4 DEF LastLink
  <2>2. ASSUME NEW j \in 1..Len(q), IsLink(q[j]) PROVE j <= i + 1
    BY <1>1, <1>3, <1>4, <2>2 DEF LastLink
  <2>3. LastLink(q, i + 1)
    BY <2>1, <2>2 DEF LastLink
  <2> QED BY <1>2, <2>1, <2>3 DEF LinkToldIn
<1>5. ASSUME \A i \in 1..Len(t) : ~IsLink(t[i])
      PROVE  (IF IsLink(h) THEN h.up ELSE told) = up
  <2>1. \A j \in 1..Len(q) : IsLink(q[j]) => j = 1
    BY <1>3, <1>5
  <2>2. 1 \in 1..Len(q)
    BY <1>1
  <2>3. CASE IsLink(h)
    <3>1. LastLink(q, 1)
      BY <1>1, <2>1, <2>2, <2>3 DEF LastLink
    <3> QED BY <1>1, <2>2, <2>3, <3>1 DEF LinkToldIn
  <2>4. CASE ~IsLink(h)
    BY <1>1, <2>1, <2>4 DEF LinkToldIn
  <2> QED BY <2>3, <2>4
<1>6. LinkToldIn(t, IF IsLink(h) THEN h.up ELSE told, up)
  BY <1>4, <1>5 DEF LinkToldIn
<1> QED BY <1>6 DEF t, h

\* A report of the link whose first event is its new state.
LEMMA ReportAppended ==
  ASSUME NEW q \in Seq(Evt), NEW told, NEW a \in Evt, NEW b \in Evt, NEW c \in Evt,
         IsLink(a), ~IsLink(b), ~IsLink(c)
  PROVE  /\ LinkToldIn(q \o <<a>>, told, a.up)
         /\ LinkToldIn(q \o <<a, b>>, told, a.up)
         /\ LinkToldIn(q \o <<a, b, c>>, told, a.up)
<1> DEFINE q1 == Append(q, a)
           q2 == Append(q1, b)
           q3 == Append(q2, c)
<1>1. q1 \in Seq(Evt) /\ q2 \in Seq(Evt)
  OBVIOUS
<1>2. LinkToldIn(q1, told, a.up)
  BY LinkAppended
<1>3. q \o <<a>> = q1 /\ q \o <<a, b>> = q2 /\ q \o <<a, b, c>> = q3
  OBVIOUS
<1> HIDE DEF q1
<1>4. LinkToldIn(q2, told, a.up)
  BY <1>1, <1>2, LinkAppended
<1> HIDE DEF q2
<1>5. LinkToldIn(q3, told, a.up)
  BY <1>1, <1>4, LinkAppended
<1> QED BY <1>2, <1>3, <1>4, <1>5

\* The events of a report, posted or lost.
LEMMA PostKeeps ==
  ASSUME LinkInv, NEW new \in Seq(Evt), PostEvents(new),
         UNCHANGED <<ot, agent, sBrIsInitialized, sNat64TranslatorEnable, fault>>,
         netif' \in Netif, HeardIs',
         LinkToldIn(evts, ot.infra, sExternalNetifState)
           => LinkToldIn(evts \o new, ot.infra, sExternalNetifState')
  PROVE  LinkInv'
<1>1. PICK k \in 0 .. Len(new) :
        evts' = evts \o SubSeq(new, 1, k) /\ dropped' = (dropped \/ k # Len(new))
  BY DEF PostEvents
<1>2. evts \in Seq(Evt) /\ SubSeq(new, 1, k) \in Seq(Evt)
  BY DEF LinkInv, ManagerTypes
<1>3. evts' \in Seq(Evt)
  BY <1>1, <1>2
<1>4. ManagerTypes' /\ AgentKept'
  BY <1>3 DEF LinkInv, ManagerTypes, AgentKept
<1>5. ASSUME ~dropped' PROVE LinkToldIn(evts', ot'.infra, sExternalNetifState')
  <2>1. ~dropped /\ k = Len(new)
    BY <1>1, <1>5
  <2>2. SubSeq(new, 1, Len(new)) = new
    OBVIOUS
  <2>3. evts' = evts \o new
    BY <1>1, <2>1, <2>2
  <2> QED BY <2>1, <2>3 DEF LinkInv, LinkTold
<1> QED BY <1>4, <1>5 DEF LinkInv, LinkTold

\* One event that is no link event.
LEMMA PostOtherKeeps ==
  ASSUME LinkInv, NEW e \in Evt, ~IsLink(e), PostEvents(<<e>>),
         UNCHANGED <<ot, agent, sBrIsInitialized, sNat64TranslatorEnable, fault,
                     sExternalNetifState, lastReport>>,
         netif' \in Netif, netif'.link = netif.link
  PROVE  LinkInv'
<1>1. evts \in Seq(Evt) /\ <<e>> \in Seq(Evt)
  BY DEF LinkInv, ManagerTypes
<1>2. evts \o <<e>> = Append(evts, e)
  BY <1>1
<1>3. LinkToldIn(evts, ot.infra, sExternalNetifState) => LinkToldIn(evts \o <<e>>, ot.infra, sExternalNetifState')
  BY <1>1, <1>2, LinkAppended
<1>4. HeardIs'
  BY DEF LinkInv, HeardIs
<1> QED BY <1>1, <1>3, <1>4, PostKeeps

\* The OpenThread task takes an event.
LEMMA EventKeeps ==
  ASSUME LinkInv, fault = "none", otPlatBrProcessOtEvtQueue
  PROVE  LinkInv'
<1>0. fault = "none"
  OBVIOUS
<1> DEFINE e == Head(evts)
<1>1. evts \in Seq(Evt) /\ evts # <<>> /\ evts' = Tail(evts)
  BY DEF otPlatBrProcessOtEvtQueue, LinkInv, ManagerTypes
<1>2. e \in Evt /\ evts' \in Seq(Evt)
  BY <1>1
<1>3. ~dropped => LinkToldIn(evts', IF IsLink(e) THEN e.up ELSE ot.infra, sExternalNetifState)
  BY <1>1, LinkTaken DEF LinkInv, LinkTold
<1>4. LinkEvent(e) \/ Ip6Event(e) \/ Ip4Event(e) \/ InitEvent(e)
  BY DEF otPlatBrProcessOtEvtQueue
<1>5. UNCHANGED <<sExternalNetifState, sNat64TranslatorEnable, dropped, lastReport>>
  BY DEF otPlatBrProcessOtEvtQueue
<1> HIDE DEF e
<1>6. CASE LinkEvent(e)
  <2>1. IsLink(e) /\ e.up \in BOOLEAN /\ UNCHANGED netif
    BY <1>2, <1>6 DEF LinkEvent, IsLink, Evt
  <2>2. /\ ot' \in [infra : BOOLEAN, services : BOOLEAN, nat64 : BOOLEAN] /\ ot'.infra = e.up
        /\ ot'.services = sBrIsInitialized' /\ (ot'.infra => ot'.services)
    BY <1>6, <2>1 DEF LinkEvent, BrInitServices, LinkInv, ManagerTypes, AgentKept
  <2>5. fault' = "agent" => ~ot'.services
    BY <1>0, <1>6, <2>1, <2>2 DEF LinkEvent, LinkInv, AgentKept
  <2>3. agent' = agent \/ agent' = BorderAgentInit(agent) \/ agent' = BorderAgentDeInit(agent)
    BY <1>6 DEF LinkEvent
  <2>4. /\ agent' \in [init : BOOLEAN, key : {"stopped", "starting", "started", "disabled"}, active : BOOLEAN]
        /\ agent'.active => agent'.init
        /\ agent'.key \in {"starting", "started"} => agent'.init
    <3> USE DEF LinkInv, ManagerTypes, AgentKept
    <3>1. CASE agent' = agent
      BY <3>1
    <3>2. CASE agent' = BorderAgentInit(agent)
      BY <3>2 DEF BorderAgentInit
    <3>3. CASE agent' = BorderAgentDeInit(agent)
      BY <3>3 DEF BorderAgentDeInit
    <3> QED BY <2>3, <3>1, <3>2, <3>3
  <2> QED BY <1>2, <1>3, <1>5, <2>1, <2>2, <2>4, <2>5 DEF LinkInv, ManagerTypes, AgentKept, LinkTold, HeardIs
<1>7. CASE Ip6Event(e) \/ InitEvent(e)
  <2>1. ~IsLink(e) /\ UNCHANGED <<ot, agent, sBrIsInitialized, fault>>
        /\ netif' \in {netif, [netif EXCEPT !.watched = TRUE]}
    BY <1>7 DEF Ip6Event, InitEvent, IsLink
  <2>2. netif' \in Netif /\ netif'.link = netif.link
    <3>1. CASE netif' = netif
      BY <3>1 DEF LinkInv, ManagerTypes
    <3>2. CASE netif' = [netif EXCEPT !.watched = TRUE]
      BY <3>2 DEF LinkInv, ManagerTypes, Netif
    <3> QED BY <2>1, <3>1, <3>2
  <2> QED BY <1>2, <1>3, <1>5, <2>1, <2>2 DEF LinkInv, ManagerTypes, AgentKept, LinkTold, HeardIs
<1>8. CASE Ip4Event(e)
  <2>1. ~IsLink(e) /\ e.nat64 \in BOOLEAN /\ UNCHANGED <<netif, agent, sBrIsInitialized, fault>>
        /\ ot' = [ot EXCEPT !.nat64 = e.nat64]
    BY <1>2, <1>8 DEF Ip4Event, IsLink, Evt
  <2>2. /\ ot' \in [infra : BOOLEAN, services : BOOLEAN, nat64 : BOOLEAN]
        /\ ot'.infra = ot.infra /\ ot'.services = ot.services
    BY <2>1 DEF LinkInv, ManagerTypes
  <2> QED BY <1>2, <1>3, <1>5, <2>1, <2>2 DEF LinkInv, ManagerTypes, AgentKept, LinkTold, HeardIs
<1> QED BY <1>4, <1>6, <1>7, <1>8

\* Every step keeps OpenThread told of the link.
LEMMA LinkStep == LinkInv /\ [ManagerNext]_bmVars => LinkInv'
<1> SUFFICES ASSUME LinkInv, [ManagerNext]_bmVars PROVE LinkInv'
  OBVIOUS
<1>0. ManagerTypes /\ HeardIs
  BY DEF LinkInv
<1>1. ASSUME UNCHANGED eventVars PROVE LinkInv'
  BY <1>1 DEF eventVars, LinkInv, ManagerTypes, AgentKept, LinkTold, HeardIs
<1>2. CASE LinkChanges
  <2>1. netif' = [netif EXCEPT !.link = ~@]
        /\ UNCHANGED <<sBrIsInitialized, sNat64TranslatorEnable, ot, agent, fault>>
    BY <1>2 DEF LinkChanges
  <2>2. netif' \in Netif
    BY <1>0, <2>1 DEF ManagerTypes, Netif
  <2>3. CASE netif.watched
    <3> DEFINE e == LinkEvt(netif'.link)
    <3>1. e \in Evt /\ IsLink(e) /\ e.up = netif'.link
      BY <2>2 DEF Evt, IsLink, LinkEvt, Netif
    <3>2. sExternalNetifState' = netif'.link /\ lastReport' = "truth" /\ PostEvents(<<e>>)
      BY <1>2, <2>3 DEF LinkChanges
    <3> HIDE DEF e
    <3>3. evts \in Seq(Evt) /\ <<e>> \in Seq(Evt)
      BY <1>0, <3>1 DEF ManagerTypes
    <3>4. evts \o <<e>> = Append(evts, e)
      BY <3>1, <3>3
    <3>5. LinkToldIn(evts \o <<e>>, ot.infra, sExternalNetifState')
      BY <3>1, <3>2, <3>3, <3>4, LinkAppended
    <3>6. HeardIs'
      BY <3>2 DEF HeardIs
    <3> QED BY <2>1, <2>2, <3>2, <3>3, <3>5, <3>6, PostKeeps
  <2>4. CASE ~netif.watched
    <3>1. UNCHANGED <<sExternalNetifState, evts, dropped>> /\ lastReport' = "nothing"
      BY <1>2, <2>4 DEF LinkChanges
    <3> QED BY <2>1, <2>2, <3>1 DEF LinkInv, ManagerTypes, AgentKept, LinkTold, HeardIs
  <2> QED BY <2>3, <2>4
<1>3. CASE BrInitMdnsHost
  <2>1. UNCHANGED <<netif, sExternalNetifState, sBrIsInitialized, sNat64TranslatorEnable,
                    evts, ot, agent, dropped, lastReport>> /\ fault' \in {fault, "mdns"}
    BY <1>3 DEF BrInitMdnsHost
  <2> QED BY <2>1 DEF LinkInv, ManagerTypes, AgentKept, LinkTold, HeardIs
<1>4. CASE BrMdnsHostInitLwipCb
  <2> DEFINE a == LinkEvt(TRUE)
             c == Ip4Evt(netif.ip4)
             new == IF Head(mdnsAsked).ip4 THEN <<a, Ip6Evt, c>> ELSE <<a, Ip6Evt>>
  <2>1. /\ a \in Evt /\ IsLink(a) /\ a.up = TRUE /\ Ip6Evt \in Evt /\ ~IsLink(Ip6Evt)
        /\ c \in Evt /\ ~IsLink(c)
    BY <1>0 DEF Evt, IsLink, LinkEvt, Ip6Evt, Ip4Evt, ManagerTypes
  <2>2. /\ PostEvents(new) /\ sExternalNetifState' = TRUE
        /\ lastReport' = IF netif.link THEN "truth" ELSE "late"
        /\ UNCHANGED <<netif, sBrIsInitialized, sNat64TranslatorEnable, ot, agent, fault>>
    BY <1>4 DEF BrMdnsHostInitLwipCb
  <2> HIDE DEF a, c
  <2>3. new \in Seq(Evt) /\ evts \in Seq(Evt)
    BY <1>0, <2>1 DEF ManagerTypes
  <2>4. LinkToldIn(evts \o new, ot.infra, sExternalNetifState')
    BY <2>1, <2>2, <2>3, ReportAppended
  <2> HIDE DEF new
  <2>5. HeardIs' /\ netif' \in Netif
    BY <1>0, <2>2 DEF HeardIs, ManagerTypes, Netif
  <2> QED BY <2>2, <2>3, <2>4, <2>5, PostKeeps
<1>5. CASE Ip6Changes
  <2>1. Ip6Evt \in Evt /\ ~IsLink(Ip6Evt)
    BY DEF Evt, IsLink, Ip6Evt
  <2>2. /\ PostEvents(<<Ip6Evt>>)
        /\ UNCHANGED <<netif, sExternalNetifState, sBrIsInitialized, sNat64TranslatorEnable, ot, agent, lastReport, fault>>
    BY <1>5 DEF Ip6Changes, mdnsVars
  <2> QED BY <1>0, <2>1, <2>2, PostOtherKeeps DEF ManagerTypes
<1>6. CASE Ip4Changes
  <2> DEFINE e == Ip4Evt(netif'.ip4)
  <2>1. /\ \E v \in {"none", "address", "routed"} : netif' = [netif EXCEPT !.ip4 = v]
        /\ UNCHANGED <<sExternalNetifState, sBrIsInitialized, sNat64TranslatorEnable, ot, agent, lastReport, fault>>
        /\ IF netif.watched THEN PostEvents(<<e>>) ELSE UNCHANGED <<evts, dropped>>
    BY <1>6 DEF Ip4Changes, mdnsVars
  <2>2. netif' \in Netif /\ netif'.link = netif.link
    BY <1>0, <2>1 DEF ManagerTypes, Netif
  <2>3. e \in Evt /\ ~IsLink(e)
    BY <1>0, <2>2 DEF Evt, IsLink, ManagerTypes, Ip4Evt
  <2> HIDE DEF e
  <2>4. CASE netif.watched
    BY <2>1, <2>2, <2>3, <2>4, PostOtherKeeps
  <2>5. CASE ~netif.watched
    BY <2>1, <2>2, <2>5 DEF LinkInv, ManagerTypes, AgentKept, LinkTold, HeardIs
  <2> QED BY <2>4, <2>5
<1>7. CASE fault = "none" /\ otPlatBrProcessOtEvtQueue
  BY <1>7, EventKeeps
<1>8. ASSUME NEW b \in BOOLEAN, BrSetNat64TranslatorState(b) PROVE LinkInv'
  <2>1. /\ sNat64TranslatorEnable' = b /\ ot' = [ot EXCEPT !.nat64 = b]
        /\ UNCHANGED <<netif, sExternalNetifState, sBrIsInitialized, evts, agent, dropped, lastReport, fault>>
    BY <1>8 DEF BrSetNat64TranslatorState, mdnsVars
  <2>2. /\ ot' \in [infra : BOOLEAN, services : BOOLEAN, nat64 : BOOLEAN]
        /\ ot'.infra = ot.infra /\ ot'.services = ot.services
    BY <1>0, <2>1 DEF ManagerTypes
  <2> QED BY <2>1, <2>2 DEF LinkInv, ManagerTypes, AgentKept, LinkTold, HeardIs
<1>9. CASE BorderAgentEnableEpskcService \/ HandleBorderAgentEphemeralKeyCallback
  <2>1. UNCHANGED <<netif, sExternalNetifState, sBrIsInitialized, sNat64TranslatorEnable, evts, ot, dropped,
                    lastReport, fault>>
    BY <1>9 DEF BorderAgentEnableEpskcService, HandleBorderAgentEphemeralKeyCallback, mdnsVars
  <2>2. agent.init /\ agent'.init
    BY <1>0, <1>9 DEF BorderAgentEnableEpskcService, HandleBorderAgentEphemeralKeyCallback, ManagerTypes,
       LinkInv, AgentKept
  <2>3. agent' \in [init : BOOLEAN, key : {"stopped", "starting", "started", "disabled"}, active : BOOLEAN]
    BY <1>0, <1>9 DEF BorderAgentEnableEpskcService, HandleBorderAgentEphemeralKeyCallback, ManagerTypes
  <2> QED BY <2>1, <2>2, <2>3 DEF LinkInv, ManagerTypes, AgentKept, LinkTold, HeardIs
<1>10. CASE (\E g \in Group : ListenerAdded(g) \/ ListenerRemoved(g)) \/ ManagerRests \/ UNCHANGED bmVars
  BY <1>1, <1>10 DEF ListenerAdded, ListenerRemoved, ManagerRests, bmVars, eventVars
<1> QED BY <1>2, <1>3, <1>4, <1>5, <1>6, <1>7, <1>8, <1>9, <1>10 DEF ManagerNext, ManagerRuns

\* Once the list of events is empty, OpenThread believes of the link what
\* BrNetifExtCb was last told: the truth, unless the belated report of
\* BrInitMdnsHost was the last.
THEOREM ManagerFollowsLink == ManagerSpec => []OtFollowsLink
<1>1. ManagerInit => LinkInv
  <2> SUFFICES ASSUME ManagerInit PROVE LinkInv
    OBVIOUS
  <2> DEFINE e == [type |-> "init"]
  <2>1. e \in Evt /\ ~IsLink(e)
    BY DEF Evt, IsLink
  <2> HIDE DEF e
  <2>2. evts = <<e>>
    BY DEF ManagerInit, e
  <2>3. evts \in Seq(Evt) /\ Len(evts) = 1 /\ evts[1] = e
    BY <2>1, <2>2
  <2>4. \A i \in 1..Len(evts) : ~IsLink(evts[i])
    BY <2>1, <2>3
  <2>5. LinkTold
    BY <2>4 DEF ManagerInit, LinkTold, LinkToldIn, LastLink
  <2>6. ManagerTypes /\ AgentKept /\ HeardIs
    BY <2>3 DEF ManagerInit, ManagerTypes, AgentKept, HeardIs, Netif
  <2> QED BY <2>5, <2>6 DEF LinkInv
<1>2. LinkInv => OtFollowsLink
  <2>1. evts = <<>> => Len(evts) = 0
    OBVIOUS
  <2> QED BY <2>1 DEF LinkInv, ManagerTypes, AgentKept, LinkTold, LinkToldIn, HeardIs, OtFollowsLink
<1> QED BY <1>1, <1>2, LinkStep, PTL DEF ManagerSpec

-----------------------------------------------------------------------------
(* BrManager: the multicast groups.                                        *)

\* A group that no join failed for is in the filter at most once and exactly
\* while a node listens to it; then lwIP has joined it.
FilterInv ==
  /\ filter \in [1..FilterSlots -> Group \cup {AnyGroup}] /\ joined \subseteq Group
  /\ \A g \in joined : InFilter(g) # {}
  /\ \A g \in Group \ failed :
       /\ g \in listeners => g \in joined
       /\ InFilter(g) # {} => g \in listeners
       /\ \A i, j \in InFilter(g) : i = j

\* A subscription keeps the filter.
LEMMA SubscribeKeeps ==
  ASSUME FilterInv, NEW g \in Group, ListenerAdded(g)
  PROVE  FilterInv'
<1>0. listeners' = listeners \cup {g} /\ g \notin listeners /\ lwipMcastSubscribe(g)
  BY DEF ListenerAdded
<1>1. CASE FilterFull(g)
  BY <1>0, <1>1 DEF lwipMcastSubscribe, FilterInv, InFilter
<1>2. CASE ~FilterFull(g)
  <2> DEFINE n == StopSlot(g)
             F(h) == {i \in 1..FilterSlots : filter'[i] = h}
  <2>1. n \in InFilter(g) \cup InFilter(AnyGroup)
    <3>1. InFilter(g) \cup InFilter(AnyGroup) \in SUBSET Nat
      BY BrManagerAssumption DEF InFilter
    <3> QED BY <1>2, <3>1, FirstIsIn DEF FilterFull, StopSlot
  <2> HIDE DEF n
  <2>2. n \in 1..FilterSlots /\ filter[n] \in {g, AnyGroup} /\ filter' = [filter EXCEPT ![n] = g]
    BY <1>0, <1>2, <2>1 DEF InFilter, lwipMcastSubscribe, n
  <2>3. filter' \in [1..FilterSlots -> Group \cup {AnyGroup}]
    BY <2>2 DEF FilterInv
  <2>4. F(g) = InFilter(g) \cup {n}
    BY <2>2 DEF FilterInv, InFilter
  <2>5. ASSUME NEW h \in Group, h # g PROVE F(h) = InFilter(h)
    BY <2>2, <2>5, BrManagerAssumption DEF FilterInv, InFilter
  <2>6. \A h : InFilter(h)' = F(h)
    BY DEF InFilter
  <2> HIDE DEF F
  <2>7. /\ joined' \in {joined, joined \cup {g}} /\ failed' \in {failed, failed \cup {g}}
        /\ g \in joined' \cup failed'
    BY <1>0, <1>2 DEF lwipMcastSubscribe
  <2>8. \A h \in joined' : F(h) # {}
    BY <2>4, <2>5, <2>7 DEF FilterInv
  <2>9. g \notin failed => InFilter(g) = {}
    BY <1>0 DEF FilterInv
  <2>10. ASSUME NEW h \in Group \ failed'
         PROVE  /\ h \in listeners' => h \in joined'
                /\ F(h) # {} => h \in listeners'
                /\ \A i, j \in F(h) : i = j
    <3>1. CASE h = g
      BY <1>0, <2>4, <2>7, <2>9, <2>10, <3>1
    <3>2. CASE h # g
      BY <1>0, <2>5, <2>7, <2>10, <3>2 DEF FilterInv
    <3> QED BY <3>1, <3>2
  <2> QED BY <2>3, <2>6, <2>7, <2>8, <2>10 DEF FilterInv
<1> QED BY <1>1, <1>2

\* The end of a subscription keeps the filter.
LEMMA UnsubscribeKeeps ==
  ASSUME FilterInv, NEW g \in Group, ListenerRemoved(g)
  PROVE  FilterInv'
<1>0. listeners' = listeners \ {g} /\ g \in listeners /\ lwipMcastUnsubscribe(g)
  BY DEF ListenerRemoved
<1>1. CASE g \notin joined
  BY <1>0, <1>1 DEF lwipMcastUnsubscribe, FilterInv, InFilter
<1>2. CASE g \in joined
  <2> DEFINE n == CHOOSE i \in InFilter(g) : \A j \in InFilter(g) : i <= j
             F(h) == {i \in 1..FilterSlots : filter'[i] = h}
  <2>1. InFilter(g) # {} /\ n \in InFilter(g)
    <3>1. InFilter(g) \in SUBSET Nat
      BY BrManagerAssumption DEF InFilter
    <3>2. InFilter(g) # {}
      BY <1>2 DEF FilterInv
    <3> QED BY <3>1, <3>2, FirstIsIn
  <2>2. filter' = [filter EXCEPT ![n] = AnyGroup]
    BY <1>0, <1>2, <2>1 DEF lwipMcastUnsubscribe
  <2> HIDE DEF n
  <2>3. n \in 1..FilterSlots /\ filter[n] = g /\ joined' = joined \ {g} /\ failed' = failed
    BY <1>0, <1>2, <2>1 DEF InFilter, lwipMcastUnsubscribe
  <2>4. filter' \in [1..FilterSlots -> Group \cup {AnyGroup}]
    BY <2>2 DEF FilterInv
  <2>5. ASSUME NEW h \in Group, h # g PROVE F(h) = InFilter(h)
    BY <2>2, <2>3, <2>5, BrManagerAssumption DEF FilterInv, InFilter
  <2>6. F(g) = InFilter(g) \ {n}
    BY <2>2, <2>3, BrManagerAssumption DEF FilterInv, InFilter
  <2>7. \A h : InFilter(h)' = F(h)
    BY DEF InFilter
  <2> HIDE DEF F
  <2>8. g \notin failed => F(g) = {}
    BY <2>1, <2>6 DEF FilterInv
  <2>9. \A h \in joined' : F(h) # {}
    BY <2>3, <2>5 DEF FilterInv
  <2>10. ASSUME NEW h \in Group \ failed'
         PROVE  /\ h \in listeners' => h \in joined'
                /\ F(h) # {} => h \in listeners'
                /\ \A i, j \in F(h) : i = j
    <3>1. CASE h = g
      BY <1>0, <2>3, <2>8, <2>10, <3>1
    <3>2. CASE h # g
      BY <1>0, <2>3, <2>5, <2>10, <3>2 DEF FilterInv
    <3> QED BY <3>1, <3>2
  <2> QED BY <2>3, <2>4, <2>7, <2>9, <2>10 DEF FilterInv
<1> QED BY <1>1, <1>2

\* What a packet must be to cross, when the filter is as it should be.
LEMMA FilterForwardsLegal == FilterInv => OnlyLegalForwarded
<1> SUFFICES ASSUME FilterInv PROVE OnlyLegalForwarded
  OBVIOUS
<1>1. \A g \in joined : InFilter(g) # {}
  BY DEF FilterInv
<1>2. ASSUME NEW p \in Packets, NEW bbr \in Backbone, Forwarded(p, bbr)
      PROVE  /\ p.dst \in Group /\ p.from = "infra" => p.dst \in listeners \cup failed
             /\ ~IsMulticast(p) => "mesh" \notin {p.src, p.dst}
             /\ IsMulticast(p) => p.hops > 1 /\ p.dst # "linkMc"
  <2>1. CASE IsMulticast(p)
    <3>1. p.dst \in Group /\ p.hops > 1 /\ (p.from = "infra" => InFilter(p.dst) # {})
      BY <1>2, <2>1 DEF Forwarded, McForwards
    <3> QED BY <2>1, <3>1, BrManagerAssumption DEF FilterInv
  <2>2. CASE ~IsMulticast(p)
    <3>1. isLegalToForward(p)
      BY <1>2, <2>2 DEF Forwarded
    <3> QED BY <2>2, <3>1 DEF isLegalToForward, IsMulticast
  <2> QED BY <2>1, <2>2
<1> QED BY <1>1, <1>2 DEF OnlyLegalForwarded

\* Only what may cross is forwarded, for any number of groups and any size of
\* the filter.
THEOREM ManagerForwardsLegal == ManagerSpec => []OnlyLegalForwarded
<1>1. ManagerInit => FilterInv
  BY BrManagerAssumption DEF ManagerInit, FilterInv, InFilter
<1>2. FilterInv /\ [ManagerNext]_bmVars => FilterInv'
  <2> SUFFICES ASSUME FilterInv, [ManagerNext]_bmVars PROVE FilterInv'
    OBVIOUS
  <2>1. CASE \E g \in Group : ListenerAdded(g)
    BY <2>1, SubscribeKeeps
  <2>2. CASE \E g \in Group : ListenerRemoved(g)
    BY <2>2, UnsubscribeKeeps
  <2>3. CASE UNCHANGED mcastVars
    BY <2>3 DEF mcastVars, FilterInv, InFilter
  <2>4. UNCHANGED mcastVars \/ \E g \in Group : ListenerAdded(g) \/ ListenerRemoved(g)
    BY DEF ManagerNext, ManagerRuns, LinkChanges, BrInitMdnsHost, BrMdnsHostInitLwipCb, Ip6Changes, Ip4Changes, otPlatBrProcessOtEvtQueue,
       BrSetNat64TranslatorState, BorderAgentEnableEpskcService, HandleBorderAgentEphemeralKeyCallback,
       ManagerRests, bmVars, mcastVars
  <2> QED BY <2>1, <2>2, <2>3, <2>4
<1> QED BY <1>1, <1>2, FilterForwardsLegal, PTL DEF ManagerSpec

-----------------------------------------------------------------------------
(* NetifAddresses: the tables of the two interfaces.                       *)

\* A slot; the tables of the Thread and of the infrastructure netif.
ThreadTable == [1 .. Slots -> [addr : Addrs \cup {NoAddr}, state : {"valid", "invalid"}]]
InfraTable == [1 .. Slots -> [addr : LinkLocal \cup Prefixed \cup {NoAddr},
                              state : {"invalid", "tentative", "preferred", "deprecated"}]]

\* The least of some slots is one of them.
LEMMA LeastIsLeast ==
  ASSUME NEW slots \in SUBSET (1 .. Slots), slots # {}
  PROVE  Least(slots) \in slots /\ \A j \in slots : Least(slots) <= j
<1>1. slots \subseteq Nat
  BY AddrAssumption
<1>2. \E x \in slots : \A y \in slots : x <= y
  BY <1>1, LeastNatural
<1> QED BY <1>2 DEF Least

\* Where netif_add_ip6_address puts an address: in the first slot that has it,
\* else in one that is free.
LEMMA AddSlotIs ==
  ASSUME NEW t, NEW a
  PROVE  \/ /\ AddSlot(t, a) \in Match(t, a)
            /\ \A j \in Match(t, a) : AddSlot(t, a) <= j
         \/ Match(t, a) = {} /\ AddSlot(t, a) \in Room(t, a)
         \/ AddSlot(t, a) = 0
<1>1. Match(t, a) \in SUBSET (1 .. Slots) /\ Room(t, a) \in SUBSET (1 .. Slots)
  BY DEF Match, Room
<1>2. CASE Match(t, a) # {}
  BY <1>1, <1>2, LeastIsLeast DEF AddSlot
<1>3. CASE Match(t, a) = {} /\ Room(t, a) # {}
  BY <1>1, <1>3, LeastIsLeast DEF AddSlot
<1>4. CASE Match(t, a) = {} /\ Room(t, a) = {}
  BY <1>4 DEF AddSlot
<1> QED BY <1>2, <1>3, <1>4

\* What the loop has done to the table, for addresses of threadAddrs: the slots
\* assigned hold them, each in the first slot that has it, and no other slot is
\* newly in use; the primary slot is for link-local addresses and the first
\* of them takes it.
Accs == [table : ThreadTable, assigned : SUBSET (1 .. Slots), full : BOOLEAN]

Assigned(acc, before, threadAddrs) ==
  /\ \A i \in acc.assigned : acc.table[i].state = "valid" /\ acc.table[i].addr \in threadAddrs
  /\ \A i \in acc.assigned : \A j \in Match(acc.table, acc.table[i].addr) : i <= j
  /\ \A i \in acc.assigned : acc.table[i].addr \in LinkLocal => 1 \in acc.assigned
  /\ \A i \in 1 .. Slots : acc.table[i].state = "valid" => i \in before \cup acc.assigned
  /\ acc.table[1].state = "valid" => acc.table[1].addr \in LinkLocal

\* An address more.
LEMMA AssignOneKeeps ==
  ASSUME NEW acc \in Accs, NEW a \in Addrs, NEW before, NEW threadAddrs
  PROVE  /\ AssignOne(acc, a) \in Accs
         /\ Assigned(acc, before, threadAddrs) /\ a \in threadAddrs => Assigned(AssignOne(acc, a), before, threadAddrs)
<1> DEFINE i == IF a \in LinkLocal /\ 1 \notin acc.assigned THEN 1 ELSE AddSlot(acc.table, a)
<1>0. PICK k : k = i
  OBVIOUS
<1>1. k = 0 \/ k \in 1 .. Slots
  BY <1>0, AddSlotIs, AddrAssumption DEF Match, Room
<1>2. CASE acc.full \/ k = 0
  <2>1. AssignOne(acc, a) = [acc EXCEPT !.full = TRUE]
    BY <1>0, <1>2 DEF AssignOne
  <2>2. AssignOne(acc, a) \in Accs
    BY <2>1 DEF Accs
  <2> QED BY <2>1, <2>2 DEF Assigned, Accs
<1>3. CASE ~acc.full /\ k # 0
  <2>0. PICK t, n, u, m : t = acc.table /\ n = acc.assigned /\ m = n \cup {k} /\ u = WithAddr(t, k, a, "valid")
    OBVIOUS
  <2>1. AssignOne(acc, a) = [acc EXCEPT !.table = u, !.assigned = m]
    BY <1>0, <1>3, <2>0 DEF AssignOne
  <2>2. t \in ThreadTable /\ n \in SUBSET (1 .. Slots) /\ k \in 1 .. Slots
    BY <1>1, <1>3, <2>0 DEF Accs
  <2>3. u \in ThreadTable /\ u[k] = [addr |-> a, state |-> "valid"] /\ \A j \in 1 .. Slots : j # k => u[j] = t[j]
    BY <2>0, <2>2 DEF WithAddr, ThreadTable
  <2>4. AssignOne(acc, a) \in Accs /\ AssignOne(acc, a).table = u /\ AssignOne(acc, a).assigned = m
    <3>1. m \in SUBSET (1 .. Slots)
      BY <2>0, <2>2
    <3>2. acc \in [table : ThreadTable, assigned : SUBSET (1 .. Slots), full : BOOLEAN]
      BY DEF Accs
    <3> HIDE <2>0
    <3> QED BY <3>1, <3>2, <2>1, <2>3 DEF Accs
  <2>5. ASSUME Assigned(acc, before, threadAddrs), a \in threadAddrs
        PROVE  Assigned(AssignOne(acc, a), before, threadAddrs)
    <3>1. \/ a \in LinkLocal /\ 1 \notin n /\ k = 1
          \/ (a \in LinkLocal => 1 \in n) /\ k \in Match(t, a) /\ \A j \in Match(t, a) : k <= j
          \/ (a \in LinkLocal => 1 \in n) /\ Match(t, a) = {} /\ k \in Room(t, a)
      BY <1>0, <1>3, <2>0, AddSlotIs
    <3>2. /\ \A j \in n : t[j].state = "valid" /\ t[j].addr \in threadAddrs
          /\ \A j \in n : \A h \in Match(t, t[j].addr) : j <= h
          /\ \A j \in n : t[j].addr \in LinkLocal => 1 \in n
          /\ \A j \in 1 .. Slots : t[j].state = "valid" => j \in before \cup n
          /\ t[1].state = "valid" => t[1].addr \in LinkLocal
      BY <2>0, <2>5 DEF Assigned
    <3>3. \A j \in m : u[j].state = "valid" /\ u[j].addr \in threadAddrs
      BY <2>0, <2>2, <2>3, <2>5, <3>2
    <3>4. a \in LinkLocal => 1 \in m
      BY <2>0, <3>1
    <3>5. \A j \in m : u[j].addr \in LinkLocal => 1 \in m
      BY <2>0, <2>2, <2>3, <3>2, <3>4
    <3>6. \A j \in 1 .. Slots : u[j].state = "valid" => j \in before \cup m
      BY <2>0, <2>2, <2>3, <3>2
    <3>7. u[1].state = "valid" => u[1].addr \in LinkLocal
      <4>1. CASE k # 1
        BY <2>3, <3>2, <4>1, AddrAssumption
      <4>2. CASE k = 1
        <5>1. a \in LinkLocal
          <6>1. t[1].state = "valid" \/ t[1].state = "invalid"
            BY <2>2, <4>2 DEF ThreadTable
          <6> QED BY <6>1, <3>1, <3>2, <4>2 DEF Match, Room
        <5> QED BY <5>1, <4>2, <2>3
      <4> QED BY <4>1, <4>2
    <3>8. ASSUME NEW j \in m, NEW h \in Match(u, u[j].addr) PROVE j <= h
      <4>0. h \in 1 .. Slots /\ u[h].addr = u[j].addr /\ u[h].state # "invalid" /\ j \in 1 .. Slots
        BY <3>8, <2>0, <2>2 DEF Match
      <4>1. CASE j = k
        <5>1. CASE h = k
          BY <4>1, <5>1, <4>0
        <5>2. CASE h # k
          <6>1. h \in Match(t, a)
            BY <4>0, <4>1, <5>2, <2>3 DEF Match
          <6> QED BY <6>1, <3>1, <4>0, <4>1
        <5> QED BY <5>1, <5>2
      <4>2. CASE j # k /\ h = k
        <5>1. j \in n /\ t[j].addr = a
          BY <4>0, <4>2, <2>0, <2>3
        <5>2. j \in Match(t, a)
          BY <5>1, <4>0, <3>2 DEF Match
        <5>3. k \in Match(t, a)
          BY <3>1, <3>2, <5>1, <5>2
        <5> QED BY <5>1, <5>3, <3>2, <4>2
      <4>3. CASE j # k /\ h # k
        <5>1. j \in n /\ u[j] = t[j] /\ u[h] = t[h]
          BY <4>0, <4>3, <2>0, <2>3
        <5>2. h \in Match(t, t[j].addr)
          BY <4>0, <5>1 DEF Match
        <5> QED BY <5>1, <5>2, <3>2
      <4> QED BY <4>1, <4>2, <4>3
    <3> QED BY <2>4, <3>3, <3>5, <3>6, <3>7, <3>8 DEF Assigned
  <2> QED BY <2>4, <2>5
<1> QED BY <1>2, <1>3

\* The last place of some.
LastPlace(s) == CHOOSE x \in s : \A y \in s : x >= y

\* One round of the loop, by the place of the address.
Round(list) == [p \in Accs \X (DOMAIN list) |-> AssignOne(p[1], list[p[2]])]

\* f has what the loop has done after some places of the list.
IsLoop(f, b, list) ==
  f = [s \in SUBSET (DOMAIN list) |-> IF s = {} THEN b ELSE AssignOne(f[s \ {LastPlace(s)}], list[LastPlace(s)])]

\* There is a last one of finitely many.
LEMMA LastPlaceIsIn ==
  ASSUME NEW n \in Nat, NEW s \in SUBSET (1 .. n), s # {}
  PROVE  LastPlace(s) \in s
<1> DEFINE up == {n - x : x \in s}
<1>1. up \subseteq Nat /\ up # {}
  <2>1. \A x \in s : x \in 1 .. n /\ n - x \in Nat
    OBVIOUS
  <2> QED BY <2>1
<1>2. PICK z \in up : \A y \in up : z <= y
  <2> HIDE DEF up
  <2> QED BY <1>1, LeastNatural
<1>3. PICK x \in s : z = n - x
  BY <1>2
<1>4. ASSUME NEW y \in s PROVE x >= y
  <2>1. z <= n - y
    BY <1>2
  <2> QED BY <2>1, <1>3
<1> QED BY <1>3, <1>4 DEF LastPlace

\* The loop over a list is one of them.
LEMMA LoopExists ==
  ASSUME NEW b \in Accs, NEW list \in Seq(Addrs)
  PROVE  \E f : IsLoop(f, b, list)
<1>0. PICK n, S : n = Len(list) /\ S = 1 .. n /\ DOMAIN list = S
  OBVIOUS
<1>1. n \in Nat /\ IsFiniteSet(S)
  BY <1>0, FS_Interval, 1 \in Int, n \in Int
<1> DEFINE step == [p \in Accs \X S |-> AssignOne(p[1], list[p[2]])]
           pick == [s \in SUBSET S |-> IF s = {} THEN S ELSE LastPlace(s)]
<1>2. \A a \in Accs : \A x \in S : AssignOne(a, list[x]) \in Accs
  <2> TAKE a \in Accs
  <2> TAKE x \in S
  <2>1. list[x] \in Addrs
    BY <1>0
  <2> QED BY <2>1, AssignOneKeeps
<1>3. step \in [Accs \X S -> Accs]
  BY <1>2
<1>4. \A s \in SUBSET S : s # {} => LastPlace(s) \in s
  BY <1>0, <1>1, LastPlaceIsIn
<1>5. pick \in [SUBSET S -> S \cup {S}] /\ \A s \in SUBSET S : s # {} => pick[s] \in s /\ pick[s] = LastPlace(s)
  BY <1>4
<1>6. PICK f : IsSetRecursion(f, S, Accs, b, step, pick)
  <2> HIDE DEF step, pick
  <2> QED BY <1>1, <1>3, <1>5, SetRecursion
<1>7. ASSUME NEW s \in SUBSET S, s # {}
      PROVE  step[<<f[s \ {pick[s]}], pick[s]>>] = AssignOne(f[s \ {LastPlace(s)}], list[LastPlace(s)])
  <2>0. PICK c : c = LastPlace(s)
    OBVIOUS
  <2>1. c \in S /\ pick[s] = c /\ s \ {c} \in SUBSET S
    BY <2>0, <1>4, <1>5, <1>7
  <2>2. f[s \ {c}] \in Accs
    BY <2>1, <1>6 DEF IsSetRecursion
  <2> HIDE DEF pick
  <2>3. PICK r : r = f[s \ {c}]
    OBVIOUS
  <2>4. step[<<r, c>>] = AssignOne(r, list[c])
    BY <2>1, <2>2, <2>3
  <2> QED BY <2>0, <2>1, <2>3, <2>4
<1>8. [s \in SUBSET S |-> IF s = {} THEN b ELSE step[<<f[s \ {pick[s]}], pick[s]>>]]
      = [s \in SUBSET S |-> IF s = {} THEN b ELSE AssignOne(f[s \ {LastPlace(s)}], list[LastPlace(s)])]
  <2> HIDE DEF step, pick
  <2> QED BY <1>7
<1> HIDE DEF step, pick
<1> QED BY <1>0, <1>6, <1>8 DEF IsLoop, IsSetRecursion

\* Assign is the loop over the whole list.
LEMMA AssignIs ==
  ASSUME NEW t \in ThreadTable, NEW list \in Seq(Addrs)
  PROVE  \E f : IsLoop(f, [table |-> t, assigned |-> {}, full |-> FALSE], list) /\ Assign(t, list) = f[DOMAIN list]
<1> DEFINE b == [table |-> t, assigned |-> {}, full |-> FALSE]
           It(f) == [s \in SUBSET (DOMAIN list) |->
                       IF s = {} THEN b ELSE AssignOne(f[s \ {LastPlace(s)}], list[LastPlace(s)])]
           g == CHOOSE f : f = It(f)
<1>1. b \in Accs
  BY DEF Accs
<1>2. PICK f : f = It(f)
  <2> HIDE DEF b
  <2>1. \E f : IsLoop(f, b, list)
    BY <1>1, LoopExists
  <2> QED BY <2>1 DEF IsLoop
<1>3. g = It(g)
  BY <1>2
<1>4. Assign(t, list) = g[DOMAIN list]
  BY DEF Assign, FoldLeft, MapThenFoldSet, Max, LastPlace
<1> HIDE DEF g
<1> QED BY <1>3, <1>4 DEF IsLoop

\* What the loop has done when it ends.
LEMMA AssignKeeps ==
  ASSUME NEW t \in ThreadTable, NEW list \in Seq(Addrs), NEW before,
         \A i \in 1 .. Slots : t[i].state = "valid" => i \in before,
         t[1].state = "valid" => t[1].addr \in LinkLocal
  PROVE  Assign(t, list) \in Accs /\ Assigned(Assign(t, list), before, {list[i] : i \in DOMAIN list})
<1>0. PICK b, n, threadAddrs : /\ b = [table |-> t, assigned |-> {}, full |-> FALSE]
                         /\ n = Len(list) /\ threadAddrs = {list[i] : i \in DOMAIN list}
  OBVIOUS
<1>1. PICK f : IsLoop(f, b, list) /\ Assign(t, list) = f[DOMAIN list]
  BY <1>0, AssignIs
<1>2. n \in Nat /\ DOMAIN list = 1 .. n
  BY <1>0
<1> DEFINE P(k) == k <= n => f[1 .. k] \in Accs /\ Assigned(f[1 .. k], before, threadAddrs)
           H == {k \in Nat : P(k)}
<1>3. P(0)
  <2>1. b \in Accs /\ Assigned(b, before, threadAddrs)
    BY <1>0 DEF Accs, Assigned
  <2>2. 1 .. 0 = {} /\ {} \in SUBSET (DOMAIN list)
    OBVIOUS
  <2>3. f[{}] = b
    BY <2>2, <1>1 DEF IsLoop
  <2> QED BY <2>1, <2>2, <2>3
<1>4. ASSUME NEW k \in Nat, P(k) PROVE P(k + 1)
  <2> SUFFICES ASSUME k + 1 <= n
               PROVE  f[1 .. k + 1] \in Accs /\ Assigned(f[1 .. k + 1], before, threadAddrs)
    OBVIOUS
  <2>1. LastPlace(1 .. k + 1) = k + 1
    BY DEF LastPlace
  <2>2. (1 .. k + 1) \ {k + 1} = 1 .. k /\ 1 .. k + 1 # {} /\ 1 .. k + 1 \in SUBSET (DOMAIN list)
    <3>1. k + 1 \in 1 .. k + 1 /\ \A x \in 1 .. k + 1 : x \in 1 .. n
      BY <1>2
    <3>2. \A x : x \in (1 .. k + 1) \ {k + 1} <=> x \in 1 .. k
      OBVIOUS
    <3> QED BY <1>2, <3>1, <3>2
  <2>3. f[1 .. k + 1] = AssignOne(f[1 .. k], list[k + 1])
    BY <2>1, <2>2, <1>1 DEF IsLoop
  <2>4. f[1 .. k] \in Accs /\ Assigned(f[1 .. k], before, threadAddrs)
    BY <1>2, <1>4
  <2>5. list[k + 1] \in Addrs /\ list[k + 1] \in threadAddrs
    BY <1>0, <1>2
  <2> QED BY <2>3, <2>4, <2>5, AssignOneKeeps
<1>5. \A k \in Nat : P(k)
  <2> HIDE DEF P
  <2>1. 0 \in H /\ \A k \in Nat : k \in H => k + 1 \in H
    BY <1>3, <1>4
  <2>2. \A k \in Nat : k \in H
    <3> HIDE DEF H
    <3> QED BY <2>1, SetInduction
  <2> QED BY <2>2
<1>6. f[1 .. n] \in Accs /\ Assigned(f[1 .. n], before, threadAddrs)
  BY <1>2, <1>5
<1> QED BY <1>0, <1>1, <1>2, <1>6

\* The inductive invariant of the Thread netif: every slot in use is one that
\* otPlatLwipUpdateState remembers.
ThreadInv ==
  /\ table \in ThreadTable /\ otAddrs \in Seq(Addrs) /\ sAddrAssigned \in SUBSET (1 .. Slots)
  /\ otUp \in BOOLEAN
  /\ \A i \in 1 .. Slots : table[i].state = "valid" => i \in sAddrAssigned
  /\ \A i, j \in 1 .. Slots :
       table[i].state = "valid" /\ table[j].state = "valid" /\ table[i].addr = table[j].addr => i = j
  /\ table[1].state = "valid" => table[1].addr \in LinkLocal
  /\ ~stale => \A i \in 1 .. Slots :
       table[i].state = "valid" => otUp /\ \E k \in DOMAIN otAddrs : otAddrs[k] = table[i].addr

\* The table after an update: what the loop assigned, and nothing else.
LEMMA UpdateKeeps == ThreadInv /\ otPlatLwipUpdateState => ThreadInv'
<1> SUFFICES ASSUME ThreadInv, otPlatLwipUpdateState PROVE ThreadInv'
  OBVIOUS
<1>0. PICK list, acc : list = (IF otUp THEN otAddrs ELSE <<>>) /\ acc = Assign(table, list)
  OBVIOUS
<1>1. list \in Seq(Addrs)
  <2>1. <<>> \in Seq(Addrs)
    OBVIOUS
  <2> QED BY <1>0, <2>1 DEF ThreadInv
<1>2. acc \in Accs /\ Assigned(acc, sAddrAssigned, {list[i] : i \in DOMAIN list})
  BY <1>0, <1>1, AssignKeeps DEF ThreadInv
<1>3. PICK t, n : t = acc.table /\ n = acc.assigned
  OBVIOUS
<1>4. t \in ThreadTable /\ n \in SUBSET (1 .. Slots)
  BY <1>2, <1>3 DEF Accs
<1>5. /\ \A i \in n : t[i].state = "valid" /\ \E k \in DOMAIN list : list[k] = t[i].addr
      /\ \A i \in n : \A j \in 1 .. Slots : t[j].addr = t[i].addr /\ t[j].state # "invalid" => i <= j
      /\ \A i \in 1 .. Slots : t[i].state = "valid" => i \in sAddrAssigned \cup n
      /\ t[1].state = "valid" => t[1].addr \in LinkLocal
  BY <1>2, <1>3, <1>4 DEF Assigned, Match
<1>6. /\ stale' = FALSE /\ otUp' = otUp /\ otAddrs' = otAddrs
      /\ table' = DropOthers(t, sAddrAssigned, n, otUp) /\ sAddrAssigned' = n
  BY <1>0, <1>3 DEF otPlatLwipUpdateState
<1>7. ASSUME NEW i \in 1 .. Slots
      PROVE  /\ table'[i] \in [addr : Addrs \cup {NoAddr}, state : {"valid", "invalid"}]
             /\ table'[i].state = "valid" => i \in n /\ otUp /\ table'[i] = t[i]
  <2>1. table'[i] = IF ~otUp \/ (i \in sAddrAssigned /\ i \notin n) THEN [t[i] EXCEPT !.state = "invalid"] ELSE t[i]
    BY <1>6 DEF DropOthers
  <2>2. t[i] \in [addr : Addrs \cup {NoAddr}, state : {"valid", "invalid"}]
    BY <1>4 DEF ThreadTable
  <2> HIDE <1>6
  <2> QED BY <2>1, <2>2, <1>5
<1>8. table' \in ThreadTable
  <2>1. table' = [i \in 1 .. Slots |-> table'[i]]
    BY <1>6 DEF DropOthers
  <2> QED BY <1>7, <2>1 DEF ThreadTable
<1>9. ASSUME NEW i \in 1 .. Slots, table'[i].state = "valid"
      PROVE  /\ i \in n /\ otUp /\ \E k \in DOMAIN otAddrs : otAddrs[k] = table'[i].addr
             /\ i = 1 => table'[i].addr \in LinkLocal
             /\ \A j \in 1 .. Slots : table'[j].state = "valid" /\ table'[i].addr = table'[j].addr => i = j
  <2>1. i \in n /\ otUp /\ table'[i] = t[i] /\ list = otAddrs
    BY <1>0, <1>7, <1>9
  <2>2. i = 1 => table'[i].addr \in LinkLocal
    BY <2>1, <1>5
  <2>3. \E k \in DOMAIN otAddrs : otAddrs[k] = table'[i].addr
    BY <2>1, <1>5
  <2>4. ASSUME NEW j \in 1 .. Slots, table'[j].state = "valid", table'[i].addr = table'[j].addr PROVE i = j
    <3>1. j \in n /\ table'[j] = t[j]
      BY <1>7, <2>4
    <3>2. i <= j /\ j <= i
      BY <2>1, <2>4, <3>1, <1>5, <1>9
    <3> QED BY <3>2, AddrAssumption
  <2> QED BY <2>1, <2>2, <2>3, <2>4
<1>10. 1 \in 1 .. Slots
  BY AddrAssumption
<1>11. otAddrs \in Seq(Addrs) /\ otUp \in BOOLEAN
  BY DEF ThreadInv
<1> QED
  <2>1. \A i, j \in 1 .. Slots :
          table'[i].state = "valid" /\ table'[j].state = "valid" /\ table'[i].addr = table'[j].addr => i = j
    BY <1>9
  <2>2. table'[1].state = "valid" => table'[1].addr \in LinkLocal
    BY <1>9, <1>10
  <2>3. \A i \in 1 .. Slots : table'[i].state = "valid" => i \in n
    BY <1>9
  <2>4. \A i \in 1 .. Slots : table'[i].state = "valid" => otUp /\ \E k \in DOMAIN otAddrs : otAddrs[k] = table'[i].addr
    BY <1>9
  <2> QED BY <1>4, <1>6, <1>8, <1>11, <2>1, <2>2, <2>3, <2>4 DEF ThreadInv

\* Every step of the Thread netif keeps it.
LEMMA ThreadIfStep == ThreadInv /\ [ThreadIfNext]_threadIfVars => ThreadInv'
<1> SUFFICES ASSUME ThreadInv, [ThreadIfNext]_threadIfVars PROVE ThreadInv'
  OBVIOUS
<1>1. CASE OtSwitches
  BY <1>1 DEF OtSwitches, ThreadInv
<1>2. ASSUME NEW a \in Addrs, OtAdds(a) PROVE ThreadInv'
  <2>1. <<a>> \o otAddrs \in Seq(Addrs)
    BY DEF ThreadInv
  <2> QED BY <1>2, <2>1 DEF OtAdds, ThreadInv
<1>3. ASSUME NEW a \in Addrs, OtRemoves(a) PROVE ThreadInv'
  <2>1. PICK i \in DOMAIN otAddrs : otAddrs' = RemoveAt(otAddrs, i)
    BY <1>3 DEF OtRemoves
  <2>2. RemoveAt(otAddrs, i) \in Seq(Addrs)
    <3>1. otAddrs \in Seq(Addrs) /\ i \in 1 .. Len(otAddrs)
      BY DEF ThreadInv
    <3>2. SubSeq(otAddrs, 1, i - 1) \in Seq(Addrs)
      BY <3>1
    <3>3. SubSeq(otAddrs, i + 1, Len(otAddrs)) \in Seq(Addrs)
      BY <3>1
    <3> QED BY <3>2, <3>3 DEF RemoveAt
  <2> QED BY <1>3, <2>1, <2>2 DEF OtRemoves, ThreadInv
<1>4. CASE otPlatLwipUpdateState
  BY <1>4, UpdateKeeps
<1>5. CASE UNCHANGED threadIfVars
  BY <1>5 DEF threadIfVars, ThreadInv
<1> QED BY <1>1, <1>2, <1>3, <1>4, <1>5 DEF ThreadIfNext

\* The inductive invariant of the infrastructure netif: no address twice, the
\* primary slot link-local, and the rest asked for.
InfraInv ==
  /\ infra \in InfraTable /\ infra[1].addr \in LinkLocal
  /\ \A i, j \in 1 .. Slots :
       infra[i].state # "invalid" /\ infra[j].state # "invalid" /\ infra[i].addr = infra[j].addr => i = j
  /\ \A i \in 1 .. Slots : infra[i].state # "invalid" /\ infra[i].addr \in Prefixed => infra[i].addr \in askedOf

\* A slot may change its state as long as it is in use.
LEMMA InfraSetKeeps ==
  ASSUME InfraInv, NEW i \in 1 .. Slots, infra[i].state # "invalid",
         NEW newState \in {"tentative", "preferred", "deprecated"}, InfraSet(i, newState),
         \A a \in Prefixed : a \in askedOf => a \in askedOf'
  PROVE  InfraInv'
<1>1. infra[i] \in [addr : LinkLocal \cup Prefixed \cup {NoAddr},
                    state : {"invalid", "tentative", "preferred", "deprecated"}]
  BY DEF InfraInv, InfraTable
<1>2. infra'[i] = [infra[i] EXCEPT !.state = newState] /\ \A j \in 1 .. Slots : j # i => infra'[j] = infra[j]
  BY DEF InfraSet, InfraInv, InfraTable
<1>3. infra'[i].addr = infra[i].addr /\ infra'[i].state = newState
  BY <1>1, <1>2
<1>4. infra' \in InfraTable
  BY <1>1 DEF InfraSet, InfraInv, InfraTable
<1>5. \A j \in 1 .. Slots : infra'[j].addr = infra[j].addr /\ (infra'[j].state # "invalid" => infra[j].state # "invalid")
  BY <1>2, <1>3
<1>6. 1 \in 1 .. Slots
  BY AddrAssumption
<1> QED BY <1>4, <1>5, <1>6 DEF InfraInv

\* A slot that is not the primary one may be freed.
LEMMA WithdrawKeeps ==
  ASSUME InfraInv, NEW a \in Prefixed, Withdraw(a), askedOf' = askedOf \ {a}
  PROVE  InfraInv'
<1>0. 1 \in 1 .. Slots /\ infra[1].addr # a
  BY AddrAssumption DEF InfraInv
<1>1. Found(a) \in SUBSET (1 .. Slots) /\ \A i \in Found(a) : i # 1 /\ infra[i].addr = a
  BY <1>0 DEF Found, Match
<1>2. CASE Found(a) = {}
  <2>1. infra' = infra
    BY <1>2 DEF Withdraw
  <2>2. \A i \in 1 .. Slots : infra[i].state # "invalid" => infra[i].addr # a
    BY <1>2 DEF Found, Match
  <2> QED BY <2>1, <2>2 DEF InfraInv
<1>3. CASE Found(a) # {}
  <2>1. PICK i : i = Least(Found(a))
    OBVIOUS
  <2>2. i \in Found(a) /\ i \in 1 .. Slots /\ i # 1 /\ i > 1
    <3>1. i \in Found(a)
      BY <1>1, <1>3, <2>1, LeastIsLeast
    <3> QED BY <1>1, <3>1, AddrAssumption
  <2>3. InfraSet(i, "invalid")
    BY <2>1, <2>2 DEF Withdraw
  <2>4. infra[i] \in [addr : LinkLocal \cup Prefixed \cup {NoAddr},
                      state : {"invalid", "tentative", "preferred", "deprecated"}]
    BY <2>2 DEF InfraInv, InfraTable
  <2>5. infra'[i] = [infra[i] EXCEPT !.state = "invalid"] /\ \A j \in 1 .. Slots : j # i => infra'[j] = infra[j]
    BY <2>2, <2>3 DEF InfraSet, InfraInv, InfraTable
  <2>6. infra'[i].state = "invalid"
    BY <2>4, <2>5
  <2>7. infra' \in InfraTable
    BY <2>3, <2>4 DEF InfraSet, InfraInv, InfraTable
  <2>8. \A j \in 1 .. Slots : infra'[j].state # "invalid" =>
          infra'[j] = infra[j] /\ infra[j].addr # a
    BY <2>2, <2>5, <2>6 DEF InfraInv, Found, Match
  <2>9. infra'[1] = infra[1]
    BY <1>0, <2>2, <2>5
  <2> QED BY <2>7, <2>8, <2>9 DEF InfraInv
<1> QED BY <1>2, <1>3

\* A new address goes to a free slot that is not the primary one.
LEMMA AddKeeps ==
  ASSUME InfraInv, NEW a \in Prefixed, AddFromRa(a), askedOf' = askedOf \cup {a}
  PROVE  InfraInv'
<1>0. 1 \in 1 .. Slots /\ a \notin LinkLocal
  BY AddrAssumption
<1>1. PICK i : i = AddSlot(infra, a)
  OBVIOUS
<1>2. CASE i = 0
  BY <1>1, <1>2 DEF AddFromRa, InfraInv
<1>3. CASE i # 0
  <2>1. Match(infra, a) = {} /\ i \in Room(infra, a)
    BY <1>1, <1>3, AddSlotIs DEF AddFromRa, Found
  <2>2. i \in 1 .. Slots /\ i # 1
    BY <1>0, <2>1 DEF Room
  <2>3. infra' = WithAddr(infra, i, a, "tentative")
    BY <1>1, <1>3 DEF AddFromRa
  <2>4. infra'[i] = [addr |-> a, state |-> "tentative"] /\ \A j \in 1 .. Slots : j # i => infra'[j] = infra[j]
    BY <2>2, <2>3 DEF WithAddr, InfraInv, InfraTable
  <2>5. infra' \in InfraTable
    BY <2>2, <2>3 DEF WithAddr, InfraInv, InfraTable
  <2>6. \A j \in 1 .. Slots : infra[j].state # "invalid" => infra[j].addr # a
    BY <2>1 DEF Match
  <2> QED BY <1>0, <2>2, <2>4, <2>5, <2>6 DEF InfraInv
<1> QED BY <1>2, <1>3

\* Every step of the infrastructure netif keeps it.
LEMMA InfraIfStep == InfraInv /\ [InfraIfNext]_infraIfVars => InfraInv'
<1> SUFFICES ASSUME InfraInv, [InfraIfNext]_infraIfVars PROVE InfraInv'
  OBVIOUS
<1>1. ASSUME NEW a \in Prefixed, NEW life \in {"preferred", "deprecated", "withdrawn"}, RaFromOtToLwip(a, life)
      PROVE  InfraInv'
  <2>1. CASE life = "withdrawn"
    BY <1>1, <2>1, WithdrawKeeps DEF RaFromOtToLwip
  <2>2. CASE life # "withdrawn" /\ AddFromRa(a)
    BY <1>1, <2>2, AddKeeps DEF RaFromOtToLwip
  <2>3. CASE life # "withdrawn" /\ UpdateFromRa(a, life)
    <3>0. askedOf' = askedOf \cup {a}
      BY <1>1, <2>3 DEF RaFromOtToLwip
    <3>1. PICK i : i = Least(Found(a))
      OBVIOUS
    <3>2. i \in 1 .. Slots /\ infra[i].state # "invalid"
      <4>1. Found(a) \in SUBSET (1 .. Slots) /\ Found(a) # {}
        BY <2>3 DEF Found, Match, UpdateFromRa
      <4>2. i \in Found(a)
        BY <3>1, <4>1, LeastIsLeast
      <4> QED BY <4>2 DEF Found, Match
    <3>3. InfraSet(i, "preferred") \/ InfraSet(i, "deprecated") \/ UNCHANGED infra
      BY <2>3, <3>1 DEF UpdateFromRa
    <3>4. CASE InfraSet(i, "preferred")
      BY <3>0, <3>2, <3>4, InfraSetKeeps
    <3>5. CASE InfraSet(i, "deprecated")
      BY <3>0, <3>2, <3>5, InfraSetKeeps
    <3>6. CASE UNCHANGED infra
      BY <3>0, <3>6 DEF InfraInv
    <3> QED BY <3>3, <3>4, <3>5, <3>6
  <2> QED BY <1>1, <2>1, <2>2, <2>3 DEF RaFromOtToLwip
<1>2. CASE RaWithoutPrefix
  BY <1>2 DEF RaWithoutPrefix, infraIfVars, InfraInv
<1>3. ASSUME NEW i \in 1 .. Slots, AddressChecked(i) PROVE InfraInv'
  <2>1. infra[i].state # "invalid" /\ InfraSet(i, "preferred") /\ askedOf' = askedOf
    BY <1>3 DEF AddressChecked
  <2> QED BY <2>1, InfraSetKeeps
<1>4. CASE mdnsPlatMonitorInterface
  BY <1>4 DEF mdnsPlatMonitorInterface, InfraInv
<1>5. CASE UNCHANGED infraIfVars
  BY <1>5 DEF infraIfVars, InfraInv
<1> QED BY <1>1, <1>2, <1>3, <1>4, <1>5 DEF InfraIfNext

\* The addresses follow OpenThread, for any number of slots and any addresses.
THEOREM AddressesFollow == AddrSpec => []NoStaleAddress
<1>1. AddrInit => ThreadInv /\ InfraInv
  <2> SUFFICES ASSUME AddrInit PROVE ThreadInv /\ InfraInv
    OBVIOUS
  <2>0. 1 \in 1 .. Slots
    BY AddrAssumption
  <2>1. Empty \in ThreadTable /\ Empty \in InfraTable /\ \A i \in 1 .. Slots : Empty[i] = [addr |-> NoAddr, state |-> "invalid"]
    BY DEF Empty, ThreadTable, InfraTable
  <2>2. ThreadInv
    <3>1. <<>> \in Seq(Addrs)
      OBVIOUS
    <3>2. /\ table = Empty /\ otAddrs \in Seq(Addrs) /\ sAddrAssigned \in SUBSET (1 .. Slots)
          /\ otUp \in BOOLEAN
      BY <3>1 DEF AddrInit
    <3>3. \A i \in 1 .. Slots : table[i].state = "invalid"
      BY <2>1, <3>2
    <3>4. table \in ThreadTable
      BY <2>1, <3>2
    <3> QED BY <2>0, <3>2, <3>3, <3>4 DEF ThreadInv
  <2>3. InfraInv
    <3>1. PICK l \in LinkLocal : infra = [Empty EXCEPT ![1] = [addr |-> l, state |-> "preferred"]]
      BY DEF AddrInit
    <3>2. infra \in InfraTable
      BY <3>1, <2>0, <2>1 DEF InfraTable
    <3>3. infra[1] = [addr |-> l, state |-> "preferred"] /\ \A i \in 1 .. Slots : i # 1 => infra[i].state = "invalid"
      BY <3>1, <2>0, <2>1 DEF InfraTable
    <3> QED BY <3>2, <3>3, <2>0, AddrAssumption DEF InfraInv
  <2> QED BY <2>2, <2>3
<1>2. ThreadInv /\ InfraInv /\ [AddrNext]_naVars => (ThreadInv /\ InfraInv)'
  BY ThreadIfStep, InfraIfStep DEF AddrNext, naVars, threadIfVars, infraIfVars
<1>3. ThreadInv /\ InfraInv => NoStaleAddress
  <2> SUFFICES ASSUME ThreadInv, InfraInv PROVE NoStaleAddress
    OBVIOUS
  <2>1. \A i \in 1 .. Slots : table[i].state # "invalid" <=> table[i].state = "valid"
    BY DEF ThreadInv, ThreadTable
  <2>2. \A a \in Prefixed : otPlatInfraIfHasAddress(a) => a \in askedOf
    BY DEF InfraInv, otPlatInfraIfHasAddress, Found, Match
  <2>3. \A x : (\E k \in DOMAIN otAddrs : otAddrs[k] = x) => Contains(otAddrs, x)
    BY DEF ThreadInv, Contains
  <2> QED BY <2>1, <2>2, <2>3 DEF NoStaleAddress, ThreadInv
<1> QED BY <1>1, <1>2, <1>3, PTL DEF AddrSpec

-----------------------------------------------------------------------------
(* The parts side by side.                                                 *)

\* A step of the system is a step of every part, or leaves it alone.
LEMMA EachPartSteps ==
  ASSUME [NetworkNext]_networkVars
  PROVE  /\ [QueryNext]_queryVars /\ [ContextNext]_contextVars /\ [ServiceNext]_serviceVars
         /\ [TaskNext]_taskVars /\ [SleepNext]_sleepVars /\ [BridgeNext]_lbVars
         /\ [UdpNext]_udVars /\ [ListenersNext]_blVars /\ [ManagerNext]_bmVars
         /\ [IperfNext]_iperfVars /\ [AddrNext]_naVars
BY DEF AddrNext, naVars, threadIfVars, infraIfVars, NetworkNext, networkVars, IperfPart, Queries, Contexts, Services, NcpTaskPart,
       NcpSleepPart, BridgePart, ThreadIfPart, InfraIfPart, UdpPart, ListenersPart, ManagerPart

\* What the co-processor and its host share is kept straight, for any number
\* of contexts, messages, services and chunks and any length of the queues,
\* whatever the host waits for.
THEOREM CoProcessorSound == NetworkSpec => []NcpSound
<1>1. NetworkInit => ContextInit /\ ServiceInit /\ TaskInit /\ SleepInit
  BY DEF NetworkInit
<1>2. [NetworkNext]_networkVars =>
        /\ [ContextNext]_contextVars /\ [ServiceNext]_serviceVars
        /\ [TaskNext]_taskVars /\ [SleepNext]_sleepVars
  BY EachPartSteps
<1>3. /\ (EventsReachOwner /\ MessagesTracked) /\ ListedAllocated
      /\ (NoneStrandedUnmerged /\ ChunksKept) /\ (SleepConfirmed /\ TokenMatchesHandshake)
      => NcpSound
  BY DEF NcpSound
<1> QED BY <1>1, <1>2, <1>3, ContextsKept, ServicesAllocated, TaskSafe,
           SleepSafe, PTL DEF NetworkSpec, ContextSpec, ServiceSpec

\* The same in the system: build "br", which takes the two mutexes in one order.
THEOREM SystemNeverStuck == NetworkSpec => []BrNeverStuck
<1>1. NetworkInit => BridgeInit
  BY DEF NetworkInit
<1>2. [NetworkNext]_networkVars => [BridgeNext]_lbVars
  BY EachPartSteps
<1> QED BY <1>1, <1>2, BridgeNeverStuck, PTL DEF NetworkSpec, BridgeSpec

\* The border router's sockets, with the exceptions SocketsSound names, for any
\* sizes of the pool, the queues and the set of messages.
THEOREM SystemSocketsSound == NetworkSpec => []SocketsSound
<1>1. NetworkInit => UdpInit /\ ListenersInit /\ IperfInit
  BY DEF NetworkInit
<1>2. [NetworkNext]_networkVars =>
        [UdpNext]_udVars /\ [ListenersNext]_blVars /\ [IperfNext]_iperfVars
  BY EachPartSteps
<1>3. (TransactionsOwnPcbs /\ MessagesFreed) /\ FreedOnce /\ AbortReachesAll => SocketsSound
  BY DEF SocketsSound
<1> QED BY <1>1, <1>2, <1>3, TransactionsOwn, ListenersFreeOnce, IperfAbortReaches, PTL
        DEF NetworkSpec, UdpSpec, ListenersSpec, IperfSpec

\* The border router follows its link and forwards only what may cross, for any
\* number of groups and any size of the filter.
THEOREM SystemRouterSound == NetworkSpec => []RouterSound
<1>1. NetworkInit => ManagerInit
  BY DEF NetworkInit
<1>2. [NetworkNext]_networkVars => [ManagerNext]_bmVars
  BY EachPartSteps
<1>3. OtFollowsLink /\ OnlyLegalForwarded => RouterSound
  BY DEF RouterSound
<1> QED BY <1>1, <1>2, <1>3, ManagerFollowsLink, ManagerForwardsLegal, PTL
        DEF NetworkSpec, ManagerSpec

\* The addresses of both interfaces follow OpenThread, for any number of slots
\* and any sets of addresses.
THEOREM SystemAddressesFollow == NetworkSpec => []NoStaleAddress
<1>1. NetworkInit => AddrInit
  BY DEF NetworkInit
<1>2. [NetworkNext]_networkVars => [AddrNext]_naVars
  BY EachPartSteps
<1> QED BY <1>1, <1>2, AddressesFollow, PTL DEF NetworkSpec, AddrSpec
=============================================================================
