----------------------------- MODULE BrSockets ------------------------------
(***************************************************************************)
(* The UDP sockets of the border router (src/common/br/udp_plat.c) and two *)
(* of their users: the DNS upstream resolver (dns_upstream_resolver.c) and *)
(* the Thread radio encapsulation link (trel_plat.c).                      *)
(*                                                                         *)
(* A socket's mHandle is an lwIP control block; lwIP's pool reuses the     *)
(* blocks, so that a handle kept after udp_remove may be another socket's. *)
(* A send is posted to lwIP's thread with the block in its context; a      *)
(* datagram is received there and posted to the OpenThread task, which     *)
(* hands it to the socket's context as it is by then.                      *)
(* sTransactions[i] is [ctx, handle, port], trel [on, handle]; pcbs[p] is  *)
(* the socket block p is for and ports[p] the block's local port, a new    *)
(* one for every transaction, 0 for TREL.  udpMsgs counts OpenThread's        *)
(* messages that are allocated, twice (history) those freed twice, rebound *)
(* (history) says that a late send has changed another socket's port.      *)
(***************************************************************************)
EXTENDS Integers, Sequences, FiniteSets

CONSTANTS Query,     \* OpenThread's upstream queries
          Txns,      \* MAX_CONCURRENT_TRANSACTIONS
          Pool,      \* control blocks lwIP has
          DnsMax,    \* DNS_MAX_SERVERS
          UdpRuns,   \* queries asked and TREL packets sent, at most
          NoQuery    \* mContext of a transaction that is free

ASSUME BrSocketsAssumption ==
  /\ Txns \in Nat /\ Pool \in Nat /\ DnsMax \in Nat /\ UdpRuns \in Nat
  /\ NoQuery \notin Query

VARIABLES sTransactions, trel, pcbs, ports, dns, servers, sends, wire, inbox,
          udpMsgs, twice, rebound, ran
udVars == <<sTransactions, trel, pcbs, ports, dns, servers, sends, wire, inbox,
            udpMsgs, twice, rebound, ran>>
socketVars == <<sTransactions, trel, pcbs, ports>>
messageVars == <<sends, udpMsgs, twice>>

NoSocket == [ctx |-> NoQuery, handle |-> 0, port |-> 0]
FreeBlocks == [p \in 1..Pool |-> 0]   \* 0: in lwIP's pool
Trel == Txns + 1
Gone == Txns + 2                      \* missing from lwIP's pool

UdpInit ==
  /\ sTransactions = [i \in 1..Txns |-> NoSocket]
  /\ trel = [on |-> FALSE, handle |-> 0]
  /\ pcbs = FreeBlocks /\ ports = FreeBlocks
  /\ dns \in [1..DnsMax -> BOOLEAN]           \* the servers lwIP knows
  /\ servers = [list |-> [i \in 1..DnsMax |-> FALSE], count |-> 0]
  /\ sends = <<>> /\ wire = {} /\ inbox = <<>>
  /\ udpMsgs = 0 /\ twice = 0 /\ rebound = FALSE /\ ran = 0

----------------------------------------------------------------------------
Free == {p \in 1..Pool : pcbs[p] = 0}
NewBlock == CHOOSE p \in Free : \A q \in Free : p <= q

\* udp_remove: nothing is delivered to the block any more.
Removed(p) == [pcbs EXCEPT ![p] = 0]

\* otPlatUdpClose.
Closed(handle) == IF handle = 0 THEN pcbs ELSE Removed(handle)

\* The context otPlatUdpSend posts: the block, and the socket's port.
Context(handle, port, to) == [pcb |-> handle, port |-> port, to |-> to]

----------------------------------------------------------------------------
\* UpdateDnsServerList: the servers that are set keep their places, and are
\* counted.
otPlatDnsIsUpstreamQueryAvailable ==
  /\ servers' = [list |-> [i \in 1..DnsMax |-> dns[i] \/ servers.list[i]],
                 count |-> Cardinality({i \in 1..DnsMax : dns[i]})]
  /\ UNCHANGED <<socketVars, dns, messageVars, wire, inbox, rebound, ran>>

Holds(q) == {i \in 1..Txns : sTransactions[i].ctx = q}
Lowest(set) == CHOOSE i \in set : \A j \in set : i <= j

\* The slot CreateTransaction stops at: the query's own, or a free one.
StopsAt(q) == Holds(q) \cup Holds(NoQuery)

\* Mutant: the block of a socket that cannot be bound is not removed.
BindFailsKept(i) ==
  /\ pcbs' = [pcbs EXCEPT ![NewBlock] = i] /\ UNCHANGED ports
  /\ sTransactions' = [sTransactions EXCEPT ![i].handle = NewBlock]

\* CreateUdpSocket fails at the bind: the block is removed, mHandle stays.
BindFails(i) ==
  /\ sTransactions' = [sTransactions EXCEPT ![i].handle = NewBlock]
  /\ UNCHANGED <<pcbs, ports>>

\* Mutant: a message that is refused is not freed by the sender.
RefusedKept ==
  \E k \in 0..servers.count : \E posted \in SUBSET (1..k) :
    /\ sends' = sends \o [n \in 1..Cardinality(posted) |-> Context(NewBlock, ran + 1, 1)]
    /\ udpMsgs' = udpMsgs + (IF k > 0 /\ k \notin posted THEN k - 1 ELSE k)
    /\ UNCHANGED twice

\* The loop of SendQuery: one message to each server of the list, the first
\* count of them.  A send that is refused (no memory for the context, the
\* mailbox full) frees the message, and the loop goes on; without memory for a
\* message, or for its payload, the loop ends at server k.  At the exit the
\* last message is freed when the last send failed: a second time.
SendsToAll ==
  \E k \in 0..servers.count : \E posted \in SUBSET (1..k) :
    LET again == IF k = servers.count /\ k > 0 /\ k \notin posted THEN 1 ELSE 0 IN
    /\ sends' = sends \o [n \in 1..Cardinality(posted) |->
                   Context(NewBlock, ran + 1,
                           Lowest({s \in posted : Cardinality({r \in posted : r < s}) = n - 1}))]
    /\ udpMsgs' = udpMsgs + Cardinality(posted) - again
    /\ twice' = twice + again

\* SendQuery with a socket.
Sent(i, q) ==
  /\ sTransactions' = [sTransactions EXCEPT ![i] = [ctx |-> q, handle |-> NewBlock, port |-> ran + 1]]
  /\ pcbs' = [pcbs EXCEPT ![NewBlock] = i]
  /\ ports' = [ports EXCEPT ![NewBlock] = ran + 1]
  /\ SendsToAll

CanCreate(q) == StopsAt(q) # {} /\ Free # {} /\ sTransactions[Lowest(StopsAt(q))].ctx = NoQuery

\* otPlatDnsStartUpstreamQuery: without a transaction nothing is sent.
otPlatDnsStartUpstreamQuery(q) ==
  /\ ran < UdpRuns /\ ran' = ran + 1
  /\ IF CanCreate(q)
     THEN LET i == Lowest(StopsAt(q)) IN Sent(i, q) \/ (BindFails(i) /\ UNCHANGED messageVars)
     ELSE UNCHANGED <<sTransactions, pcbs, ports, messageVars>>
  /\ UNCHANGED <<trel, dns, servers, wire, inbox, rebound>>

\* CloseTransaction: the first transaction with the context.
CloseTransaction(q) ==
  IF Holds(q) = {} THEN UNCHANGED <<sTransactions, pcbs>>
  ELSE LET i == Lowest(Holds(q)) IN
       /\ pcbs' = Closed(sTransactions[i].handle)
       /\ sTransactions' = [sTransactions EXCEPT ![i] = NoSocket]

otPlatDnsCancelUpstreamQuery(q) ==
  /\ Holds(q) # {}
  /\ CloseTransaction(q)
  /\ UNCHANGED <<trel, ports, dns, servers, messageVars, wire, inbox, rebound, ran>>

----------------------------------------------------------------------------
\* otPlatTrelEnable: a socket that cannot be bound is left open and disabled.
\* It asks for the port it had before.
otPlatTrelEnable ==
  /\ ~trel.on /\ ran < UdpRuns /\ ran' = ran + 1 /\ Free # {}
  /\ pcbs' = [pcbs EXCEPT ![NewBlock] = Trel] /\ ports' = [ports EXCEPT ![NewBlock] = 0]
  /\ trel' \in {[on |-> bound, handle |-> NewBlock] : bound \in BOOLEAN}
  /\ UNCHANGED <<sTransactions, dns, servers, messageVars, wire, inbox, rebound>>

otPlatTrelDisable ==
  /\ trel.on
  /\ pcbs' = Closed(trel.handle)
  /\ trel' = [on |-> FALSE, handle |-> 0]
  /\ UNCHANGED <<sTransactions, ports, dns, servers, messageVars, wire, inbox, rebound, ran>>

\* A message that cannot be sent is freed once, here or in otPlatUdpSend.
otPlatTrelSend ==
  /\ trel.on /\ ran < UdpRuns /\ ran' = ran + 1
  /\ \/ sends' = Append(sends, Context(trel.handle, 0, 0)) /\ udpMsgs' = udpMsgs + 1 /\ UNCHANGED twice
     \/ UNCHANGED messageVars
  /\ UNCHANGED <<socketVars, dns, servers, wire, inbox, rebound>>

----------------------------------------------------------------------------
\* UdpPlatLwipTaskCb, in lwIP's thread: the sender's port is written to the
\* block, the message is sent from it and freed.  The block may have been
\* removed meanwhile.  When it is another socket's by now, that socket has the
\* sender's port; when it is in lwIP's pool, the address written to it breaks
\* the chain of free blocks, and those behind it are gone.
UdpPlatLwipTaskCb ==
  /\ sends # <<>>
  /\ LET c == Head(sends) IN
     /\ sends' = Tail(sends) /\ udpMsgs' = udpMsgs - 1
     /\ wire' = wire \cup {c}
     /\ ports' = [ports EXCEPT ![c.pcb] = c.port]
     /\ rebound' = (rebound \/ ports[c.pcb] # c.port)
     /\ IF pcbs[c.pcb] = 0
        THEN \E behind \in SUBSET (Free \ {c.pcb}) :
               pcbs' = [p \in 1..Pool |-> IF p \in behind THEN Gone ELSE pcbs[p]]
        ELSE UNCHANGED pcbs
  /\ UNCHANGED <<sTransactions, trel, dns, servers, inbox, twice, ran>>

\* The sockets lwIP delivers a datagram for a port to.
ListenOn(port) == {pcbs[p] : p \in {r \in 1..Pool : pcbs[r] \in 1..Trel /\ ports[r] = port}}

\* A server, if there is one at the address, or a TREL peer, answers to the
\* port it was asked from; the network may lose the question or the answer.
\* DnsUpstreamResolverUdpReceive, UdpPlatLwipSockCb: posted to the OT task,
\* unless there is no memory for the context.
Answered(d) ==
  /\ d \in wire /\ wire' = wire \ {d}
  /\ d.to > 0 => dns[d.to]
  /\ \E socket \in ListenOn(d.port) : inbox' = Append(inbox, socket)
  /\ UNCHANGED <<socketVars, dns, servers, messageVars, rebound, ran>>

DatagramLost(d) ==
  /\ d \in wire /\ wire' = wire \ {d}
  /\ UNCHANGED <<socketVars, dns, servers, messageVars, inbox, rebound, ran>>

\* A datagram handed to a transaction that is closed by then has no query:
\* OpenThread is given a null query, and the device restarts.
Asserted ==
  /\ sTransactions' = [i \in 1..Txns |-> NoSocket]
  /\ trel' = [on |-> FALSE, handle |-> 0]
  /\ pcbs' = FreeBlocks /\ ports' = FreeBlocks
  /\ servers' = [list |-> [i \in 1..DnsMax |-> FALSE], count |-> 0]
  /\ sends' = <<>> /\ wire' = {} /\ inbox' = <<>>
  /\ udpMsgs' = 0 /\ twice' = 0 /\ rebound' = FALSE /\ ran' = UdpRuns
  /\ UNCHANGED dns

\* DnsUpstreamResolverProcessOtReceive, UdpPlatProcessOtReceive: the answer
\* goes to the context the socket has now.  There may be no message for it.
ProcessOtReceive ==
  /\ inbox # <<>>
  /\ LET s == Head(inbox) IN
     IF s # Trel /\ sTransactions[s].ctx = NoQuery THEN Asserted
     ELSE /\ inbox' = Tail(inbox)
          /\ IF s = Trel THEN UNCHANGED <<sTransactions, pcbs>> ELSE CloseTransaction(sTransactions[s].ctx)
          /\ UNCHANGED <<trel, ports, dns, servers, messageVars, wire, rebound, ran>>

NoMessage ==
  /\ inbox # <<>> /\ inbox' = Tail(inbox)
  /\ UNCHANGED <<socketVars, dns, servers, messageVars, wire, rebound, ran>>

UdpRests ==
  /\ ran = UdpRuns /\ sends = <<>> /\ wire = {} /\ inbox = <<>>
  /\ UNCHANGED udVars

UdpNext ==
  \/ otPlatDnsIsUpstreamQueryAvailable
  \/ \E q \in Query : otPlatDnsStartUpstreamQuery(q) \/ otPlatDnsCancelUpstreamQuery(q)
  \/ otPlatTrelEnable \/ otPlatTrelDisable \/ otPlatTrelSend
  \/ UdpPlatLwipTaskCb \/ ProcessOtReceive \/ NoMessage \/ UdpRests
  \/ \E d \in wire : Answered(d) \/ DatagramLost(d)

UdpSpec == UdpInit /\ [][UdpNext]_udVars

----------------------------------------------------------------------------
\* A transaction is open exactly while it has a query, and then the control
\* block in its handle is its own: no block is left behind by a socket that
\* could not be opened, by an answer or by a cancelled query, and closing a
\* transaction never removes the block of another socket, although the
\* handle of a socket that failed is not cleared.  The block listens on the
\* transaction's port, until a send that was posted for a block removed since
\* has written its own port to it (rebound).
TransactionsOwnPcbs ==
  \A i \in 1..Txns :
    /\ {p \in 1..Pool : pcbs[p] = i}
         = IF sTransactions[i].ctx = NoQuery THEN {} ELSE {sTransactions[i].handle}
    /\ sTransactions[i].ctx # NoQuery /\ ~rebound
         => ports[sTransactions[i].handle] = sTransactions[i].port

\* The messages of the DNS and TREL sockets that are allocated are those that
\* wait for lwIP's thread: none leaks, whatever fails on the way.  SendQuery
\* frees one twice for each query whose last send failed; no other path does.
MessagesFreed == udpMsgs + twice = Len(sends)

-----------------------------------------------------------------------------
(***************************************************************************)
(* The border router's listeners on the infrastructure link: mDNS          *)
(* (src/common/br/mdns_socket.c), the DHCPv6 prefix delegation client      *)
(* (dhcp6pd_socket.c) and neighbour discovery (infra_if.c); and what they  *)
(* pass between the OpenThread task and lwIP's thread.                     *)
(*                                                                         *)
(* Each has a control block in a global, used by its callback in lwIP's    *)
(* thread, and a flag that says whether OpenThread asked for it.  live is  *)
(* the set of listeners whose block lwIP knows, groups how often mDNS has  *)
(* joined its two multicast groups.  A message of OpenThread is freed by the   *)
(* callback, or at once when it cannot be posted; a packet of lwIP is      *)
(* freed in lwIP's thread after OpenThread has seen it.                    *)
(***************************************************************************)

CONSTANTS Listener,   \* a subset of {"mdns", "dhcp6", "nd"}
          MsgIds,     \* the messages OpenThread sends
          PktIds,     \* the packets lwIP receives
          Calls       \* times a listener is enabled or disabled, at most

VARIABLES on, live, groups, box, back, state, fresh, calls
blVars == <<on, live, groups, box, back, state, fresh, calls>>

Item == MsgIds \cup PktIds
LsEnabled(l) == l = "nd" \/ l \in on

ListenersInit ==
  /\ on = {} /\ live = Listener \cap {"nd"}
  /\ groups = [v6 |-> 0, v4 |-> 0]
  /\ box = <<>> /\ back = <<>>        \* lwIP's mailbox, the list of the OT task
  /\ state = [i \in Item |-> "new"]   \* new, held, freed or twice (freed again)
  /\ fresh = TRUE                     \* InfraIfDeInit has not been called
  /\ calls = 0

\* Freeing it a second time.
FreedItem(i) == [state EXCEPT ![i] = IF @ = "held" THEN "freed" ELSE "twice"]
Held(i) == [state EXCEPT ![i] = "held"]

----------------------------------------------------------------------------
Joined(g) == [groups EXCEPT ![g] = @ + 1]
LeftAll == [g \in DOMAIN groups |-> IF groups[g] = 0 THEN 0 ELSE groups[g] - 1]

\* SocketInit of dhcp6pd_socket.c: a block is made and bound, or it asserts.
Dhcp6Starts ==
  /\ "dhcp6" \in Listener \ on /\ calls < Calls /\ calls' = calls + 1
  /\ on' = on \cup {"dhcp6"} /\ live' = live \cup {"dhcp6"}
  /\ UNCHANGED <<groups, box, back, state, fresh>>

\* SocketInit of mdns_socket.c: the groups are joined too.  The block is
\* removed when the bind or a join fails; a group joined before stays joined.
MdnsStarts ==
  /\ "mdns" \in Listener \ on /\ calls < Calls /\ calls' = calls + 1
  /\ on' = on \cup {"mdns"} /\ live' = live \cup {"mdns"}
  /\ groups' = [v6 |-> groups.v6 + 1, v4 |-> groups.v4 + 1]
  /\ UNCHANGED <<box, back, state, fresh>>

MdnsStartFails ==
  /\ "mdns" \in Listener \ on /\ calls < Calls /\ calls' = calls + 1
  /\ groups' \in {groups, Joined("v6")}
  /\ UNCHANGED <<on, live, box, back, state, fresh>>

\* Mutant: the flag is cleared and the block is kept.
ListenerStopsEarly(l) ==
  /\ l \in on /\ calls < Calls /\ calls' = calls + 1
  /\ on' = on \ {l}
  /\ UNCHANGED <<live, groups, box, back, state, fresh>>

\* SocketDeInit: groups left, block removed, flag cleared.
ListenerStops(l) ==
  /\ l \in on /\ calls < Calls /\ calls' = calls + 1
  /\ on' = on \ {l} /\ live' = live \ {l}
  /\ groups' = IF l = "mdns" THEN LeftAll ELSE groups
  /\ UNCHANGED <<box, back, state, fresh>>

\* InfraIfDeInit.
InfraIfDeInit ==
  /\ "nd" \in live
  /\ fresh' = FALSE /\ live' = live \ {"nd"}
  /\ UNCHANGED <<on, groups, box, back, state, calls>>

----------------------------------------------------------------------------
\* SendMulticast, SendUnicast, otPlatInfraIfDhcp6PdClientSend,
\* otPlatInfraIfSendIcmp6Nd: refused while the listener is off; without
\* memory, or when the callback cannot be posted, freed by the caller.
ListenerSends(l, m) ==
  /\ state[m] = "new"
  /\ \/ LsEnabled(l) /\ box' = Append(box, [who |-> l, item |-> m]) /\ state' = Held(m)
     \/ state' = [state EXCEPT ![m] = "freed"] /\ UNCHANGED box
  /\ UNCHANGED <<on, live, groups, back, fresh, calls>>

\* Mutant: an exit of the callback that cannot copy the message keeps it.
LwipTaskCbKeeps ==
  /\ box # <<>> /\ box' = Tail(box)
  /\ state' \in {state, FreedItem(Head(box).item)}
  /\ UNCHANGED <<on, live, groups, back, fresh, calls>>

\* The callbacks in lwIP's thread: sent, if it can be copied, and freed.
ListenerTaskCb ==
  /\ box # <<>> /\ box' = Tail(box)
  /\ state' = FreedItem(Head(box).item)
  /\ UNCHANGED <<on, live, groups, back, fresh, calls>>

\* MdnsSocketReceive, Dhcp6PdSocketReceive, ReceiveIcmp6Message: posted to
\* the OT task, or freed when the listener is off or there is no memory.
\* lwIP calls them for a block it knows.
ListenerReceives(l, p) ==
  /\ l \in live /\ state[p] = "new"
  /\ \/ LsEnabled(l) /\ back' = Append(back, [who |-> l, item |-> p]) /\ state' = Held(p)
     \/ state' = [state EXCEPT ![p] = "freed"] /\ UNCHANGED back
  /\ UNCHANGED <<on, live, groups, box, fresh, calls>>

\* MdnsProcessOtReceive, Dhcp6PdProcessOtReceive, InfraIfProcessOtReceive in
\* the OT task: handed over if the listener is still on and there are buffers
\* enough, then freed.  After InfraIfDeInit the copy is not freed.
ListenerProcesses ==
  /\ back # <<>> /\ back' = Tail(back)
  /\ state' = IF Head(back).who = "nd" /\ ~fresh THEN state ELSE FreedItem(Head(back).item)
  /\ UNCHANGED <<on, live, groups, box, fresh, calls>>

ListenersNext ==
  \/ Dhcp6Starts \/ MdnsStarts \/ MdnsStartFails
  \/ \E l \in Listener : ListenerStops(l)
  \/ \E l \in Listener, m \in MsgIds : ListenerSends(l, m)
  \/ \E l \in Listener, p \in PktIds : ListenerReceives(l, p)
  \/ InfraIfDeInit \/ ListenerTaskCb \/ ListenerProcesses
  \/ (box = <<>> /\ back = <<>> /\ UNCHANGED blVars)

ListenersSpec == ListenersInit /\ [][ListenersNext]_blVars

----------------------------------------------------------------------------
\* What OpenThread sends and what lwIP receives is freed exactly once: it is
\* held exactly while a callback or the OT task still has to free it, on
\* every path through the senders and receivers, whether or not the listener
\* was stopped in the meantime.  The one exception is neighbour discovery
\* after InfraIfDeInit.  And a listener has a block exactly while it is
\* enabled, so that a stopped one receives nothing, and mDNS has its groups.
FreedOnce ==
  LET pending == {box[n].item : n \in 1..Len(box)} \cup {back[n].item : n \in 1..Len(back)} IN
  /\ \A i \in Item : state[i] # "twice"
  /\ fresh => \A i \in Item : state[i] = "held" <=> i \in pending
  /\ live \ {"nd"} = on
  /\ "mdns" \in on => groups.v6 > 0 /\ groups.v4 > 0
=============================================================================
