---------------------------- MODULE NcpContexts -----------------------------
(***************************************************************************)
(* What ncp_glue_matter.c remembers of the host between two calls: the     *)
(* table that translates the 32 bit addresses of the co-processor into the *)
(* 64 bit addresses of the host (addr_mapping_array), and the context      *)
(* under which the UDP callback was registered (ptr_eventid_array).  For a *)
(* callback, the handler draws a context with rand(), gives it to          *)
(* OpenThread and maps it to the context of the host; when OpenThread      *)
(* calls back, the context is translated and sent to the host.             *)
(*                                                                         *)
(* A call that OpenThread refuses changes nothing here.  Two draws of      *)
(* rand() are taken to differ from each other and from every address in    *)
(* the table.  The host opens the one socket only when it is closed.       *)
(***************************************************************************)
EXTENDS Naturals, Sequences, FiniteSets, FiniteSetsExt

CONSTANTS
  HostCtx,        \* contexts of the host
  DeviceCtx,      \* what rand() may draw
  Msg,            \* addresses of OpenThread messages
  MapLen,         \* MAX_32_TO_64_ARRAY_LEN
  StateHandlers,  \* callbacks OpenThread keeps for state changes
  MaxAsked,       \* bound: callbacks outstanding at once
  MaxKept,        \* bound: calls of otThreadDiscover and otIp6SetReceiveCallback
  MaxInstances,   \* instance records in a DNS browse response
  Sock,           \* the address of device_mSocket
  NoHost          \* the 64 bit address 0

ASSUME NcpContextsAssumption ==
  /\ DeviceCtx \subseteq Nat
  /\ MapLen \in Nat /\ StateHandlers \in Nat /\ MaxKept \in Nat /\ MaxInstances \in Nat
  /\ NoHost \notin HostCtx /\ Sock \notin Msg
  /\ ({Sock} \cup Msg) \cap DeviceCtx = {}

VARIABLES
  addrMap,     \* addr_mapping_array up to total_32_to_64_values
  udpCtx,      \* ptr_eventid_array: the registered contexts, by event
  asked,       \* the callbacks OpenThread holds
  msgs,        \* messages the host has allocated and not yet given away
  sending,     \* messages OpenThread owns
  keptCalls,   \* history: calls whose mapping nothing removes
  event,       \* the last event: whose it is and what the host was told
  stopped      \* which assertion has stopped the program

contextVars == <<addrMap, udpCtx, asked, msgs, sending, keptCalls, event, stopped>>

NoEvent == [for |-> NoHost, told |-> NoHost]

ContextInit ==
  /\ addrMap = <<>> /\ udpCtx = {} /\ asked = {} /\ msgs = {} /\ sending = {}
  /\ keptCalls = 0 /\ event = NoEvent /\ stopped = "no"

-----------------------------------------------------------------------------
(* The tables.                                                             *)

Mapped(a32, a64) == [addr32 |-> a32, addr64 |-> a64]

Places(t, a32) == {i \in 1 .. Len(t) : t[i].addr32 = a32}

map_32_to_64_addr(t, a32, a64) ==
  IF \E i \in 1 .. Len(t) : t[i] = Mapped(a32, a64) THEN t ELSE Append(t, Mapped(a32, a64))

get_64_mapped_addr(t, a32) ==
  IF Places(t, a32) = {} THEN NoHost ELSE t[Min(Places(t, a32))].addr64

\* The first entry of the address is overwritten by the last entry.
remove_64_mapped_addr(t, a32) ==
  IF Places(t, a32) = {}
  THEN t
  ELSE SubSeq([t EXCEPT ![Min(Places(t, a32))] = t[Len(t)]], 1, Len(t) - 1)

\* An event is registered only once; the array of 13 never fills.
register_ptr_eventid(e, c) ==
  IF \E r \in udpCtx : r.event = e THEN udpCtx ELSE udpCtx \cup {[event |-> e, ptr |-> c]}

get_ptr_from_eventid(e) == (CHOOSE r \in udpCtx : r.event = e).ptr

remove_ptr_eventid(e) == {r \in udpCtx : r.event # e}

\* The table becomes t, unless the assertion of map_32_to_64_addr fails.
Store(t) ==
  \/ /\ Len(t) <= MapLen
     /\ addrMap' = t
     /\ UNCHANGED stopped
  \/ /\ Len(t) > MapLen
     /\ stopped' = "map full"
     /\ UNCHANGED addrMap

-----------------------------------------------------------------------------
(* Registering callbacks.                                                  *)

Used == {addrMap[i].addr32 : i \in 1 .. Len(addrMap)} \cup {r.ptr : r \in udpCtx}

\* tempaContext: which unused number rand() draws makes no difference.
Drawn == Min(DeviceCtx \ Used)

Asking(kind) == {a \in asked : a.kind = kind}

Callback(kind, h) == [kind |-> kind, ctx |-> Drawn, host |-> h]

\* OpenThread accepts the callback, its context is drawn and mapped.
Register(kind, h) ==
  /\ DeviceCtx \ Used # {} /\ Cardinality(asked) < MaxAsked
  /\ asked' = asked \cup {Callback(kind, h)}
  /\ Store(map_32_to_64_addr(addrMap, Drawn, h))
  /\ UNCHANGED <<msgs, sending, event>>

process_otSetStateChangedCallback(h) ==
  /\ Cardinality(Asking("state")) < StateHandlers
  /\ Register("state", h)
  /\ udpCtx' = register_ptr_eventid("state", Drawn)
  /\ UNCHANGED keptCalls

\* OpenThread runs one discovery at a time.
process_otThreadDiscover(h) ==
  /\ Asking("discover") = {} /\ keptCalls < MaxKept
  /\ Register("discover", h)
  /\ udpCtx' = register_ptr_eventid("discover", Drawn)
  /\ keptCalls' = keptCalls + 1

process_otUdpOpen(h) ==
  /\ Asking("udp") = {}
  /\ DeviceCtx \ Used # {} /\ Cardinality(asked) < MaxAsked
  /\ asked' = asked \cup {Callback("udp", h)}
  /\ udpCtx' = register_ptr_eventid("udp", Drawn)
  /\ Store(map_32_to_64_addr(map_32_to_64_addr(addrMap, Drawn, h), Sock, h))
  /\ UNCHANGED <<msgs, sending, event, keptCalls>>

DnsQuery(kind, h) == Register(kind, h) /\ UNCHANGED <<udpCtx, keptCalls>>

process_otDnsClientBrowse(h) == DnsQuery("browse", h)
process_otDnsClientResolveService(h) == DnsQuery("service", h)
process_otDnsClientResolveAddress(h) == DnsQuery("address", h)

\* The new callback replaces the old one; the mapping of the old one stays.
process_otIp6SetReceiveCallback(h) ==
  /\ DeviceCtx \ Used # {} /\ keptCalls < MaxKept /\ Cardinality(asked) < MaxAsked
  /\ asked' = (asked \ Asking("ip6")) \cup {Callback("ip6", h)}
  /\ Store(map_32_to_64_addr(addrMap, Drawn, h))
  /\ keptCalls' = keptCalls + 1
  /\ UNCHANGED <<udpCtx, msgs, sending, event>>

process_otudpClose ==
  \E a \in Asking("udp") :
    /\ asked' = asked \ {a}
    /\ addrMap' = remove_64_mapped_addr(remove_64_mapped_addr(addrMap, Sock), get_ptr_from_eventid("udp"))
    /\ udpCtx' = remove_ptr_eventid("udp")
    /\ UNCHANGED <<msgs, sending, keptCalls, event, stopped>>

-----------------------------------------------------------------------------
(* Callbacks from OpenThread: each sends an event with the host's context. *)

Tell(a) == event' = [for |-> a.host, told |-> get_64_mapped_addr(addrMap, a.ctx)]

processStateChange ==
  \E a \in Asking("state") : Tell(a) /\ UNCHANGED <<addrMap, udpCtx, asked, msgs, sending, keptCalls, stopped>>

\* After the last result OpenThread drops the callback; the mapping stays.
HandleActiveScanResult(last) ==
  \E a \in Asking("discover") :
    /\ Tell(a)
    /\ asked' = IF last THEN asked \ {a} ELSE asked
    /\ UNCHANGED <<addrMap, udpCtx, msgs, sending, keptCalls, stopped>>

HandleUdpReceive ==
  \E a \in Asking("udp") : Tell(a) /\ UNCHANGED <<addrMap, udpCtx, asked, msgs, sending, keptCalls, stopped>>

\* The message belongs to the callback, which frees it.
ncp_otIp6Receive_cb ==
  \E a \in Asking("ip6") : Tell(a) /\ UNCHANGED <<addrMap, udpCtx, asked, msgs, sending, keptCalls, stopped>>

\* Mutant: the mapping is removed before it is used.
AnswerRemovesFirst(a) ==
  /\ event' = [for |-> a.host, told |-> get_64_mapped_addr(remove_64_mapped_addr(addrMap, a.ctx), a.ctx)]
  /\ asked' = asked \ {a}
  /\ addrMap' = remove_64_mapped_addr(addrMap, a.ctx)
  /\ UNCHANGED <<udpCtx, msgs, sending, keptCalls, stopped>>

\* The one response to a DNS query: the mapping goes with it.
DnsAnswer(a) ==
  /\ Tell(a)
  /\ asked' = asked \ {a}
  /\ addrMap' = remove_64_mapped_addr(addrMap, a.ctx)
  /\ UNCHANGED <<udpCtx, msgs, sending, keptCalls, stopped>>

\* The loop reads the instance records until there is none; a second one
\* fails the assertion that follows it, before the mapping is removed.
ncp_OnDnsBrowseResult ==
  \E a \in Asking("browse"), records \in 0 .. MaxInstances :
    \/ records <= 1 /\ DnsAnswer(a)
    \/ /\ records > 1
       /\ stopped' = "instances"
       /\ asked' = asked \ {a}
       /\ UNCHANGED <<addrMap, udpCtx, msgs, sending, keptCalls, event>>

ncp_otDnsService_cb == \E a \in Asking("service") : DnsAnswer(a)
ncp_otDnsAddress_cb == \E a \in Asking("address") : DnsAnswer(a)

-----------------------------------------------------------------------------
(* Messages, mapped to 0 while the host owns them.                         *)

NewMessage ==
  \E m \in Msg \ (msgs \cup sending) :
    /\ msgs' = msgs \cup {m}
    /\ Store(map_32_to_64_addr(addrMap, m, NoHost))
    /\ UNCHANGED <<udpCtx, asked, sending, keptCalls, event>>

process_otUdpNewMessage == NewMessage
process_otIp6NewMessage == NewMessage

\* Mutant: the mapping of a sent message is left.
SendKeepsMapping(m) ==
  /\ m \in msgs
  /\ msgs' = msgs \ {m} /\ sending' = sending \cup {m}
  /\ UNCHANGED <<addrMap, udpCtx, asked, keptCalls, event, stopped>>

\* Sent: OpenThread owns the message.  Refused, it stays with the host.
process_otUdpSend(m) ==
  /\ m \in msgs
  /\ msgs' = msgs \ {m} /\ sending' = sending \cup {m}
  /\ addrMap' = remove_64_mapped_addr(addrMap, m)
  /\ UNCHANGED <<udpCtx, asked, keptCalls, event, stopped>>

\* OpenThread takes the message, also when it refuses to send it.
process_otIp6Send(m) ==
  /\ m \in msgs
  /\ msgs' = msgs \ {m}
  /\ sending' \in {sending, sending \cup {m}}
  /\ addrMap' = remove_64_mapped_addr(addrMap, m)
  /\ UNCHANGED <<udpCtx, asked, keptCalls, event, stopped>>

process_otMessageFree(m) ==
  /\ m \in msgs
  /\ msgs' = msgs \ {m}
  /\ addrMap' = remove_64_mapped_addr(addrMap, m)
  /\ UNCHANGED <<udpCtx, asked, sending, keptCalls, event, stopped>>

\* OpenThread has transmitted a message and reuses its buffer.
MessageSent ==
  \E m \in sending :
    /\ sending' = sending \ {m}
    /\ UNCHANGED <<addrMap, udpCtx, asked, msgs, keptCalls, event, stopped>>

-----------------------------------------------------------------------------
RegisterNext ==
  \E h \in HostCtx :
    \/ process_otSetStateChangedCallback(h)
    \/ process_otThreadDiscover(h)
    \/ process_otUdpOpen(h)
    \/ process_otDnsClientBrowse(h)
    \/ process_otDnsClientResolveService(h)
    \/ process_otDnsClientResolveAddress(h)
    \/ process_otIp6SetReceiveCallback(h)

CallbackNext ==
  \/ processStateChange
  \/ \E last \in BOOLEAN : HandleActiveScanResult(last)
  \/ HandleUdpReceive
  \/ ncp_otIp6Receive_cb
  \/ ncp_OnDnsBrowseResult
  \/ ncp_otDnsService_cb
  \/ ncp_otDnsAddress_cb

MessageNext ==
  \/ process_otUdpNewMessage
  \/ process_otIp6NewMessage
  \/ \E m \in Msg : process_otUdpSend(m) \/ process_otIp6Send(m) \/ process_otMessageFree(m)
  \/ MessageSent

\* After a failed assertion the program stays where it is.
Halted == stopped # "no" /\ UNCHANGED contextVars

ContextNext ==
  \/ stopped = "no" /\ (RegisterNext \/ process_otudpClose \/ CallbackNext \/ MessageNext)
  \/ Halted

ContextSpec == ContextInit /\ [][ContextNext]_contextVars

-----------------------------------------------------------------------------
\* Every event reaches the callback it was asked for: the host context it
\* carries is the one given when the callback was registered, whatever was
\* mapped and removed between the two.
EventsReachOwner == event.told = event.for

\* The table holds a message exactly while the host owns it, once, so an
\* address that OpenThread reuses never meets an old entry.
MessagesTracked ==
  stopped = "no" =>
    /\ {m \in Msg : Places(addrMap, m) # {}} = msgs
    /\ \A m \in msgs : Cardinality(Places(addrMap, m)) = 1

-----------------------------------------------------------------------------
(***************************************************************************)
(* The SRP services a Matter host registers through ncp_glue_matter.c.     *)
(* Every service lives in an entry of OpenThread's pool of service buffers *)
(* (srp_client_buffers), which the co-processor allocates and frees; the   *)
(* SRP client links the entries into its list and unlinks them when the    *)
(* server has confirmed their removal.  The host knows entries by their    *)
(* address, and learns of removals from events that may be on their way    *)
(* while it calls.                                                         *)
(***************************************************************************)

CONSTANT Entry   \* the entries of the pool

VARIABLES
  allocated,    \* entries taken from the pool
  listed,       \* the entries in the list of the SRP client
  removing,     \* those of them whose removal is on its way
  heard,        \* has the host set the callback?
  hostEntries,  \* entries the host has an address of
  removedEvent  \* entries reported removed to the host, events not yet read

serviceVars == <<allocated, listed, removing, heard, hostEntries, removedEvent>>

ServiceInit ==
  /\ allocated = {} /\ listed = {} /\ removing = {} /\ heard = FALSE
  /\ hostEntries = {} /\ removedEvent = {}

\* Registered: the reply carries the address of the entry.
AddServiceDone(e) ==
  /\ e \notin allocated
  /\ allocated' = allocated \cup {e} /\ listed' = listed \cup {e}
  /\ hostEntries' = hostEntries \cup {e} /\ removedEvent' = removedEvent \ {e}
  /\ UNCHANGED <<removing, heard>>

\* More sub-type labels than the entry holds: the handler leaves with
\* OT_ERROR_NO_BUFS, past the call that would free the entry.
AddServiceTooManyLabels(e) ==
  /\ e \notin allocated
  /\ allocated' = allocated \cup {e}
  /\ UNCHANGED <<listed, removing, heard, hostEntries, removedEvent>>

\* No free entry, or the client refuses the service and its entry is freed.
AddServiceRefused == UNCHANGED serviceVars

process_otSrpClientAddService ==
  \/ \E e \in Entry : AddServiceDone(e) \/ AddServiceTooManyLabels(e)
  \/ AddServiceRefused

\* Mutant: the entry is freed as soon as its removal is accepted.
RemoveFreesAtOnce(e) ==
  /\ e \in hostEntries \cap listed
  /\ removing' = removing \cup {e} /\ allocated' = allocated \ {e}
  /\ UNCHANGED <<listed, heard, hostEntries, removedEvent>>

\* The client accepts the removal of a service that it has in its list.
process_otSrpClientRemoveService(e) ==
  /\ e \in hostEntries \cap listed
  /\ removing' = removing \cup {e}
  /\ UNCHANGED <<allocated, listed, heard, hostEntries, removedEvent>>

\* Unlinked at once and freed; a service that is not listed is refused.
process_otSrpClientClearService(e) ==
  /\ e \in hostEntries \cap listed
  /\ listed' = listed \ {e} /\ removing' = removing \ {e} /\ allocated' = allocated \ {e}
  /\ hostEntries' = hostEntries \ {e}
  /\ UNCHANGED <<heard, removedEvent>>

process_otSrpClientRemoveHostAndServices ==
  /\ removing # listed
  /\ removing' = listed
  /\ UNCHANGED <<allocated, listed, heard, hostEntries, removedEvent>>

process_otSrpClientSetCallback ==
  /\ ~heard /\ heard' = TRUE
  /\ UNCHANGED <<allocated, listed, removing, hostEntries, removedEvent>>

\* The server has confirmed a removal: the client unlinks the entries.  The
\* callback frees them and reports them; without a callback nobody does.
ncp_SrpClientCallback(gone) ==
  /\ gone # {}
  /\ listed' = listed \ gone /\ removing' = removing \ gone
  /\ \/ /\ heard
        /\ allocated' = allocated \ gone
        /\ removedEvent' = removedEvent \cup gone
     \/ /\ ~heard
        /\ UNCHANGED <<allocated, removedEvent>>
  /\ UNCHANGED <<heard, hostEntries>>

\* ncp_OnSrpClientStateChange only reports the server; the host reads the
\* events in its own time.
HostReadsRemoved ==
  /\ removedEvent # {}
  /\ hostEntries' = hostEntries \ removedEvent
  /\ removedEvent' = {}
  /\ UNCHANGED <<allocated, listed, removing, heard>>

ServiceNext ==
  \/ process_otSrpClientAddService
  \/ \E e \in Entry : process_otSrpClientRemoveService(e) \/ process_otSrpClientClearService(e)
  \/ process_otSrpClientRemoveHostAndServices
  \/ process_otSrpClientSetCallback
  \/ \E gone \in SUBSET removing : ncp_SrpClientCallback(gone)
  \/ HostReadsRemoved

ServiceSpec == ServiceInit /\ [][ServiceNext]_serviceVars

-----------------------------------------------------------------------------
\* The SRP client never holds a freed entry: whatever the order of removals,
\* confirmations and calls with addresses the host learnt earlier, an entry
\* in the list is allocated, so no entry is freed twice or written to by two
\* services.
ListedAllocated == listed \subseteq allocated /\ removing \subseteq listed
=============================================================================
