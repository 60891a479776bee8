------------------------------ MODULE BrManager ------------------------------
(***************************************************************************)
(* The border router's manager (src/common/br/br_rtos_manager.c), border   *)
(* agent (border_agent.c), multicast groups (lwip_mcast.c) and forwarding  *)
(* hooks (lwip_hooks.c).                                                   *)
(*                                                                         *)
(* lwIP tells the manager in its own thread that the infrastructure        *)
(* interface changed (BrNetifExtCb); the manager posts an event, which the *)
(* OpenThread task takes from the list and acts on.  ot is what OpenThread *)
(* has been told: the state of the link, whether the services run, whether *)
(* NAT64 translates, and the ephemeral key of the border agent.  mdnsAsked is *)
(* what BrInitMdnsHost asked lwIP's thread to report.  lastReport is history:   *)
(* whether the last report of the link was true when it was made and no    *)
(* change of the link went unreported since.  fault is the use of a null   *)
(* pointer the system has stopped at.                                      *)
(***************************************************************************)
EXTENDS Integers, Sequences, FiniteSets

CONSTANTS Group,       \* multicast groups Thread nodes listen to
          FilterSlots, \* MEMP_NUM_MLD6_GROUP
          Changes,     \* changes of the interface and of OpenThread, at most
          AnyGroup     \* content of a free slot of the filter

ASSUME BrManagerAssumption ==
  /\ FilterSlots \in Nat /\ AnyGroup \notin Group
  /\ Group \cap {"mesh", "omr", "other", "linkMc"} = {}

VARIABLES netif, sExternalNetifState, sBrIsInitialized, sNat64TranslatorEnable,
          evts, ot, agent, dropped, changes, mdnsAsked, lastReport, fault,
          filter, joined, listeners, failed
bmVars == <<netif, sExternalNetifState, sBrIsInitialized, sNat64TranslatorEnable, evts, ot, agent,
            dropped, changes, mdnsAsked, lastReport, fault, filter, joined, listeners, failed>>
eventVars == <<netif, sExternalNetifState, sBrIsInitialized, sNat64TranslatorEnable,
               evts, ot, agent, dropped, mdnsAsked, lastReport, fault>>
mdnsVars == <<mdnsAsked, lastReport, fault>>
mcastVars == <<filter, joined, listeners, failed>>

ManagerInit ==
  /\ netif \in [link : BOOLEAN, ip4 : {"none"}, watched : {FALSE}]
  /\ sExternalNetifState = FALSE /\ sBrIsInitialized = FALSE
  /\ sNat64TranslatorEnable = TRUE
  /\ evts = <<[type |-> "init"]>>            \* BrInitPlatform
  /\ ot = [infra |-> FALSE, services |-> FALSE, nat64 |-> FALSE]
  /\ agent = [init |-> FALSE, key |-> "stopped", active |-> FALSE]
  /\ dropped = FALSE /\ changes = 0
  /\ mdnsAsked = <<>> /\ lastReport = "nothing" /\ fault = "none"
  /\ filter = [i \in 1..FilterSlots |-> AnyGroup]
  /\ joined = {} /\ listeners = {} /\ failed = {}

Change == changes < Changes /\ changes' = changes + 1

----------------------------------------------------------------------------
(* BrNetifExtCb, in lwIP's thread. *)
LinkEvt(up) == [type |-> "link", up |-> up]
Ip6Evt == [type |-> "ip6"]

\* Translation needs an address and a gateway, and the user's flag as it is now.
Ip4Evt(ip4) ==
  [type |-> "ip4", cidr |-> ip4 = "routed", nat64 |-> ip4 = "routed" /\ sNat64TranslatorEnable]

\* Without memory for an event it is lost, and the rest of the report with it;
\* dropped remembers that.
PostEvents(new) ==
  \E k \in 0 .. Len(new) :
    evts' = evts \o SubSeq(new, 1, k) /\ dropped' = (dropped \/ k # Len(new))

\* The link changes.  The manager hears of it once it has registered.
LinkChanges ==
  /\ Change
  /\ netif' = [netif EXCEPT !.link = ~@]
  /\ IF netif.watched
     THEN /\ sExternalNetifState' = netif'.link /\ lastReport' = "truth"
          /\ PostEvents(<<LinkEvt(netif'.link)>>)
     ELSE lastReport' = "nothing" /\ UNCHANGED <<sExternalNetifState, evts, dropped>>
  /\ UNCHANGED <<sBrIsInitialized, sNat64TranslatorEnable, ot, agent, mdnsAsked, fault, mcastVars>>

\* BrInitMdnsHost, in the application's task: when the link is up lwIP's thread
\* is asked for a report, of the IPv4 address too if there is one now.  lwIP may
\* refuse; without memory the code writes through the null pointer.
BrInitMdnsHost ==
  /\ Change /\ netif.link
  /\ \/ mdnsAsked' = Append(mdnsAsked, [ip4 |-> netif.ip4 # "none"]) /\ UNCHANGED fault
     \/ UNCHANGED <<mdnsAsked, fault>>
     \/ fault' = "mdns" /\ UNCHANGED mdnsAsked
  /\ UNCHANGED <<netif, sExternalNetifState, sBrIsInitialized, sNat64TranslatorEnable,
                 evts, ot, agent, dropped, lastReport, mcastVars>>

\* BrMdnsHostInitLwipCb, later and in lwIP's thread: the link is up, it says,
\* whatever the link is by now.
BrMdnsHostInitLwipCb ==
  /\ mdnsAsked # <<>> /\ mdnsAsked' = Tail(mdnsAsked)
  /\ sExternalNetifState' = TRUE
  /\ lastReport' = IF netif.link THEN "truth" ELSE "late"
  /\ PostEvents(IF Head(mdnsAsked).ip4 THEN <<LinkEvt(TRUE), Ip6Evt, Ip4Evt(netif.ip4)>>
                                    ELSE <<LinkEvt(TRUE), Ip6Evt>>)
  /\ UNCHANGED <<netif, sBrIsInitialized, sNat64TranslatorEnable, ot, agent, changes, fault, mcastVars>>

Ip6Changes ==
  /\ Change /\ netif.watched /\ sExternalNetifState
  /\ PostEvents(<<Ip6Evt>>)
  /\ UNCHANGED <<netif, sExternalNetifState, sBrIsInitialized, sNat64TranslatorEnable, ot, agent,
                 mdnsVars, mcastVars>>

\* The IPv4 address changes, with or without a gateway.
Ip4Changes ==
  /\ Change
  /\ \E v \in {"none", "address", "routed"} \ {netif.ip4} : netif' = [netif EXCEPT !.ip4 = v]
  /\ IF netif.watched THEN PostEvents(<<Ip4Evt(netif'.ip4)>>) ELSE UNCHANGED <<evts, dropped>>
  /\ UNCHANGED <<sExternalNetifState, sBrIsInitialized, sNat64TranslatorEnable, ot, agent,
                 mdnsVars, mcastVars>>

----------------------------------------------------------------------------
(* The OpenThread task. *)

\* BorderAgentInit and BorderAgentDeInit; the agent knows the instance once it
\* has been initialised.
BorderAgentInit(a) == IF a.init THEN a ELSE [a EXCEPT !.init = TRUE, !.key = "stopped"]
BorderAgentDeInit(a) == [init |-> FALSE, key |-> "disabled", active |-> FALSE]

\* BrInitServices enables NAT64 whatever the user's flag.
BrInitServices(o) == [o EXCEPT !.services = TRUE, !.nat64 = TRUE]

\* A link that goes down before it ever was up makes BorderAgentDeInit call
\* OpenThread with its null instance: that may stop the system.
LinkEvent(e) ==
  /\ e.type = "link"
  /\ LET told == [ot EXCEPT !.infra = e.up] IN
     IF e.up /\ ~sBrIsInitialized
     THEN ot' = BrInitServices(told) /\ agent' = BorderAgentInit(agent) /\ sBrIsInitialized' = TRUE
     ELSE /\ ot' = told
          /\ agent' = IF e.up THEN agent ELSE BorderAgentDeInit(agent)
          /\ UNCHANGED sBrIsInitialized
  /\ fault' \in IF e.up \/ sBrIsInitialized THEN {fault} ELSE {fault, "agent"}
  /\ UNCHANGED netif

\* mdnsPlatMonitorInterface (see NetifAddresses).
Ip6Event(e) == e.type = "ip6" /\ UNCHANGED <<ot, agent, sBrIsInitialized, netif, fault>>

\* otNat64SetIp4Cidr and InfraIfNat64Init when there is an address, then
\* otNat64SetEnabled with what the event says.
Ip4Event(e) ==
  /\ e.type = "ip4"
  /\ ot' = [ot EXCEPT !.nat64 = e.nat64]
  /\ UNCHANGED <<agent, sBrIsInitialized, netif, fault>>

\* The sockets are set up and the callback is registered with lwIP.
InitEvent(e) ==
  /\ e.type = "init"
  /\ netif' = [netif EXCEPT !.watched = TRUE]
  /\ UNCHANGED <<ot, agent, sBrIsInitialized, fault>>

\* Mutant: the newest event first.
TakesNewest ==
  /\ evts # <<>>
  /\ LET e == evts[Len(evts)] IN LinkEvent(e) \/ Ip6Event(e) \/ Ip4Event(e) \/ InitEvent(e)
  /\ evts' = SubSeq(evts, 1, Len(evts) - 1)
  /\ UNCHANGED <<sExternalNetifState, sNat64TranslatorEnable, dropped, changes, mdnsAsked, lastReport, mcastVars>>

\* otPlatBrProcessOtEvtQueue, one event of its loop.
otPlatBrProcessOtEvtQueue ==
  /\ evts # <<>>
  /\ LET e == Head(evts) IN LinkEvent(e) \/ Ip6Event(e) \/ Ip4Event(e) \/ InitEvent(e)
  /\ evts' = Tail(evts)
  /\ UNCHANGED <<sExternalNetifState, sNat64TranslatorEnable, dropped, changes, mdnsAsked, lastReport, mcastVars>>

\* The user's flag, from the command line.
BrSetNat64TranslatorState(enable) ==
  /\ Change /\ sNat64TranslatorEnable # enable
  /\ sNat64TranslatorEnable' = enable
  /\ ot' = [ot EXCEPT !.nat64 = enable]
  /\ UNCHANGED <<netif, sExternalNetifState, sBrIsInitialized, evts, agent, dropped,
                 mdnsVars, mcastVars>>

\* BorderAgentEnableEpskcService, and OpenThread's callback when the key
\* starts and when it ends.
BorderAgentEnableEpskcService ==
  /\ Change /\ agent.init /\ agent.key = "stopped"
  /\ agent' = [agent EXCEPT !.key = "starting"]
  /\ UNCHANGED <<netif, sExternalNetifState, sBrIsInitialized, sNat64TranslatorEnable, evts, ot, dropped,
                 mdnsVars, mcastVars>>

HandleBorderAgentEphemeralKeyCallback ==
  /\ \/ agent.key = "starting" /\ agent' = [agent EXCEPT !.key = "started", !.active = TRUE]
     \/ agent.key = "started" /\ agent' = [agent EXCEPT !.key = "stopped", !.active = FALSE]
  /\ UNCHANGED <<netif, sExternalNetifState, sBrIsInitialized, sNat64TranslatorEnable,
                 evts, ot, dropped, changes, mdnsVars, mcastVars>>

----------------------------------------------------------------------------
(* Multicast groups: lwip_mcast.c. *)
InFilter(g) == {i \in 1..FilterSlots : filter[i] = g}

\* filterAdd stops at the group or at the first free slot.
StopSlot(g) == CHOOSE i \in InFilter(g) \cup InFilter(AnyGroup) :
                 \A j \in InFilter(g) \cup InFilter(AnyGroup) : i <= j
FilterFull(g) == InFilter(g) \cup InFilter(AnyGroup) = {}

\* lwipMcastSubscribe: in the filter first, then lwIP joins the group, which
\* may fail.
lwipMcastSubscribe(g) ==
  IF FilterFull(g) THEN failed' = failed \cup {g} /\ UNCHANGED <<filter, joined>>
  ELSE /\ filter' = [filter EXCEPT ![StopSlot(g)] = g]
       /\ \/ joined' = joined \cup {g} /\ UNCHANGED failed
          \/ failed' = failed \cup {g} /\ UNCHANGED joined

\* Mutant: the filter forgets the group although lwIP did not leave it.
UnsubscribeFilterFirst(g) ==
  /\ filter' = [i \in 1..FilterSlots |-> IF filter[i] = g THEN AnyGroup ELSE filter[i]]
  /\ joined' \in {joined, joined \ {g}}
  /\ UNCHANGED failed

\* lwipMcastUnsubscribe: only a group that was joined leaves the filter.
lwipMcastUnsubscribe(g) ==
  IF g \notin joined THEN UNCHANGED <<filter, joined, failed>>
  ELSE /\ joined' = joined \ {g}
       /\ filter' = IF InFilter(g) = {} THEN filter
                    ELSE [filter EXCEPT ![CHOOSE i \in InFilter(g) : \A j \in InFilter(g) : i <= j] = AnyGroup]
       /\ UNCHANGED failed

\* HandleMulticastListenerCallback.
ListenerAdded(g) ==
  /\ Change /\ g \notin listeners /\ listeners' = listeners \cup {g}
  /\ lwipMcastSubscribe(g)
  /\ UNCHANGED eventVars
ListenerRemoved(g) ==
  /\ Change /\ g \in listeners /\ listeners' = listeners \ {g}
  /\ lwipMcastUnsubscribe(g)
  /\ UNCHANGED eventVars

----------------------------------------------------------------------------
(* Forwarding: lwip_hooks.c.  A packet is [src, dst, from, hops, mine].    *)
Backbone == {"primary", "secondary", "disabled"}
Packets ==
  [src : {"mesh", "omr", "other"}, dst : {"mesh", "omr", "other", "linkMc"} \cup Group,
   from : {"infra", "thread"}, hops : 0..2]

IsMulticast(p) == p.dst \in Group \cup {"linkMc"}

\* forwardMulticast: what it sends to the other side.
McForwards(p, bbr) ==
  /\ p.dst \in Group /\ p.hops > 1
  /\ IF p.from = "infra" THEN InFilter(p.dst) # {} ELSE bbr = "primary"

\* isLegalToForward, for a packet that is no multicast.
isLegalToForward(p) ==
  /\ ~(p.from = "thread" /\ p.dst = "omr")
  /\ "mesh" \notin {p.src, p.dst}

\* lwipInputHook drops what claims to come from the Thread network.
lwipInputHook(p) == p.from = "infra" /\ p.src = "omr"

Forwarded(p, bbr) ==
  /\ ~lwipInputHook(p)
  /\ IF IsMulticast(p) THEN McForwards(p, bbr) ELSE isLegalToForward(p)

----------------------------------------------------------------------------
ManagerRests ==
  /\ fault # "none" \/ (evts = <<>> /\ mdnsAsked = <<>> /\ changes = Changes)
  /\ UNCHANGED bmVars

ManagerRuns ==
  \/ LinkChanges \/ BrInitMdnsHost \/ BrMdnsHostInitLwipCb \/ Ip6Changes \/ Ip4Changes
  \/ otPlatBrProcessOtEvtQueue
  \/ \E b \in BOOLEAN : BrSetNat64TranslatorState(b)
  \/ BorderAgentEnableEpskcService \/ HandleBorderAgentEphemeralKeyCallback
  \/ \E g \in Group : ListenerAdded(g) \/ ListenerRemoved(g)

\* The system stops at a fault.
ManagerNext == (fault = "none" /\ ManagerRuns) \/ ManagerRests

ManagerSpec == ManagerInit /\ [][ManagerNext]_bmVars

----------------------------------------------------------------------------
\* When the OpenThread task has emptied the list of events and none was lost
\* for want of memory, OpenThread believes of the infrastructure link what
\* BrNetifExtCb was last told, however often it changed while the task was
\* busy.  That is the link as it is, unless nothing was reported since the
\* manager registered or the last report is the belated one of BrInitMdnsHost,
\* made when the link had gone down; then it says up.  OpenThread never takes
\* the link for up before its services are started, and BorderAgentDeInit
\* meets a null instance only before they are.  An ephemeral key is never
\* active while the border agent is off.
OtFollowsLink ==
  /\ evts = <<>> /\ ~dropped =>
       /\ ot.infra = sExternalNetifState
       /\ lastReport = "truth" => ot.infra = netif.link
       /\ lastReport = "late" => ot.infra /\ ~netif.link
  /\ ot.infra => ot.services
  /\ fault = "agent" => ~ot.services
  /\ agent.active => agent.init

\* A group lwIP has joined is in the filter, so that what arrives for it is
\* forwarded to the Thread network; a group that no node listens to any more
\* is forwarded no longer, unless an earlier join of it had failed.  Nothing
\* is forwarded both ways that must not cross: no unicast from or to a
\* mesh-local address, nothing for the link, no multicast with its hops used
\* up.
OnlyLegalForwarded ==
  /\ \A g \in joined : InFilter(g) # {}
  /\ \A p \in Packets, bbr \in Backbone : Forwarded(p, bbr) =>
       /\ p.dst \in Group /\ p.from = "infra" => p.dst \in listeners \cup failed
       /\ ~IsMulticast(p) => "mesh" \notin {p.src, p.dst}
       /\ IsMulticast(p) => p.hops > 1 /\ p.dst # "linkMc"

\* The user can switch translation off.
Nat64OnlyIfAllowed == ot.nat64 => sNat64TranslatorEnable
=============================================================================
