----------------------------- MODULE MCNetwork ------------------------------
(***************************************************************************)
(* The parts of the network co-processor and of the border router, side by *)
(* side.  part says which of them a behaviour is about; the others rest.   *)
(***************************************************************************)
EXTENDS NcpQueries, NcpContexts, NcpTask, NcpSleep, LwipBridge,
        NetifAddresses, BrSockets, BrManager, IperfCli

VARIABLE part

networkVars ==
  <<part, iperfVars, queryVars, contextVars, serviceVars, taskVars, sleepVars, lbVars,
     naVars, udVars, blVars, bmVars>>

NetworkInit ==
  /\ part \in {"queries", "contexts", "services", "task", "sleep", "bridge",
              "threadIf", "infraIf", "udp", "listeners", "manager", "iperf"}
  /\ IperfInit
  /\ QueryInit /\ ContextInit /\ ServiceInit /\ TaskInit /\ SleepInit
  /\ BridgeInit /\ AddrInit /\ UdpInit /\ ListenersInit /\ ManagerInit
  /\ part # "bridge" => build = "br"
  /\ part # "manager" => ~netif.link
  /\ part # "udp" => \A s \in 1 .. DnsMax : dns[s]

Queries ==
  /\ part = "queries" /\ QueryNext
  /\ UNCHANGED <<part, iperfVars, contextVars, serviceVars, taskVars, sleepVars, lbVars,
                 naVars, udVars, blVars, bmVars>>

Contexts ==
  /\ part = "contexts" /\ ContextNext
  /\ UNCHANGED <<part, iperfVars, queryVars, serviceVars, taskVars, sleepVars, lbVars, naVars,
                 udVars, blVars, bmVars>>

Services ==
  /\ part = "services" /\ ServiceNext
  /\ UNCHANGED <<part, iperfVars, queryVars, contextVars, taskVars, sleepVars, lbVars, naVars,
                 udVars, blVars, bmVars>>

NcpTaskPart ==
  /\ part = "task" /\ TaskNext
  /\ UNCHANGED <<part, iperfVars, queryVars, contextVars, serviceVars, sleepVars, lbVars,
                 naVars, udVars, blVars, bmVars>>

NcpSleepPart ==
  /\ part = "sleep" /\ SleepNext
  /\ UNCHANGED <<part, iperfVars, queryVars, contextVars, serviceVars, taskVars, lbVars,
                 naVars, udVars, blVars, bmVars>>

BridgePart ==
  /\ part = "bridge" /\ BridgeNext
  /\ UNCHANGED <<part, iperfVars, queryVars, contextVars, serviceVars, taskVars, sleepVars,
                 naVars, udVars, blVars, bmVars>>

ThreadIfPart ==
  /\ part = "threadIf" /\ (ThreadIfNext /\ UNCHANGED infraIfVars)
  /\ UNCHANGED <<part, iperfVars, queryVars, contextVars, serviceVars, taskVars, sleepVars,
                 lbVars, udVars, blVars, bmVars>>

InfraIfPart ==
  /\ part = "infraIf" /\ (InfraIfNext /\ UNCHANGED threadIfVars)
  /\ UNCHANGED <<part, iperfVars, queryVars, contextVars, serviceVars, taskVars, sleepVars,
                 lbVars, udVars, blVars, bmVars>>

UdpPart ==
  /\ part = "udp" /\ UdpNext
  /\ UNCHANGED <<part, iperfVars, queryVars, contextVars, serviceVars, taskVars, sleepVars,
                 lbVars, naVars, blVars, bmVars>>

ListenersPart ==
  /\ part = "listeners" /\ ListenersNext
  /\ UNCHANGED <<part, iperfVars, queryVars, contextVars, serviceVars, taskVars, sleepVars,
                 lbVars, naVars, udVars, bmVars>>

ManagerPart ==
  /\ part = "manager" /\ ManagerNext
  /\ UNCHANGED <<part, iperfVars, queryVars, contextVars, serviceVars, taskVars, sleepVars,
                 lbVars, naVars, udVars, blVars>>

IperfPart ==
  /\ part = "iperf" /\ IperfNext
  /\ UNCHANGED <<part, queryVars, contextVars, serviceVars, taskVars, sleepVars, lbVars, naVars, udVars, blVars, bmVars>>

NetworkNext ==
  \/ IperfPart
  \/ Queries \/ Contexts \/ Services \/ NcpTaskPart \/ NcpSleepPart
  \/ BridgePart \/ ThreadIfPart \/ InfraIfPart \/ UdpPart \/ ListenersPart
  \/ ManagerPart

\* Each part is scheduled as its own module says.
NetworkFairness ==
  /\ WF_taskVars(part = "task" /\ otNcpTask)
  /\ WF_taskVars(part = "task" /\ mainloop)
  /\ WF_sleepVars(part = "sleep" /\ ~asserted /\ EnterSleep)
  /\ WF_sleepVars(part = "sleep" /\ ~asserted /\ host_sleep_post_cfg)
  /\ WF_sleepVars(part = "sleep" /\ ~asserted /\ app_notify_event_handler)
  /\ WF_sleepVars(part = "sleep" /\ ~asserted /\ Host)

NetworkSpec == NetworkInit /\ [][NetworkNext]_networkVars /\ NetworkFairness

-----------------------------------------------------------------------------
\* What the co-processor and its host share is kept straight: an event carries
\* the context it was asked with, and the SRP client never holds a freed entry;
\* the commands left in the queue with nobody woken are no more than the
\* wake-ups that were merged (NoneStrandedUnmerged), and what the CLI printed is
\* lost only while the buffer is forwarded after the CLI was told twice of one
\* byte (ChunksKept); and the co-processor sleeps only with a
\* confirmation of its own, for this very sleep as long as the host confirms
\* only what it was asked.
NcpSound ==
  /\ EventsReachOwner /\ MessagesTracked /\ ListedAllocated
  /\ NoneStrandedUnmerged /\ ChunksKept /\ SleepConfirmed /\ TokenMatchesHandshake

\* Each control block of the DNS transactions has one owner; the messages that
\* wait for lwIP's thread are freed once, the last message of a query whose last
\* send failed twice (MessagesFreed); what the listeners pass between the threads
\* is freed once; and until a report of lwiperf meets the context of another test
\* (stray), an abort reaches every session.
SocketsSound == TransactionsOwnPcbs /\ MessagesFreed /\ FreedOnce /\ AbortReachesAll

\* OpenThread believes of the infrastructure link what the manager reported
\* last, which OtFollowsLink compares with the link; a group that was joined is
\* in the filter, and only what may cross is forwarded.
RouterSound == OtFollowsLink /\ OnlyLegalForwarded
=============================================================================
