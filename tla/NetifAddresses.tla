---------------------------- MODULE NetifAddresses ----------------------------
(***************************************************************************)
(* The address tables of the border router's two lwIP interfaces.          *)
(*                                                                         *)
(* Thread (src/common/lwip/ot_lwip.c): otPlatLwipUpdateState copies the    *)
(* addresses of the OpenThread interface into the table of the Thread      *)
(* netif, and remembers in sAddrAssigned the slots it set.  A slot of the  *)
(* table is [addr, state]; slot 1 is the primary link-local address.       *)
(*                                                                         *)
(* Infrastructure (src/common/br/infra_if.c): the prefix of a router       *)
(* advertisement that OpenThread sends becomes an address of the           *)
(* infrastructure netif, with the lifetimes of the prefix.  mdns_socket.c  *)
(* tells the mDNS of the preferred ones.                                   *)
(*                                                                         *)
(* otAddrs is OpenThread's list, stale is set by a change of it until the  *)
(* state-changed callback has run.                                         *)
(***************************************************************************)
EXTENDS Integers, Sequences, SequencesExt, FiniteSets

CONSTANTS LinkLocal,  \* the addresses that are link-local
          MeshLocal,  \* the other addresses OpenThread may have on the interface
          Prefixed,   \* the addresses made from the prefixes OpenThread advertises
          Slots,      \* LWIP_IPV6_NUM_ADDRESSES
          NoAddr      \* content of a slot never used

\* OpenThread advertises no prefix of link-local addresses.
ASSUME AddrAssumption ==
  /\ Slots \in Nat \ {0}
  /\ Prefixed \cap LinkLocal = {}

Addrs == LinkLocal \cup MeshLocal

VARIABLES otUp, otAddrs, stale,           \* OpenThread's side
          linkUp, table, sAddrAssigned,   \* the Thread netif
          infra, askedOf, hosts             \* the infrastructure netif, mDNS
naVars == <<otUp, otAddrs, stale, linkUp, table, sAddrAssigned, infra, askedOf, hosts>>
threadIfVars == <<otUp, otAddrs, stale, linkUp, table, sAddrAssigned>>
infraIfVars == <<infra, askedOf, hosts>>

Empty == [i \in 1..Slots |-> [addr |-> NoAddr, state |-> "invalid"]]

AddrInit ==
  /\ otUp = FALSE /\ otAddrs = <<>> /\ stale = FALSE
  /\ linkUp = FALSE /\ table = Empty /\ sAddrAssigned = {}
  /\ infra \in {[Empty EXCEPT ![1] = [addr |-> l, state |-> "preferred"]] : l \in LinkLocal}
  /\ askedOf = {} /\ hosts = {}

----------------------------------------------------------------------------
\* lwIP: the slot of an address that is valid, and netif_add_ip6_address,
\* which keeps the first slot for a link-local address.
Match(t, a) == {i \in 1..Slots : t[i].addr = a /\ t[i].state # "invalid"}

Room(t, a) == {i \in 1..Slots : t[i].state = "invalid" /\ (a \in LinkLocal \/ i > 1)}

Least(set) == CHOOSE i \in set : \A j \in set : i <= j

AddSlot(t, a) ==
  IF Match(t, a) # {} THEN Least(Match(t, a))
  ELSE IF Room(t, a) # {} THEN Least(Room(t, a)) ELSE 0

WithAddr(t, i, a, state) == [t EXCEPT ![i] = [addr |-> a, state |-> state]]

\* One address of the loop of otPlatLwipUpdateState.  acc is the table, the
\* slots assigned so far and whether the loop was left.
AssignOne(acc, a) ==
  LET i == IF a \in LinkLocal /\ 1 \notin acc.assigned THEN 1 ELSE AddSlot(acc.table, a)
  IN IF acc.full \/ i = 0 THEN [acc EXCEPT !.full = TRUE]
     ELSE [acc EXCEPT !.table = WithAddr(@, i, a, "valid"), !.assigned = @ \cup {i}]

Assign(t, list) == FoldLeft(AssignOne, [table |-> t, assigned |-> {}, full |-> FALSE], list)

\* Mutant: the slots assigned before are forgotten when the loop stops at a
\* full table.
DropUnlessFull(t, before, now, up) ==
  [i \in 1..Slots |-> IF ~up \/ (i \in before /\ i \notin now /\ Cardinality(now) < Slots - 1)
                      THEN [t[i] EXCEPT !.state = "invalid"] ELSE t[i]]

\* What was assigned before and not now is invalidated; everything is when
\* the interface is down.
DropOthers(t, before, now, up) ==
  [i \in 1..Slots |-> IF ~up \/ (i \in before /\ i \notin now) THEN [t[i] EXCEPT !.state = "invalid"] ELSE t[i]]

----------------------------------------------------------------------------
\* OpenThread changes: the interface goes up or down, an address comes or
\* goes (an address that is not valid, or an RLOC, never is in otAddrs).
OtSwitches ==
  /\ ~stale /\ stale' = TRUE /\ otUp' = ~otUp
  /\ UNCHANGED <<otAddrs, linkUp, table, sAddrAssigned>>

OtAdds(a) ==
  /\ ~stale /\ stale' = TRUE
  /\ ~Contains(otAddrs, a) /\ otAddrs' = <<a>> \o otAddrs
  /\ UNCHANGED <<otUp, linkUp, table, sAddrAssigned>>

\* An address may also be replaced before the callback runs.
OtRemoves(a) ==
  /\ stale' = TRUE
  /\ \E i \in DOMAIN otAddrs : otAddrs[i] = a /\ otAddrs' = RemoveAt(otAddrs, i)
  /\ UNCHANGED <<otUp, linkUp, table, sAddrAssigned>>

\* otPlatLwipUpdateState: the link follows the interface, then the table
\* the list.
otPlatLwipUpdateState ==
  /\ stale /\ stale' = FALSE
  /\ linkUp' = otUp
  /\ LET acc == Assign(table, IF otUp THEN otAddrs ELSE <<>>)
     IN /\ table' = DropOthers(acc.table, sAddrAssigned, acc.assigned, otUp)
        /\ sAddrAssigned' = acc.assigned
  /\ UNCHANGED <<otUp, otAddrs>>

ThreadIfNext ==
  \/ OtSwitches \/ otPlatLwipUpdateState
  \/ \E a \in Addrs : OtAdds(a) \/ OtRemoves(a)

----------------------------------------------------------------------------
InfraSet(i, state) == infra' = [infra EXCEPT ![i].state = state]

Found(a) == Match(infra, a)

\* SetOrUpdateAddrFromRa, for the lifetimes of a prefix option: "preferred"
\* when the preferred one is positive, "deprecated" when only the valid one
\* is, "withdrawn" when neither is.  A new address starts tentative.
AddFromRa(a) ==
  /\ Found(a) = {}
  /\ IF AddSlot(infra, a) = 0 THEN UNCHANGED infra
     ELSE infra' = WithAddr(infra, AddSlot(infra, a), a, "tentative")

UpdateFromRa(a, life) ==
  /\ Found(a) # {}
  /\ LET i == Least(Found(a)) IN
     CASE life = "preferred" /\ infra[i].state = "deprecated" -> InfraSet(i, "preferred")
       [] life = "deprecated" /\ infra[i].state = "preferred" -> InfraSet(i, "deprecated")
       [] OTHER -> UNCHANGED infra

Withdraw(a) ==
  IF \E i \in Found(a) : i > 1 THEN InfraSet(Least(Found(a)), "invalid") ELSE UNCHANGED infra

RaFromOtToLwip(a, life) ==
  /\ IF life = "withdrawn" THEN Withdraw(a) ELSE AddFromRa(a) \/ UpdateFromRa(a, life)
  /\ askedOf' = IF life = "withdrawn" THEN askedOf \ {a} ELSE askedOf \cup {a}
  /\ UNCHANGED hosts

\* An advertisement without a prefix changes nothing.
RaWithoutPrefix == UNCHANGED infraIfVars

\* Duplicate address detection ends.
AddressChecked(i) ==
  /\ infra[i].state = "tentative" /\ InfraSet(i, "preferred")
  /\ UNCHANGED <<askedOf, hosts>>

\* mdnsPlatMonitorInterface: the host's addresses are removed and told again.
mdnsPlatMonitorInterface ==
  /\ hosts' = {infra[i].addr : i \in {j \in 1..Slots : infra[j].state = "preferred"}}
  /\ UNCHANGED <<infra, askedOf>>

\* otPlatInfraIfHasAddress does not count the first slot.
otPlatInfraIfHasAddress(a) == \E i \in Found(a) : i > 1

InfraIfNext ==
  \/ \E a \in Prefixed : \E life \in {"preferred", "deprecated", "withdrawn"} : RaFromOtToLwip(a, life)
  \/ RaWithoutPrefix
  \/ \E i \in 1..Slots : AddressChecked(i)
  \/ mdnsPlatMonitorInterface

AddrNext == (ThreadIfNext /\ UNCHANGED infraIfVars) \/ (InfraIfNext /\ UNCHANGED threadIfVars)
AddrSpec == AddrInit /\ [][AddrNext]_naVars

----------------------------------------------------------------------------
\* Once otPlatLwipUpdateState has run, the Thread netif has no address that
\* OpenThread has given up, whatever was added, removed or replaced since the
\* last time and however full the table was; it holds none twice and the
\* primary slot only ever holds a link-local address.  The infrastructure
\* netif has no address of a prefix OpenThread has withdrawn
\* (SetOrUpdateAddrFromRa).
NoStaleAddress ==
  LET valid == {i \in 1..Slots : table[i].state # "invalid"} IN
  /\ ~stale => \A i \in valid : otUp /\ Contains(otAddrs, table[i].addr)
  /\ \A i, j \in valid : table[i].addr = table[j].addr => i = j
  /\ 1 \in valid => table[1].addr \in LinkLocal
  /\ \A a \in Prefixed : otPlatInfraIfHasAddress(a) => a \in askedOf
=============================================================================
