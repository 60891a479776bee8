------------------------------- MODULE RxRing -------------------------------
(***************************************************************************)
(* The lockless receive ring of src/src/mcxw/platform/radio.c.  One        *)
(* producer, the data indication of PD_OT_MAC_SapHandler (called by the    *)
(* PHY), and one consumer, radio_rx_process (called by the OpenThread      *)
(* task), share head, tail and the slots without a lock.  Every access to  *)
(* a shared field is a step of its own, so that each may be preempted by   *)
(* the other between any two of them.                                      *)
(* The ring keeps one slot empty: tail is the slot consumed last, head the *)
(* slot filled last, and the ring is empty when they are equal.  The code  *)
(* masks with (N - 1) and refuses to build unless N is a power of two; on  *)
(* the non-negative indices used here that is the remainder modulo N.      *)
(***************************************************************************)
EXTENDS Naturals, FiniteSets

CONSTANTS N,     \* MCXW_RADIO_NUM_OF_RX_BUFS
          Buf,   \* the buffers of the PHY's message pool
          NULL

ASSUME NAssumption == N \in Nat /\ N >= 2

ASSUME BufAssumption == IsFiniteSet(Buf) /\ NULL \notin Buf

Slot == 0 .. N - 1

Succ(i) == (i + 1) % N

\* The number of slots filled and not yet consumed.
Dist(t, h) == IF h >= t THEN h - t ELSE h - t + N

\* The slot k places after t, for k in 0 .. N - 1.
Nth(t, k) == IF t + k < N THEN t + k ELSE t + k - N

VARIABLES head, tail, next, last,   \* rxRingBuffer
          r,        \* r[i].pPhyBuffer
          pool,     \* PHY buffers not allocated
          msg,      \* the buffer pMsg the handler is working on
          ppc,      \* where the handler is
          cpc,      \* where radio_rx_process is
          leaked    \* history: buffers in the ring when Enable reset it

ringVars == <<head, tail, next, last, r, pool, msg, ppc, cpc, leaked>>

RingInit ==
  /\ head = N - 1 /\ tail = N - 1 /\ next = 0 /\ last = 0
  /\ r = [i \in Slot |-> NULL]
  /\ pool = Buf
  /\ msg = NULL
  /\ ppc = "idle" /\ cpc = "idle"
  /\ leaked = {}

-----------------------------------------------------------------------------
(* The handler: gPdDataInd_c.                                              *)

\* The PHY fills a buffer of its pool and calls the handler with it.
PhyIndication(b) ==
  /\ ppc = "idle"
  /\ b \in pool
  /\ pool' = pool \ {b}
  /\ msg' = b
  /\ ppc' = "get"
  /\ UNCHANGED <<head, tail, next, last, r, cpc, leaked>>

\* Mutant: get_free_frame_rx_ring does not test for a full ring.
GetFreeUntested ==
  /\ ppc = "get"
  /\ next' = Succ(head)
  /\ ppc' = "fill"
  /\ UNCHANGED <<head, tail, last, r, pool, msg, cpc, leaked>>

\* get_free_frame_rx_ring: the slot after head, unless it is tail.
GetFree ==
  /\ ppc = "get"
  /\ Succ(head) # tail
  /\ next' = Succ(head)
  /\ ppc' = "fill"
  /\ UNCHANGED <<head, tail, last, r, pool, msg, cpc, leaked>>

\* Mutant: the message is not freed when the ring is full.
DropFullKept ==
  /\ ppc = "get"
  /\ Succ(head) = tail
  /\ msg' = NULL
  /\ ppc' = "idle"
  /\ UNCHANGED <<head, tail, next, last, r, pool, cpc, leaked>>

\* get_free_frame_rx_ring returned NULL: the frame is dropped.
DropFull ==
  /\ ppc = "get"
  /\ Succ(head) = tail
  /\ pool' = pool \cup {msg}
  /\ msg' = NULL
  /\ ppc' = "idle"
  /\ UNCHANGED <<head, tail, next, last, r, cpc, leaked>>

\* The frame's fields and pPhyBuffer are written through pRxFrame.
Fill ==
  /\ ppc = "fill"
  /\ r' = [r EXCEPT ![next] = msg]
  /\ ppc' = "push"
  /\ UNCHANGED <<head, tail, next, last, pool, msg, cpc, leaked>>

\* push_free_frame_rx_ring
Push ==
  /\ ppc = "push"
  /\ head' = next
  /\ msg' = NULL
  /\ ppc' = "idle"
  /\ UNCHANGED <<tail, next, last, r, pool, cpc, leaked>>

-----------------------------------------------------------------------------
(* The OpenThread task: radio_rx_process.                                  *)

\* Mutant: the newest frame is taken first.
GetFrameNewest ==
  /\ cpc = "idle"
  /\ tail # head
  /\ last' = head
  /\ cpc' = "deliver"
  /\ UNCHANGED <<head, tail, next, r, pool, msg, ppc, leaked>>

\* get_frame_rx_ring: the slot after tail, unless the ring is empty; the
\* frame is then given to otPlatRadioReceiveDone.
GetFrame ==
  /\ cpc = "idle"
  /\ tail # head
  /\ last' = Succ(tail)
  /\ cpc' = "deliver"
  /\ UNCHANGED <<head, tail, next, r, pool, msg, ppc, leaked>>

\* otPlatRadioReceiveDone returned: MSG_Free(f->pPhyBuffer), and forget it.
FreeBuffer ==
  /\ cpc = "deliver"
  /\ pool' = pool \cup ({r[last]} \ {NULL})
  /\ r' = [r EXCEPT ![last] = NULL]
  /\ cpc' = "pop"
  /\ UNCHANGED <<head, tail, next, last, msg, ppc, leaked>>

\* pop_frame_rx_ring
Pop ==
  /\ cpc = "pop"
  /\ tail' = last
  /\ cpc' = "idle"
  /\ UNCHANGED <<head, next, last, r, pool, msg, ppc, leaked>>

-----------------------------------------------------------------------------
\* The slots that hold a frame, and the buffers in them.
FullSlots == {Nth(tail, k) : k \in 1 .. Dist(tail, head)}

Queued == {r[i] : i \in FullSlots} \ {NULL}

\* reset_rx_ring, called by otPlatRadioEnable: the radio is disabled, so no
\* indication is being handled, and the caller is the task that drains the
\* ring.  The slots are not looked at.
Reset ==
  /\ ppc = "idle" /\ cpc = "idle"
  /\ head' = N - 1 /\ tail' = N - 1 /\ next' = 0 /\ last' = 0
  /\ leaked' = leaked \cup Queued
  /\ UNCHANGED <<r, pool, msg, ppc, cpc>>

Handler == (\E b \in Buf : PhyIndication(b)) \/ GetFree \/ DropFull \/ Fill \/ Push

Task == GetFrame \/ FreeBuffer \/ Pop

RingNext == Handler \/ Task \/ Reset

\* The task runs whenever a frame is pending; the PHY owes nothing.
RingFairness == WF_ringVars(Task) /\ WF_ringVars(GetFree \/ DropFull \/ Fill \/ Push)

RingSpec == RingInit /\ [][RingNext]_ringVars /\ RingFairness

-----------------------------------------------------------------------------
\* Types: the masked increments of head, tail, next and last stay in the ring.
RingTypeOK ==
  /\ head \in Slot /\ tail \in Slot /\ next \in Slot /\ last \in Slot
  /\ r \in [Slot -> Buf \cup {NULL}]
  /\ pool \subseteq Buf /\ leaked \subseteq Buf
  /\ msg \in Buf \cup {NULL}
  /\ ppc \in {"idle", "get", "fill", "push"}
  /\ cpc \in {"idle", "deliver", "pop"}

\* The ring is safe without a lock: the slot the handler is writing is never
\* the slot OpenThread is reading, nor one that holds an undelivered frame
\* (get_free_frame_rx_ring tests tail before taking the slot).
NoSlotShared ==
  ppc \in {"fill", "push"} =>
    /\ next \notin FullSlots
    /\ cpc # "idle" => next # last

\* Every PHY buffer has one owner: the PHY's pool, the handler, one slot of
\* the ring, or nobody (it was in the ring when Enable reset it).  So
\* radio_rx_process never frees a buffer twice or hands OpenThread a buffer
\* the PHY may be refilling.
BufferOwned ==
  /\ pool \cap Queued = {} /\ pool \cap leaked = {} /\ Queued \cap leaked = {}
  /\ msg # NULL => msg \notin pool \cup Queued \cup leaked
  /\ \A i, j \in FullSlots : i # j => r[i] # r[j] \/ r[i] = NULL
  /\ pool \cup Queued \cup leaked \cup ({msg} \ {NULL}) = Buf

\* What makes the two properties above inductive: the handler's slot is the
\* one after head and never tail, the task's the one after tail and never past
\* head, and a full slot holds a buffer unless the task has just freed it.
RingInv ==
  /\ ppc \in {"fill", "push"} => next = Succ(head) /\ next # tail
  /\ cpc # "idle" => last = Succ(tail) /\ tail # head
  /\ ppc = "idle" <=> msg = NULL
  /\ ppc = "push" => r[next] = msg
  /\ \A i \in FullSlots : r[i] = NULL <=> (cpc = "pop" /\ i = last)

\* The ring is the FIFO of Fifo.tla: the frames between tail and head, the
\* first of which is gone once its buffer has been freed.
Gone == IF cpc = "pop" THEN 1 ELSE 0

ringQ == [k \in 1 .. Dist(tail, head) - Gone |-> r[Nth(tail, k + Gone)]]

ringDelivering == IF cpc = "deliver" THEN r[last] ELSE NULL

F == INSTANCE Fifo WITH Item <- Buf, Capacity <- N - 1, None <- NULL,
                        q <- ringQ, delivering <- ringDelivering

\* The lockless ring implements the FIFO: arrival order, each frame once.
ImplementsFifo == F!Spec
=============================================================================
