--------------------------- MODULE RxRing_proofs ---------------------------
(***************************************************************************)
(* Proofs about the receive ring, for every number of slots N >= 2 and     *)
(* every finite pool of PHY buffers.                                       *)
(***************************************************************************)
EXTENDS RxRing, Sequences, TLAPS

-----------------------------------------------------------------------------
(* Index arithmetic.                                                       *)

\* Masking the successor of a slot wraps at the last slot only.
LEMMA SuccValue ==
  ASSUME NEW i \in Slot
  PROVE  /\ Succ(i) = IF i = N - 1 THEN 0 ELSE i + 1
         /\ Succ(i) \in Slot
BY NAssumption DEF Slot, Succ

\* Between tail and head there are at most N - 1 frames, none when they are
\* equal, and N - 1 exactly when get_free_frame_rx_ring finds the ring full.
LEMMA DistRange ==
  ASSUME NEW t \in Slot, NEW h \in Slot
  PROVE  /\ Dist(t, h) \in 0 .. N - 1
         /\ Dist(t, h) = 0 <=> t = h
         /\ Dist(t, h) = N - 1 <=> Succ(h) = t
BY NAssumption, SuccValue DEF Slot, Dist

\* One more frame is in the ring once head moves to a slot that is not tail.
LEMMA DistPush ==
  ASSUME NEW t \in Slot, NEW h \in Slot, Succ(h) # t
  PROVE  Dist(t, Succ(h)) = Dist(t, h) + 1
BY NAssumption, SuccValue DEF Slot, Dist

\* One frame fewer is in the ring once tail moves, if the ring is not empty.
LEMMA DistPop ==
  ASSUME NEW t \in Slot, NEW h \in Slot, t # h
  PROVE  Dist(Succ(t), h) = Dist(t, h) - 1
BY NAssumption, SuccValue DEF Slot, Dist

\* The slots reached from t in 0 .. N - 1 places are slots, and differ.
LEMMA NthRange ==
  ASSUME NEW t \in Slot, NEW k \in 0 .. N - 1
  PROVE  /\ Nth(t, k) \in Slot
         /\ \A j \in 0 .. N - 1 : Nth(t, j) = Nth(t, k) => j = k
BY NAssumption DEF Slot, Nth

\* The first frame is in the slot after tail, the last one in head, and the
\* slots after Succ(t) are those after t, one place later.
LEMMA NthValue ==
  ASSUME NEW t \in Slot, NEW h \in Slot
  PROVE  /\ Nth(t, 1) = Succ(t)
         /\ Nth(t, Dist(t, h)) = h
         /\ \A k \in 0 .. N - 2 : Nth(Succ(t), k) = Nth(t, k + 1)
<1>1. Nth(t, 1) = Succ(t)
  BY NAssumption, SuccValue DEF Slot, Nth
<1>2. Nth(t, Dist(t, h)) = h
  BY NAssumption DEF Slot, Nth, Dist
<1>3. \A k \in 0 .. N - 2 : Nth(Succ(t), k) = Nth(t, k + 1)
  BY NAssumption, SuccValue DEF Slot, Nth
<1> QED BY <1>1, <1>2, <1>3

-----------------------------------------------------------------------------
(* The full slots.                                                         *)

\* The frames in the ring are in slots.
LEMMA FullSlotsAreSlots ==
  ASSUME head \in Slot, tail \in Slot
  PROVE  FullSlots \subseteq Slot
<1> SUFFICES ASSUME NEW k \in 1 .. Dist(tail, head)
             PROVE  Nth(tail, k) \in Slot
  BY DEF FullSlots
<1>1. k \in 0 .. N - 1
  BY NAssumption, DistRange
<1> QED BY <1>1, NthRange

\* The slot after head is not full unless it is tail, and neither is tail.
LEMMA FreeSlot ==
  ASSUME head \in Slot, tail \in Slot
  PROVE  /\ tail \notin FullSlots
         /\ Succ(head) # tail => Succ(head) \notin FullSlots
<1>1. tail = Nth(tail, 0)
  BY NAssumption DEF Nth, Slot
<1> DEFINE d == Dist(tail, head)
<1>d. d \in 0 .. N - 1
  BY DistRange
<1>2. tail \notin FullSlots
  <2> SUFFICES ASSUME NEW k \in 1 .. d, Nth(tail, k) = Nth(tail, 0)
               PROVE  FALSE
    BY <1>1 DEF FullSlots
  <2>1. k \in 0 .. N - 1 /\ 0 \in 0 .. N - 1
    BY <1>d, NAssumption
  <2> QED BY <2>1, NthRange
<1>3. ASSUME Succ(head) # tail PROVE Succ(head) \notin FullSlots
  <2>1. Dist(tail, Succ(head)) = d + 1 /\ Succ(head) \in Slot
    BY <1>3, DistPush, SuccValue
  <2>2. Succ(head) = Nth(tail, d + 1) /\ d + 1 \in 0 .. N - 1
    BY <2>1, NthValue, DistRange
  <2> SUFFICES ASSUME NEW k \in 1 .. d, Nth(tail, k) = Nth(tail, d + 1)
               PROVE  FALSE
    BY <2>2 DEF FullSlots
  <2>3. k \in 0 .. N - 1 /\ k # d + 1
    BY <1>d, NAssumption
  <2> QED BY <2>2, <2>3, NthRange
<1> QED BY <1>2, <1>3

\* push_free_frame_rx_ring adds exactly the slot that was filled.
LEMMA FullSlotsPush ==
  ASSUME head \in Slot, tail \in Slot, Succ(head) # tail,
         head' = Succ(head), tail' = tail
  PROVE  FullSlots' = FullSlots \cup {Succ(head)}
<1>1. Dist(tail, head)' = Dist(tail, head) + 1
  BY DistPush
<1>2. Nth(tail, Dist(tail, head) + 1) = Succ(head)
  BY <1>1, NthValue, SuccValue
<1>3. Dist(tail, head) \in Nat
  BY DistRange, NAssumption
<1>4. 1 .. Dist(tail, head) + 1 = (1 .. Dist(tail, head)) \cup {Dist(tail, head) + 1}
  BY <1>3
<1> QED BY <1>1, <1>2, <1>4 DEF FullSlots

\* pop_frame_rx_ring removes exactly the oldest slot.
LEMMA FullSlotsPop ==
  ASSUME head \in Slot, tail \in Slot, tail # head,
         tail' = Succ(tail), head' = head
  PROVE  /\ Succ(tail) \in FullSlots
         /\ FullSlots' = FullSlots \ {Succ(tail)}
<1> DEFINE d == Dist(tail, head)
<1>1. d \in 1 .. N - 1 /\ Dist(tail, head)' = d - 1
  BY NAssumption, DistRange, DistPop
<1>2. Succ(tail) = Nth(tail, 1)
  BY NthValue
<1>3. Succ(tail) \in FullSlots
  BY <1>1, <1>2 DEF FullSlots
<1>4. \A k \in 1 .. d - 1 : Nth(tail, k)' = Nth(tail, k + 1)
  BY <1>1, NAssumption, NthValue
<1>5. FullSlots' = {Nth(tail, k + 1) : k \in 1 .. d - 1}
  BY <1>1, <1>4 DEF FullSlots
<1>6. \A k \in 2 .. d : Nth(tail, k) # Succ(tail)
  BY <1>1, <1>2, NAssumption, NthRange
<1>7. ASSUME NEW i \in FullSlots' PROVE i \in FullSlots \ {Succ(tail)}
  <2>1. PICK k \in 1 .. d - 1 : i = Nth(tail, k + 1)
    BY <1>5
  <2> QED BY <2>1, <1>1, <1>6 DEF FullSlots
<1>8. ASSUME NEW i \in FullSlots \ {Succ(tail)} PROVE i \in FullSlots'
  <2>1. PICK k \in 1 .. d : i = Nth(tail, k)
    BY DEF FullSlots
  <2>2. k - 1 \in 1 .. d - 1 /\ i = Nth(tail, (k - 1) + 1)
    BY <2>1, <1>1, <1>2
  <2> QED BY <2>2, <1>5
<1> QED BY <1>3, <1>7, <1>8

-----------------------------------------------------------------------------
(* The inductive invariant.                                                *)

\* The ring starts in its invariant: reset_rx_ring's values, no handler active.
LEMMA RingInvInit == RingInit => RingTypeOK /\ RingInv
<1> SUFFICES ASSUME RingInit PROVE RingTypeOK /\ RingInv
  OBVIOUS
<1>1. RingTypeOK
  BY NAssumption DEF RingInit, RingTypeOK, Slot
<1>2. Dist(tail, head) = 0
  BY <1>1, DistRange DEF RingInit, RingTypeOK
<1>3. FullSlots = {}
  BY <1>2 DEF FullSlots
<1> QED BY <1>1, <1>3 DEF RingInit, RingInv

\* Every step of the handler, the task and Enable keeps the fields in range.
LEMMA TypeStep == RingTypeOK /\ RingInv /\ [RingNext]_ringVars => RingTypeOK'
<1> SUFFICES ASSUME RingTypeOK, RingInv, [RingNext]_ringVars PROVE RingTypeOK'
  OBVIOUS
<1>s. Succ(head) \in Slot /\ Succ(tail) \in Slot
  BY SuccValue DEF RingTypeOK
<1>1. ASSUME NEW b \in Buf, PhyIndication(b) PROVE RingTypeOK'
  BY <1>1 DEF RingTypeOK, PhyIndication
<1>2. CASE GetFree
  BY <1>2, <1>s DEF RingTypeOK, GetFree
<1>3. CASE DropFull
  BY <1>3 DEF RingTypeOK, DropFull, RingInv
<1>4. CASE Fill
  BY <1>4 DEF RingTypeOK, Fill
<1>5. CASE Push
  BY <1>5 DEF RingTypeOK, Push
<1>6. CASE GetFrame
  BY <1>6, <1>s DEF RingTypeOK, GetFrame
<1>7. CASE FreeBuffer
  BY <1>7 DEF RingTypeOK, FreeBuffer
<1>8. CASE Pop
  BY <1>8 DEF RingTypeOK, Pop
<1>9. CASE Reset
  <2>1. FullSlots \subseteq Slot
    BY FullSlotsAreSlots DEF RingTypeOK
  <2>2. Queued \subseteq Buf
    BY <2>1 DEF Queued, RingTypeOK
  <2> QED BY <1>9, <2>2, NAssumption DEF RingTypeOK, Reset, Slot
<1>10. CASE UNCHANGED ringVars
  BY <1>10 DEF RingTypeOK, ringVars
<1> QED
  BY <1>1, <1>2, <1>3, <1>4, <1>5, <1>6, <1>7, <1>8, <1>9, <1>10
     DEF RingNext, Handler, Task

\* If neither head nor tail moves, the same slots are full.
LEMMA FullSlotsSame ==
  ASSUME head' = head, tail' = tail PROVE FullSlots' = FullSlots
BY DEF FullSlots

\* Every step keeps the two sides of the ring apart and the slots filled.
LEMMA RingInvStep == RingTypeOK /\ RingInv /\ [RingNext]_ringVars => RingInv'
<1> SUFFICES ASSUME RingTypeOK, RingInv, [RingNext]_ringVars PROVE RingInv'
  OBVIOUS
<1>t. RingTypeOK'
  BY TypeStep
<1>f. FullSlots \subseteq Slot /\ tail \notin FullSlots
      /\ (Succ(head) # tail => Succ(head) \notin FullSlots)
  BY FullSlotsAreSlots, FreeSlot DEF RingTypeOK
<1>p. cpc # "idle" => last \in FullSlots
  <2> SUFFICES ASSUME cpc # "idle" PROVE last \in FullSlots
    OBVIOUS
  <2>1. tail # head /\ last = Nth(tail, 1) /\ tail \in Slot /\ head \in Slot
    BY NthValue DEF RingInv, RingTypeOK
  <2>2. 1 \in 1 .. Dist(tail, head)
    BY <2>1, DistRange, NAssumption
  <2> QED BY <2>1, <2>2 DEF FullSlots
<1>1. ASSUME NEW b \in Buf, PhyIndication(b) PROVE RingInv'
  BY <1>1, FullSlotsSame, BufAssumption DEF RingInv, PhyIndication
<1>2. CASE GetFree
  BY <1>2, FullSlotsSame DEF RingInv, GetFree
<1>3. CASE DropFull
  BY <1>3, FullSlotsSame DEF RingInv, DropFull
<1>4. CASE Fill
  <2>1. next \notin FullSlots /\ next \in Slot /\ msg # NULL
    BY <1>4, <1>f DEF RingInv, Fill, RingTypeOK
  <2> QED BY <1>4, <1>f, <2>1, FullSlotsSame DEF RingInv, Fill, RingTypeOK
<1>5. CASE Push
  <2>1. FullSlots' = FullSlots \cup {next} /\ next = Succ(head) /\ next # tail
    BY <1>5, FullSlotsPush DEF RingInv, Push, RingTypeOK
  <2>2. r[next] # NULL /\ next \notin FullSlots
    BY <1>5, <2>1, <1>f DEF RingInv, Push
  <2>3. cpc # "idle" => next # last
    BY <2>2, <1>p
  <2>4. cpc # "idle" => tail' # head'
    BY <1>5, <2>1 DEF Push
  <2> QED BY <1>5, <2>1, <2>2, <2>3, <2>4 DEF RingInv, Push
<1>6. CASE GetFrame
  BY <1>6, FullSlotsSame DEF RingInv, GetFrame
<1>7. CASE FreeBuffer
  <2>1. last \in FullSlots /\ last \in Slot
    BY <1>7, <1>p DEF FreeBuffer, RingTypeOK
  <2>2. ppc = "push" => next # last
    BY <2>1, <1>f DEF RingInv
  <2> QED BY <1>7, <1>f, <2>1, <2>2, FullSlotsSame DEF RingInv, FreeBuffer, RingTypeOK
<1>8. CASE Pop
  <2>1. FullSlots' = FullSlots \ {last} /\ last = Succ(tail) /\ tail # head
    BY <1>8, FullSlotsPop DEF RingInv, Pop, RingTypeOK
  <2>2. ppc \in {"fill", "push"} => next # last
    BY <1>p, <1>8, <1>f DEF RingInv, Pop
  <2> QED BY <1>8, <2>1, <2>2 DEF RingInv, Pop
<1>9. CASE Reset
  <2>1. FullSlots' = {}
    <3>1. Dist(tail, head)' = 0
      BY <1>9, <1>t, DistRange DEF Reset, RingTypeOK
    <3> QED BY <3>1 DEF FullSlots
  <2> QED BY <1>9, <2>1 DEF RingInv, Reset
<1>10. CASE UNCHANGED ringVars
  BY <1>10, FullSlotsSame DEF RingInv, ringVars
<1> QED
  BY <1>1, <1>2, <1>3, <1>4, <1>5, <1>6, <1>7, <1>8, <1>9, <1>10
     DEF RingNext, Handler, Task

\* The ring's fields keep their types, and its invariant holds, in every
\* reachable state: the handler's slot is always the one after head, the
\* task's always the one after tail.
THEOREM RingInvariant == RingSpec => [](RingTypeOK /\ RingInv)
<1>1. RingTypeOK /\ RingInv /\ [RingNext]_ringVars => (RingTypeOK /\ RingInv)'
  BY TypeStep, RingInvStep
<1> QED BY <1>1, RingInvInit, PTL DEF RingSpec

\* The lockless ring never lets PD_OT_MAC_SapHandler write a slot that
\* radio_rx_process is reading or has yet to read.
THEOREM RingIsLockFree == RingSpec => []NoSlotShared
<1>1. RingTypeOK /\ RingInv => NoSlotShared
  <2> SUFFICES ASSUME RingTypeOK, RingInv, ppc \in {"fill", "push"}
               PROVE  next \notin FullSlots /\ (cpc # "idle" => next # last)
    BY DEF NoSlotShared
  <2>1. next \notin FullSlots
    BY FreeSlot DEF RingTypeOK, RingInv
  <2>2. ASSUME cpc # "idle" PROVE next # last
    BY <2>2, SuccValue, NAssumption DEF RingTypeOK, RingInv, Slot
  <2> QED BY <2>1, <2>2
<1> QED BY <1>1, RingInvariant, PTL

-----------------------------------------------------------------------------
(* Ownership of the PHY buffers.                                           *)

\* The slot the task works on is full.
LEMMA LastIsFull ==
  ASSUME RingTypeOK, RingInv, cpc # "idle" PROVE last \in FullSlots
<1>1. tail # head /\ last = Nth(tail, 1) /\ tail \in Slot /\ head \in Slot
  BY NthValue DEF RingInv, RingTypeOK
<1>2. 1 \in 1 .. Dist(tail, head)
  BY <1>1, DistRange, NAssumption
<1> QED BY <1>1, <1>2 DEF FullSlots

\* Every step hands a buffer from one owner to exactly one other.
LEMMA OwnedStep ==
  RingTypeOK /\ RingInv /\ BufferOwned /\ [RingNext]_ringVars => BufferOwned'
<1> SUFFICES ASSUME RingTypeOK, RingInv, BufferOwned, [RingNext]_ringVars PROVE BufferOwned'
  OBVIOUS
<1>n. /\ FullSlots \subseteq Slot
      /\ ppc \in {"fill", "push"} => next \notin FullSlots
  BY FullSlotsAreSlots, FreeSlot DEF RingTypeOK, RingInv
<1>1. ASSUME NEW b \in Buf, PhyIndication(b) PROVE BufferOwned'
  <2>1. FullSlots' = FullSlots /\ Queued' = Queued
    BY <1>1, FullSlotsSame DEF PhyIndication, Queued
  <2> QED BY <1>1, <2>1, BufAssumption DEF BufferOwned, PhyIndication, RingInv
<1>2. CASE GetFree
  <2>1. FullSlots' = FullSlots /\ Queued' = Queued
    BY <1>2, FullSlotsSame DEF GetFree, Queued
  <2> QED BY <1>2, <2>1 DEF BufferOwned, GetFree
<1>3. CASE DropFull
  <2>1. FullSlots' = FullSlots /\ Queued' = Queued
    BY <1>3, FullSlotsSame DEF DropFull, Queued
  <2> QED BY <1>3, <2>1 DEF BufferOwned, DropFull, RingInv
<1>4. CASE Fill
  <2>1. FullSlots' = FullSlots /\ \A i \in FullSlots : r'[i] = r[i]
    BY <1>4, <1>n, FullSlotsSame DEF Fill, RingTypeOK
  <2>2. Queued' = Queued
    BY <2>1 DEF Queued
  <2> QED BY <1>4, <2>1, <2>2 DEF BufferOwned, Fill
<1>5. CASE Push
  <2>1. FullSlots' = FullSlots \cup {next}
    BY <1>5, FullSlotsPush DEF RingInv, Push, RingTypeOK
  <2>2. r[next] = msg /\ msg # NULL /\ r' = r
    BY <1>5 DEF Push, RingInv
  <2>3. Queued' = Queued \cup {msg}
    BY <2>1, <2>2 DEF Queued
  <2>4. \A i \in FullSlots : r[i] # msg
    BY <2>2 DEF BufferOwned, Queued
  <2> QED BY <1>5, <2>1, <2>2, <2>3, <2>4 DEF BufferOwned, Push
<1>6. CASE GetFrame
  <2>1. FullSlots' = FullSlots /\ Queued' = Queued
    BY <1>6, FullSlotsSame DEF GetFrame, Queued
  <2> QED BY <1>6, <2>1 DEF BufferOwned, GetFrame
<1>7. CASE FreeBuffer
  <2>1. last \in FullSlots /\ r[last] # NULL /\ r[last] \in Queued
    BY <1>7, LastIsFull DEF FreeBuffer, RingInv, Queued
  <2>2. /\ FullSlots' = FullSlots
        /\ r'[last] = NULL
        /\ \A i \in FullSlots : i # last => r'[i] = r[i]
    BY <1>7, <1>n, <2>1, FullSlotsSame DEF FreeBuffer, RingTypeOK
  <2>3. \A i \in FullSlots : i # last => r[i] # r[last]
    BY <2>1 DEF BufferOwned
  <2>4. Queued' = Queued \ {r[last]}
    BY <2>1, <2>2, <2>3 DEF Queued
  <2>5. pool' = pool \cup {r[last]}
    BY <1>7, <2>1 DEF FreeBuffer
  <2>6. /\ (pool \cap Queued)' = {} /\ (pool \cap leaked)' = {}
        /\ (Queued \cap leaked)' = {}
    BY <1>7, <2>1, <2>4, <2>5 DEF BufferOwned, FreeBuffer
  <2>7. (msg # NULL => msg \notin pool \cup Queued \cup leaked)'
    BY <1>7, <2>1, <2>4, <2>5 DEF BufferOwned, FreeBuffer
  <2>8. (\A i, j \in FullSlots : i # j => r[i] # r[j] \/ r[i] = NULL)'
    BY <2>2 DEF BufferOwned
  <2>9. (pool \cup Queued \cup leaked \cup ({msg} \ {NULL}) = Buf)'
    BY <1>7, <2>1, <2>4, <2>5 DEF BufferOwned, FreeBuffer
  <2> QED BY <2>6, <2>7, <2>8, <2>9 DEF BufferOwned
<1>8. CASE Pop
  <2>1. FullSlots' = FullSlots \ {last} /\ r' = r
    BY <1>8, FullSlotsPop DEF RingInv, Pop, RingTypeOK
  <2>2. r[last] = NULL
    BY <1>8, LastIsFull DEF RingInv, Pop
  <2>3. Queued' = Queued
    BY <2>1, <2>2 DEF Queued
  <2> QED BY <1>8, <2>1, <2>3 DEF BufferOwned, Pop
<1>9. CASE Reset
  <2>1. FullSlots' = {} /\ Queued' = {}
    <3>1. Dist(tail, head)' = 0
      BY <1>9, TypeStep, DistRange DEF Reset, RingTypeOK
    <3> QED BY <3>1 DEF FullSlots, Queued
  <2> QED BY <1>9, <2>1 DEF BufferOwned, Reset
<1>10. CASE UNCHANGED ringVars
  <2>1. FullSlots' = FullSlots /\ Queued' = Queued
    BY <1>10, FullSlotsSame DEF ringVars, Queued
  <2> QED BY <1>10, <2>1 DEF BufferOwned, ringVars
<1> QED
  BY <1>1, <1>2, <1>3, <1>4, <1>5, <1>6, <1>7, <1>8, <1>9, <1>10
     DEF RingNext, Handler, Task

\* A PHY buffer has one owner at any time: radio_rx_process never frees a
\* buffer twice nor while OpenThread still reads it, and apart from those in
\* the ring when Enable resets it every buffer stays accounted for.
THEOREM BuffersAreOwned == RingSpec => []BufferOwned
<1>1. RingInit => BufferOwned
  <2> SUFFICES ASSUME RingInit PROVE BufferOwned
    OBVIOUS
  <2>1. FullSlots = {} /\ Queued = {}
    <3>1. Dist(tail, head) = 0
      BY RingInvInit, DistRange DEF RingInit, RingTypeOK
    <3> QED BY <3>1 DEF FullSlots, Queued
  <2> QED BY <2>1 DEF RingInit, BufferOwned
<1> QED BY <1>1, OwnedStep, RingInvariant, PTL DEF RingSpec

-----------------------------------------------------------------------------
(* The ring implements the FIFO.                                           *)

\* The abstract queue as a sequence of buffers.
RingQFacts ==
  /\ Gone \in {0, 1}
  /\ Dist(tail, head) - Gone \in 0 .. N - 1
  /\ ringQ \in Seq(Buf)
  /\ Len(ringQ) = Dist(tail, head) - Gone
  /\ \A k \in 1 .. Len(ringQ) : ringQ[k] = r[Nth(tail, k + Gone)]

\* The frames between tail and head form a queue of at most N - 1 buffers.
LEMMA RingQIsSeq == RingTypeOK /\ RingInv => RingQFacts
<1> SUFFICES ASSUME RingTypeOK, RingInv PROVE RingQFacts
  OBVIOUS
<1> DEFINE d == Dist(tail, head)
<1>1. d \in 0 .. N - 1 /\ (cpc # "idle" => d # 0)
  BY DistRange DEF RingTypeOK, RingInv
<1>2. Gone \in {0, 1} /\ d - Gone \in 0 .. N - 1
  BY <1>1, NAssumption DEF Gone
<1>3. ASSUME NEW k \in 1 .. d - Gone PROVE r[Nth(tail, k + Gone)] \in Buf
  <2>1. k + Gone \in 1 .. d /\ k + Gone \in 0 .. N - 1
    BY <1>1, <1>2, NAssumption
  <2>2. Nth(tail, k + Gone) \in FullSlots /\ Nth(tail, k + Gone) \in Slot
    BY <2>1, NthRange DEF FullSlots, RingTypeOK
  <2>3. cpc = "pop" => Nth(tail, k + Gone) # last
    <3> SUFFICES ASSUME cpc = "pop" PROVE Nth(tail, k + 1) # Nth(tail, 1)
      BY NthValue DEF RingInv, Gone, RingTypeOK
    <3>1. k + 1 \in 0 .. N - 1 /\ 1 \in 0 .. N - 1 /\ k + 1 # 1
      BY <2>1, NAssumption DEF Gone
    <3> QED BY <3>1, NthRange DEF RingTypeOK
  <2> QED BY <2>2, <2>3 DEF RingInv, RingTypeOK
<1>4. ringQ \in [1 .. d - Gone -> Buf]
  BY <1>3 DEF ringQ
<1>5. ringQ \in Seq(Buf) /\ Len(ringQ) = d - Gone
  BY <1>2, <1>4
<1> QED BY <1>2, <1>5 DEF ringQ, RingQFacts

\* Two sequences of the same length with the same elements are equal.
LEMMA SameSeq ==
  ASSUME NEW S, NEW a \in Seq(S), NEW b \in Seq(S), Len(a) = Len(b),
         \A k \in 1 .. Len(a) : a[k] = b[k]
  PROVE  a = b
OBVIOUS

\* The same of the state after a step.
LEMMA RingQIsSeqNext == RingTypeOK' /\ RingInv' => RingQFacts'
BY RingQIsSeq, PTL

\* Push is the FIFO's Enqueue of the handler's buffer.
LEMMA PushEnqueues ==
  ASSUME RingTypeOK, RingInv, RingTypeOK', RingInv', Push
  PROVE  msg \in Buf /\ F!Enqueue(msg)
<1> DEFINE d == Dist(tail, head)
<1>1. /\ next = Succ(head) /\ next # tail /\ r[next] = msg /\ msg \in Buf
      /\ head' = next /\ tail' = tail /\ r' = r /\ cpc' = cpc /\ last' = last
  BY DEF Push, RingInv, RingTypeOK
<1>2. Dist(tail', head') = d + 1 /\ Gone' = Gone /\ d \in Nat
  BY <1>1, DistPush, DistRange, NAssumption DEF RingTypeOK, Gone
<1>3. RingQFacts /\ RingQFacts'
  BY RingQIsSeq, RingQIsSeqNext
<1>4. /\ ringQ' \in Seq(Buf) /\ Len(ringQ') = Len(ringQ) + 1 /\ Len(ringQ') <= N - 1
      /\ \A k \in 1 .. Len(ringQ') : ringQ'[k] = r[Nth(tail, k + Gone)]
  BY <1>1, <1>2, <1>3, NAssumption DEF RingQFacts
<1>5. r[Nth(tail, Len(ringQ) + 1 + Gone)] = msg
  <2>1. Nth(tail, d + 1) = next
    BY <1>1, NthValue, DistPush, SuccValue DEF RingTypeOK
  <2>2. Len(ringQ) + 1 + Gone = d + 1
    BY <1>2, <1>3 DEF RingQFacts
  <2> QED BY <2>1, <2>2, <1>1
<1>6. ringQ' = Append(ringQ, msg)
  <2> DEFINE a == Append(ringQ, msg)
  <2>1. a \in Seq(Buf) /\ Len(a) = Len(ringQ) + 1 /\ Len(ringQ) \in Nat
    BY <1>1, <1>3 DEF RingQFacts
  <2>2. ASSUME NEW k \in 1 .. Len(ringQ') PROVE ringQ'[k] = a[k]
    <3>1. CASE k = Len(ringQ) + 1
      <4>1. a[k] = msg
        BY <3>1, <1>1, <1>3 DEF RingQFacts
      <4> QED BY <4>1, <3>1, <1>4, <1>5
    <3>2. CASE k # Len(ringQ) + 1
      <4>1. k \in 1 .. Len(ringQ)
        BY <3>2, <2>1, <1>4
      <4>2. a[k] = ringQ[k]
        BY <4>1, <1>1, <1>3 DEF RingQFacts
      <4>3. ringQ[k] = r[Nth(tail, k + Gone)]
        BY <4>1, <1>3 DEF RingQFacts
      <4> QED BY <4>2, <4>3, <1>4
    <3> QED BY <3>1, <3>2
  <2> HIDE DEF a
  <2>3. ringQ' = a
    BY <2>1, <2>2, <1>4, SameSeq
  <2> QED BY <2>3 DEF a
<1>7. Len(ringQ) < N - 1
  BY <1>3, <1>4, NAssumption DEF RingQFacts
<1>8. ringDelivering' = ringDelivering
  BY <1>1 DEF ringDelivering
<1> QED BY <1>1, <1>6, <1>7, <1>8 DEF F!Enqueue

\* get_frame_rx_ring begins the delivery of the oldest frame.
LEMMA GetFrameBegins ==
  ASSUME RingTypeOK, RingInv, GetFrame PROVE F!Begin
<1>1. RingQFacts /\ Gone = 0 /\ Gone' = 0
  BY RingQIsSeq DEF GetFrame, Gone
<1>2. Dist(tail, head) # 0 /\ Len(ringQ) = Dist(tail, head) /\ ringQ \in Seq(Buf)
  BY <1>1, DistRange, NAssumption DEF GetFrame, RingTypeOK, RingQFacts
<1>3. ringQ # << >> /\ Head(ringQ) = r[Succ(tail)]
  <2>1. Len(ringQ) \in Nat /\ 1 \in 1 .. Len(ringQ)
    BY <1>2
  <2>2. ringQ[1] = r[Nth(tail, 1 + 0)]
    BY <1>1, <2>1 DEF RingQFacts
  <2>3. ringQ # << >> /\ Head(ringQ) = ringQ[1]
    BY <2>1, <1>2
  <2> QED BY <2>2, <2>3, NthValue DEF RingTypeOK
<1>4. ringQ' = ringQ
  BY <1>1 DEF ringQ, GetFrame
<1>5. ringDelivering = NULL /\ ringDelivering' = r[Succ(tail)]
  BY DEF ringDelivering, GetFrame
<1> QED BY <1>3, <1>4, <1>5 DEF F!Begin

\* Freeing the buffer finishes the delivery of the oldest frame.
LEMMA FreeBufferFinishes ==
  ASSUME RingTypeOK, RingInv, RingTypeOK', RingInv', FreeBuffer PROVE F!Finish
<1>1. RingQFacts /\ RingQFacts' /\ Gone = 0 /\ Gone' = 1
  BY RingQIsSeq, RingQIsSeqNext DEF FreeBuffer, Gone
<1>2. tail # head /\ last = Succ(tail) /\ tail' = tail /\ head' = head
  BY DEF FreeBuffer, RingInv
<1>3. /\ ringQ \in Seq(Buf) /\ ringQ' \in Seq(Buf) /\ Len(ringQ) \in Nat
      /\ Len(ringQ) # 0 /\ Len(ringQ') = Len(ringQ) - 1
  <2>1. Dist(tail, head) \in 1 .. N - 1
    BY <1>2, DistRange, NAssumption DEF RingTypeOK
  <2>2. Dist(tail, head)' = Dist(tail, head)
    BY <1>2
  <2> QED BY <1>1, <2>1, <2>2 DEF RingQFacts
<1>4. ringQ # << >> /\ Head(ringQ) = r[last]
  <2>1. 1 \in 1 .. Len(ringQ)
    BY <1>3
  <2>2. ringQ[1] = r[Nth(tail, 1 + 0)]
    BY <1>1, <2>1 DEF RingQFacts
  <2>3. ringQ # << >> /\ Head(ringQ) = ringQ[1]
    BY <2>1, <1>3
  <2> QED BY <1>2, <2>2, <2>3, NthValue DEF RingTypeOK
<1>5. ringQ' = Tail(ringQ)
  <2> DEFINE a == Tail(ringQ)
  <2>1. a \in Seq(Buf) /\ Len(a) = Len(ringQ')
    BY <1>3, <1>4
  <2>2. ASSUME NEW k \in 1 .. Len(ringQ') PROVE ringQ'[k] = a[k]
    <3>1. k + 1 \in 1 .. Len(ringQ) /\ k \in Nat
      BY <1>3
    <3>2. a[k] = ringQ[k + 1]
      BY <3>1, <1>3, <1>4
    <3>3. ringQ[k + 1] = r[Nth(tail, k + 1)]
      BY <3>1, <1>1 DEF RingQFacts
    <3>4. ringQ'[k] = r'[Nth(tail, k + 1)]
      BY <1>1, <1>2 DEF RingQFacts
    <3>5. Nth(tail, k + 1) # last
      <4>1. k + 1 \in 0 .. N - 1 /\ 1 \in 0 .. N - 1 /\ k + 1 # 1
        BY <3>1, <1>1, NAssumption DEF RingQFacts
      <4>2. last = Nth(tail, 1)
        BY <1>2, NthValue DEF RingTypeOK
      <4> QED BY <4>1, <4>2, NthRange DEF RingTypeOK
    <3>6. r'[Nth(tail, k + 1)] = r[Nth(tail, k + 1)]
      <4>1. Nth(tail, k + 1) \in Slot
        BY <3>1, <1>1, NthRange, NAssumption DEF RingQFacts, RingTypeOK
      <4> QED BY <4>1, <3>5 DEF FreeBuffer, RingTypeOK
    <3> QED BY <3>2, <3>3, <3>4, <3>6
  <2> HIDE DEF a
  <2>3. ringQ' = a
    BY <2>1, <2>2, <1>3, SameSeq
  <2> QED BY <2>3 DEF a
<1>6. ringDelivering = r[last] /\ ringDelivering' = NULL
  BY DEF ringDelivering, FreeBuffer
<1> QED BY <1>4, <1>5, <1>6 DEF F!Finish

\* pop_frame_rx_ring gives the slot back; the FIFO has moved on already.
LEMMA PopStutters ==
  ASSUME RingTypeOK, RingInv, RingTypeOK', RingInv', Pop
  PROVE  ringQ' = ringQ /\ ringDelivering' = ringDelivering
<1>1. RingQFacts /\ RingQFacts' /\ Gone = 1 /\ Gone' = 0
  BY RingQIsSeq, RingQIsSeqNext DEF Pop, Gone
<1>2. /\ tail \in Slot /\ head \in Slot /\ tail # head
      /\ tail' = Succ(tail) /\ head' = head /\ r' = r
  BY DEF Pop, RingInv, RingTypeOK
<1>3. Dist(tail', head') = Dist(tail, head) - 1
  BY <1>2, DistPop
<1>4. Len(ringQ') = Len(ringQ)
  BY <1>1, <1>3, <1>2, DistRange, NAssumption DEF RingQFacts
<1>5. ASSUME NEW k \in 1 .. Len(ringQ') PROVE ringQ'[k] = ringQ[k]
  <2>1. k \in 0 .. N - 2 /\ k \in 1 .. Len(ringQ) /\ k + 0 = k
    BY <1>1, <1>4, <1>3, <1>2, DistRange, NAssumption DEF RingQFacts
  <2>2. ringQ'[k] = r[Nth(Succ(tail), k)]
    BY <2>1, <1>1, <1>2 DEF RingQFacts
  <2>3. ringQ[k] = r[Nth(tail, k + 1)]
    BY <2>1, <1>1 DEF RingQFacts
  <2> QED BY <2>1, <2>2, <2>3, <1>2, NthValue
<1>6. ringQ' = ringQ
  BY <1>1, <1>4, <1>5, SameSeq DEF RingQFacts
<1> QED BY <1>6 DEF ringDelivering, Pop

\* reset_rx_ring empties the FIFO.
LEMMA ResetClears ==
  ASSUME RingTypeOK, RingInv, RingTypeOK', RingInv', Reset PROVE F!Clear
<1>1. RingQFacts' /\ Gone' = 0 /\ head' = tail'
  BY RingQIsSeqNext DEF Reset, Gone
<1>2. Len(ringQ') = 0 /\ ringQ' \in Seq(Buf)
  BY <1>1, DistRange DEF RingTypeOK, RingQFacts
<1>3. ringQ' = << >>
  BY <1>2
<1> QED BY <1>3 DEF F!Clear, ringDelivering, Reset

\* The handler's other steps are invisible to the FIFO: the slot it fills is
\* not in the queue yet.
LEMMA FillStutters ==
  ASSUME RingTypeOK, RingInv, RingTypeOK', RingInv', Fill
  PROVE  ringQ' = ringQ /\ ringDelivering' = ringDelivering
<1>1. RingQFacts /\ RingQFacts' /\ Gone' = Gone /\ head' = head /\ tail' = tail
  BY RingQIsSeq, RingQIsSeqNext DEF Fill, Gone
<1>2. next \notin FullSlots
  BY FreeSlot DEF RingTypeOK, RingInv, Fill
<1>3. ASSUME NEW k \in 1 .. Len(ringQ') PROVE ringQ'[k] = ringQ[k]
  <2>0. Dist(tail, head)' = Dist(tail, head) /\ Dist(tail, head) \in 0 .. N - 1
    BY <1>1, DistRange DEF RingTypeOK
  <2>1. k + Gone \in 1 .. Dist(tail, head) /\ k \in 1 .. Len(ringQ)
    BY <1>1, <2>0 DEF RingQFacts
  <2>2. Nth(tail, k + Gone) \in FullSlots
    BY <2>1 DEF FullSlots
  <2>3. r'[Nth(tail, k + Gone)] = r[Nth(tail, k + Gone)]
    BY <1>2, <2>2, FullSlotsAreSlots DEF Fill, RingTypeOK
  <2> QED BY <2>1, <2>3, <1>1 DEF RingQFacts
<1>4. ringQ' = ringQ
  BY <1>1, <1>3, SameSeq DEF RingQFacts
<1>5. cpc = "deliver" => last \in FullSlots /\ last \in Slot
  BY LastIsFull DEF RingTypeOK
<1> QED BY <1>2, <1>4, <1>5 DEF ringDelivering, Fill, RingTypeOK

\* The lockless ring shared by PD_OT_MAC_SapHandler and radio_rx_process
\* behaves as a FIFO of capacity N - 1: frames are delivered in the order of
\* their arrival, each once, and only Enable drops queued ones.
THEOREM RingImplementsFifo == RingSpec => ImplementsFifo
<1>1. RingInit => F!Init
  <2> SUFFICES ASSUME RingInit PROVE F!Init
    OBVIOUS
  <2>1. RingQFacts /\ Gone = 0 /\ head = tail /\ RingTypeOK
    BY RingInvInit, RingQIsSeq DEF RingInit, Gone
  <2>2. Len(ringQ) = 0 /\ ringQ \in Seq(Buf)
    BY <2>1, DistRange DEF RingTypeOK, RingQFacts
  <2> QED BY <2>2 DEF RingInit, F!Init, ringDelivering
<1>2. ASSUME RingTypeOK, RingInv, RingTypeOK', RingInv', [RingNext]_ringVars
      PROVE  [F!Next]_(F!fvars)
  <2> DEFINE Stutter == ringQ' = ringQ /\ ringDelivering' = ringDelivering
  <2>1. ASSUME NEW b \in Buf, PhyIndication(b) PROVE Stutter
    BY <2>1 DEF PhyIndication, ringQ, ringDelivering, Gone
  <2>2. CASE GetFree
    BY <2>2 DEF GetFree, ringQ, ringDelivering, Gone, F!fvars
  <2>3. CASE DropFull
    BY <2>3 DEF DropFull, ringQ, ringDelivering, Gone, F!fvars
  <2>4. CASE Fill
    BY <2>4, <1>2, FillStutters DEF F!fvars
  <2>5. CASE Push
    BY <2>5, <1>2, PushEnqueues DEF F!Next
  <2>6. CASE GetFrame
    BY <2>6, <1>2, GetFrameBegins DEF F!Next
  <2>7. CASE FreeBuffer
    BY <2>7, <1>2, FreeBufferFinishes DEF F!Next
  <2>8. CASE Pop
    BY <2>8, <1>2, PopStutters DEF F!fvars
  <2>9. CASE Reset
    BY <2>9, <1>2, ResetClears DEF F!Next
  <2>10. CASE UNCHANGED ringVars
    BY <2>10 DEF ringVars, ringQ, ringDelivering, Gone, F!fvars
  <2> QED
    BY <1>2, <2>1, <2>2, <2>3, <2>4, <2>5, <2>6, <2>7, <2>8, <2>9, <2>10
       DEF RingNext, Handler, Task, F!fvars
<1> QED
  BY <1>1, <1>2, RingInvariant, PTL DEF RingSpec, ImplementsFifo, F!Spec
=============================================================================
