-------------------------------- MODULE Fifo --------------------------------
(***************************************************************************)
(* What the receive path promises to OpenThread: the frames the PHY handed *)
(* over and that found room are delivered one at a time, in the order of   *)
(* their arrival, each exactly once; only enabling the radio again drops   *)
(* what is still queued.                                                   *)
(***************************************************************************)
EXTENDS Naturals, Sequences

CONSTANTS Item, Capacity, None

VARIABLES q,           \* items accepted and not yet released, oldest first
          delivering   \* the item OpenThread is looking at, or None

fvars == <<q, delivering>>

Init == q = << >> /\ delivering = None

Enqueue(x) ==
  /\ Len(q) < Capacity
  /\ q' = Append(q, x)
  /\ UNCHANGED delivering

Begin ==
  /\ delivering = None
  /\ q # << >>
  /\ delivering' = Head(q)
  /\ UNCHANGED q

Finish ==
  /\ q # << >>
  /\ delivering = Head(q)
  /\ delivering' = None
  /\ q' = Tail(q)

Clear ==
  /\ delivering = None
  /\ q' = << >>
  /\ UNCHANGED delivering

Next == (\E x \in Item : Enqueue(x)) \/ Begin \/ Finish \/ Clear

Spec == Init /\ [][Next]_fvars
=============================================================================
