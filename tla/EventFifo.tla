----------------------------- MODULE EventFifo -----------------------------
(***************************************************************************)
(* What the SDL event queue promises its clients: a bounded first-in       *)
(* first-out queue that discards an event posted while it is full.         *)
(***************************************************************************)
EXTENDS Naturals, Sequences

CONSTANTS Events, Capacity, NoEvent

VARIABLES q,     \* the events waiting, oldest first
          got    \* what the last poll returned

Init == q = <<>> /\ got = NoEvent

Post(e) == /\ q' = IF Len(q) < Capacity THEN Append(q, e) ELSE q
           /\ UNCHANGED got

Take == q # <<>> /\ got' = Head(q) /\ q' = Tail(q)

TakeNothing == q = <<>> /\ got' = NoEvent /\ UNCHANGED q

Next == (\E e \in Events : Post(e)) \/ Take \/ TakeNothing

Spec == Init /\ [][Next]_<<q, got>>
=============================================================================
