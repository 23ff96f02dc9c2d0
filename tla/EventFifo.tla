---------------------------- MODULE EventFifo ----------------------------
(***************************************************************************)
(* What the event queue promises: a bounded first-in first-out queue that  *)
(* one thread fills and another empties.                                   *)
(***************************************************************************)
EXTENDS Naturals, Sequences

CONSTANTS Event, Capacity

VARIABLE queue

Init == queue = <<>>

Enqueue(e) ==
  /\ Len(queue) < Capacity
  /\ queue' = Append(queue, e)

Dequeue ==
  /\ queue # <<>>
  /\ queue' = Tail(queue)

Next == Dequeue \/ \E e \in Event : Enqueue(e)

Spec == Init /\ [][Next]_queue

=============================================================================
