---------------------------- MODULE BoundedFifo ----------------------------
(* What src/utils/circlebuffer.h promises to its callers: a first-in       *)
(* first-out queue of at most Capacity elements.  A pop takes the oldest   *)
(* element into the hands of the popper, who then returns with it.         *)
EXTENDS Naturals, Sequences

CONSTANTS Poppers, Data, Nothing, Capacity

VARIABLES items,    \* the queued elements, oldest first
          holding   \* the element each popper is returning with, or Nothing

vars == <<items, holding>>

Init ==
  /\ items = <<>>
  /\ holding = [c \in Poppers |-> Nothing]

Enqueue(d) ==
  /\ Len(items) < Capacity
  /\ items' = Append(items, d)
  /\ UNCHANGED holding

Dequeue(c) ==
  /\ items # <<>>
  /\ holding[c] = Nothing
  /\ holding' = [holding EXCEPT ![c] = Head(items)]
  /\ items' = Tail(items)

Deliver(c) ==
  /\ holding[c] # Nothing
  /\ holding' = [holding EXCEPT ![c] = Nothing]
  /\ UNCHANGED items

Clear ==
  /\ \A c \in Poppers : holding[c] = Nothing
  /\ items' = <<>>
  /\ UNCHANGED holding

Next ==
  \/ \E d \in Data : Enqueue(d)
  \/ \E c \in Poppers : Dequeue(c) \/ Deliver(c)
  \/ Clear

Spec == Init /\ [][Next]_vars
============================================================================
