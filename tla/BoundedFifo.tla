----------------------------- MODULE BoundedFifo -----------------------------
(***************************************************************************)
(* What the rest of the receiver relies on in its event queue: events come *)
(* out in the order in which they went in, each once, and never more than  *)
(* Capacity of them wait.                                                  *)
(***************************************************************************)
EXTENDS Naturals, Sequences

CONSTANTS Event, Capacity, NoEvent

VARIABLES
  queue,    \* the events waiting, oldest first
  handed    \* the event handed out last

vars == <<queue, handed>>

Init == queue = <<>> /\ handed = NoEvent

Push(event) ==
  /\ Len(queue) < Capacity
  /\ queue' = Append(queue, event)
  /\ UNCHANGED handed

Pop ==
  /\ queue # <<>>
  /\ handed' = Head(queue)
  /\ queue' = Tail(queue)

Next == (\E event \in Event : Push(event)) \/ Pop

Spec == Init /\ [][Next]_vars
=============================================================================
