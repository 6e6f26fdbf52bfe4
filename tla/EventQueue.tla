----------------------------- MODULE EventQueue -----------------------------
(***************************************************************************)
(* The receiver's event queue, src/receiver.rs: a ring of slots, with the  *)
(* index of the oldest event and the number of events waiting.             *)
(***************************************************************************)
EXTENDS Naturals, Sequences

CONSTANTS
  Event,       \* ReceiverEvent
  Capacity,    \* RECEIVER_EVENT_QUEUE_CAP, 4
  NoEvent      \* None

ASSUME CapacityAssumption == Capacity \in Nat \ {0}
ASSUME NoEventAssumption == NoEvent \notin Event

VARIABLES
  slots,       \* pending_events
  first,       \* pending_event_head
  len,         \* pending_event_len
  handed       \* what pop_event returned last

queueVars == <<slots, first, len, handed>>

Slot == 0 .. Capacity - 1

At(i) == (first + i) % Capacity

BugFreeSlot == len    \* forgets that the ring may begin anywhere
FreeSlot == At(len)

QueueInit ==
  /\ slots = [s \in Slot |-> NoEvent]
  /\ first = 0 /\ len = 0
  /\ handed = NoEvent

\* A full queue refuses the event and stays as it is.
PushEvent(event) ==
  /\ len < Capacity
  /\ slots' = [slots EXCEPT ![FreeSlot] = event]
  /\ len' = len + 1
  /\ UNCHANGED <<first, handed>>

PopEvent ==
  /\ len > 0
  /\ handed' = slots[first]
  /\ slots' = [slots EXCEPT ![first] = NoEvent]
  /\ first' = At(1)
  /\ len' = len - 1

QueueNext == (\E event \in Event : PushEvent(event)) \/ PopEvent

QueueSpec == QueueInit /\ [][QueueNext]_queueVars

-----------------------------------------------------------------------------
\* The indices stay inside the ring, and the slots that hold an event are
\* exactly the ones the counters say: pop_event never finds an empty slot
\* while events are counted, which poll would take for "no event".
Occupied == {At(i) : i \in 0 .. len - 1}
RingTypeOK ==
  /\ slots \in [Slot -> Event \cup {NoEvent}]
  /\ first \in Slot /\ len \in 0 .. Capacity
  /\ handed \in Event \cup {NoEvent}
  /\ \A s \in Slot : slots[s] # NoEvent <=> s \in Occupied

\* Read through its indices the ring is a first-in first-out queue: no event
\* overtakes another, is handed out twice or is lost when the indices wrap.
Fifo == INSTANCE BoundedFifo WITH queue <- [i \in 1 .. len |-> slots[At(i - 1)]]
IsFifo == Fifo!Spec
=============================================================================
