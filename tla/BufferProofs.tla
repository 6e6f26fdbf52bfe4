---------------------------- MODULE BufferProofs -----------------------------
(***************************************************************************)
(* The bounded buffers of the two machines, for every capacity: the ring   *)
(* of events is a first-in first-out queue, and nothing that is queued     *)
(* overflows the outgoing buffer.                                          *)
(***************************************************************************)
EXTENDS EventQueue, OutgoingBuffer, SequenceTheorems, TLAPS

-----------------------------------------------------------------------------
(***************************************************************************)
(* Indices of the ring.                                                    *)
(***************************************************************************)
\* An index that is at most one round ahead wraps by one subtraction.
LEMMA IndexWraps ==
  ASSUME NEW i \in Nat, i < Capacity + Capacity
  PROVE  i % Capacity = IF i < Capacity THEN i ELSE i - Capacity
<1>1. i < Capacity => i % Capacity = i
  BY CapacityAssumption, SMT
<1>2. i >= Capacity => i % Capacity = i - Capacity
  BY CapacityAssumption, SMT
<1> QED
  BY <1>1, <1>2, CapacityAssumption

LEMMA SumWraps ==
  ASSUME NEW f \in Slot, NEW i \in 0 .. Capacity
  PROVE  (f + i) % Capacity = IF f + i < Capacity THEN f + i
                                                  ELSE f + i - Capacity
<1>1. f + i \in Nat /\ f + i < Capacity + Capacity
  BY CapacityAssumption DEF Slot
<1> QED
  BY <1>1, IndexWraps, CapacityAssumption DEF Slot

\* How far slot s lies behind the slot f, round the ring.
Behind(f, s) == IF s >= f THEN s - f ELSE s + Capacity - f

\* The n slots from f on are those less than n behind it.
LEMMA WindowIsBehind ==
  ASSUME NEW f \in Slot, NEW n \in 0 .. Capacity, NEW s \in Slot
  PROVE  s \in {(f + i) % Capacity : i \in 0 .. n - 1} <=> Behind(f, s) < n
<1>1. ASSUME NEW i \in 0 .. n - 1, s = (f + i) % Capacity
      PROVE  Behind(f, s) < n
  <2>1. s = IF f + i < Capacity THEN f + i ELSE f + i - Capacity
    BY <1>1, SumWraps, CapacityAssumption DEF Slot
  <2> QED
    BY <1>1, <2>1, CapacityAssumption DEF Behind, Slot
<1>2. ASSUME Behind(f, s) < n
      PROVE  Behind(f, s) \in 0 .. n - 1 /\ s = (f + Behind(f, s)) % Capacity
  <2>1. Behind(f, s) \in 0 .. n - 1
    BY <1>2, CapacityAssumption DEF Behind, Slot
  <2>2. (f + Behind(f, s)) % Capacity
          = IF f + Behind(f, s) < Capacity THEN f + Behind(f, s)
                                           ELSE f + Behind(f, s) - Capacity
    BY <2>1, IndexWraps, CapacityAssumption DEF Slot
  <2> QED
    BY <2>1, <2>2, CapacityAssumption DEF Behind, Slot
<1> QED
  BY <1>1, <1>2

\* Indices of the ring are slots.
LEMMA WrappedIsSlot ==
  ASSUME NEW f \in Slot, NEW i \in 0 .. Capacity
  PROVE  (f + i) % Capacity \in Slot
<1>1. (f + i) % Capacity = IF f + i < Capacity THEN f + i
                                               ELSE f + i - Capacity
  BY SumWraps, CapacityAssumption DEF Slot
<1> QED
  BY <1>1, CapacityAssumption DEF Slot

-----------------------------------------------------------------------------
(***************************************************************************)
(* The type invariant, with the agreement of slots and counters.           *)
(***************************************************************************)
LEMMA InitRingTypeOK == QueueInit => RingTypeOK
<1> SUFFICES ASSUME QueueInit PROVE RingTypeOK
  OBVIOUS
<1>1. Occupied = {}
  BY CapacityAssumption DEF QueueInit, Occupied
<1> QED
  BY <1>1, CapacityAssumption, NoEventAssumption DEF QueueInit, RingTypeOK, Slot

LEMMA PushKeepsRingTypeOK ==
  ASSUME RingTypeOK, NEW event \in Event, PushEvent(event) PROVE RingTypeOK'
<1> USE CapacityAssumption, NoEventAssumption
<1>1. /\ first' = first /\ len' = len + 1 /\ len' \in 0 .. Capacity
      /\ handed' = handed /\ slots' = [slots EXCEPT ![FreeSlot] = event]
  BY DEF PushEvent, RingTypeOK
<1>2. /\ FreeSlot \in Slot
      /\ FreeSlot = IF first + len < Capacity THEN first + len
                                              ELSE first + len - Capacity
  <2>1. first \in Slot /\ len \in 0 .. Capacity
    BY DEF RingTypeOK
  <2>4. FreeSlot = IF first + len < Capacity THEN first + len
                                             ELSE first + len - Capacity
    BY <2>1, SumWraps DEF FreeSlot, At
  <2>5. FreeSlot \in Slot
    BY <2>1, WrappedIsSlot, Zenon DEF FreeSlot, At
  <2> QED
    BY <2>4, <2>5
<1>3. ASSUME NEW s \in Slot
      PROVE  slots'[s] # NoEvent <=> s \in Occupied'
  <2>1. s \in Occupied' <=> Behind(first, s) < len + 1
    BY <1>1, WindowIsBehind DEF RingTypeOK, Occupied, At
  <2>2. s \in Occupied <=> Behind(first, s) < len
    BY WindowIsBehind DEF RingTypeOK, Occupied, At
  <2>3. Behind(first, s) = len <=> s = FreeSlot
    BY <1>1, <1>2 DEF RingTypeOK, Slot, Behind
  <2>4. Behind(first, s) \in Nat /\ len \in Nat
    BY DEF RingTypeOK, Slot, Behind
  <2>5. slots[s] # NoEvent <=> s \in Occupied
    BY DEF RingTypeOK
  <2>6. slots'[s] = IF s = FreeSlot THEN event ELSE slots[s]
    BY <1>1, <1>2 DEF RingTypeOK
  <2> QED
    BY <2>1, <2>2, <2>3, <2>4, <2>5, <2>6
<1> QED
  BY <1>1, <1>2, <1>3 DEF RingTypeOK

LEMMA PopKeepsRingTypeOK ==
  ASSUME RingTypeOK, PopEvent PROVE RingTypeOK' /\ handed' \in Event
<1> USE CapacityAssumption, NoEventAssumption
<1>1. /\ first' = At(1) /\ len' = len - 1 /\ len > 0
      /\ handed' = slots[first] /\ slots' = [slots EXCEPT ![first] = NoEvent]
      /\ first \in Slot /\ len \in 1 .. Capacity /\ len' \in 0 .. Capacity
  BY DEF PopEvent, RingTypeOK
<1>2. /\ first' \in Slot
      /\ first' = IF first + 1 < Capacity THEN first + 1 ELSE 0
  <2>1. (first + 1) % Capacity = IF first + 1 < Capacity THEN first + 1
                                              ELSE first + 1 - Capacity
    BY <1>1, SumWraps DEF Slot
  <2> QED
    BY <1>1, <2>1 DEF Slot, At
<1>3. ASSUME NEW s \in Slot
      PROVE  slots'[s] # NoEvent <=> s \in Occupied'
  <2>1. s \in Occupied' <=> Behind(first', s) < len - 1
    BY <1>1, <1>2, WindowIsBehind DEF Occupied, At
  <2>2. s \in Occupied <=> Behind(first, s) < len
    BY <1>1, WindowIsBehind DEF Occupied, At
  <2>3. Behind(first', s) = IF s = first THEN Capacity - 1
                                         ELSE Behind(first, s) - 1
    BY <1>1, <1>2 DEF Slot, Behind
  <2>4. Behind(first, s) \in Nat
    BY <1>1 DEF Slot, Behind
  <2>5. slots[s] # NoEvent <=> s \in Occupied
    BY DEF RingTypeOK
  <2>6. slots'[s] = IF s = first THEN NoEvent ELSE slots[s]
    BY <1>1 DEF RingTypeOK
  <2> QED
    BY <1>1, <2>1, <2>2, <2>3, <2>4, <2>5, <2>6
<1>4. first \in Occupied
  <2>1. Behind(first, first) = 0
    BY <1>1 DEF Behind, Slot
  <2> QED
    BY <1>1, <2>1, WindowIsBehind DEF Occupied, At
<1>5. handed' \in Event
  BY <1>1, <1>4 DEF RingTypeOK
<1> QED
  BY <1>1, <1>2, <1>3, <1>5 DEF RingTypeOK

\* The indices stay in the ring and the slots agree with the counters.
THEOREM TypeCorrect == QueueSpec => []RingTypeOK
<1>1. ASSUME RingTypeOK, [QueueNext]_queueVars PROVE RingTypeOK'
  <2>1. CASE \E event \in Event : PushEvent(event)
    BY <1>1, <2>1, PushKeepsRingTypeOK
  <2>2. CASE PopEvent
    BY <1>1, <2>2, PopKeepsRingTypeOK
  <2>3. CASE UNCHANGED queueVars
    BY <1>1, <2>3 DEF RingTypeOK, queueVars, Occupied, At
  <2> QED
    BY <1>1, <2>1, <2>2, <2>3 DEF QueueNext
<1> QED
  BY InitRingTypeOK, <1>1, PTL DEF QueueSpec

-----------------------------------------------------------------------------
(***************************************************************************)
(* The refinement.                                                         *)
(***************************************************************************)
Waiting == [i \in 1 .. len |-> slots[At(i - 1)]]

LEMMA InitIsFifo == QueueInit => Fifo!Init
BY DEF QueueInit, Fifo!Init

LEMMA PushIsFifo ==
  ASSUME RingTypeOK, NEW event \in Event, PushEvent(event)
  PROVE  Fifo!Push(event)
<1> USE CapacityAssumption
<1>1. /\ first' = first /\ len' = len + 1 /\ len < Capacity
      /\ handed' = handed /\ slots' = [slots EXCEPT ![FreeSlot] = event]
      /\ first \in Slot /\ len \in Nat
  BY DEF PushEvent, RingTypeOK
<1>2. FreeSlot \in Slot
  BY <1>1, WrappedIsSlot DEF RingTypeOK, FreeSlot, At
<1>3. ASSUME NEW i \in 1 .. len
      PROVE  slots'[(first + (i - 1)) % Capacity] = slots[At(i - 1)]
  <2>1. At(i - 1) \in Slot /\ At(i - 1) # FreeSlot
    <3>1. At(i - 1) = IF first + (i - 1) < Capacity THEN first + (i - 1)
                                     ELSE first + (i - 1) - Capacity
      BY <1>1, IndexWraps DEF At, Slot
    <3>2. FreeSlot = IF first + len < Capacity THEN first + len
                                     ELSE first + len - Capacity
      BY <1>1, SumWraps DEF FreeSlot, At, Slot
    <3> QED
      BY <1>1, <3>1, <3>2 DEF Slot
  <2> QED
    BY <1>1, <2>1 DEF RingTypeOK, At
<1>4. slots'[(first + len) % Capacity] = event
  BY <1>1, <1>2 DEF RingTypeOK, FreeSlot, At
<1>5. Waiting \in Seq(Event \cup {NoEvent}) /\ Len(Waiting) = len
  <2>1. ASSUME NEW i \in 1 .. len PROVE slots[At(i - 1)] \in Event \cup {NoEvent}
    <3>1. At(i - 1) \in Slot
      BY <1>1, WrappedIsSlot DEF At
    <3> QED
      BY <3>1 DEF RingTypeOK
  <2> QED
    BY <1>1, <2>1 DEF Waiting
<1>6. Waiting' = Append(Waiting, event)
  <2>1. Waiting' = [i \in 1 .. len + 1 |-> slots'[(first + (i - 1)) % Capacity]]
    BY <1>1 DEF Waiting, At
  <2>2. /\ Append(Waiting, event) \in [1 .. len + 1 -> Event \cup {NoEvent}]
        /\ \A i \in 1 .. len + 1 :
             Append(Waiting, event)[i] = IF i <= len THEN Waiting[i] ELSE event
    <3>1. Append(Waiting, event) \in Seq(Event \cup {NoEvent})
      BY <1>5, AppendProperties
    <3>2. Len(Append(Waiting, event)) = len + 1
      BY <1>5, AppendProperties
    <3>3. Append(Waiting, event) \in [1 .. len + 1 -> Event \cup {NoEvent}]
      BY <3>1, <3>2, LenProperties
    <3>4. ASSUME NEW i \in 1 .. len + 1
          PROVE  Append(Waiting, event)[i] = IF i <= len THEN Waiting[i] ELSE event
      <4>1. CASE i \in 1 .. len
        BY <1>1, <1>5, <4>1, AppendProperties
      <4>2. CASE i = len + 1
        <5>1. Append(Waiting, event)[Len(Waiting) + 1] = event
          BY <1>5, AppendProperties
        <5> QED
          BY <1>1, <1>5, <4>2, <5>1, LenProperties
      <4>3. len \in Nat /\ (i \in 1 .. len \/ i = len + 1)
        BY <1>1
      <4> QED
        BY <4>1, <4>2, <4>3, Zenon
    <3> QED
      BY <3>3, <3>4
  <2>3. ASSUME NEW i \in 1 .. len + 1
        PROVE  slots'[(first + (i - 1)) % Capacity]
                 = IF i <= len THEN Waiting[i] ELSE event
    BY <1>1, <1>3, <1>4 DEF Waiting
  <2> QED
    BY <2>1, <2>2, <2>3
<1> QED
  BY <1>1, <1>5, <1>6 DEF Fifo!Push, Waiting

LEMMA PopIsFifo ==
  ASSUME RingTypeOK, PopEvent PROVE Fifo!Pop
<1> USE CapacityAssumption
<1>1. /\ first' = At(1) /\ len' = len - 1 /\ len \in 1 .. Capacity
      /\ handed' = slots[first] /\ slots' = [slots EXCEPT ![first] = NoEvent]
      /\ first \in Slot
  BY DEF PopEvent, RingTypeOK
<1>2. Waiting \in Seq(Event \cup {NoEvent}) /\ Len(Waiting) = len
  <2>1. ASSUME NEW i \in 1 .. len PROVE slots[At(i - 1)] \in Event \cup {NoEvent}
    <3>1. At(i - 1) \in Slot
      BY <1>1, WrappedIsSlot DEF At
    <3> QED
      BY <3>1 DEF RingTypeOK
  <2> QED
    BY <1>1, <2>1 DEF Waiting
<1>3. Head(Waiting) = slots[first] /\ Waiting # <<>>
  <2>1. At(0) = first
    BY <1>1, IndexWraps DEF At, Slot
  <2> QED
    BY <1>1, <1>2, <2>1 DEF Waiting
<1>4. ASSUME NEW i \in 1 .. len - 1
      PROVE  slots'[(first' + (i - 1)) % Capacity] = slots[At(i)]
  <2>1. first' = IF first + 1 < Capacity THEN first + 1
                                         ELSE first + 1 - Capacity
    BY <1>1, SumWraps DEF At, Slot
  <2>2. At(i) = IF first + i < Capacity THEN first + i
                                        ELSE first + i - Capacity
    BY <1>1, SumWraps DEF At, Slot
  <2>3. (first' + (i - 1)) % Capacity
          = IF first' + (i - 1) < Capacity THEN first' + (i - 1)
                                           ELSE first' + (i - 1) - Capacity
    <3>1. first' \in Slot /\ i - 1 \in 0 .. Capacity
      BY <1>1, <2>1 DEF Slot
    <3> QED
      BY <3>1, SumWraps
  <2>4. /\ (first' + (i - 1)) % Capacity = At(i)
        /\ At(i) \in Slot /\ At(i) # first
    BY <1>1, <2>1, <2>2, <2>3 DEF Slot
  <2> QED
    BY <1>1, <2>4 DEF RingTypeOK
<1>5. Waiting' = Tail(Waiting)
  <2>1. Waiting' = [i \in 1 .. len - 1 |-> slots'[(first' + (i - 1)) % Capacity]]
    BY <1>1 DEF Waiting, At
  <2>2. /\ Tail(Waiting) \in [1 .. len - 1 -> Event \cup {NoEvent}]
        /\ \A i \in 1 .. len - 1 : Tail(Waiting)[i] = Waiting[i + 1]
    BY <1>1, <1>2, <1>3, HeadTailProperties, LenProperties
  <2>3. ASSUME NEW i \in 1 .. len - 1
        PROVE  slots'[(first' + (i - 1)) % Capacity] = Waiting[i + 1]
    BY <1>1, <1>4 DEF Waiting
  <2> QED
    BY <2>1, <2>2, <2>3
<1> QED
  BY <1>1, <1>3, <1>5 DEF Fifo!Pop, Waiting

\* Whatever its capacity, the ring hands events out in the order in which
\* they were pushed, each once.
THEOREM RingIsFifo == QueueSpec => IsFifo
<1>1. ASSUME RingTypeOK, [QueueNext]_queueVars PROVE [Fifo!Next]_(Fifo!vars)
  <2>1. CASE \E event \in Event : PushEvent(event)
    BY <1>1, <2>1, PushIsFifo DEF Fifo!Next
  <2>2. CASE PopEvent
    BY <1>1, <2>2, PopIsFifo DEF Fifo!Next
  <2>3. CASE UNCHANGED queueVars
    BY <2>3 DEF queueVars, Fifo!vars, At
  <2> QED
    BY <1>1, <2>1, <2>2, <2>3 DEF QueueNext
<1> QED
  BY InitIsFifo, TypeCorrect, <1>1, PTL DEF QueueSpec, IsFifo, Fifo!Spec

-----------------------------------------------------------------------------
(***************************************************************************)
(* The outgoing buffer.  The invariant: the bytes in the buffer and the    *)
(* bytes to come, all of them escaped, fit; and the buffer was emptied     *)
(* with the last byte the transport took.                                  *)
(***************************************************************************)
TypeInv ==
  /\ length \in Nat /\ written \in Nat
  /\ plain \in Nat /\ escapable \in Nat
Fits == Queueing => length + plain + 2 * escapable <= WireBufSize
Emptied == written = 0 \/ written < length
BufferInv == TypeInv /\ OffsetInBuffer /\ Emptied /\ Fits /\ WhatIsQueuedFits

LEMMA WireBufSizeValue ==
  /\ WireBufSize \in Nat
  /\ WireBufSize >= 45 + 2 * PayloadMax
BY SizesAssumption DEF WireBufSize, MaxSubpacketEscaped

LEMMA InitBufferInv == BufferInit => BufferInv
BY WireBufSizeValue
   DEF BufferInit, BufferInv, TypeInv, OffsetInBuffer, Emptied, Fits, Queueing,
       WhatIsQueuedFits

\* A queue_ function keeps the invariant if all it writes has room in the
\* empty buffer.
LEMMA QueueKeepsBufferInv ==
  ASSUME BufferInv, NEW p \in Nat, NEW e \in Nat, p + 2 * e <= WireBufSize,
         Queue(p, e)
  PROVE  BufferInv'
<1>1. length = 0 /\ written = 0
  BY DEF BufferInv, TypeInv, OffsetInBuffer, Emptied, Queue, Pending
<1>2. /\ length' = 0 /\ written' = 0 /\ plain' = p /\ escapable' = e
      /\ result' = result
  BY <1>1 DEF Queue
<1>3. QED
  BY <1>2, WireBufSizeValue
     DEF BufferInv, TypeInv, OffsetInBuffer, Emptied, Fits, Queueing,
         WhatIsQueuedFits

LEMMA NextBufferInv == BufferInv /\ [BufferNext]_bufferVars => BufferInv'
<1> SUFFICES ASSUME BufferInv, [BufferNext]_bufferVars PROVE BufferInv'
  OBVIOUS
<1>1. ASSUME QueueHeader PROVE BufferInv'
  <2>2. 3 + 2 * 9 <= WireBufSize /\ 7 + 2 * 14 <= WireBufSize
    BY WireBufSizeValue, SizesAssumption
  <2>3. QED
    BY <1>1, <2>2, QueueKeepsBufferInv DEF QueueHeader
<1>2. ASSUME NEW size \in 0 .. PayloadMax, NEW withHeader \in BOOLEAN,
             QueueZdata(size, withHeader)
      PROVE  BufferInv'
  <2>1. 9 + size + 4 \in Nat /\ size + 4 \in Nat
    BY SizesAssumption
  <2>2. /\ 5 + 2 * (9 + size + 4) <= WireBufSize
        /\ 2 + 2 * (size + 4) <= WireBufSize
    BY WireBufSizeValue, SizesAssumption
  <2>3. QED
    BY <1>2, <2>1, <2>2, QueueKeepsBufferInv DEF QueueZdata
<1>3. ASSUME NEW nameLen \in 0 .. NameCap, NEW digits \in 1 .. SizeDigits,
             QueueZfile(nameLen, digits)
      PROVE  BufferInv'
  <2> DEFINE e == 9 + (nameLen + 1 + digits + 1) + 4
  <2>1. e \in Nat
    BY SizesAssumption
  <2>2. 5 + 2 * e <= WireBufSize
    BY WireBufSizeValue, SizesAssumption
  <2>3. QED
    BY <1>3, <2>1, <2>2, QueueKeepsBufferInv DEF QueueZfile
<1>4. ASSUME QueueOo PROVE BufferInv'
  BY <1>4, WireBufSizeValue, SizesAssumption, QueueKeepsBufferInv DEF QueueOo
<1>5. ASSUME WritePlain PROVE BufferInv'
  BY <1>5, WireBufSizeValue
     DEF WritePlain, Write, BufferInv, TypeInv, OffsetInBuffer, Emptied, Fits,
         Queueing, WhatIsQueuedFits
<1>6. ASSUME WriteEscapable PROVE BufferInv'
  BY <1>6, WireBufSizeValue
     DEF WriteEscapable, Write, BufferInv, TypeInv, OffsetInBuffer, Emptied,
         Fits, Queueing, WhatIsQueuedFits
<1>7. ASSUME NEW n \in 1 .. WireBufSize, WireWritten(n) PROVE BufferInv'
  BY <1>7, WireBufSizeValue
     DEF WireWritten, BufferInv, TypeInv, OffsetInBuffer, Emptied, Fits,
         Queueing, WhatIsQueuedFits
<1>8. ASSUME UNCHANGED bufferVars PROVE BufferInv'
  BY <1>8
     DEF bufferVars, BufferInv, TypeInv, OffsetInBuffer, Emptied, Fits, Queueing,
         WhatIsQueuedFits
<1>9. QED
  BY <1>1, <1>2, <1>3, <1>4, <1>5, <1>6, <1>7, <1>8 DEF BufferNext

\* For every subpacket size and header reserve: whatever is queued fits.
THEOREM QueuedFits == BufferSpec => []WhatIsQueuedFits
<1>1. BufferInv => WhatIsQueuedFits
  BY DEF BufferInv
<1>2. QED
  BY <1>1, InitBufferInv, NextBufferInv, PTL DEF BufferSpec

\* The transport is handed exactly what is left of what was queued.
THEOREM OffsetStaysInBuffer == BufferSpec => []OffsetInBuffer
<1>1. BufferInv => OffsetInBuffer
  BY DEF BufferInv
<1>2. QED
  BY <1>1, InitBufferInv, NextBufferInv, PTL DEF BufferSpec
=============================================================================
