--------------------------- MODULE OutgoingBuffer ---------------------------
(***************************************************************************)
(* The outgoing buffer of either machine as the bytes it holds: what the   *)
(* queue_ functions of src/sender.rs and src/receiver.rs write into it     *)
(* through BufferWriter (src/wire.rs), byte by byte, and what wire_written *)
(* takes out.  A byte that is escaped takes the room of two.               *)
(*                                                                         *)
(* Which bytes they are does not matter here, only how many may need an    *)
(* escape; module Codec has their values.  The bytes that never need one   *)
(* are written in any order with the others: only the sum counts.          *)
(***************************************************************************)
EXTENDS Naturals

CONSTANTS
  PayloadMax,          \* SUBPACKET_MAX_SIZE, 1024
  MaxHeaderEscaped,    \* MAX_HEADER_ESCAPED, 128
  NameCap,             \* STRING_CAP, 256
  SizeDigits           \* the digits of the largest u32, 10

ASSUME SizesAssumption ==
  /\ PayloadMax \in Nat /\ MaxHeaderEscaped \in Nat
  /\ NameCap \in Nat /\ SizeDigits \in Nat
  /\ MaxHeaderEscaped >= 35
  /\ NameCap + SizeDigits + 2 <= PayloadMax

\* MAX_SUBPACKET_ESCAPED: every byte escaped, the terminator, the checksum.
BugMaxSubpacketEscaped == PayloadMax + 2 + 8    \* nothing is escaped
MaxSubpacketEscaped == PayloadMax * 2 + 2 + 8
WireBufSize == MaxHeaderEscaped + MaxSubpacketEscaped

VARIABLES
  length,       \* the bytes in the buffer
  written,      \* outgoing_offset: how many of them the transport has
  plain,        \* bytes still to be queued that never need an escape
  escapable,    \* bytes still to be queued that may need one
  result        \* what the last queue_ function returned

bufferVars == <<length, written, plain, escapable, result>>

BufferInit ==
  /\ length = 0 /\ written = 0
  /\ plain = 0 /\ escapable = 0
  /\ result = "Ok"

BugPending == FALSE    \* queues behind what is not written yet
Pending == written < length
Queueing == plain > 0 \/ escapable > 0

-----------------------------------------------------------------------------
(***************************************************************************)
(* What the queue_ functions write.  A binary header is three plain bytes, *)
(* and five bytes and a checksum that are escaped; a hex header is four    *)
(* plain bytes, its digits and the line end; a subpacket is its payload,   *)
(* two bytes that end it, and a checksum.  None of them writes behind      *)
(* bytes that are pending: most ask queue_writer for that, queue_zfile has *)
(* callers that look first (start_file, submit_wire).                      *)
(***************************************************************************)
Queue(plainBytes, escapableBytes) ==
  /\ ~Queueing /\ ~Pending /\ result = "Ok"
  /\ plain' = plainBytes /\ escapable' = escapableBytes
  /\ UNCHANGED <<length, written, result>>

QueueHeader == Queue(3, 9) \/ Queue(4 + 3, 14)

QueueZdata(len, withHeader) ==
  IF withHeader THEN Queue(3 + 2, 9 + len + 4) ELSE Queue(2, len + 4)

QueueZfile(nameLen, digits) ==
  Queue(3 + 2, 9 + (nameLen + 1 + digits + 1) + 4)

QueueOo == Queue(2, 0)

\* One more byte is written, in size bytes if there is room.
Write(size) ==
  \/ /\ length + size <= WireBufSize
     /\ length' = length + size
     /\ UNCHANGED result
  \/ /\ length + size > WireBufSize
     /\ result' = "OutOfMemory"
     /\ UNCHANGED length

WritePlain ==
  /\ plain > 0 /\ result = "Ok"
  /\ Write(1)
  /\ plain' = plain - 1
  /\ UNCHANGED <<written, escapable>>

WriteEscapable ==
  /\ escapable > 0 /\ result = "Ok"
  /\ \E size \in {1, 2} : Write(size)
  /\ escapable' = escapable - 1
  /\ UNCHANGED <<written, plain>>

\* The transport took n bytes; the buffer is emptied with the last of them.
WireWritten(n) ==
  /\ ~Queueing /\ n <= length - written
  /\ \/ /\ written + n < length
        /\ written' = written + n /\ UNCHANGED length
     \/ /\ written + n = length
        /\ written' = 0 /\ length' = 0
  /\ UNCHANGED <<plain, escapable, result>>

BufferNext ==
  \/ QueueHeader
  \/ \E len \in 0 .. PayloadMax, withHeader \in BOOLEAN :
       QueueZdata(len, withHeader)
  \/ \E nameLen \in 0 .. NameCap, digits \in 1 .. SizeDigits :
       QueueZfile(nameLen, digits)
  \/ QueueOo
  \/ WritePlain
  \/ WriteEscapable
  \/ \E n \in 1 .. WireBufSize : WireWritten(n)

BufferSpec == BufferInit /\ [][BufferNext]_bufferVars

-----------------------------------------------------------------------------
\* Whatever is queued fits, even if every byte of it is escaped: no queue_
\* function fails for want of room and leaves half a header or half a
\* subpacket in the buffer (the OutOfMemory returns of queue_header,
\* queue_zdata, queue_zfile and queue_oo are never taken).
WhatIsQueuedFits == result = "Ok"

\* What the transport was told to write is there: the offset stays inside the
\* buffer, and nothing is queued behind bytes already written.
OffsetInBuffer ==
  /\ written <= length /\ length <= WireBufSize
  /\ Queueing => written = 0
=============================================================================
