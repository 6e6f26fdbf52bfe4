------------------------------ MODULE Receiver ------------------------------
(***************************************************************************)
(* The receiving state machine, src/receiver.rs.                           *)
(*                                                                         *)
(* Like the sender it does no I/O: the caller polls it for events, bytes   *)
(* to write to the wire and data to write to the file, and reports what    *)
(* was done (wire_written, file_written), what arrived (submit_wire) and   *)
(* what the user wants.  Every public method is one action or, for         *)
(* submit_wire, one action per sort of unit that can arrive; a call that   *)
(* returns an error and changes nothing is a stuttering step.              *)
(*                                                                         *)
(* Abstractions.  Units arrive whole: the bytes of a subpacket that is     *)
(* still incomplete are read by nobody, so buf holds a subpacket from its  *)
(* last CRC byte on.  A CRC is right or wrong, by the action that is taken.*)
(* SkipTrailer, the variant of Reading that first drops the line end of a  *)
(* hex header, is Reading here.  An unsuccessful submit_wire leaves the    *)
(* CRC reader past its last byte; feeding it further is outside this       *)
(* module, so no unit arrives in a data state whose phase is Crc.          *)
(*                                                                         *)
(* An operator named Bug... is not part of the machine: it is the operator *)
(* after it with a plausible mistake, kept to show that a property notices *)
(* the mistake.                                                            *)
(***************************************************************************)
EXTENDS Wire

CONSTANTS
  SubpacketMaxSize,   \* SUBPACKET_MAX_SIZE, 1024
  EventQueueCap,      \* RECEIVER_EVENT_QUEUE_CAP, 4
  MaxZrposRetries,    \* MAX_ZRPOS_RETRIES, 10
  MaxPosition,        \* the largest u32
  BufferLen, OverlappedIo,  \* the arguments of with_flow_control
  Incoming,           \* the headers that may arrive
  IncomingData,       \* the payloads of the subpackets that may arrive
  IncomingSize,       \* the file sizes that may be announced
  ResumeOffset        \* the arguments of accept_file_at

ASSUME LimitsAssumption ==
  /\ SubpacketMaxSize \in Nat \ {0}
  /\ EventQueueCap \in Nat \ {0}
  /\ MaxZrposRetries \in 0 .. 254
  /\ MaxPosition \in Nat
  /\ BufferLen \in Nat /\ OverlappedIo \in BOOLEAN
ASSUME InputAssumption ==
  /\ \A h \in Incoming : h \in HeaderUnit /\ h.count <= MaxPosition
  /\ \A data \in IncomingData :
       data \in Seq(Byte) /\ Len(data) <= SubpacketMaxSize
  /\ \A size \in IncomingSize \cup ResumeOffset : size \in 0 .. MaxPosition

ReceiverPhase == {"SessionBegin", "SinitReadingData", "FileBegin",
                  "FileReadingMetadata", "FileAcceptPending",
                  "FileReadingSubpacket", "FileWaitingSubpacket",
                  "SessionEnd"}
ReceiverEvent == {"FileStart", "FileComplete", "SessionComplete", "Aborted"}

\* SubpacketPhase.  Writing and Crc carry the terminator that was read.
Idle == [phase |-> "Idle", kind |-> "None"]
Reading == [phase |-> "Reading", kind |-> "None"]
Writing(kind) == [phase |-> "Writing", kind |-> kind]
Crc(kind) == [phase |-> "Crc", kind |-> kind]
SubpacketPhase ==
  {Idle, Reading} \cup {Writing(k) : k \in SubpacketType}
                  \cup {Crc(k) : k \in SubpacketType}

VARIABLES
  state,               \* where the session stands
  count,               \* the file position the next data belongs at
  fileName, fileSize,  \* from the last ZFILE
  buf, bufWriteOffset, \* a checked subpacket, and how much of it is persisted
  subpacketState,
  outgoing,            \* what poll hands out as WriteWire
  pendingEvents,       \* what poll hands out as Event, oldest first
  manualAccept,
  zrposRetries,        \* corrupt subpackets since the last clean one
  fileActive,          \* a file was accepted and is not complete
  resyncing            \* the header reader tolerates garbage

bufVars == <<buf, bufWriteOffset>>
fileVars == <<count, fileName, fileSize>>
vars == <<state, fileVars, bufVars, subpacketState, outgoing, pendingEvents,
          manualAccept, zrposRetries, fileActive, resyncing>>

OwnZrinit == Zrinit(BufferLen, OverlappedIo)

Init ==
  /\ state = "SessionBegin"
  /\ count = 0 /\ fileName = EmptyName /\ fileSize = 0
  /\ buf = <<>> /\ bufWriteOffset = 0
  /\ subpacketState = Idle
  /\ outgoing = <<OwnZrinit>>
  /\ pendingEvents = <<>>
  /\ manualAccept = FALSE
  /\ zrposRetries = 0
  /\ fileActive = FALSE
  /\ resyncing = FALSE

DrainFile == IF subpacketState.phase = "Writing"
             THEN SubSeq(buf, bufWriteOffset + 1, Len(buf)) ELSE <<>>
EventsFull == Len(pendingEvents) >= EventQueueCap

\* No wire input is consumed until the caller takes what poll offers.
BugBlocked == outgoing # <<>> \/ EventsFull    \* unwritten data forgotten
Blocked == outgoing # <<>> \/ DrainFile # <<>> \/ EventsFull

PushEvent(event) == pendingEvents' = Append(pendingEvents, event)
ClearBuf == buf' = <<>> /\ bufWriteOffset' = 0

-----------------------------------------------------------------------------
(***************************************************************************)
(* What the user of the library asks for.                                  *)
(***************************************************************************)
SetManualFileAccept(manual) ==
  /\ manualAccept' = manual
  /\ UNCHANGED <<state, fileVars, bufVars, subpacketState, outgoing,
                 pendingEvents, zrposRetries, fileActive, resyncing>>

AcceptFileAt(offset) ==
  /\ state = "FileAcceptPending" /\ outgoing = <<>>
  /\ outgoing' = <<Header("ZRPOS", offset)>>
  /\ count' = offset
  /\ state' = "FileBegin"
  /\ fileActive' = TRUE
  /\ UNCHANGED <<fileName, fileSize, bufVars, subpacketState, pendingEvents,
                 manualAccept, zrposRetries, resyncing>>

BugRefusal == Header("ZRPOS", 0)    \* asks for the file it declines
Refusal == Header("ZSKIP", 0)

SkipFile ==
  /\ state = "FileAcceptPending" /\ outgoing = <<>>
  /\ outgoing' = <<Refusal>>
  /\ state' = "FileBegin"
  /\ fileActive' = FALSE
  /\ UNCHANGED <<fileVars, bufVars, subpacketState, pendingEvents,
                 manualAccept, zrposRetries, resyncing>>

Timeout ==
  /\ state \in {"SessionBegin", "FileBegin"} /\ outgoing = <<>>
  /\ outgoing' = <<OwnZrinit>>
  /\ UNCHANGED <<state, fileVars, bufVars, subpacketState, pendingEvents,
                 manualAccept, zrposRetries, fileActive, resyncing>>

\* The state changes even when the event no longer fits in the queue.
Abort ==
  /\ state' = "SessionEnd"
  /\ \/ ~EventsFull /\ PushEvent("Aborted")
     \/ EventsFull /\ UNCHANGED pendingEvents
  /\ UNCHANGED <<fileVars, bufVars, subpacketState, outgoing, manualAccept,
                 zrposRetries, fileActive, resyncing>>

-----------------------------------------------------------------------------
(***************************************************************************)
(* What poll hands out: an event, else outgoing bytes, else file data,     *)
(* else Idle.                                                              *)
(***************************************************************************)
PollEvent ==
  /\ pendingEvents # <<>>
  /\ pendingEvents' = Tail(pendingEvents)
  /\ UNCHANGED <<state, fileVars, bufVars, subpacketState, outgoing,
                 manualAccept, zrposRetries, fileActive, resyncing>>

\* The caller was handed bytes while no event was pending; since then only
\* abort can have raised one.
BytesHandedOut ==
  \A i \in 1 .. Len(pendingEvents) : pendingEvents[i] = "Aborted"

\* The caller has written the first n units of WriteWire.
WireWritten(n) ==
  /\ BytesHandedOut
  /\ n \in 1 .. Len(outgoing)
  /\ outgoing' = SubSeq(outgoing, n + 1, Len(outgoing))
  /\ UNCHANGED <<state, fileVars, bufVars, subpacketState, pendingEvents,
                 manualAccept, zrposRetries, fileActive, resyncing>>

\* A position is a u32: an addition that would wrap is refused.
BugFits(position) == TRUE
Fits(position) == position <= MaxPosition

\* The position reached with a subpacket of len bytes.
BugAdvanced(len) == count + SubpacketMaxSize    \* as if it were a full one
Advanced(len) == count + len

BugAcknowledgement(len) == Header("ZACK", count)    \* the old position
Acknowledgement(len) == Header("ZACK", Advanced(len))

\* The whole subpacket is persisted: advance, and answer as its terminator
\* asks.  Output is empty whenever this happens (OutputFreeWhileWriting), so
\* the acknowledgement can be queued.
FinishSubpacket(kind, len) ==
  /\ Fits(count + len)
  /\ count' = Advanced(len)
  /\ ClearBuf
  /\ zrposRetries' = 0
  /\ \/ /\ kind = "ZCRCW"
        /\ outgoing' = <<Acknowledgement(len)>>
        /\ state' = "FileWaitingSubpacket" /\ subpacketState' = Idle
     \/ /\ kind = "ZCRCQ"
        /\ outgoing' = <<Acknowledgement(len)>>
        /\ subpacketState' = Reading /\ UNCHANGED state
     \/ /\ kind = "ZCRCG"
        /\ subpacketState' = Reading /\ UNCHANGED <<state, outgoing>>
     \/ /\ kind = "ZCRCE"
        /\ state' = "FileWaitingSubpacket" /\ subpacketState' = Idle
        /\ UNCHANGED outgoing
  /\ UNCHANGED <<fileName, fileSize>>

\* The caller has persisted the first n bytes of WriteFile.
FileWritten(n) ==
  /\ BytesHandedOut /\ outgoing = <<>>
  /\ n \in 1 .. Len(DrainFile)
  /\ \/ /\ n < Len(DrainFile)
        /\ bufWriteOffset' = bufWriteOffset + n
        /\ UNCHANGED <<state, fileVars, buf, subpacketState, outgoing,
                       zrposRetries>>
     \/ /\ n = Len(DrainFile)
        /\ FinishSubpacket(subpacketState.kind, Len(buf))
     \/ /\ n = Len(DrainFile) /\ ~Fits(count + Len(buf))
        /\ bufWriteOffset' = Len(buf)
        /\ UNCHANGED <<state, fileVars, buf, subpacketState, outgoing,
                       zrposRetries>>
  /\ UNCHANGED <<pendingEvents, manualAccept, fileActive, resyncing>>

-----------------------------------------------------------------------------
(***************************************************************************)
(* Headers.                                                                *)
(***************************************************************************)
\* The states in which the wire is read as a data subpacket.
InData == state \in {"FileReadingSubpacket", "FileReadingMetadata",
                     "SinitReadingData"}

ReadableAsHeader == ~Blocked /\ ~InData
ReadableAsData == ~Blocked /\ InData /\ subpacketState = Reading

Answer(unit) == outgoing' = <<unit>>
BugSilentlyEnter(phase) ==    \* subpacketState left as it was
  /\ state' = phase
  /\ ClearBuf
  /\ UNCHANGED <<count, subpacketState, outgoing, pendingEvents, fileActive>>
SilentlyEnter(phase) ==
  /\ state' = phase
  /\ subpacketState' = Reading
  /\ ClearBuf
  /\ UNCHANGED <<count, outgoing, pendingEvents, fileActive>>
Stay == UNCHANGED <<state, count, bufVars, subpacketState, outgoing,
                    pendingEvents, fileActive>>

BugOnZrqinitOrEarlyData(h) ==    \* one ZRINIT is enough
  /\ h.frame \in {"ZRQINIT", "ZDATA"} /\ state = "SessionBegin"
  /\ Stay
OnZrqinitOrEarlyData(h) ==
  /\ h.frame \in {"ZRQINIT", "ZDATA"} /\ state = "SessionBegin"
  /\ Answer(OwnZrinit)
  /\ UNCHANGED <<state, count, bufVars, subpacketState, pendingEvents,
                 fileActive>>

OnZsinit(h) ==
  /\ h.frame = "ZSINIT" /\ state = "SessionBegin"
  /\ SilentlyEnter("SinitReadingData")

OnZfile(h) ==
  /\ h.frame = "ZFILE" /\ state \in {"SessionBegin", "FileBegin"}
  /\ SilentlyEnter("FileReadingMetadata")

\* Data is only taken at the position reached so far.
Matches(h) == h.count = count

OnZdata(h) ==
  /\ h.frame = "ZDATA" /\ state \in {"FileBegin", "FileWaitingSubpacket"}
  /\ \/ /\ Matches(h)
        /\ SilentlyEnter("FileReadingSubpacket")
     \/ /\ ~Matches(h)
        /\ Answer(Header("ZRPOS", count))
        /\ UNCHANGED <<state, count, bufVars, subpacketState, pendingEvents,
                       fileActive>>

\* Where a ZEOF can end a file.
BugAwaitsZeof == state \in {"FileWaitingSubpacket", "FileBegin"}
BugAwaitsZeofAfterData == state = "FileWaitingSubpacket"
BugAwaitsZeofAnywhere == TRUE
AwaitsZeof == \/ state = "FileWaitingSubpacket"
              \/ state = "FileBegin" /\ fileActive

OnZeof(h) ==
  /\ h.frame = "ZEOF" /\ AwaitsZeof /\ h.count = count
  /\ Answer(OwnZrinit)
  /\ state' = "FileBegin"
  /\ fileActive' = FALSE
  /\ PushEvent("FileComplete")
  /\ UNCHANGED <<count, bufVars, subpacketState>>

OnAbort(h) ==
  /\ h.frame \in {"ZABORT", "ZCAN"}
  /\ state' = "SessionEnd"
  /\ PushEvent("Aborted")
  /\ UNCHANGED <<count, bufVars, subpacketState, outgoing, fileActive>>

OnZfin(h) ==
  /\ h.frame = "ZFIN" /\ state \in {"FileWaitingSubpacket", "FileBegin"}
  /\ Answer(Header("ZFIN", 0))
  /\ state' = "SessionEnd"
  /\ PushEvent("SessionComplete")
  /\ UNCHANGED <<count, bufVars, subpacketState, fileActive>>

\* Every other header, or one of these in another state, has no effect.
Ignored(h) ==
  /\ h.frame \in {"ZRQINIT", "ZSINIT"} => state # "SessionBegin"
  /\ h.frame = "ZFILE" => state \notin {"SessionBegin", "FileBegin"}
  /\ h.frame = "ZDATA" =>
       state \notin {"SessionBegin", "FileBegin", "FileWaitingSubpacket"}
  /\ h.frame = "ZEOF" => ~(AwaitsZeof /\ h.count = count)
  /\ h.frame \notin {"ZABORT", "ZCAN"}
  /\ h.frame = "ZFIN" => state \notin {"FileWaitingSubpacket", "FileBegin"}
  /\ Stay

SubmitHeader(h) ==
  /\ ReadableAsHeader
  /\ \/ OnZrqinitOrEarlyData(h) \/ OnZsinit(h) \/ OnZfile(h) \/ OnZdata(h)
     \/ OnZeof(h) \/ OnAbort(h) \/ OnZfin(h) \/ Ignored(h)
  /\ resyncing' = FALSE
  /\ UNCHANGED <<fileName, fileSize, manualAccept, zrposRetries>>

\* Bytes that start like a header and are none: a damaged header, or data
\* read as headers.  While resyncing they are skipped; otherwise submit_wire
\* reports the error and a ZNAK is queued.  Bytes that do not even start like
\* a header are always skipped.
SubmitGarbled ==
  /\ ReadableAsHeader /\ ~resyncing
  /\ Answer(Header("ZNAK", 0))
  /\ UNCHANGED <<state, fileVars, bufVars, subpacketState, pendingEvents,
                 manualAccept, zrposRetries, fileActive, resyncing>>

-----------------------------------------------------------------------------
(***************************************************************************)
(* Subpackets.                                                             *)
(***************************************************************************)
\* A ZFILE payload: remember the file, and accept it or leave that to the user.
SubmitMetadata(name, size) ==
  /\ ReadableAsData /\ state = "FileReadingMetadata"
  /\ name # EmptyName
  /\ fileName' = name /\ fileSize' = size
  /\ count' = 0
  /\ ClearBuf
  /\ \/ /\ manualAccept
        /\ state' = "FileAcceptPending"
        /\ UNCHANGED <<outgoing, fileActive>>
     \/ /\ ~manualAccept
        /\ Answer(Header("ZRPOS", 0))
        /\ state' = "FileBegin"
        /\ fileActive' = TRUE
  /\ subpacketState' = Idle
  /\ PushEvent("FileStart")
  /\ UNCHANGED <<manualAccept, zrposRetries, resyncing>>

\* An empty name fails at once and leaves the name as it was; one of more than
\* 256 bytes fails when the old name is gone; a size that is no u32 fails
\* after the new one is stored.  The phase stays Crc: the transfer is over.
SubmitMalformedMetadata(storedName) ==
  /\ ReadableAsData /\ state = "FileReadingMetadata"
  /\ fileName' = storedName
  /\ subpacketState' = Crc("ZCRCW")
  /\ UNCHANGED <<state, count, fileSize, bufVars, outgoing, pendingEvents,
                 manualAccept, zrposRetries, fileActive, resyncing>>

\* The payload of a ZSINIT is not used, but the sender waits for the answer.
SubmitSinitData ==
  /\ ReadableAsData /\ state = "SinitReadingData"
  /\ ClearBuf
  /\ Answer(Header("ZACK", 0))
  /\ state' = "SessionBegin"
  /\ subpacketState' = Idle
  /\ UNCHANGED <<fileVars, pendingEvents, manualAccept, zrposRetries,
                 fileActive, resyncing>>

\* A data subpacket with the right CRC is offered to the caller; an empty one
\* is finished on the spot.
SubmitData(kind, data) ==
  /\ ReadableAsData /\ state = "FileReadingSubpacket"
  /\ \/ /\ data # <<>>
        /\ buf' = data /\ bufWriteOffset' = 0
        /\ subpacketState' = Writing(kind)
        /\ UNCHANGED <<state, fileVars, outgoing, zrposRetries>>
     \/ /\ data = <<>>
        /\ FinishSubpacket(kind, 0)
  /\ UNCHANGED <<pendingEvents, manualAccept, fileActive, resyncing>>

\* A data subpacket with a wrong CRC makes the receiver ask for the data again
\* from the position it has reached, and skip what is still in flight...
RecoverCorruptSubpacket ==
  /\ ReadableAsData /\ state = "FileReadingSubpacket"
  /\ zrposRetries < MaxZrposRetries
  /\ zrposRetries' = zrposRetries + 1
  /\ ClearBuf
  /\ Answer(Header("ZRPOS", count))
  /\ state' = "FileWaitingSubpacket"
  /\ subpacketState' = Idle
  /\ resyncing' = TRUE
  /\ UNCHANGED <<fileVars, pendingEvents, manualAccept, fileActive>>

\* ...until it has done so too often in a row.  Any other subpacket with a
\* wrong CRC ends the transfer at once.
GiveUpOnCorruptSubpacket(kind) ==
  /\ ReadableAsData
  /\ \/ /\ state = "FileReadingSubpacket"
        /\ zrposRetries >= MaxZrposRetries
        /\ zrposRetries' = zrposRetries + 1
     \/ /\ state \in {"FileReadingMetadata", "SinitReadingData"}
        /\ UNCHANGED zrposRetries
  /\ subpacketState' = Crc(kind)
  /\ UNCHANGED <<state, fileVars, bufVars, outgoing, pendingEvents,
                 manualAccept, fileActive, resyncing>>

-----------------------------------------------------------------------------
Next ==
  \/ \E manual \in BOOLEAN : SetManualFileAccept(manual)
  \/ \E offset \in ResumeOffset : AcceptFileAt(offset)
  \/ SkipFile
  \/ Timeout
  \/ Abort
  \/ PollEvent
  \/ \E n \in 1 .. Len(outgoing) : WireWritten(n)
  \/ \E n \in 1 .. Len(DrainFile) : FileWritten(n)
  \/ \E h \in Incoming : SubmitHeader(h)
  \/ SubmitGarbled
  \/ \E name \in Name, size \in IncomingSize : SubmitMetadata(name, size)
  \/ \E storedName \in Name \cup {fileName, EmptyName} :
       SubmitMalformedMetadata(storedName)
  \/ SubmitSinitData
  \/ \E kind \in SubpacketType, data \in IncomingData : SubmitData(kind, data)
  \/ RecoverCorruptSubpacket
  \/ \E kind \in SubpacketType : GiveUpOnCorruptSubpacket(kind)

Spec == Init /\ [][Next]_vars
=============================================================================
