------------------------------- MODULE Sender -------------------------------
(***************************************************************************)
(* The sending state machine, src/sender.rs.                               *)
(*                                                                         *)
(* It does no I/O.  The caller polls it (poll) for the next thing to do -  *)
(* take an event, write bytes to the wire, read a piece of the file - and  *)
(* reports what was done (wire_written, submit_file), what arrived         *)
(* (submit_wire) and what the user wants (start_file, finish, abort,       *)
(* set_streaming_window, timeout).  Every public method is one action; a   *)
(* call that returns an error and changes nothing is a stuttering step.    *)
(*                                                                         *)
(* Abstractions.  The outgoing buffer is the sequence of units it still    *)
(* holds and wire_written(n) drops units from its front: a write that ends *)
(* inside a unit only moves outgoing_offset, which nothing tells apart.    *)
(* submit_wire consumes one unit per step: its loop re-tests before each   *)
(* header the condition that is the guard here.  The bytes of a header are *)
(* collected by the header reader, so a step is the arrival of its last.   *)
(*                                                                         *)
(* An operator named Bug... is not part of the machine: it is the operator *)
(* after it with a plausible mistake, kept to show that a property notices *)
(* the mistake.                                                            *)
(***************************************************************************)
EXTENDS Wire

CONSTANTS
  SubpacketMaxSize,  \* SUBPACKET_MAX_SIZE, 1024
  SubpacketPerAck,   \* SUBPACKET_PER_ACK, 10
  MaxPosition,       \* the largest u32
  NoRequest,         \* pending_request is None
  Incoming,          \* the headers that may arrive
  Chunk,             \* the chunks of file data the caller may submit
  FileSize,          \* the sizes of the files the caller may send
  Window             \* the arguments of set_streaming_window

Request == [offset : 0 .. MaxPosition, len : Nat]

ASSUME LimitsAssumption ==
  /\ SubpacketMaxSize \in Nat \ {0}
  /\ SubpacketPerAck \in Nat \ {0}
  /\ MaxPosition \in Nat
ASSUME NoRequestAssumption == NoRequest \notin Request
ASSUME InputAssumption ==
  /\ \A h \in Incoming : h \in HeaderUnit
  /\ \A data \in Chunk : data \in Seq(Byte)
  /\ \A size \in FileSize : size \in 0 .. MaxPosition
  /\ \A window \in Window : window \in Nat

SenderPhase == {"WaitReceiverInit", "ReadyForFile", "WaitFilePos",
                "NeedFileData", "WaitFileAck", "WaitFileDone", "WaitFinish",
                "Done"}
SenderEvent == {"FileComplete", "SessionComplete", "Aborted"}
NoEvent == "None"

VARIABLES
  state,                 \* where the transfer stands
  fileName, fileSize,    \* the file announced or to be announced
  hasFile,               \* start_file was called, the file is not complete
  pendingRequest,        \* the piece of the file the caller must read next
  frameRemaining,        \* subpackets left in the current ZDATA frame
  frameNeedsHeader,      \* the frame's ZDATA header was not sent yet
  maxSubpacketSize, maxSubpacketsPerAck,  \* negotiated by ZRINIT
  outgoing,              \* what poll hands out as WriteWire
  pendingEvent,          \* what poll hands out as Event
  finishRequested,
  streamingWindow, rxNonstop

fileVars == <<fileName, fileSize, hasFile>>
frameVars == <<pendingRequest, frameRemaining, frameNeedsHeader>>
capVars == <<maxSubpacketSize, maxSubpacketsPerAck, rxNonstop>>
vars == <<state, fileVars, frameVars, capVars, outgoing, pendingEvent,
          finishRequested, streamingWindow>>

Smaller(a, b) == IF a <= b THEN a ELSE b
Larger(a, b) == IF a >= b THEN a ELSE b
CeilDiv(a, b) == (a + b - 1) \div b

Init ==
  /\ state = "WaitReceiverInit"
  /\ fileName = EmptyName /\ fileSize = 0 /\ hasFile = FALSE
  /\ pendingRequest = NoRequest
  /\ frameRemaining = 0 /\ frameNeedsHeader = FALSE
  /\ maxSubpacketSize = SubpacketMaxSize
  /\ maxSubpacketsPerAck = SubpacketPerAck
  /\ outgoing = <<Header("ZRQINIT", 0)>>
  /\ pendingEvent = NoEvent
  /\ finishRequested = FALSE
  /\ streamingWindow = SubpacketPerAck /\ rxNonstop = FALSE

-----------------------------------------------------------------------------
(***************************************************************************)
(* What the user of the library asks for.                                  *)
(***************************************************************************)
BugClampedWindow(subpackets) == subpackets    \* zero goes through
ClampedWindow(subpackets) == Larger(subpackets, 1)

\* A window set after the handshake still has to reach the pacing.
BugPacingUnder(window) == maxSubpacketsPerAck    \* it does not
PacingUnder(window) == IF rxNonstop THEN window ELSE maxSubpacketsPerAck

SetStreamingWindow(subpackets) ==
  /\ streamingWindow' = ClampedWindow(subpackets)
  /\ maxSubpacketsPerAck' = PacingUnder(ClampedWindow(subpackets))
  /\ UNCHANGED <<state, fileVars, frameVars, maxSubpacketSize, rxNonstop,
                 outgoing, pendingEvent, finishRequested>>

FileUnits(name, size) == <<Header("ZFILE", 0), Metadata(name, size)>>

\* A file may be offered before the handshake or between two files.  Between
\* files it is announced at once; with output still pending the call fails
\* with Backpressure after it has replaced the file's name and size.
StartFile(name, size) ==
  /\ state \in {"WaitReceiverInit", "ReadyForFile"}
  /\ fileName' = name /\ fileSize' = size /\ hasFile' = TRUE
  /\ pendingRequest' = NoRequest
  /\ frameRemaining' = 0 /\ frameNeedsHeader' = FALSE
  /\ \/ /\ state = "ReadyForFile" /\ outgoing = <<>>
        /\ outgoing' = FileUnits(name, size)
        /\ state' = "WaitFilePos"
     \/ /\ state = "WaitReceiverInit" \/ outgoing # <<>>
        /\ UNCHANGED <<state, outgoing>>
  /\ UNCHANGED <<capVars, pendingEvent, finishRequested, streamingWindow>>

\* The name does not fit in 256 bytes: the call fails with OutOfMemory after
\* it has cleared the previous name.
StartFileNameTooLong ==
  /\ state \in {"WaitReceiverInit", "ReadyForFile"}
  /\ fileName' = EmptyName
  /\ UNCHANGED <<state, fileSize, hasFile, frameVars, capVars, outgoing,
                 pendingEvent, finishRequested, streamingWindow>>

\* With output pending between files the call fails with Backpressure but
\* the request stays recorded.
Finish ==
  /\ finishRequested' = TRUE
  /\ \/ /\ state = "ReadyForFile" /\ outgoing = <<>>
        /\ outgoing' = <<Header("ZFIN", 0)>>
        /\ state' = "WaitFinish"
     \/ /\ state # "ReadyForFile" \/ outgoing # <<>>
        /\ UNCHANGED <<state, outgoing>>
  /\ UNCHANGED <<fileVars, frameVars, capVars, pendingEvent,
                 streamingWindow>>

\* abort() and a ZABORT or ZCAN from the receiver do the same.
StopAborted ==
  /\ state' = "Done"
  /\ pendingRequest' = NoRequest
  /\ pendingEvent' = "Aborted"
  /\ UNCHANGED <<fileVars, frameRemaining, frameNeedsHeader, capVars,
                 outgoing, finishRequested, streamingWindow>>

Abort == StopAborted

\* The response timer matters only before the receiver has answered.
Timeout ==
  /\ state = "WaitReceiverInit" /\ outgoing = <<>>
  /\ outgoing' = <<Header("ZRQINIT", 0)>>
  /\ UNCHANGED <<state, fileVars, frameVars, capVars, pendingEvent,
                 finishRequested, streamingWindow>>

-----------------------------------------------------------------------------
(***************************************************************************)
(* What poll hands out: the event, else outgoing bytes, else the read      *)
(* request, else Idle.                                                     *)
(***************************************************************************)
PollEvent ==
  /\ pendingEvent # NoEvent
  /\ pendingEvent' = NoEvent
  /\ UNCHANGED <<state, fileVars, frameVars, capVars, outgoing,
                 finishRequested, streamingWindow>>

\* The caller was handed WriteWire while no event was pending; since then only
\* abort can have raised one.
BugWriteHandedOut == TRUE    \* poll hands out the bytes before the event
WriteHandedOut == pendingEvent \in {NoEvent, "Aborted"}

\* The caller has written the first n units of WriteWire.
WireWritten(n) ==
  /\ WriteHandedOut
  /\ n \in 1 .. Len(outgoing)
  /\ outgoing' = SubSeq(outgoing, n + 1, Len(outgoing))
  /\ UNCHANGED <<state, fileVars, frameVars, capVars, pendingEvent,
                 finishRequested, streamingWindow>>

\* Whether a chunk ends the ZDATA frame it belongs to: the frame's quota of
\* subpackets is used up, the chunk is shorter than requested, or the file
\* ends with it.
IsLastInFrame(data) ==
  \/ frameRemaining <= 1
  \/ Len(data) < pendingRequest.len
  \/ fileSize <= pendingRequest.offset + Len(data)

\* The terminator ignores that a short chunk ends the frame.
BugDataUnits(data) ==
  (IF frameNeedsHeader THEN <<Header("ZDATA", pendingRequest.offset)>>
                       ELSE <<>>)
  \o <<Subpacket(IF frameRemaining <= 1 THEN "ZCRCW" ELSE "ZCRCG", data)>>

\* Every chunk gets a header of its own.
BugDataUnitsHeader(data) ==
  <<Header("ZDATA", pendingRequest.offset),
    Subpacket(IF IsLastInFrame(data) THEN "ZCRCW" ELSE "ZCRCG", data)>>

\* What the chunk becomes on the wire.
DataUnits(data) ==
  (IF frameNeedsHeader THEN <<Header("ZDATA", pendingRequest.offset)>>
                       ELSE <<>>)
  \o <<Subpacket(IF IsLastInFrame(data) THEN "ZCRCW" ELSE "ZCRCG", data)>>

\* A request for a full subpacket, even where less of the file is left.
BugNextRequest(data) ==
  [offset |-> pendingRequest.offset + Len(data), len |-> maxSubpacketSize]
\* The request does not move on.
BugNextRequestStays(data) == pendingRequest

\* The piece of the file to read after a chunk that does not end its frame.
NextRequest(data) ==
  LET offset == pendingRequest.offset + Len(data)
  IN  [offset |-> offset, len |-> Smaller(maxSubpacketSize, fileSize - offset)]

SubmitFile(data) ==
  /\ state = "NeedFileData" /\ pendingRequest # NoRequest
  /\ Len(data) \in 1 .. pendingRequest.len
  /\ pendingRequest.offset + Len(data) <= fileSize
  /\ outgoing = <<>>
  /\ outgoing' = DataUnits(data)
  /\ frameNeedsHeader' = FALSE
  /\ \/ /\ IsLastInFrame(data)
        /\ pendingRequest' = NoRequest
        /\ frameRemaining' = 0
        /\ state' = "WaitFileAck"
     \/ /\ ~IsLastInFrame(data)
        /\ pendingRequest' = NextRequest(data)
        /\ frameRemaining' = frameRemaining - 1
        /\ UNCHANGED state
  /\ UNCHANGED <<fileVars, capVars, pendingEvent, finishRequested,
                 streamingWindow>>

-----------------------------------------------------------------------------
(***************************************************************************)
(* What arrives on the wire.                                               *)
(***************************************************************************)
BugReadable == outgoing = <<>> /\ pendingRequest = NoRequest

\* Input is consumed only while nothing is waiting for the caller.
Readable ==
  /\ outgoing = <<>>
  /\ state # "Done"
  /\ pendingRequest = NoRequest

\* The pacing that a ZRINIT header asks for: the size of a subpacket, and how
\* many go out before the sender waits for an acknowledgement.
SubpacketSizeFor(h) ==
  IF h.bufferLen = 0 THEN SubpacketMaxSize
  ELSE Smaller(SubpacketMaxSize, h.bufferLen)
\* A buffer that holds two and a half subpackets is sent three.
BugSubpacketsPerAckFor(h) ==
  IF ~h.canOvio THEN 1
  ELSE IF h.bufferLen = 0 THEN streamingWindow
  ELSE CeilDiv(h.bufferLen, SubpacketSizeFor(h))
SubpacketsPerAckFor(h) ==
  IF ~h.canOvio THEN 1
  ELSE IF h.bufferLen = 0 THEN streamingWindow
  ELSE Larger(h.bufferLen \div SubpacketSizeFor(h), 1)

UpdateReceiverCaps(h) ==
  /\ rxNonstop' = (h.bufferLen = 0 /\ h.canOvio)
  /\ maxSubpacketSize' = SubpacketSizeFor(h)
  /\ maxSubpacketsPerAck' = SubpacketsPerAckFor(h)

\* The end of a file, or of a handshake without one, when a ZRINIT says so.
FinishOrReady ==
  \/ /\ finishRequested
     /\ outgoing' = <<Header("ZFIN", 0)>>
     /\ state' = "WaitFinish"
  \/ /\ ~finishRequested
     /\ state' = "ReadyForFile"
     /\ UNCHANGED outgoing

\* "Over and out".
CompleteSession ==
  /\ outgoing' = <<OverAndOut>>
  /\ state' = "Done"
  /\ pendingEvent' = "SessionComplete"

\* A ZRINIT is the receiver's answer to the end of a file.
BugCompletesFile == state \in {"WaitFileAck", "WaitFileDone"}
CompletesFile == state = "WaitFileDone"

OnZrinit(h) ==
  /\ h.frame = "ZRINIT"
  /\ UpdateReceiverCaps(h)
  /\ \/ /\ state = "WaitReceiverInit" /\ hasFile
        /\ outgoing' = FileUnits(fileName, fileSize)
        /\ state' = "WaitFilePos"
        /\ UNCHANGED <<hasFile, pendingEvent>>
     \/ /\ state = "WaitReceiverInit" /\ ~hasFile
        /\ FinishOrReady
        /\ UNCHANGED <<hasFile, pendingEvent>>
     \/ /\ CompletesFile
        /\ pendingEvent' = "FileComplete"
        /\ hasFile' = FALSE
        /\ FinishOrReady
     \/ /\ state = "WaitFinish"
        /\ CompleteSession
        /\ UNCHANGED hasFile
     \/ /\ state \notin {"WaitReceiverInit", "WaitFinish"} /\ ~CompletesFile
        /\ UNCHANGED <<state, outgoing, pendingEvent, hasFile>>
  /\ UNCHANGED <<fileName, fileSize, frameVars, finishRequested,
                 streamingWindow>>

QueueZrqinit ==
  /\ outgoing' = <<Header("ZRQINIT", 0)>>
  /\ UNCHANGED <<state, frameVars>>

\* How many subpackets the frame that starts at offset may carry.
FrameQuota(offset) ==
  Smaller(maxSubpacketsPerAck, CeilDiv(fileSize - offset, maxSubpacketSize))

BugAtEnd(offset) == offset + 1 >= fileSize
AtEnd(offset) == offset >= fileSize

\* ZRPOS and ZACK both name the offset to go on from.
OnZrpos(h) ==
  /\ h.frame \in {"ZRPOS", "ZACK"}
  /\ \/ state = "WaitReceiverInit" /\ QueueZrqinit
     \/ /\ state \in {"WaitFilePos", "WaitFileAck", "NeedFileData"}
        /\ AtEnd(h.count)
        /\ outgoing' = <<Header("ZEOF", h.count)>>
        /\ state' = "WaitFileDone"
        /\ pendingRequest' = NoRequest
        /\ UNCHANGED <<frameRemaining, frameNeedsHeader>>
     \/ /\ state \in {"WaitFilePos", "WaitFileAck", "NeedFileData"}
        /\ ~AtEnd(h.count)
        /\ frameRemaining' = FrameQuota(h.count)
        /\ frameNeedsHeader' = TRUE
        /\ pendingRequest' =
             [offset |-> h.count,
              len |-> Smaller(maxSubpacketSize, fileSize - h.count)]
        /\ state' = "NeedFileData"
        /\ UNCHANGED outgoing
     \/ /\ state \in {"ReadyForFile", "WaitFileDone", "WaitFinish"}
        /\ UNCHANGED <<state, outgoing, frameVars>>
  /\ UNCHANGED <<fileVars, capVars, pendingEvent, finishRequested,
                 streamingWindow>>

OnZskip(h) ==
  /\ h.frame = "ZSKIP"
  /\ \/ /\ state \in {"WaitFilePos", "NeedFileData", "WaitFileAck",
                      "WaitFileDone"}
        /\ hasFile' = FALSE
        /\ pendingRequest' = NoRequest
        /\ frameRemaining' = 0
        /\ pendingEvent' = "FileComplete"
        /\ state' = "ReadyForFile"
     \/ /\ state \in {"WaitReceiverInit", "ReadyForFile", "WaitFinish"}
        /\ UNCHANGED <<hasFile, pendingRequest, frameRemaining, pendingEvent,
                       state>>
  /\ UNCHANGED <<fileName, fileSize, frameNeedsHeader, capVars, outgoing,
                 finishRequested, streamingWindow>>

OnAbort(h) == h.frame \in {"ZABORT", "ZCAN"} /\ StopAborted

OnZfin(h) ==
  /\ h.frame = "ZFIN"
  /\ \/ state = "WaitFinish" /\ CompleteSession
     \/ state # "WaitFinish" /\ UNCHANGED <<state, outgoing, pendingEvent>>
  /\ UNCHANGED <<fileVars, frameVars, capVars, finishRequested,
                 streamingWindow>>

\* Any other frame makes a sender that has no answer yet ask again.
OnOther(h) ==
  /\ h.frame \notin {"ZRINIT", "ZRPOS", "ZACK", "ZSKIP", "ZABORT", "ZCAN",
                     "ZFIN"}
  /\ \/ state = "WaitReceiverInit" /\ QueueZrqinit
     \/ state # "WaitReceiverInit" /\ UNCHANGED <<state, outgoing, frameVars>>
  /\ UNCHANGED <<fileVars, capVars, pendingEvent, finishRequested,
                 streamingWindow>>

SubmitWire(h) ==
  /\ Readable
  /\ \/ OnZrinit(h) \/ OnZrpos(h) \/ OnZskip(h)
     \/ OnAbort(h) \/ OnZfin(h) \/ OnOther(h)

\* A damaged header that was recognised as one: submit_wire reports the error
\* and a ZNAK is queued.  Damage that hides the header's start is skipped.
SubmitGarbled ==
  /\ Readable
  /\ outgoing' = <<Header("ZNAK", 0)>>
  /\ UNCHANGED <<state, fileVars, frameVars, capVars, pendingEvent,
                 finishRequested, streamingWindow>>

-----------------------------------------------------------------------------
Next ==
  \/ \E subpackets \in Window : SetStreamingWindow(subpackets)
  \/ \E name \in Name, size \in FileSize : StartFile(name, size)
  \/ StartFileNameTooLong
  \/ Finish
  \/ Abort
  \/ Timeout
  \/ PollEvent
  \/ \E n \in 1 .. Len(outgoing) : WireWritten(n)
  \/ \E data \in Chunk : SubmitFile(data)
  \/ \E h \in Incoming : SubmitWire(h)
  \/ SubmitGarbled

Spec == Init /\ [][Next]_vars
=============================================================================
