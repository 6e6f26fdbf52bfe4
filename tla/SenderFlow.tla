----------------------------- MODULE SenderFlow -----------------------------
(***************************************************************************)
(* Properties of the sender that relate what it sends to what it was told  *)
(* earlier.  Two history variables remember that: the receiver's last      *)
(* ZRINIT, and the ZDATA frame opened last.  They never restrict a step.   *)
(***************************************************************************)
EXTENDS Sender

VARIABLES
  receiver,   \* what the last ZRINIT advertised
  frame       \* the last ZDATA frame: where it starts, the bytes and the
              \* subpackets sent in it, and the terms when it was opened

flowVars == <<vars, receiver, frame>>

NoReceiver == [bufferLen |-> 0, canOvio |-> TRUE]
Terms == [bufferLen |-> receiver.bufferLen, canOvio |-> receiver.canOvio,
          window |-> streamingWindow]

FlowInit ==
  /\ Init
  /\ receiver = NoReceiver
  /\ frame = [start |-> 0, sent |-> 0, subpackets |-> 0, terms |-> Terms]

FlowSubmitWire(h) ==
  /\ SubmitWire(h)
  /\ receiver' = IF h.frame = "ZRINIT"
                 THEN [bufferLen |-> h.bufferLen, canOvio |-> h.canOvio]
                 ELSE receiver
  /\ frame' = IF pendingRequest' # NoRequest
              THEN [start |-> h.count, sent |-> 0, subpackets |-> 0,
                    terms |-> Terms]
              ELSE frame

FlowSubmitFile(data) ==
  /\ SubmitFile(data)
  /\ frame' = [start |-> frame.start, sent |-> frame.sent + Len(data),
               subpackets |-> frame.subpackets + 1, terms |-> frame.terms]
  /\ UNCHANGED receiver

\* The steps that neither open a frame nor add to it.
OtherStep ==
  \/ \E subpackets \in Window : SetStreamingWindow(subpackets)
  \/ \E name \in Name, size \in FileSize : StartFile(name, size)
  \/ StartFileNameTooLong
  \/ Finish
  \/ Abort
  \/ Timeout
  \/ PollEvent
  \/ \E n \in 1 .. Len(outgoing) : WireWritten(n)
  \/ SubmitGarbled

FlowNext ==
  \/ \E h \in Incoming : FlowSubmitWire(h)
  \/ \E data \in Chunk : FlowSubmitFile(data)
  \/ OtherStep /\ UNCHANGED <<receiver, frame>>

FlowSpec == FlowInit /\ [][FlowNext]_flowVars

-----------------------------------------------------------------------------
TermsType == [bufferLen : Nat, canOvio : BOOLEAN, window : Nat \ {0}]

\* The variables keep their types.  In particular the pacing the sender
\* divides by or counts down from is never zero, whatever the receiver
\* advertises and whatever window the user asks for.
TypeOK ==
  /\ state \in SenderPhase
  /\ fileName \in Name \cup {EmptyName}
  /\ fileSize \in 0 .. MaxPosition
  /\ hasFile \in BOOLEAN
  /\ pendingRequest \in Request \cup {NoRequest}
  /\ frameRemaining \in Nat
  /\ frameNeedsHeader \in BOOLEAN
  /\ maxSubpacketSize \in 1 .. SubpacketMaxSize
  /\ maxSubpacketsPerAck \in Nat \ {0}
  /\ outgoing \in Seq(Unit)
  /\ pendingEvent \in SenderEvent \cup {NoEvent}
  /\ finishRequested \in BOOLEAN
  /\ streamingWindow \in Nat \ {0}
  /\ rxNonstop \in BOOLEAN
  /\ receiver \in [bufferLen : Nat, canOvio : BOOLEAN]
  /\ frame \in [start : Nat, sent : Nat, subpackets : Nat, terms : TermsType]

\* ReadFile is only ever asked for bytes the file has, never for zero bytes
\* and never for more than one subpacket may carry; and the sender is in
\* NeedFileData exactly while such a request is open.
RequestServable ==
  /\ state = "NeedFileData" <=> pendingRequest # NoRequest
  /\ pendingRequest # NoRequest =>
       /\ pendingRequest.len \in 1 .. maxSubpacketSize
       /\ pendingRequest.offset + pendingRequest.len <= fileSize
       /\ frameRemaining >= 1

\* Flow control (with_flow_control's contract, receiver.rs:83-85): between two
\* waits for an acknowledgement a receiver that advertised a buffer is sent
\* at most that many bytes, one that cannot write while it reads a single
\* subpacket, and a nonstop one at most the window set by the user.
WithinTerms ==
  LET terms == frame.terms
  IN  /\ terms.bufferLen > 0 => frame.sent <= terms.bufferLen
      /\ ~terms.canOvio => frame.subpackets <= 1
      /\ (terms.bufferLen = 0 /\ terms.canOvio)
           => frame.subpackets <= terms.window

\* The data of a frame is contiguous from the offset its ZDATA header names:
\* the next piece asked for starts where the bytes already sent end, and the
\* header is still owed exactly while none were sent.
FrameIsContiguous ==
  pendingRequest # NoRequest =>
    /\ pendingRequest.offset = frame.start + frame.sent
    /\ frameNeedsHeader <=> frame.sent = 0

\* The terminator on the wire tells the receiver what the sender does next:
\* after ZCRCW it waits for the answer, after ZCRCG it goes on with the
\* frame.  A mismatch leaves both sides waiting for each other.
WaitMatchesWire ==
  \A i \in DataOf(outgoing) :
    \/ state = "Done"
    \/ state = "WaitFileAck" /\ outgoing[i].kind = "ZCRCW"
    \/ state = "NeedFileData" /\ outgoing[i].kind = "ZCRCG"

\* A window set by the user governs the very next frame to a nonstop
\* receiver, whether it was set before or after the handshake.
PacingIsCurrent == rxNonstop => maxSubpacketsPerAck = streamingWindow

\* There is a single slot for the event poll will report.  An event in it is
\* never overwritten before the caller took it, except by Aborted.
EventsNotLost ==
  [][pendingEvent # NoEvent =>
       pendingEvent' \in {pendingEvent, NoEvent, "Aborted"}]_flowVars

\* Done is final: nothing is queued after it and no file or session is
\* reported complete after it.
DoneIsFinal ==
  [][state = "Done" =>
       /\ state' = "Done"
       /\ \E n \in 0 .. Len(outgoing) :
            outgoing' = SubSeq(outgoing, n + 1, Len(outgoing))
       /\ pendingEvent' \in {pendingEvent, NoEvent, "Aborted"}]_flowVars

-----------------------------------------------------------------------------
(***************************************************************************)
(* Why WithinTerms holds: the inductive invariant of the flow control.     *)
(***************************************************************************)
\* The pacing fits what the receiver advertised last.
CapsPromise ==
  state \notin {"WaitReceiverInit", "Done"} =>
    /\ rxNonstop <=> receiver.bufferLen = 0 /\ receiver.canOvio
    /\ receiver.bufferLen > 0 =>
         maxSubpacketsPerAck * maxSubpacketSize <= receiver.bufferLen
    /\ ~receiver.canOvio => maxSubpacketsPerAck = 1

\* What the open frame may still carry fits the terms it was opened under,
\* on top of what it carries already.
FramePromise ==
  pendingRequest # NoRequest =>
    LET terms == frame.terms
    IN  /\ terms.bufferLen > 0 =>
             frame.sent + frameRemaining * maxSubpacketSize <= terms.bufferLen
        /\ ~terms.canOvio => frame.subpackets + frameRemaining <= 1
        /\ (terms.bufferLen = 0 /\ terms.canOvio)
             => frame.subpackets + frameRemaining <= terms.window

FlowInv ==
  /\ TypeOK
  /\ RequestServable
  /\ FrameIsContiguous
  /\ PacingIsCurrent
  /\ CapsPromise
  /\ FramePromise
  /\ WithinTerms

\* Why EventsNotLost holds: an event the caller has not taken yet keeps the
\* sender from reading a header that would raise another.
EventGuarded ==
  pendingEvent # NoEvent =>
    \/ state = "Done"
    \/ pendingEvent = "FileComplete"
         /\ (state = "ReadyForFile" \/ outgoing # <<>>)

-----------------------------------------------------------------------------
\* What the code's comments promise and the code does not do.

\* "Starts sending a file with the provided metadata." (sender.rs:101)  A file
\* announced to the receiver has the name start_file was given.
AnnouncesAName ==
  \A i \in 1 .. Len(outgoing) :
    outgoing[i].is = "metadata" => outgoing[i].name \in Name
=============================================================================
