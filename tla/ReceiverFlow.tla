---------------------------- MODULE ReceiverFlow ----------------------------
(***************************************************************************)
(* Properties of the receiver that relate what it answers to what was      *)
(* persisted and accepted earlier.  History variables remember that; they  *)
(* never restrict a step.                                                  *)
(***************************************************************************)
EXTENDS Receiver

VARIABLES
  base,       \* where the current file was last started or resumed
  persisted,  \* the bytes the caller reported persisted since then
  opened,     \* a file was accepted, or its data begun, and not completed
  rewinds     \* corrupt subpackets recovered from since count last changed

flow == <<base, persisted, opened, rewinds>>
flowVars == <<vars, flow>>

FlowInit ==
  /\ Init
  /\ base = 0 /\ persisted = 0 /\ opened = FALSE /\ rewinds = 0

Restart(offset) == base' = offset /\ persisted' = 0 /\ rewinds' = 0

FlowAccept(offset) ==
  AcceptFileAt(offset) /\ Restart(offset) /\ opened' = TRUE
FlowSkip ==
  SkipFile /\ opened' = FALSE /\ UNCHANGED <<base, persisted, rewinds>>
FlowMetadata(name, size) ==
  /\ SubmitMetadata(name, size)
  /\ Restart(0)
  /\ opened' = IF manualAccept THEN opened ELSE TRUE
FlowWritten(n) ==
  /\ FileWritten(n)
  /\ persisted' = persisted + n
  /\ rewinds' = IF count' # count THEN 0 ELSE rewinds
  /\ UNCHANGED <<base, opened>>
FlowHeader(h) ==
  /\ SubmitHeader(h)
  /\ opened' = IF OnZeof(h) THEN FALSE
               ELSE opened \/ state' = "FileReadingSubpacket"
  /\ UNCHANGED <<base, persisted, rewinds>>
\* One rewind more than the budget is all there is to tell.
FlowRecover ==
  /\ RecoverCorruptSubpacket
  /\ rewinds' = IF rewinds > MaxZrposRetries THEN rewinds ELSE rewinds + 1
  /\ UNCHANGED <<base, persisted, opened>>

\* The steps that leave the history alone.
OtherStep ==
  \/ \E manual \in BOOLEAN : SetManualFileAccept(manual)
  \/ Timeout
  \/ Abort
  \/ PollEvent
  \/ \E n \in 1 .. Len(outgoing) : WireWritten(n)
  \/ SubmitGarbled
  \/ \E storedName \in Name \cup {fileName, EmptyName} :
       SubmitMalformedMetadata(storedName)
  \/ SubmitSinitData
  \/ \E kind \in SubpacketType, data \in IncomingData : SubmitData(kind, data)
  \/ \E kind \in SubpacketType : GiveUpOnCorruptSubpacket(kind)

FlowNext ==
  \/ \E offset \in ResumeOffset : FlowAccept(offset)
  \/ FlowSkip
  \/ \E name \in Name, size \in IncomingSize : FlowMetadata(name, size)
  \/ \E n \in 1 .. Len(DrainFile) : FlowWritten(n)
  \/ \E h \in Incoming : FlowHeader(h)
  \/ FlowRecover
  \/ OtherStep /\ UNCHANGED flow

FlowSpec == FlowInit /\ [][FlowNext]_flowVars

\* The caller keeps doing what poll asks for, as the README's loop and the one
\* in tests/integration.rs do: it takes events, writes bytes and persists data.
\* Nothing is assumed of the peer or of the user.
FairFlowSpec ==
  /\ FlowSpec
  /\ WF_flowVars(PollEvent /\ UNCHANGED flow)
  /\ WF_flowVars(\E n \in 1 .. Len(outgoing) : WireWritten(n)
                                                 /\ UNCHANGED flow)
  /\ WF_flowVars(\E n \in 1 .. Len(DrainFile) : FlowWritten(n))

-----------------------------------------------------------------------------
\* The variables keep their types.  In particular the position stays a u32
\* and the event queue never exceeds its four slots.
TypeOK ==
  /\ state \in ReceiverPhase
  /\ count \in 0 .. MaxPosition
  /\ fileName \in Name \cup {EmptyName}
  /\ fileSize \in 0 .. MaxPosition
  /\ buf \in Seq(Byte) /\ Len(buf) <= SubpacketMaxSize
  /\ bufWriteOffset \in 0 .. Len(buf)
  /\ subpacketState \in SubpacketPhase
  /\ outgoing \in Seq(Unit)
  /\ pendingEvents \in Seq(ReceiverEvent)
  /\ Len(pendingEvents) <= EventQueueCap
  /\ manualAccept \in BOOLEAN
  /\ zrposRetries \in 0 .. MaxZrposRetries + 1
  /\ fileActive \in BOOLEAN
  /\ resyncing \in BOOLEAN
  /\ base \in Nat /\ persisted \in Nat /\ opened \in BOOLEAN
  /\ rewinds \in 0 .. MaxZrposRetries + 1

\* The position the receiver goes by is exactly what the user accepted plus
\* what the caller persisted: data dropped, refused or asked for again never
\* moves it, whatever the peer sends and however writes are split.
CountIsPersisted == count + bufWriteOffset = base + persisted

\* Every ZACK and ZRPOS on its way to the sender names a position up to which
\* all data is persisted, so a sender that goes on from there (after a crash
\* of the link, or a rewind) never leaves a hole.
AnswersArePersisted ==
  \A i \in HeadersOf(outgoing, "ZACK") \cup HeadersOf(outgoing, "ZRPOS") :
    outgoing[i].count = base + persisted

\* While data waits for the caller no answer is pending.  file_written relies
\* on it: its acknowledgement would otherwise fail with Backpressure after the
\* position was advanced, and the subpacket would never be finished.
OutputFreeWhileWriting == DrainFile # <<>> => outgoing = <<>>

\* A file is reported complete once: only if it was accepted or its data was
\* begun since the last completion or refusal (the comment in handle_header,
\* receiver.rs:497-504).
NoSecondCompletion ==
  [][(Len(pendingEvents') > Len(pendingEvents)
        /\ pendingEvents'[Len(pendingEvents')] = "FileComplete")
     => opened]_flowVars

\* A session the peer ended, or the user while no data was waiting to be
\* persisted, stays ended, whatever still arrives.
EndIsFinal ==
  [][state = "SessionEnd" /\ DrainFile = <<>>
     => state' = "SessionEnd"]_flowVars

\* submit_wire consumes input, as headers or as a subpacket.
ReadsInput == ReadableAsHeader \/ ReadableAsData

\* file_written was told that all of a subpacket is persisted, and refused to
\* move the position past the last one: the subpacket stays as it is.
PositionRefused ==
  /\ subpacketState.phase = "Writing" /\ DrainFile = <<>>
  /\ ~Fits(count + Len(buf))

\* A call returned an error inside a subpacket that leaves it unfinished: a
\* checksum that is not recovered from, a malformed announcement (submit_wire),
\* or a position that does not fit (file_written).
Failed == InData /\ (subpacketState.phase = "Crc" \/ PositionRefused)

\* What is true of that: only these errors make poll say Idle while submit_wire
\* reads nothing.
PollSaysIdle == pendingEvents = <<>> /\ outgoing = <<>> /\ DrainFile = <<>>
IdleOrFailed == PollSaysIdle => ReadsInput \/ Failed

\* Unless the transfer has failed with an error, a receiver whose caller does
\* what poll asks for reads input again and again: none of the three things it
\* can wait for (events, output, file data) hides another, no order of headers,
\* aborts and timeouts leaves them taking turns for ever, and no handler leaves
\* a state that is to read a subpacket with a subpacket reader that does not.
ReadsAgain == []<>(ReadsInput \/ Failed)

-----------------------------------------------------------------------------
(***************************************************************************)
(* Why these hold: the inductive invariant of the receiver.                *)
(***************************************************************************)
\* Outside a subpacket none is being read, and data waits for the caller only
\* inside a data frame or, after abort, at the end.
PhaseFits ==
  /\ InData \/ state = "SessionEnd" \/ subpacketState = Idle
  /\ subpacketState.phase = "Writing"
       => state \in {"FileReadingSubpacket", "SessionEnd"}
  /\ subpacketState.phase # "Writing" => bufWriteOffset = 0

\* Before the first file the position is the start.
BeginsAtZero ==
  state \in {"SessionBegin", "SinitReadingData"} => base + persisted = 0

\* A receiver whose budget of rewinds is spent reads no more data.
BudgetSpent == zrposRetries > MaxZrposRetries => subpacketState.phase = "Crc"

\* Wherever a ZEOF is taken, and wherever that can be reached without another
\* file, a file is open.
OpenWhereItMatters ==
  \/ fileActive
  \/ state \in {"FileReadingSubpacket", "FileWaitingSubpacket"}
  \/ subpacketState.phase = "Writing"
  => opened

\* A state in which a subpacket is to be read has one under way, and one that is
\* persisted and still there is one that was refused.
SubpacketUnderWay ==
  /\ InData => subpacketState.phase # "Idle"
  /\ subpacketState.phase = "Writing" /\ bufWriteOffset = Len(buf)
       => ~Fits(count + Len(buf))

FlowInv ==
  /\ TypeOK
  /\ CountIsPersisted /\ AnswersArePersisted /\ OutputFreeWhileWriting
  /\ PhaseFits /\ BeginsAtZero /\ BudgetSpent /\ OpenWhereItMatters

-----------------------------------------------------------------------------
\* What the code's comments promise and the code does not do.

\* "Aborts the current session." (receiver.rs:320)
AbortIsFinal == [][state = "SessionEnd" => state' = "SessionEnd"]_flowVars

\* "Consecutive corrupt data subpackets, without any forward progress in
\* between, tolerated before the transfer is abandoned." (receiver.rs:53-54)
RewindsBounded == rewinds <= MaxZrposRetries

\* Idle: "No work is pending. Submit more wire input with `submit_wire`, or wait
\* for a `timeout`." (api.rs:74-75)  A subpacket whose checksum was read and led
\* to an error is left out: what submit_wire makes of more input then is not
\* modelled.
IdleReadsInput ==
  PollSaysIdle /\ subpacketState.phase # "Crc" => ReadsInput
=============================================================================
