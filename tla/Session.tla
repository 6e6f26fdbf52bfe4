------------------------------ MODULE Session -------------------------------
(***************************************************************************)
(* A Sender and a Receiver joined by a full-duplex link, each driven by a  *)
(* caller the way the README says and run_full_transfer (tests.rs) and     *)
(* tests/integration.rs do: a loop that does what poll asks for and feeds  *)
(* what arrives.                                                           *)
(*                                                                         *)
(* The sender's user offers the files in order, then asks to finish.  The  *)
(* receiver's user accepts every file automatically or, in manual mode,    *)
(* resumes it behind what it already has or declines it.                   *)
(*                                                                         *)
(* The link delivers in order.  It may damage a unit: a damaged header     *)
(* disappears or is recognised as damaged; a damaged subpacket keeps its   *)
(* terminator and fails its CRC.  Damage, timeouts and aborts come from    *)
(* finite budgets, which the configurations set.                           *)
(***************************************************************************)
EXTENDS Wire

CONSTANTS
  SubpacketMaxSize, SubpacketPerAck, MaxPosition, NoRequest,
  EventQueueCap, MaxZrposRetries, BufferLen, OverlappedIo,
  Files,          \* the names of the files to send, in order
  Content,        \* what each of them holds
  AlreadyHas,     \* what the receiver's disk holds of each before
  Manual,         \* whether the receiver's user may decide about files
  Declinable,     \* the names of those it may decline
  EagerFinish,    \* whether finish is asked for before the last file is done
  Damageable,     \* the sorts of units the link may damage
  MaxDamage, MaxTimeouts, MaxAborts   \* the budgets

VARIABLES
  \* the sender
  sState, sFileName, sFileSize, sHasFile, pendingRequest, frameRemaining,
  frameNeedsHeader, maxSubpacketSize, maxSubpacketsPerAck, sOutgoing,
  pendingEvent, finishRequested, streamingWindow, rxNonstop,
  \* the receiver
  rState, count, rFileName, rFileSize, buf, bufWriteOffset, subpacketState,
  rOutgoing, pendingEvents, manualAccept, zrposRetries, fileActive,
  resyncing,
  \* the link and the world
  down, up,              \* units on their way to the receiver, to the sender
  offered,               \* how many files the sender's user has offered
  disk,                  \* what the receiver's caller has persisted
  declined,              \* the files the receiver's user has declined
  completed,             \* the files the receiver has reported complete
  damage, timeouts, aborts   \* what is left of the budgets

IsPrefixOf(part, whole) ==
  Len(part) <= Len(whole) /\ part = SubSeq(whole, 1, Len(part))

S == INSTANCE Sender WITH
       state <- sState, fileName <- sFileName, fileSize <- sFileSize,
       hasFile <- sHasFile, outgoing <- sOutgoing,
       Incoming <- {}, Chunk <- {}, FileSize <- {}, Window <- {}
R == INSTANCE Receiver WITH
       state <- rState, fileName <- rFileName, fileSize <- rFileSize,
       outgoing <- rOutgoing,
       Incoming <- {}, IncomingData <- {}, IncomingSize <- {},
       ResumeOffset <- {}

\* No two files have the same name; what the receiver has of one before is the
\* beginning of it, and a position in one fits in a u32.
ASSUME FilesAssumption ==
  /\ Files \in Seq(Name)
  /\ \A i, j \in 1 .. Len(Files) : Files[i] = Files[j] => i = j
  /\ Content \in [Name -> Seq(Byte)]
  /\ AlreadyHas \in [Name -> Seq(Byte)]
  /\ \A name \in Name : /\ Len(Content[name]) <= MaxPosition
                        /\ IsPrefixOf(AlreadyHas[name], Content[name])
ASSUME SessionLimitsAssumption ==
  /\ SubpacketMaxSize \in Nat \ {0}
  /\ MaxPosition \in Nat
  /\ NoRequest \notin S!Request
  /\ BufferLen \in Nat /\ OverlappedIo \in BOOLEAN
  /\ Manual \in BOOLEAN
  /\ MaxZrposRetries \in Nat /\ MaxDamage \in Nat

sVars == <<sState, sFileName, sFileSize, sHasFile, pendingRequest,
           frameRemaining, frameNeedsHeader, maxSubpacketSize,
           maxSubpacketsPerAck, sOutgoing, pendingEvent, finishRequested,
           streamingWindow, rxNonstop>>
rVars == <<rState, count, rFileName, rFileSize, buf, bufWriteOffset,
           subpacketState, rOutgoing, pendingEvents, manualAccept,
           zrposRetries, fileActive, resyncing>>
link == <<down, up>>
budgets == <<damage, timeouts, aborts>>
world == <<offered, disk, declined, completed>>
vars == <<sVars, rVars, link, world, budgets>>

Init ==
  /\ S!Init
  /\ R!Init
  /\ down = <<>> /\ up = <<>>
  /\ offered = 0
  /\ disk = AlreadyHas
  /\ declined = {} /\ completed = {}
  /\ damage = MaxDamage /\ timeouts = MaxTimeouts /\ aborts = MaxAborts

-----------------------------------------------------------------------------
(***************************************************************************)
(* The sender's side.                                                      *)
(***************************************************************************)
CurrentFile == Files[offered]

OfferFile ==
  /\ offered < Len(Files) /\ ~sHasFile /\ ~finishRequested
  /\ sState = "WaitReceiverInit" \/ sOutgoing = <<>>
  /\ LET name == Files[offered + 1]
     IN  S!StartFile(name, Len(Content[name]))
  /\ offered' = offered + 1
  /\ UNCHANGED <<rVars, link, disk, declined, completed, budgets>>

\* Once, when the last file was offered or only when it is complete.  (With
\* output pending between files the call would fail and be made again.)
AskToFinish ==
  /\ offered = Len(Files) /\ ~finishRequested
  /\ EagerFinish \/ sState = "ReadyForFile"
  /\ sState = "ReadyForFile" => sOutgoing = <<>>
  /\ S!Finish
  /\ UNCHANGED <<rVars, link, world, budgets>>

SenderEvent == S!PollEvent /\ UNCHANGED <<rVars, link, world, budgets>>

SenderWrites ==
  /\ S!WireWritten(1)
  /\ down' = Append(down, Head(sOutgoing))
  /\ UNCHANGED <<rVars, up, world, budgets>>

\* The caller reads what it can: possibly less than it was asked for.
SenderReadsFile ==
  /\ pendingRequest # NoRequest
  /\ pendingEvent = S!NoEvent
  /\ \E n \in 1 .. pendingRequest.len :
       S!SubmitFile(SubSeq(Content[CurrentFile], pendingRequest.offset + 1,
                           pendingRequest.offset + n))
  /\ UNCHANGED <<rVars, link, world, budgets>>

SenderReceives ==
  /\ up # <<>>
  /\ S!SubmitWire(Head(up))
  /\ up' = Tail(up)
  /\ UNCHANGED <<rVars, down, world, budgets>>

\* The link tells the headers of the handshake from later ones, because only
\* they are repeated when they get lost.
SortOf(unit) ==
  IF unit.is = "header" /\ sState = "WaitReceiverInit" THEN "handshake"
                                                      ELSE unit.is
MayDamage(unit) == damage > 0 /\ SortOf(unit) \in Damageable

SenderReceivesDamaged ==
  /\ up # <<>> /\ S!Readable
  /\ MayDamage(Head(up))
  /\ S!SubmitGarbled \/ UNCHANGED sVars
  /\ up' = Tail(up)
  /\ damage' = damage - 1
  /\ UNCHANGED <<rVars, down, world, timeouts, aborts>>

SenderTimeout ==
  /\ timeouts > 0 /\ S!Timeout
  /\ timeouts' = timeouts - 1
  /\ UNCHANGED <<rVars, link, world, damage, aborts>>

SenderAborts ==
  /\ aborts > 0 /\ S!Abort
  /\ aborts' = aborts - 1
  /\ UNCHANGED <<rVars, link, world, damage, timeouts>>

-----------------------------------------------------------------------------
(***************************************************************************)
(* The receiver's side.                                                    *)
(***************************************************************************)
\* The user may ask to decide about the files to come as soon as it has seen
\* what happened so far: before the first file, between two, or never.
SetManual ==
  /\ Manual /\ ~manualAccept /\ pendingEvents = <<>>
  /\ R!SetManualFileAccept(TRUE)
  /\ UNCHANGED <<sVars, link, world, budgets>>

\* The user decides once it has seen the announcement.
Resume ==
  /\ pendingEvents = <<>>
  /\ R!AcceptFileAt(Len(disk[rFileName]))
  /\ UNCHANGED <<sVars, link, world, budgets>>

Decline ==
  /\ rFileName \in Declinable /\ pendingEvents = <<>>
  /\ R!SkipFile
  /\ declined' = declined \cup {rFileName}
  /\ UNCHANGED <<sVars, link, offered, disk, completed, budgets>>

\* A file taken automatically is written from its start.
ReceiverEvent ==
  /\ R!PollEvent
  /\ disk' = IF Head(pendingEvents) = "FileStart" /\ ~manualAccept
             THEN [disk EXCEPT ![rFileName] = <<>>] ELSE disk
  /\ UNCHANGED <<sVars, link, offered, declined, completed, budgets>>

ReceiverWrites ==
  /\ R!WireWritten(1)
  /\ up' = Append(up, Head(rOutgoing))
  /\ UNCHANGED <<sVars, down, world, budgets>>

\* The caller persists what it can: possibly less than it was offered.
ReceiverWritesFile ==
  /\ \E n \in 1 .. Len(R!DrainFile) :
       /\ R!FileWritten(n)
       /\ disk' = [disk EXCEPT ![rFileName] = @ \o SubSeq(R!DrainFile, 1, n)]
  /\ UNCHANGED <<sVars, link, offered, declined, completed, budgets>>

\* The step makes the receiver, or the sender, report an event to its caller.
ReceiverReports(event) ==
  /\ Len(pendingEvents') > Len(pendingEvents)
  /\ pendingEvents'[Len(pendingEvents')] = event
SenderReports(event) == pendingEvent' = event /\ pendingEvent # event

\* Bytes of a frame that is not being read, read as headers: no byte sequence
\* the sender's escaping produces inside a subpacket is a header.
ReadsStray ==
  /\ R!ReadableAsHeader
  /\ R!SubmitGarbled \/ UNCHANGED rVars

ReceiverReceives ==
  /\ down # <<>>
  /\ LET unit == Head(down)
     IN  \/ unit.is = "header" /\ R!SubmitHeader(unit)
         \/ unit.is = "subpacket" /\ R!SubmitData(unit.kind, unit.data)
         \/ unit.is = "metadata" /\ R!SubmitMetadata(unit.name, unit.size)
         \/ unit.is \in {"subpacket", "metadata"} /\ ReadsStray
         \/ unit.is = "OO" /\ R!ReadableAsHeader /\ UNCHANGED rVars
  /\ down' = Tail(down)
  /\ completed' = IF ReceiverReports("FileComplete")
                  THEN completed \cup {rFileName} ELSE completed
  /\ UNCHANGED <<sVars, up, offered, disk, declined, budgets>>

ReceiverReceivesDamaged ==
  /\ down # <<>>
  /\ MayDamage(Head(down))
  /\ \/ Head(down).is = "header" /\ ReadsStray
     \/ Head(down).is \in {"subpacket", "metadata"} /\ ReadsStray
     \/ Head(down).is = "subpacket" /\ R!RecoverCorruptSubpacket
     \/ /\ Head(down).is = "subpacket"
        /\ R!GiveUpOnCorruptSubpacket(Head(down).kind)
     \/ Head(down).is = "metadata" /\ R!GiveUpOnCorruptSubpacket("ZCRCW")
  /\ down' = Tail(down)
  /\ damage' = damage - 1
  /\ UNCHANGED <<sVars, up, world, timeouts, aborts>>

ReceiverTimeout ==
  /\ timeouts > 0 /\ R!Timeout
  /\ timeouts' = timeouts - 1
  /\ UNCHANGED <<sVars, link, world, damage, aborts>>

ReceiverAborts ==
  /\ aborts > 0 /\ R!Abort
  /\ aborts' = aborts - 1
  /\ UNCHANGED <<sVars, link, world, damage, timeouts>>

-----------------------------------------------------------------------------
SenderStep ==
  \/ OfferFile \/ AskToFinish
  \/ SenderEvent \/ SenderWrites \/ SenderReadsFile
  \/ SenderReceives
ReceiverStep ==
  \/ SetManual \/ Resume \/ Decline
  \/ ReceiverEvent \/ ReceiverWrites \/ ReceiverWritesFile
  \/ ReceiverReceives
FaultStep ==
  \/ SenderReceivesDamaged \/ SenderTimeout \/ SenderAborts
  \/ ReceiverReceivesDamaged \/ ReceiverTimeout \/ ReceiverAborts

Next == SenderStep \/ ReceiverStep \/ FaultStep

Spec == Init /\ [][Next]_vars

\* Each caller keeps running its loop, the link keeps delivering and the users
\* do what is theirs to do.  Faults, a refusal and the manual mode are never
\* forced.
Fairness ==
  /\ WF_vars(OfferFile) /\ WF_vars(AskToFinish)
  /\ WF_vars(SenderEvent) /\ WF_vars(SenderWrites)
  /\ WF_vars(SenderReadsFile) /\ WF_vars(SenderReceives)
  /\ WF_vars(Resume \/ Decline)
  /\ WF_vars(ReceiverEvent) /\ WF_vars(ReceiverWrites)
  /\ WF_vars(ReceiverWritesFile) /\ WF_vars(ReceiverReceives)

FairSpec == Spec /\ Fairness

\* Nothing is on its way and neither machine has work for its caller: all that
\* is left to a caller is to wait for its timeout, as often as it takes.  That
\* one of the two has the patience is enough here.
Quiet ==
  /\ down = <<>> /\ up = <<>> /\ sOutgoing = <<>> /\ rOutgoing = <<>>
  /\ pendingRequest = NoRequest /\ R!DrainFile = <<>>
  /\ pendingEvent = S!NoEvent /\ pendingEvents = <<>>

QuietTimeout ==
  /\ Quiet
  /\ \/ S!Timeout /\ UNCHANGED rVars
     \/ R!Timeout /\ UNCHANGED sVars
  /\ UNCHANGED <<link, world, budgets>>

PatientSpec ==
  Init /\ [][Next \/ QuietTimeout]_vars /\ Fairness /\ WF_vars(QuietTimeout)

-----------------------------------------------------------------------------
Has(name) == disk[name] = Content[name]
Settled(name) == Has(name) \/ name \in declined

\* What is on the receiver's disk is always a prefix of the file the sender
\* has under that name: nothing is duplicated, skipped, reordered or taken
\* from a damaged subpacket, and no file's data ends up in another, through
\* rewinds, short reads and writes, resumed transfers, stale answers and
\* aborts.
DiskIsPrefix == \A name \in DOMAIN disk : IsPrefixOf(disk[name], Content[name])

\* When the receiver has reported a file complete, all of it is on the disk.
CompletedIsWhole == \A name \in completed : Has(name)

\* The sender reports a file complete only when the receiver has persisted
\* all of it, or its user has declined it.
SenderCompletionSound ==
  [][SenderReports("FileComplete") => Settled(CurrentFile)]_vars

\* Neither side reports the session complete before every file is settled.
SessionCompletionSound ==
  [][SenderReports("SessionComplete") \/ ReceiverReports("SessionComplete")
     => /\ offered = Len(Files)
        /\ \A i \in 1 .. Len(Files) : Settled(Files[i])]_vars

\* A declined file is never written to.
DeclinedUntouched ==
  [][\A name \in declined : disk'[name] = disk[name]]_vars

\* The two machines agree on what comes next on the wire: where the receiver
\* reads a subpacket the sender has put one, of the sort expected.  Otherwise
\* the receiver would take a header for data.
InStep ==
  R!ReadableAsData /\ down # <<>> =>
    Head(down).is = IF rState = "FileReadingMetadata" THEN "metadata"
                                                      ELSE "subpacket"

BothDone ==
  /\ sState = "Done" /\ pendingEvent = S!NoEvent
  /\ rState = "SessionEnd" /\ pendingEvents = <<>>

\* While the link damages no more subpackets than the receiver tolerates, and
\* no headers but those of the handshake, which the timeouts repeat, every
\* session ends on both sides.  With SessionCompletionSound: with every file
\* settled.
Completes == <>[]BothDone

\* The faults a session gets over: damaged subpackets, no more of them than the
\* receiver asks for again in a row, and damaged headers of the handshake.
Forgiving ==
  /\ Damageable \subseteq {"handshake", "subpacket"}
  /\ MaxDamage <= MaxZrposRetries /\ MaxAborts = 0

\* A user has to act: to decide about a file, to offer the next one or to
\* finish, or to give up, because its receiver has declined the last file when
\* the sender's request to finish was already made (see FinishHonoured).
WaitsForUser ==
  \/ rState = "FileAcceptPending"
  \/ sState = "ReadyForFile" /\ (finishRequested => CurrentFile \in declined)

\* The two sides never wait for each other with nothing on its way, however
\* often subpackets have to be sent again: only a damaged handshake needs a
\* timeout.  (Without any file the receiver waits for one for ever, see
\* SuccessIsMutual.)
NeverStuck ==
  (Forgiving /\ Files # <<>> /\ Quiet) =>
    \/ BothDone
    \/ WaitsForUser
    \/ sState = "WaitReceiverInit" /\ "handshake" \in Damageable

\* Whatever the link, the timeouts and the users do, the session transfers
\* files: each step is one that FileTransfer allows, or none of its business.
\* While damage stays within the budget it also gets every file across.
Transfer == INSTANCE FileTransfer
TransfersFiles == Transfer!Spec
TransfersEveryFile == Transfer!FairSpec

-----------------------------------------------------------------------------
\* What the code's comments promise and the code does not do.

\* "Requests to finish the session after the current file completes."
\* (sender.rs:144)
FinishHonoured == finishRequested ~> sState = "Done"

\* "The session completed successfully." (api.rs:87)  A session that is
\* complete for the sender ends for the receiver too.
SuccessIsMutual == pendingEvent = "SessionComplete" ~> rState = "SessionEnd"

\* "Indicates last header was garbled." (docs/zmodem.txt:1816, of ZNAK)  A
\* session in which a header was damaged is repaired and completes.
GarbledHeaderRecovered == damage < MaxDamage ~> BothDone
=============================================================================
