---------------------------- MODULE SessionFlow -----------------------------
(***************************************************************************)
(* Whose turn it is in a session: the inductive invariant behind the       *)
(* properties of module Session.                                           *)
(*                                                                         *)
(* What a machine has queued and its caller has not written yet is already *)
(* on its way, so the invariant speaks of Down and Up, the link with the   *)
(* output behind it.  From the announcement of a file to its end exactly   *)
(* one thing is going on - the announcement is under way, it is read, the  *)
(* user decides, the answer is under way, the sender owes a frame, the     *)
(* frame is under way, it is read and persisted - or nothing is any more,  *)
(* because a header was damaged, a side has aborted, or the file is done.  *)
(***************************************************************************)
EXTENDS Session

Down == down \o sOutgoing
Up == up \o rOutgoing

IsFrame(unit, frames) == unit.is = "header" /\ unit.frame \in frames

\* Headers that neither side acts on once the receiver has answered.
Noise(unit) == IsFrame(unit, {"ZRQINIT", "ZNAK"})
\* What the receiver only drops while it reads headers.
Plain(unit) == ~IsFrame(unit, {"ZFILE", "ZDATA", "ZEOF", "ZFIN"})
Answers == {"ZRPOS", "ZACK", "ZSKIP"}

NoAnswer == \A i \in 1 .. Len(Up) : Up[i].frame \notin Answers

Begun == {Files[i] : i \in 1 .. offered}
AllSettled ==
  offered = Len(Files) /\ \A i \in 1 .. Len(Files) : Settled(Files[i])

-----------------------------------------------------------------------------
(***************************************************************************)
(* What holds of each side, of the link and of the world at any time.      *)
(***************************************************************************)
SenderOK ==
  /\ sState \in S!SenderPhase
  /\ sOutgoing \in Seq(Unit)
  /\ sHasFile \in BOOLEAN /\ finishRequested \in BOOLEAN
  /\ maxSubpacketSize \in Nat \ {0}
  /\ offered \in 0 .. Len(Files)
  /\ sState # "NeedFileData" => pendingRequest = NoRequest
  /\ sState = "NeedFileData" =>
       /\ pendingRequest \in S!Request
       /\ pendingRequest.len >= 1
       /\ pendingRequest.offset + pendingRequest.len <= sFileSize
  /\ sState \in {"WaitFilePos", "NeedFileData", "WaitFileAck",
                 "WaitFileDone"} => sHasFile
  /\ sState \in {"ReadyForFile", "WaitFinish"} => ~sHasFile
  /\ sState = "WaitReceiverInit" /\ ~sHasFile => offered = 0
  /\ sHasFile => /\ offered > 0
                 /\ sFileName = CurrentFile
                 /\ sFileSize = Len(Content[CurrentFile])
  /\ finishRequested => offered = Len(Files)
  /\ sState = "WaitFinish" => finishRequested

\* The caller has not seen yet that a file starts, and will empty it.
ResetDue ==
  /\ ~manualAccept
  /\ \E i \in 1 .. Len(pendingEvents) : pendingEvents[i] = "FileStart"

OneStart ==
  \A i, j \in 1 .. Len(pendingEvents) :
    pendingEvents[i] = "FileStart" /\ pendingEvents[j] = "FileStart" => i = j

ReceiverOK ==
  /\ rState \in R!ReceiverPhase \ {"SinitReadingData"}
  /\ rOutgoing \in Seq(HeaderUnit)
  /\ subpacketState \in R!SubpacketPhase
  /\ count \in Nat
  /\ buf \in Seq(Byte) /\ bufWriteOffset \in Nat
  /\ pendingEvents \in Seq(R!ReceiverEvent)
  /\ manualAccept \in BOOLEAN
  /\ rFileName \in Begun \cup {EmptyName}

LinkOK ==
  /\ down \in Seq(Unit) /\ up \in Seq(HeaderUnit)
  /\ \A i \in 1 .. Len(Down) :
       Down[i].is = "header" =>
         Down[i].frame \in {"ZRQINIT", "ZNAK", "ZFILE", "ZDATA", "ZEOF",
                            "ZFIN"}
  /\ \A i \in 1 .. Len(Up) :
       Up[i].frame \in {"ZRINIT", "ZNAK", "ZFIN"} \cup Answers

WorldOK ==
  /\ disk \in [Name -> Seq(Byte)]
  /\ completed \subseteq Begun /\ declined \subseteq Begun
  /\ DiskIsPrefix /\ CompletedIsWhole

\* The files offered before the current one are settled, and the current one
\* wherever the sender takes it to be.
FilesSettled ==
  /\ \A i \in 1 .. offered - 1 : Settled(Files[i])
  /\ sState \in {"ReadyForFile", "WaitFinish"} /\ offered > 0 =>
       Settled(CurrentFile)
  /\ sState = "WaitFileDone" => Has(CurrentFile)

\* A ZEOF under way is about the file the receiver has taken, and the receiver
\* has all of it.
EofIsTrue ==
  \A i \in 1 .. Len(Down) : IsFrame(Down[i], {"ZEOF"}) =>
    /\ sState # "WaitReceiverInit"
    /\ rFileName \in Begun \ declined
    /\ Has(rFileName)

FinIsTrue ==
  \A i \in 1 .. Len(Down) : IsFrame(Down[i], {"ZFIN"}) =>
    sState \in {"WaitFinish", "Done"} /\ AllSettled

-----------------------------------------------------------------------------
(***************************************************************************)
(* The turns.                                                              *)
(***************************************************************************)
\* The receiver reads headers, or nothing any more.
ReceiverIdle ==
  /\ subpacketState.phase # "Writing"
  /\ rState # "FileAcceptPending"
  /\ rState \in {"FileReadingMetadata", "FileReadingSubpacket"} =>
       subpacketState # R!Reading

OwesHeader == sState = "NeedFileData" /\ frameNeedsHeader

Undecided == CurrentFile \notin completed \cup declined
Announced(unit) == unit = Metadata(CurrentFile, Len(Content[CurrentFile]))
\* The receiver has taken the current file.
Taken == offered > 0 /\ rFileName = CurrentFile /\ Undecided
\* It has persisted all of it up to its position.
Synced == Len(disk[CurrentFile]) = count

NoTurn ==
  /\ ReceiverIdle /\ NoAnswer /\ ~ResetDue /\ ~OwesHeader
  /\ \A i \in 1 .. Len(Down) : ~IsFrame(Down[i], {"ZFILE", "ZDATA"})
  /\ sState = "WaitReceiverInit" /\ sHasFile =>
       Undecided /\ rFileName # CurrentFile

AnnouncementUnderWay ==
  /\ ReceiverIdle /\ NoAnswer /\ ~ResetDue
  /\ sState \in {"WaitFilePos", "Done"}
  /\ offered > 0 /\ Undecided /\ rFileName # CurrentFile
  /\ \E k \in 1 .. Len(Down) :
       /\ IsFrame(Down[k], {"ZFILE"})
       /\ k < Len(Down) /\ Announced(Down[k + 1])
       /\ \A i \in 1 .. k - 1 : ~IsFrame(Down[i], {"ZFILE", "ZDATA", "ZFIN"})
       /\ \A i \in k + 2 .. Len(Down) : Noise(Down[i])

ReadingAnnouncement ==
  /\ rState = "FileReadingMetadata" /\ subpacketState = R!Reading
  /\ NoAnswer /\ ~ResetDue
  /\ sState \in {"WaitFilePos", "Done"}
  /\ offered > 0 /\ Undecided
  /\ Down # <<>> /\ Announced(Down[1])
  /\ \A i \in 2 .. Len(Down) : Noise(Down[i])

Deciding ==
  /\ rState = "FileAcceptPending" /\ subpacketState.phase # "Writing"
  /\ NoAnswer /\ ~ResetDue
  /\ sState \in {"WaitFilePos", "Done"}
  /\ Taken
  /\ \A i \in 1 .. Len(Down) : Plain(Down[i])

\* The current file is refused, or asked for from the receiver's position.
AnswersCurrent(k) ==
  IF Up[k].frame = "ZSKIP"
  THEN CurrentFile \in declined /\ sState \in {"WaitFilePos", "Done"}
       /\ ~ResetDue
  ELSE /\ CurrentFile \notin declined
       /\ Up[k].count = count
       /\ count <= Len(Content[CurrentFile])
       /\ ~ResetDue => Synced
       /\ ResetDue => count = 0 /\ k > Len(up)

AnswerUnderWay ==
  /\ ReceiverIdle /\ ~OwesHeader
  /\ sState \in {"WaitFilePos", "NeedFileData", "WaitFileAck", "Done"}
  /\ offered > 0 /\ rFileName = CurrentFile /\ CurrentFile \notin completed
  /\ \A i \in 1 .. Len(Down) : Plain(Down[i])
  /\ ResetDue => OneStart
  /\ \E k \in 1 .. Len(Up) :
       /\ Up[k].frame \in Answers
       /\ \A i \in 1 .. Len(Up) : Up[i].frame \in Answers => i = k
       /\ AnswersCurrent(k)

FrameOwed ==
  /\ ReceiverIdle /\ NoAnswer /\ ~ResetDue /\ OwesHeader
  /\ Taken /\ Synced
  /\ pendingRequest.offset = count
  /\ \A i \in 1 .. Len(Down) : Plain(Down[i])

\* From the unit at index first on there is the rest of a frame: subpackets,
\* the last of which asks for an answer, and noise behind that one.
LiveUnit(unit) ==
  \/ unit.is = "subpacket" /\ unit.kind \in {"ZCRCG", "ZCRCW"}
  \/ Noise(unit)
GoesOn(unit) == unit.is = "subpacket" /\ unit.kind = "ZCRCG"
RestOfFrame(first) ==
  /\ \A i \in first .. Len(Down) :
       /\ LiveUnit(Down[i])
       /\ i < Len(Down) =>
            IF GoesOn(Down[i]) THEN Down[i + 1].is = "subpacket"
                               ELSE Noise(Down[i + 1])
  /\ first <= Len(Down) =>
       /\ sState = "NeedFileData" => GoesOn(Down[Len(Down)])
       /\ sState = "WaitFileAck" => ~GoesOn(Down[Len(Down)])

\* The data of the frame is that of the file from position start on, piece by
\* piece and without a gap, up to the piece the sender asks for next.
Carries(unit, file, from, to) ==
  /\ unit.is = "subpacket" =>
       from < to /\ unit.data = SubSeq(Content[file], from + 1, to)
  /\ unit.is # "subpacket" => from = to
DataFrom(first, start) ==
  \E at \in [first .. Len(Down) + 1 -> 0 .. Len(Content[CurrentFile])] :
    /\ at[first] = start
    /\ \A i \in first .. Len(Down) :
         Carries(Down[i], CurrentFile, at[i], at[i + 1])
    /\ sState = "NeedFileData" => at[Len(Down) + 1] = pendingRequest.offset

Sending == sState \in {"NeedFileData", "WaitFileAck", "Done"} /\ ~OwesHeader

FrameUnderWay ==
  /\ ReceiverIdle /\ NoAnswer /\ ~ResetDue /\ Sending
  /\ Taken /\ Synced
  /\ \E k \in 1 .. Len(Down) :
       /\ IsFrame(Down[k], {"ZDATA"}) /\ Down[k].count = count
       /\ \A i \in 1 .. k - 1 : Plain(Down[i])
       /\ k < Len(Down) /\ Down[k + 1].is = "subpacket"
       /\ RestOfFrame(k + 1) /\ DataFrom(k + 1, count)

\* More of the frame is to come.
MoreToCome == IF Down = <<>> THEN sState \in {"NeedFileData", "Done"}
                             ELSE Down[1].is = "subpacket"

ReadingFrame ==
  /\ rState = "FileReadingSubpacket" /\ subpacketState = R!Reading
  /\ NoAnswer /\ ~ResetDue /\ Sending
  /\ Taken /\ Synced
  /\ RestOfFrame(1) /\ MoreToCome /\ DataFrom(1, count)

PersistingData ==
  /\ rState \in {"FileReadingSubpacket", "SessionEnd"}
  /\ subpacketState \in {R!Writing("ZCRCG"), R!Writing("ZCRCW")}
  /\ NoAnswer /\ ~ResetDue /\ Sending
  /\ Taken
  /\ bufWriteOffset < Len(buf)
  /\ count + Len(buf) <= Len(Content[CurrentFile])
  /\ buf = SubSeq(Content[CurrentFile], count + 1, count + Len(buf))
  /\ Len(disk[CurrentFile]) = count + bufWriteOffset
  /\ RestOfFrame(1) /\ DataFrom(1, count + Len(buf))
  /\ IF subpacketState.kind = "ZCRCG" THEN MoreToCome
     ELSE /\ sState # "NeedFileData"
          /\ \A i \in 1 .. Len(Down) : Noise(Down[i])

SomeTurn ==
  \/ NoTurn
  \/ AnnouncementUnderWay \/ ReadingAnnouncement \/ Deciding
  \/ AnswerUnderWay
  \/ FrameOwed \/ FrameUnderWay \/ ReadingFrame \/ PersistingData

SessionInv ==
  /\ SenderOK /\ ReceiverOK /\ LinkOK /\ WorldOK
  /\ FilesSettled /\ EofIsTrue /\ FinIsTrue
  /\ SomeTurn

-----------------------------------------------------------------------------
(***************************************************************************)
(* What keeps a session going as long as the faults are ones it gets over: *)
(* there is something under way for the one who waits, and the receiver    *)
(* will not ignore it.                                                     *)
(***************************************************************************)
Retries ==
  /\ zrposRetries \in Nat /\ damage \in Nat
  /\ zrposRetries + damage <= MaxDamage /\ aborts = 0

Comes(frame) == \E i \in 1 .. Len(Up) : Up[i].frame = frame

\* The receiver takes the ZEOF at i for the end of its file, and so is between
\* two files when it comes to the unit at k.
EndsFile(i) ==
  IsFrame(Down[i], {"ZEOF"}) /\ Down[i].count = count /\ R!AwaitsZeof
ReadyAt(k) == rState = "FileBegin" \/ \E i \in 1 .. k - 1 : EndsFile(i)
FileEnds == \E i \in 1 .. Len(Down) : EndsFile(i)
SessionEnds ==
  \E k \in 1 .. Len(Down) : IsFrame(Down[k], {"ZFIN"}) /\ ReadyAt(k)
\* No announcement comes at a time the receiver ignores it.
FilesTaken ==
  \A k \in 1 .. Len(Down) :
    IsFrame(Down[k], {"ZFILE"}) => rState = "SessionBegin" \/ ReadyAt(k)

\* A file is somewhere between its announcement and its end.
FrameComes(frame) == \E k \in 1 .. Len(Down) : IsFrame(Down[k], {frame})
Moving ==
  ~ReceiverIdle \/ ~NoAnswer \/ OwesHeader
  \/ FrameComes("ZFILE") \/ FrameComes("ZDATA")

FilesGoOn ==
  /\ sState \in {"WaitFilePos", "NeedFileData", "WaitFileAck"} => Moving
  /\ FilesTaken
  /\ OwesHeader \/ FrameComes("ZDATA") \/ Comes("ZRPOS") \/ Comes("ZACK") =>
       R!AwaitsZeof
  /\ Comes("ZSKIP") => rState = "FileBegin"

SenderGoesOnFrom ==
  /\ sState = "WaitReceiverInit" =>
       rState = "SessionBegin" /\ (Comes("ZRINIT") \/ "handshake" \in Damageable)
  /\ sState = "ReadyForFile" =>
       /\ IF offered = 0 THEN rState = "SessionBegin" ELSE ReadyAt(Len(Down) + 1)
       /\ finishRequested => offered > 0 /\ CurrentFile \in declined
  /\ sState = "WaitFileDone" =>
       /\ ReadyAt(Len(Down) + 1)
       /\ Comes("ZRINIT") \/ FileEnds
  /\ sState = "WaitFinish" => Comes("ZRINIT") \/ Comes("ZFIN") \/ SessionEnds
  /\ sState \in {"WaitFinish", "Done"} => rState = "SessionEnd" \/ SessionEnds

ReceiverEnds ==
  rState = "SessionEnd" => sState \in {"WaitFinish", "Done"} /\ ReceiverIdle

OwedInv == Retries /\ FilesGoOn /\ SenderGoesOnFrom /\ ReceiverEnds
ForgivingInv == Forgiving /\ Files # <<>> => OwedInv
=============================================================================
