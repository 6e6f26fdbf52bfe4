----------------------------- MODULE ByteStream -----------------------------
(***************************************************************************)
(* The bytes of a session on their way into Receiver::submit_wire          *)
(* (src/receiver.rs), which gives them to the subpacket reader while a     *)
(* subpacket is being read and to the header reader otherwise.             *)
(*                                                                         *)
(* The peer goes through a script of frames, each in an encoding of its    *)
(* choice: a header and the subpackets behind it.  When a header or a      *)
(* subpacket was not taken it sends a frame from the place the receiver    *)
(* has reached, at once or after the rest of its window, which then is     *)
(* read as headers.  A byte may be damaged on the way, and input is cut    *)
(* anywhere.  The receiver stops at an error it cannot recover from; after *)
(* a header that could not be read its input goes on at the next byte.     *)
(* (submit_wire does not tell its caller which one that is.)               *)
(***************************************************************************)
EXTENDS HeaderReader, SubpacketReader

CONSTANTS
  Script,         \* the stages: [frame, count, encodings, subpackets]
  MaxDamage,      \* how many bytes may be damaged
  Replacement     \* what a damaged byte may turn into

VARIABLES
  wire,           \* bytes on their way
  stage,          \* where the peer is in the script
  header,         \* the header sent last
  frame,          \* the encoding of the peer's open frame, or "None"
  sent,           \* how many subpackets of the stage it has sent
  found,          \* the headers read since the last one was sent
  accepted,       \* the subpackets of the stage accepted
  missed,         \* how many headers were sent and not read
  damaged,        \* how many bytes were damaged
  error           \* why the session is over, or "None"

streamVars == <<wire, stage, header, frame, sent, found, accepted, missed,
                damaged, error>>
receiverVars == <<readerVars, subpacketVars>>

StreamInit ==
  /\ ReaderInit /\ SubpacketInit
  /\ wire = <<>> /\ stage = 0 /\ header = Header("ZRQINIT", 0)
  /\ frame = "None" /\ sent = 0 /\ found = <<>> /\ accepted = <<>>
  /\ missed = 0 /\ damaged = 0 /\ error = "None"

-----------------------------------------------------------------------------
(***************************************************************************)
(* The peer.                                                               *)
(***************************************************************************)
Subpackets == IF stage = 0 THEN <<>> ELSE Script[stage].subpackets
StageDone == stage = 0 \/ (found # <<>> /\ Len(accepted) >= Len(Subpackets))

\* What the header of a frame of stage s behind n of its subpackets names.
Position(s, n) ==
  FoldLeft(LAMBDA position, subpacket : position + Len(subpacket.data),
           Script[s].count, SubSeq(Script[s].subpackets, 1, n))

\* What a script may be.  Positions fit in four bytes; only a frame that
\* announces data has subpackets, a ZSINIT and a ZFILE one
\* (docs/zmodem.txt:1135, 1636), and it ends with the last of them; there is no
\* hex encoding of file data.  Behind the header of a hex ZSINIT comes a line
\* end, and the receiver takes a line feed that begins the payload for a part
\* of it.
StageRecord == [frame : Frame \ {"ZRINIT"}, count : Nat,
                encodings : SUBSET Encoding,
                subpackets : Seq([is : {"subpacket"}, kind : SubpacketType,
                                  data : Seq(Octet)])]
FitsInFlags(position) == position \div 16777216 < 256
ASSUME ScriptAssumption ==
  /\ Script \in Seq(StageRecord)
  /\ \A s \in 1 .. Len(Script) :
       LET subpackets == Script[s].subpackets
           n == Len(subpackets)
       IN  /\ \A i \in 0 .. n :
                Position(s, i) \in Nat /\ FitsInFlags(Position(s, i))
           /\ n > 0 <=> Script[s].frame \in {"ZSINIT", "ZFILE", "ZDATA"}
           /\ n > 1 => Script[s].frame = "ZDATA"
           /\ n > 0 => subpackets[n].kind \in {"ZCRCE", "ZCRCW"}
           /\ \A i \in 1 .. n : Len(subpackets[i].data) <= SubpacketMaxSize
           /\ n > 0 /\ "ZHEX" \in Script[s].encodings =>
                /\ Script[s].frame = "ZSINIT"
                /\ \A i \in 1 .. n : subpackets[i].data # <<>> =>
                     subpackets[i].data[1] \notin {LF, LF + 128}
ASSUME ReplacementAssumption == Replacement \subseteq Octet
\* What the checksums are asked for; they are two and four bytes long.
Checksummed ==
  UNION {{<<FrameNumber[Script[s].frame]>> \o CountBytes(Position(s, i)) :
            i \in 0 .. Len(Script[s].subpackets)}
         \cup {Append(subpacket.data, TerminatorByte[subpacket.kind]) :
                  subpacket \in Range(Script[s].subpackets)} :
           s \in 1 .. Len(Script)}
ASSUME ChecksumAssumption ==
  \A bytes \in Checksummed : /\ Crc16(bytes) \in Seq(Octet) /\ Len(Crc16(bytes)) = 2
                             /\ Crc32(bytes) \in Seq(Octet) /\ Len(Crc32(bytes)) = 4

\* The next frame, or this one again from the place reached.
BeginFrame ==
  /\ wire = <<>> /\ phase = "Idle" /\ error = "None"
  /\ stage' = IF StageDone THEN stage + 1 ELSE stage
  /\ stage' <= Len(Script)
  /\ accepted' = IF StageDone THEN <<>> ELSE accepted
  /\ sent' = Len(accepted')
  /\ header' = Header(Script[stage'].frame, Position(stage', sent'))
  /\ \E e \in Script[stage'].encodings :
       /\ wire' = HeaderBytes(e, header')
       /\ frame' = IF sent' = Len(Script[stage'].subpackets) THEN "None" ELSE e
  /\ found' = <<>>
  /\ missed' = IF stage > 0 /\ found = <<>> THEN missed + 1 ELSE missed
  /\ UNCHANGED <<receiverVars, damaged, error>>

\* There is no hex encoding of data.
SendSubpacket ==
  /\ wire = <<>> /\ frame # "None" /\ error = "None"
  /\ LET subpacket == Subpackets[sent + 1]
         encoded == IF frame = "ZHEX" THEN "ZBIN" ELSE frame
     IN  /\ wire' = SubpacketBytes(encoded, subpacket.kind, subpacket.data)
         /\ frame' = IF subpacket.kind \in {"ZCRCG", "ZCRCQ"} THEN frame
                                                              ELSE "None"
  /\ sent' = sent + 1
  /\ UNCHANGED <<receiverVars, stage, header, found, accepted, missed, damaged,
                 error>>

Damage ==
  /\ damaged < MaxDamage /\ wire # <<>>
  /\ \E b \in Replacement \ {Head(wire)} : wire' = <<b>> \o Tail(wire)
  /\ damaged' = damaged + 1
  /\ UNCHANGED <<receiverVars, stage, header, frame, sent, found, accepted,
                 missed, error>>

-----------------------------------------------------------------------------
(***************************************************************************)
(* The receiver.                                                           *)
(***************************************************************************)
ReadHeader(bytes) ==
  /\ phase = "Idle"
  /\ \/ /\ Skips(bytes) \/ Fails(bytes)
        /\ UNCHANGED <<subpacketVars, found>>
     \/ /\ Finds(bytes)
        /\ found' = Append(found, Decoded(bytes))
        /\ IF Decoded(bytes).frame \in {"ZSINIT", "ZFILE", "ZDATA"}
           THEN Announced(Decoded(bytes).frame, encoding)
           ELSE UNCHANGED subpacketVars
  /\ UNCHANGED <<accepted, error>>

\* A wrong checksum ends the session, unless it is one of file data: that is
\* asked for again, and what still arrives is skipped.  A payload that is too
\* long always ends it.
ProcessSubpacket(bytes) ==
  /\ phase # "Idle"
  /\ \/ /\ Reads(bytes)
        /\ UNCHANGED <<readerVars, accepted, error>>
     \/ /\ Accepts(Last(found).frame, bytes)
        /\ accepted' = Append(accepted, Subpacket(kind, buf))
        /\ UNCHANGED <<readerVars, error>>
     \/ /\ Rejects(bytes) /\ Last(found).frame = "ZDATA"
        /\ EnterResync
        /\ UNCHANGED <<accepted, error>>
     \/ /\ Rejects(bytes) /\ Last(found).frame # "ZDATA"
        /\ error' = "UnexpectedCrc"
        /\ UNCHANGED <<readerVars, accepted>>
     \/ /\ Overflows(bytes)
        /\ error' = "OutOfMemory"
        /\ UNCHANGED <<readerVars, accepted>>
  /\ UNCHANGED found

SubmitWire ==
  /\ error = "None"
  /\ \E n \in 1 .. Len(wire) :
       /\ n <= 2
       /\ LET bytes == SubSeq(wire, 1, n)
          IN  ReadHeader(bytes) \/ ProcessSubpacket(bytes)
       /\ wire' = SubSeq(wire, n + 1, Len(wire))
  /\ UNCHANGED <<stage, header, frame, sent, missed, damaged>>

StreamNext == BeginFrame \/ SendSubpacket \/ Damage \/ SubmitWire

StreamSpec == StreamInit /\ [][StreamNext]_<<receiverVars, streamVars>>

-----------------------------------------------------------------------------
\* Whatever is read, damaged or not, and wherever the input is cut: the header
\* reader never holds more bytes than a header of its encoding has, the
\* subpacket reader no more than a subpacket and its checksum, and each has an
\* encoding or a terminator exactly while it collects.
ReadersTypeOK == ReaderTypeOK /\ SubpacketTypeOK

\* No header is read that was not sent, none twice, none with a changed byte,
\* and none out of the data of a window that nobody reads as data.
FoundIsSent == found \in {<<>>, <<header>>}

\* Whatever padding, line ends and left-over data come before a header it is
\* read, in every encoding.  A damaged byte costs at most two headers: its own
\* and the next, which the reader may take for its rest.
HeadersFound == missed <= 2 * damaged

\* Wherever the input is cut and whichever byte is damaged: the subpackets
\* accepted are the ones that were sent, in order, none twice, none with a
\* changed byte or a changed terminator.  Two cases slip through a CRC-16,
\* which starts at zero and so does not notice a NUL in front: two damaged
\* bytes, when the payload begins with an escape that they turn into a NUL and
\* the byte escaped; and the line end behind a hex ZSINIT, one byte of which
\* becomes a NUL and the beginning of the payload (which nobody uses).
AcceptedIsSent ==
  (damaged <= 1 /\ header.frame # "ZSINIT") => IsPrefix(accepted, Subpackets)

\* On a clean line the readers stay in step with the peer: once all its bytes
\* are read its header was found and all its subpackets were accepted, nothing
\* is left over, and a subpacket is expected exactly when one is to come.
StaysInStep ==
  (damaged = 0 /\ wire = <<>> /\ stage > 0) =>
    /\ found = <<header>> /\ Len(accepted) = sent /\ error = "None"
    /\ phase = "Idle" <=> frame = "None"
    /\ buf = <<>> /\ crcBuf = <<>>
    /\ ~escapePending /\ ~subpacketEscapePending /\ ~crcEscapePending
    /\ readerState = "SeekingZpad"
=============================================================================
