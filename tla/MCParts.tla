------------------------------ MODULE MCParts -------------------------------
(***************************************************************************)
(* What lies below the two machines, checked in one run: the readers and   *)
(* writers of bytes (ByteStream, StrayData), the checksums (CrcStream),    *)
(* the buffer for output (OutgoingBuffer), the file announcement           *)
(* (FileInfo) and the event queue (EventQueue).                            *)
(*                                                                         *)
(* They share no state, but for ByteStream and StrayData, which are two    *)
(* environments of the same header reader.  So it is enough to let one of  *)
(* them run in each behaviour, while the others stay as they begin.        *)
(***************************************************************************)
EXTENDS ByteStream, StrayData, CrcStream, OutgoingBuffer, FileInfo, EventQueue

VARIABLE part    \* the one that runs

Init ==
  /\ part \in {"stream", "stray", "crc", "buffer", "file", "queue"}
  /\ StreamInit /\ StrayInit /\ CrcInit /\ BufferInit /\ FileInit /\ QueueInit

Next ==
  /\ \/ /\ part = "stream" /\ StreamNext
        /\ UNCHANGED <<rest, crcVars, bufferVars, fileVars, queueVars>>
     \/ /\ part = "stray" /\ StrayNext
        /\ UNCHANGED <<subpacketVars, streamVars, crcVars, bufferVars, fileVars,
                       queueVars>>
     \/ /\ part = "crc" /\ CrcNext
        /\ UNCHANGED <<receiverVars, streamVars, rest, bufferVars, fileVars,
                       queueVars>>
     \/ /\ part = "buffer" /\ BufferNext
        /\ UNCHANGED <<receiverVars, streamVars, rest, crcVars, fileVars,
                       queueVars>>
     \/ /\ part = "file" /\ FileNext
        /\ UNCHANGED <<receiverVars, streamVars, rest, crcVars, bufferVars,
                       queueVars>>
     \/ /\ part = "queue" /\ QueueNext
        /\ UNCHANGED <<receiverVars, streamVars, rest, crcVars, bufferVars,
                       fileVars>>
  /\ UNCHANGED part

vars == <<part, receiverVars, streamVars, rest, crcVars, bufferVars, fileVars,
          queueVars>>
Spec == Init /\ [][Next]_vars

-----------------------------------------------------------------------------
(***************************************************************************)
(* ByteStream: a session from ZSINIT to ZFIN with every terminator, in all *)
(* the encodings.  Counts, payloads and the checksums they have hold ZPAD, *)
(* ZDLE, bytes that are escaped and bytes that are terminators or          *)
(* encodings behind a ZDLE; a payload is empty and one is full.  Two bytes *)
(* may turn into a ZDLE, a ZPAD, an encoding or a terminator.              *)
(***************************************************************************)
Stage(frameType, count, encodings, subpackets) ==
  [frame |-> frameType, count |-> count, encodings |-> encodings,
   subpackets |-> subpackets]

Start == 42 + 256 * 24
MCScript ==
  <<Stage("ZSINIT", 0, {"ZHEX", "ZBIN32"},
          <<Subpacket("ZCRCW", <<24, 13, 17>>)>>),
    Stage("ZFILE", 0, {"ZBIN", "ZBIN32"},
          <<Subpacket("ZCRCW", <<120, 0, 53, 0>>)>>),
    Stage("ZDATA", Start, {"ZBIN", "ZBIN32"},
          <<Subpacket("ZCRCG", <<24, 104, 13>>), Subpacket("ZCRCQ", <<>>),
            Subpacket("ZCRCW", <<42, 42, 24, 66, 107>>),
            Subpacket("ZCRCE", <<17, 255>>)>>),
    Stage("ZEOF", Start + 10, {"ZHEX", "ZBIN32"}, <<>>),
    Stage("ZFIN", 0, {"ZHEX"}, <<>>)>>

(***************************************************************************)
(* FileInfo: the largest position is 225: a third digit may overflow it    *)
(* with the multiplication (26 * 10) or with the addition (22 * 10 + 6),   *)
(* as a tenth digit may a u32.  Names have at most three bytes.            *)
(***************************************************************************)
MCFileNames == {<<120>>, <<SP, 50>>, <<50, 54, 120>>}
=============================================================================
