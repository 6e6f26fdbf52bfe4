-------------------------- MODULE SubpacketReader ---------------------------
(***************************************************************************)
(* The incremental subpacket reader: the phases SkipTrailer, Reading and   *)
(* Crc of process_subpacket in src/receiver.rs and the checksum reader     *)
(* RxCrc of src/wire.rs.                                                   *)
(*                                                                         *)
(* As in HeaderReader one step reads one byte, or the two bytes of an      *)
(* escape when both are there.  The code updates its checksum byte by      *)
(* byte; here it is computed from what was collected (module Crc shows     *)
(* that this is the same).                                                 *)
(***************************************************************************)
EXTENDS Codec

CONSTANT SubpacketMaxSize    \* SUBPACKET_MAX_SIZE, 1024

ASSUME SizeAssumption == SubpacketMaxSize \in Nat \ {0}

VARIABLES
  phase,              \* SubpacketPhase
  kind,               \* the terminator read, or "None"
  buf,                \* the payload collected
  dataEncoding,       \* the encoding of the header before it
  subpacketEscapePending,
  crcBuf,             \* the checksum bytes read
  crcEscapePending    \* RxCrc::escape_pending

subpacketVars == <<phase, kind, buf, dataEncoding, subpacketEscapePending,
                   crcBuf, crcEscapePending>>

CrcLength == IF dataEncoding = "ZBIN32" THEN 4 ELSE 2

SubpacketInit ==
  /\ phase = "Idle" /\ kind = "None" /\ buf = <<>> /\ dataEncoding = "ZBIN"
  /\ subpacketEscapePending = FALSE
  /\ crcBuf = <<>> /\ crcEscapePending = FALSE

SubpacketTypeOK ==
  /\ phase \in {"Idle", "SkipTrailer", "Reading", "Crc"}
  /\ kind \in SubpacketType \cup {"None"}
  /\ (phase = "Crc") = (kind # "None")
  /\ buf \in Seq(Octet) /\ Len(buf) <= SubpacketMaxSize
  /\ dataEncoding \in Encoding
  /\ subpacketEscapePending \in BOOLEAN /\ crcEscapePending \in BOOLEAN
  /\ crcBuf \in Seq(Octet) /\ Len(crcBuf) < CrcLength

\* RxCrc::reset
ResetCrc == crcBuf' = <<>> /\ crcEscapePending' = FALSE

Await(newPhase) ==
  /\ phase' = newPhase /\ kind' = "None"
  /\ buf' = <<>> /\ subpacketEscapePending' = FALSE
  /\ ResetCrc

\* A header announced a subpacket.  The line end of a hex ZSINIT is skipped,
\* and its data is ZBIN: there is no hex encoding of data.
Announced(frame, encoding) ==
  LET hexSinit == frame = "ZSINIT" /\ encoding = "ZHEX"
  IN  /\ Await(IF hexSinit THEN "SkipTrailer" ELSE "Reading")
      /\ dataEncoding' = IF hexSinit THEN "ZBIN" ELSE encoding

-----------------------------------------------------------------------------
\* CR, LF, XON and XOFF, with any parity.
BugTrailer == {CR, LF, CR + 128, LF + 128}    \* no XON
Trailer == {CR, LF, XON, XON + 2}
             \cup {CR + 128, LF + 128, XON + 128, XON + 130}

SkipTrailer(bytes) ==
  /\ phase = "SkipTrailer" /\ Len(bytes) = 1 /\ bytes[1] \in Trailer
  /\ UNCHANGED subpacketVars

\* The first byte that is no trailer is payload, and read as such at once.
IsPayload(bytes) ==
  \/ phase = "Reading"
  \/ phase = "SkipTrailer" /\ bytes[1] \notin Trailer

PauseAtEscape(bytes) ==
  /\ IsPayload(bytes) /\ IsCut(subpacketEscapePending, bytes)
  /\ phase' = "Reading" /\ subpacketEscapePending' = TRUE
  /\ UNCHANGED <<kind, buf, dataEncoding, crcBuf, crcEscapePending>>

\* The terminators that bytes may be: one stands behind a ZDLE.
TerminatorsIn(bytes) ==
  IF subpacketEscapePending \/ Len(bytes) = 2
  THEN {k \in SubpacketType : TerminatorByte[k] = bytes[Len(bytes)]}
  ELSE {}

Terminate(bytes) ==
  /\ IsPayload(bytes) /\ IsWhole(subpacketEscapePending, bytes)
  /\ kind' \in TerminatorsIn(bytes)
  /\ phase' = "Crc" /\ subpacketEscapePending' = FALSE
  /\ UNCHANGED <<buf, dataEncoding, crcBuf, crcEscapePending>>

IsData(bytes) ==
  /\ IsPayload(bytes) /\ IsWhole(subpacketEscapePending, bytes)
  /\ TerminatorsIn(bytes) = {}

BugHasRoom == TRUE    \* the size is not checked
HasRoom == Len(buf) < SubpacketMaxSize

CollectData(bytes) ==
  /\ IsData(bytes) /\ HasRoom
  /\ buf' = Append(buf, Unescaped(subpacketEscapePending, bytes))
  /\ phase' = "Reading" /\ subpacketEscapePending' = FALSE
  /\ UNCHANGED <<kind, dataEncoding, crcBuf, crcEscapePending>>

\* OutOfMemory: the byte is gone, and the caller is told.
Overflows(bytes) ==
  /\ IsData(bytes) /\ ~HasRoom
  /\ phase' = "Reading" /\ subpacketEscapePending' = FALSE
  /\ UNCHANGED <<kind, buf, dataEncoding, crcBuf, crcEscapePending>>

-----------------------------------------------------------------------------
PauseInCrc(bytes) ==
  /\ phase = "Crc" /\ IsCut(crcEscapePending, bytes)
  /\ crcEscapePending' = TRUE
  /\ UNCHANGED <<phase, kind, buf, dataEncoding, subpacketEscapePending,
                 crcBuf>>

CrcCollected(bytes) == Append(crcBuf, Unescaped(crcEscapePending, bytes))

CollectCrc(bytes) ==
  /\ phase = "Crc" /\ IsWhole(crcEscapePending, bytes)
  /\ Len(crcBuf) + 1 < CrcLength
  /\ crcBuf' = CrcCollected(bytes) /\ crcEscapePending' = FALSE
  /\ UNCHANGED <<phase, kind, buf, dataEncoding, subpacketEscapePending>>

SubpacketCrc == CrcBytes(dataEncoding, Append(buf, TerminatorByte[kind]))

\* The last checksum byte is there.
CompletesCrc(bytes) ==
  /\ phase = "Crc" /\ IsWhole(crcEscapePending, bytes)
  /\ Len(crcBuf) + 1 = CrcLength

BugCrcMatches(bytes) == TRUE    \* the checksum is not compared
CrcMatches(bytes) == CrcCollected(bytes) = SubpacketCrc

\* In a data frame another subpacket follows a ZCRCG or a ZCRCQ.  A ZFILE and a
\* ZSINIT have one subpacket, whatever its terminator.  (That nothing is read
\* before the caller has persisted the data of this one is module Receiver's
\* matter.)
ReadsOn(frame) == frame = "ZDATA" /\ kind \in {"ZCRCG", "ZCRCQ"}

Accepts(frame, bytes) ==
  /\ CompletesCrc(bytes) /\ CrcMatches(bytes)
  /\ Await(IF ReadsOn(frame) THEN "Reading" ELSE "Idle")
  /\ UNCHANGED dataEncoding

\* The receiver drops what it has and asks for the data again
\* (recover_corrupt_subpacket).
Rejects(bytes) ==
  /\ CompletesCrc(bytes) /\ ~CrcMatches(bytes)
  /\ Await("Idle")
  /\ UNCHANGED dataEncoding

Reads(bytes) ==
  \/ SkipTrailer(bytes) \/ PauseAtEscape(bytes) \/ CollectData(bytes)
  \/ Terminate(bytes) \/ PauseInCrc(bytes) \/ CollectCrc(bytes)
=============================================================================
