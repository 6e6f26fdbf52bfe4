----------------------------- MODULE CrcStream ------------------------------
(***************************************************************************)
(* The incremental calculators Crc16 and Crc32 of src/crc.rs, fed byte by  *)
(* byte as the subpacket reader does, next to a second pair fed with the   *)
(* same message but for one byte: the message before and after the line    *)
(* damaged it.                                                             *)
(***************************************************************************)
EXTENDS Crc

CONSTANTS
  MessageBytes,    \* the bytes of a message
  MessageLength    \* how many there are

ASSUME MessageAssumption == MessageBytes \subseteq 0 .. 255

VARIABLES
  data,                 \* the message so far
  crc16, crc32,         \* what the calculators hold
  damaged16, damaged32, \* what they hold at the other end of the line
  altered               \* whether a byte was changed

crcVars == <<data, crc16, crc32, damaged16, damaged32, altered>>

CrcInit ==
  /\ data = <<>>
  /\ crc16 = Crc16Start /\ damaged16 = Crc16Start
  /\ crc32 = Crc32Start /\ damaged32 = Crc32Start
  /\ altered = FALSE

UpdateByte(byte, arrived) ==
  /\ Len(data) < MessageLength
  /\ data' = Append(data, byte)
  /\ crc16' = Crc16Update(crc16, byte)
  /\ crc32' = Crc32Update(crc32, byte)
  /\ damaged16' = Crc16Update(damaged16, arrived)
  /\ damaged32' = Crc32Update(damaged32, arrived)

Update(byte) == UpdateByte(byte, byte) /\ UNCHANGED altered

UpdateDamaged(byte, arrived) ==
  /\ ~altered /\ arrived # byte
  /\ UpdateByte(byte, arrived)
  /\ altered' = TRUE

CrcNext ==
  \/ \E byte \in MessageBytes : Update(byte)
  \/ \E byte, arrived \in MessageBytes : UpdateDamaged(byte, arrived)

CrcSpec == CrcInit /\ [][CrcNext]_crcVars

-----------------------------------------------------------------------------
(***************************************************************************)
(* What a CRC is, without registers: the remainder of the message, as a    *)
(* polynomial over the field of two elements, shifted by the degree of the *)
(* generator, by long division.  A polynomial is the set of its exponents. *)
(***************************************************************************)
Remainder(polynomial, length, generator, degree) ==
  LET eliminate(p, e) == IF e \in p THEN SymDiff(p, {e - degree + i : i \in generator})
                                   ELSE p
  IN  FoldLeft(eliminate, polynomial,
               [i \in 1 .. 8 * length |-> degree + 8 * length - i])

Generator16 == {0, 5, 12, 16}
Generator32 == {0, 1, 2, 4, 5, 7, 8, 10, 11, 12, 16, 22, 23, 26, 32}

\* The first bit of a byte is its highest for CRC-16, its lowest for CRC-32,
\* which also complements the first 32 bits of the message.
Message16(message) ==
  UNION {{16 + 8 * (Len(message) - k) + i : i \in Bits(message[k])} :
           k \in DOMAIN message}
Message32(message) ==
  SymDiff(UNION {{32 + 8 * (Len(message) - k) + 7 - i : i \in Bits(message[k])} :
                   k \in DOMAIN message},
          {8 * Len(message) + i : i \in 0 .. 31})

\* The bitwise registers compute the standard checksums, byte by byte and in
\* one go: what other implementations of the protocol compute.
IsTheStandardChecksum ==
  /\ crc16 = Remainder(Message16(data), Len(data), Generator16, 16)
  /\ crc16 = Crc16Xmodem(data)
  /\ crc32 = {31 - i : i \in Remainder(Message32(data), Len(data), Generator32, 32)}
  /\ Crc32Final(crc32) = Crc32IsoHdlc(data)

\* Both checksums notice every single damaged byte, wherever it stands in the
\* message and whatever follows it: what makes a header or a subpacket with
\* one damaged byte fail its check (decode_header, RxCrc::process).
DamageShows ==
  altered => crc16 # damaged16 /\ Crc32Final(crc32) # Crc32Final(damaged32)
=============================================================================
