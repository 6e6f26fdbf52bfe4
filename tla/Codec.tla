------------------------------- MODULE Codec --------------------------------
(***************************************************************************)
(* How the units of Wire become bytes, and how the bytes of a header       *)
(* become a header again: src/zdle.rs, and the pure parts of src/header.rs *)
(* and src/wire.rs.                                                        *)
(*                                                                         *)
(* The checksums are constants, because what is checked and proved here    *)
(* does not depend on their arithmetic; module Crc models that.            *)
(***************************************************************************)
EXTENDS Wire, SequencesExt

CONSTANTS
  Crc16(_),    \* the two bytes of a payload's CRC-16, high byte first
  Crc32(_)     \* the four bytes of its CRC-32, low byte first

Octet == 0 .. 255

ZPAD == 42
ZDLE == 24
CR == 13
LF == 10
XON == 17

-----------------------------------------------------------------------------
(***************************************************************************)
(* Escaping.  A byte that must not travel as it is follows a ZDLE.         *)
(***************************************************************************)
BugZdleTable(b) ==    \* ZDLE itself is not escaped
  CASE b \in {13, 16, 17, 19, 141, 144, 145, 147} -> b + 64
    [] b = 127 -> 108
    [] b = 255 -> 109
    [] OTHER -> b
ZdleTable(b) ==
  CASE b \in {13, 16, 17, 19, 24, 141, 144, 145, 147} -> b + 64
    [] b = 127 -> 108
    [] b = 255 -> 109
    [] OTHER -> b

UnzdleTable(b) ==
  CASE b \in (64 .. 95) \cup (192 .. 223) -> b - 64
    [] b = 108 -> 127
    [] b = 109 -> 255
    [] OTHER -> b

Escaped(b) ==
  IF ZdleTable(b) = b THEN <<b>> ELSE <<ZDLE, ZdleTable(b)>>
EscapeSlice(bytes) == FlattenSeq([i \in DOMAIN bytes |-> Escaped(bytes[i])])

-----------------------------------------------------------------------------
(***************************************************************************)
(* Headers.                                                                *)
(***************************************************************************)
Encoding == {"ZBIN", "ZHEX", "ZBIN32"}
EncodingByte == [ZBIN |-> 65, ZHEX |-> 66, ZBIN32 |-> 67]

FrameNumber ==
  [ZRQINIT |-> 0, ZRINIT |-> 1, ZSINIT |-> 2, ZACK |-> 3, ZFILE |-> 4,
   ZSKIP |-> 5, ZNAK |-> 6, ZABORT |-> 7, ZFIN |-> 8, ZRPOS |-> 9,
   ZDATA |-> 10, ZEOF |-> 11, ZFERR |-> 12, ZCRC |-> 13, ZCHALLENGE |-> 14,
   ZCOMPL |-> 15, ZCAN |-> 16, ZFREECNT |-> 17, ZCOMMAND |-> 18,
   ZSTDERR |-> 19]

\* The four flag bytes: a count, least significant byte first, or the
\* capabilities of a receiver: full duplex, 32-bit CRC and perhaps CANOVIO.
CountBytes(n) ==
  <<n % 256, (n \div 256) % 256, (n \div 65536) % 256, n \div 16777216>>
Flags(h) ==
  IF h.frame = "ZRINIT"
  THEN <<h.bufferLen % 256, h.bufferLen \div 256, 0,
         IF h.canOvio THEN 35 ELSE 33>>
  ELSE CountBytes(h.count)

HeaderOf(frame, flags) ==
  IF frame = "ZRINIT"
  THEN Zrinit(flags[1] + 256 * flags[2], (flags[4] \div 2) % 2 = 1)
  ELSE Header(frame, flags[1] + 256 * flags[2] + 65536 * flags[3]
                       + 16777216 * flags[4])

CrcBytes(encoding, bytes) ==
  IF encoding = "ZBIN32" THEN Crc32(bytes) ELSE Crc16(bytes)

\* Lower-case digits are written, both cases are read.
HexDigit(n) == IF n < 10 THEN 48 + n ELSE 87 + n
HexBytes(bytes) ==
  FlattenSeq([i \in DOMAIN bytes |-> <<HexDigit(bytes[i] \div 16),
                                       HexDigit(bytes[i] % 16)>>])
IsHexDigit(b) == b \in (48 .. 57) \cup (65 .. 70) \cup (97 .. 102)
HexValue(b) ==
  CASE b \in 48 .. 57 -> b - 48 [] b \in 65 .. 70 -> b - 55 [] OTHER -> b - 87

HexEnd(frame) ==
  IF frame \in {"ZACK", "ZFIN"} THEN <<CR, LF>> ELSE <<CR, LF, XON>>

HeaderBytes(encoding, h) ==
  LET payload == <<FrameNumber[h.frame]>> \o Flags(h)
      out == payload \o CrcBytes(encoding, payload)
  IN  IF encoding = "ZHEX"
      THEN <<ZPAD, ZPAD, ZDLE, EncodingByte[encoding]>>
             \o EscapeSlice(HexBytes(out)) \o HexEnd(h.frame)
      ELSE <<ZPAD, ZDLE, EncodingByte[encoding]>> \o EscapeSlice(out)

\* How many bytes follow the encoding, escapes removed.
ReadSize == [ZBIN |-> 7, ZHEX |-> 14, ZBIN32 |-> 9]

Malformed == [is |-> "malformed"]

HexDecoded(digits) ==
  [i \in 1 .. Len(digits) \div 2 |->
     16 * HexValue(digits[2 * i - 1]) + HexValue(digits[2 * i])]

\* The checksum behind the payload is the payload's.
BugCrcRight(encoding, out) == TRUE    \* it is not compared
CrcRight(encoding, out) ==
  SubSeq(out, 6, Len(out)) = CrcBytes(encoding, SubSeq(out, 1, 5))

\* What the bytes of a complete header stand for.
DecodeHeader(encoding, data) ==
  IF encoding = "ZHEX" /\ \E i \in DOMAIN data : ~IsHexDigit(data[i])
  THEN Malformed
  ELSE LET out == IF encoding = "ZHEX" THEN HexDecoded(data) ELSE data
           frames == {f \in Frame : FrameNumber[f] = out[1]}
       IN  IF CrcRight(encoding, out) /\ frames # {}
           THEN HeaderOf(CHOOSE f \in frames : TRUE, SubSeq(out, 2, 5))
           ELSE Malformed

-----------------------------------------------------------------------------
(***************************************************************************)
(* Subpackets.                                                             *)
(***************************************************************************)
TerminatorByte == [ZCRCE |-> 104, ZCRCG |-> 105, ZCRCQ |-> 106, ZCRCW |-> 107]

SubpacketBytes(encoding, kind, data) ==
  EscapeSlice(data) \o <<ZDLE, TerminatorByte[kind]>>
    \o EscapeSlice(CrcBytes(encoding, Append(data, TerminatorByte[kind])))

-----------------------------------------------------------------------------
(***************************************************************************)
(* Reading an escaped byte, which may be cut behind its ZDLE: with pending *)
(* the ZDLE was the last byte of an earlier call.                          *)
(***************************************************************************)
\* bytes is one byte as it was before escaping.
IsWhole(pending, bytes) ==
  \/ Len(bytes) = 1 /\ (pending \/ bytes[1] # ZDLE)
  \/ Len(bytes) = 2 /\ ~pending /\ bytes[1] = ZDLE
\* bytes is a ZDLE and the input ends.
IsCut(pending, bytes) == bytes = <<ZDLE>> /\ ~pending
\* What stands behind the ZDLE, or the byte itself.
Unescaped(pending, bytes) ==
  IF pending THEN UnzdleTable(bytes[1])
  ELSE IF Len(bytes) = 2 THEN UnzdleTable(bytes[2]) ELSE bytes[1]
=============================================================================
