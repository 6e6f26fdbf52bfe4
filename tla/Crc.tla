-------------------------------- MODULE Crc ---------------------------------
(***************************************************************************)
(* The two checksums, src/crc.rs.  A register is the set of its bits that  *)
(* are one, so exclusive or is the symmetric difference of sets and a      *)
(* shift moves every member.                                               *)
(***************************************************************************)
EXTENDS Integers, SequencesExt

Weight == <<1, 2, 4, 8, 16, 32, 64, 128>>
Bits(byte) == {i \in 0 .. 7 : (byte \div Weight[i + 1]) % 2 = 1}
\* The byte held by the bits from the given one on.
ByteAt(register, from) ==
  FoldLeft(LAMBDA sum, i : sum + IF from + i \in register THEN Weight[i + 1] ELSE 0, 0,
           [i \in 1 .. 8 |-> i - 1])

-----------------------------------------------------------------------------
(***************************************************************************)
(* CRC-16-XMODEM: shifts left, starts at zero.                             *)
(***************************************************************************)
Poly16 == {0, 5, 12}    \* 0x1021

Shift16(crc) ==
  LET shifted == {i + 1 : i \in crc \ {15}}
  IN  IF 15 \in crc THEN SymDiff(shifted, Poly16) ELSE shifted
Twice16(crc) == Shift16(Shift16(crc))

BugCrc16Update(crc, byte) ==    \* the byte replaces the register
  Twice16(Twice16(Twice16(Twice16({i + 8 : i \in Bits(byte)}))))
Crc16Update(crc, byte) ==
  Twice16(Twice16(Twice16(Twice16(SymDiff(crc, {i + 8 : i \in Bits(byte)})))))

Crc16Start == {}
Crc16Xmodem(data) == FoldLeft(Crc16Update, Crc16Start, data)

\* As it is sent, high byte first.
Crc16Bytes(data) ==
  LET crc == Crc16Xmodem(data) IN <<ByteAt(crc, 8), ByteAt(crc, 0)>>

-----------------------------------------------------------------------------
(***************************************************************************)
(* CRC-32-ISO-HDLC: shifts right, starts at all ones, is complemented.     *)
(***************************************************************************)
Poly32 == {5, 8, 9, 15, 19, 20, 21, 23, 24, 26, 27, 29, 30, 31}  \* 0xEDB88320

BugShift32(crc) ==    \* the bit tested is the wrong one
  LET shifted == {i - 1 : i \in crc \ {0}}
  IN  IF 31 \in crc THEN SymDiff(shifted, Poly32) ELSE shifted
Shift32(crc) ==
  LET shifted == {i - 1 : i \in crc \ {0}}
  IN  IF 0 \in crc THEN SymDiff(shifted, Poly32) ELSE shifted
Twice32(crc) == Shift32(Shift32(crc))

Crc32Update(crc, byte) ==
  Twice32(Twice32(Twice32(Twice32(SymDiff(crc, Bits(byte))))))

Crc32Start == 0 .. 31
Crc32Final(crc) == (0 .. 31) \ crc
Crc32IsoHdlc(data) == Crc32Final(FoldLeft(Crc32Update, Crc32Start, data))

\* As it is sent, low byte first.
Crc32Bytes(data) ==
  LET crc == Crc32IsoHdlc(data)
  IN  <<ByteAt(crc, 0), ByteAt(crc, 8), ByteAt(crc, 16), ByteAt(crc, 24)>>
=============================================================================
