----------------------------- MODULE CrcProofs ------------------------------
(***************************************************************************)
(* The two checksums, for a message of any length: both notice a single    *)
(* damaged byte, and both are the remainders they should be.               *)
(*                                                                         *)
(* A shift never makes two different registers equal, because the bit that *)
(* the generator feeds back at one end tells whether it was added.  So the *)
(* registers at the two ends of the line differ from the damaged byte on.  *)
(*                                                                         *)
(* One byte more is eight more steps of a long division, and the steps     *)
(* before them are those of the shorter message eight places higher: the   *)
(* remainder follows the register byte by byte, for CRC-32 mirrored.       *)
(***************************************************************************)
EXTENDS CrcStream, FoldProofs

Register16 == SUBSET (0 .. 15)
Register32 == SUBSET (0 .. 31)

-----------------------------------------------------------------------------
LEMMA BitsRange == \A byte \in 0 .. 255 : Bits(byte) \subseteq 0 .. 7
BY DEF Bits

\* A byte is determined by its bits.
LEMMA BitsInjective ==
  ASSUME NEW a \in 0 .. 255, NEW b \in 0 .. 255, Bits(a) = Bits(b)
  PROVE  a = b
<1> DEFINE D(x, w) == (x \div w) % 2
<1>1. \A i \in 0 .. 7 : D(a, Weight[i + 1]) = 1 <=> D(b, Weight[i + 1]) = 1
  BY DEF Bits
<1>2. /\ D(a, 1) = 1 <=> D(b, 1) = 1
      /\ D(a, 2) = 1 <=> D(b, 2) = 1
      /\ D(a, 4) = 1 <=> D(b, 4) = 1
      /\ D(a, 8) = 1 <=> D(b, 8) = 1
      /\ D(a, 16) = 1 <=> D(b, 16) = 1
      /\ D(a, 32) = 1 <=> D(b, 32) = 1
      /\ D(a, 64) = 1 <=> D(b, 64) = 1
      /\ D(a, 128) = 1 <=> D(b, 128) = 1
  BY <1>1 DEF Weight
<1>3. QED
  BY <1>2, SMTT(60)

\* Exclusive or keeps different registers different.
LEMMA SymDiffInjective ==
  ASSUME NEW a, NEW b, NEW c, SymDiff(a, c) = SymDiff(b, c)
  PROVE  a = b
BY DEF SymDiff

LEMMA SymDiffRange ==
  /\ \A a, b \in Register16 : SymDiff(a, b) \in Register16
  /\ \A a, b \in Register32 : SymDiff(a, b) \in Register32
BY DEF SymDiff, Register16, Register32

LEMMA Shift16Range ==
  ASSUME NEW c \in Register16
  PROVE  Shift16(c) \in Register16
BY DEF Register16, Shift16, Poly16, SymDiff

LEMMA Shift16Injective ==
  ASSUME NEW a \in Register16, NEW b \in Register16, Shift16(a) = Shift16(b)
  PROVE  a = b
<1> DEFINE Shifted(c) == {i + 1 : i \in c \ {15}}
<1>1. \A c \in Register16 : 0 \notin Shifted(c)
  BY DEF Register16
<1>2. \A c \in Register16 : 0 \in Shift16(c) <=> 15 \in c
  BY <1>1 DEF Shift16, Poly16, SymDiff
<1>3. 15 \in a <=> 15 \in b
  BY <1>2
<1>4. Shifted(a) = Shifted(b)
  <2>1. CASE 15 \in a
    <3>1. SymDiff(Shifted(a), Poly16) = SymDiff(Shifted(b), Poly16)
      BY <1>3, <2>1 DEF Shift16
    <3>2. QED
      BY <3>1, SymDiffInjective
  <2>2. CASE 15 \notin a
    BY <1>3, <2>2 DEF Shift16
  <2>3. QED
    BY <2>1, <2>2
<1>5. \A i \in 0 .. 14 : i \in a <=> i \in b
  BY <1>4 DEF Register16
<1>6. \A i \in 0 .. 15 : i \in a <=> i \in b
  BY <1>3, <1>5
<1>7. QED
  BY <1>6 DEF Register16

LEMMA Shift32Range ==
  ASSUME NEW c \in Register32
  PROVE  Shift32(c) \in Register32
BY DEF Register32, Shift32, Poly32, SymDiff

LEMMA Shift32Injective ==
  ASSUME NEW a \in Register32, NEW b \in Register32, Shift32(a) = Shift32(b)
  PROVE  a = b
<1> DEFINE Shifted(c) == {i - 1 : i \in c \ {0}}
<1>1. \A c \in Register32 : 31 \notin Shifted(c)
  BY DEF Register32
<1>2. \A c \in Register32 : 31 \in Shift32(c) <=> 0 \in c
  BY <1>1 DEF Shift32, Poly32, SymDiff
<1>3. 0 \in a <=> 0 \in b
  BY <1>2
<1>4. Shifted(a) = Shifted(b)
  <2>1. CASE 0 \in a
    <3>1. SymDiff(Shifted(a), Poly32) = SymDiff(Shifted(b), Poly32)
      BY <1>3, <2>1 DEF Shift32
    <3>2. QED
      BY <3>1, SymDiffInjective
  <2>2. CASE 0 \notin a
    BY <1>3, <2>2 DEF Shift32
  <2>3. QED
    BY <2>1, <2>2
<1>5. \A i \in 1 .. 31 : i \in a <=> i \in b
  BY <1>4 DEF Register32
<1>6. \A i \in 0 .. 31 : i \in a <=> i \in b
  BY <1>3, <1>5
<1>7. QED
  BY <1>6 DEF Register32

-----------------------------------------------------------------------------
LEMMA Twice16Facts ==
  ASSUME NEW a \in Register16, NEW b \in Register16
  PROVE  /\ Twice16(a) \in Register16
         /\ Twice16(a) = Twice16(b) => a = b
<1>1. Shift16(a) \in Register16 /\ Shift16(b) \in Register16
  BY Shift16Range
<1>2. Twice16(a) \in Register16
  BY <1>1, Shift16Range DEF Twice16
<1>3. ASSUME Twice16(a) = Twice16(b) PROVE a = b
  <2>1. Shift16(a) = Shift16(b)
    BY <1>1, <1>3, Shift16Injective DEF Twice16
  <2>2. QED
    BY <2>1, Shift16Injective
<1>4. QED
  BY <1>2, <1>3

LEMMA Twice32Facts ==
  ASSUME NEW a \in Register32, NEW b \in Register32
  PROVE  /\ Twice32(a) \in Register32
         /\ Twice32(a) = Twice32(b) => a = b
<1>1. Shift32(a) \in Register32 /\ Shift32(b) \in Register32
  BY Shift32Range
<1>2. Twice32(a) \in Register32
  BY <1>1, Shift32Range DEF Twice32
<1>3. ASSUME Twice32(a) = Twice32(b) PROVE a = b
  <2>1. Shift32(a) = Shift32(b)
    BY <1>1, <1>3, Shift32Injective DEF Twice32
  <2>2. QED
    BY <2>1, Shift32Injective
<1>4. QED
  BY <1>2, <1>3

High(byte) == {i + 8 : i \in Bits(byte)}
Run16(r) == Twice16(Twice16(Twice16(Twice16(r))))

LEMMA Run16Facts ==
  ASSUME NEW r \in Register16, NEW q \in Register16
  PROVE  /\ Run16(r) \in Register16
         /\ Run16(r) = Run16(q) => r = q
<1>1. Twice16(r) \in Register16 /\ Twice16(q) \in Register16
  BY Twice16Facts
<1>2. Twice16(Twice16(r)) \in Register16 /\ Twice16(Twice16(q)) \in Register16
  BY <1>1, Twice16Facts
<1>3. /\ Twice16(Twice16(Twice16(r))) \in Register16
      /\ Twice16(Twice16(Twice16(q))) \in Register16
  BY <1>2, Twice16Facts
<1>4. Run16(r) \in Register16
  BY <1>3, Twice16Facts DEF Run16
<1>5. ASSUME Run16(r) = Run16(q) PROVE r = q
  <2>1. Twice16(Twice16(Twice16(r))) = Twice16(Twice16(Twice16(q)))
    BY <1>3, <1>5, Twice16Facts DEF Run16
  <2>2. Twice16(Twice16(r)) = Twice16(Twice16(q))
    BY <1>2, <2>1, Twice16Facts
  <2>3. Twice16(r) = Twice16(q)
    BY <1>1, <2>2, Twice16Facts
  <2>4. QED
    BY <2>3, Twice16Facts
<1>6. QED
  BY <1>4, <1>5

\* Feeding a byte to different registers, or different bytes to one register,
\* leaves different registers.
LEMMA Crc16UpdateFacts ==
  ASSUME NEW a \in Register16, NEW b \in Register16,
         NEW x \in 0 .. 255, NEW y \in 0 .. 255
  PROVE  /\ Crc16Update(a, x) \in Register16
         /\ Crc16Update(a, x) = Crc16Update(b, x) => a = b
         /\ Crc16Update(a, x) = Crc16Update(a, y) => x = y
<1> DEFINE ax == SymDiff(a, High(x))
           bx == SymDiff(b, High(x))
           ay == SymDiff(a, High(y))
<1>1. ax \in Register16 /\ bx \in Register16 /\ ay \in Register16
  <2>1. High(x) \in Register16 /\ High(y) \in Register16
    BY BitsRange DEF High, Register16
  <2>2. QED
    BY <2>1, SymDiffRange
<1>2. /\ Crc16Update(a, x) = Run16(ax)
      /\ Crc16Update(b, x) = Run16(bx)
      /\ Crc16Update(a, y) = Run16(ay)
  BY DEF Crc16Update, Run16, High
<1> HIDE DEF ax, bx, ay
<1>3. Crc16Update(a, x) \in Register16
  BY <1>1, <1>2, Run16Facts
<1>4. ASSUME Crc16Update(a, x) = Crc16Update(b, x) PROVE a = b
  <2>1. ax = bx
    BY <1>1, <1>2, <1>4, Run16Facts
  <2>2. QED
    BY <2>1, SymDiffInjective DEF ax, bx
<1>5. ASSUME Crc16Update(a, x) = Crc16Update(a, y) PROVE x = y
  <2>1. ax = ay
    BY <1>1, <1>2, <1>5, Run16Facts
  <2>2. High(x) = High(y)
    BY <2>1 DEF SymDiff, ax, ay
  <2>3. \A i \in 0 .. 7 : i \in Bits(x) <=> i + 8 \in High(x)
    BY BitsRange DEF High
  <2>4. \A i \in 0 .. 7 : i \in Bits(y) <=> i + 8 \in High(y)
    BY BitsRange DEF High
  <2>5. Bits(x) = Bits(y)
    BY <2>2, <2>3, <2>4, BitsRange
  <2>6. QED
    BY <2>5, BitsInjective
<1>6. QED
  BY <1>3, <1>4, <1>5

Run32(r) == Twice32(Twice32(Twice32(Twice32(r))))

LEMMA Run32Facts ==
  ASSUME NEW r \in Register32, NEW q \in Register32
  PROVE  /\ Run32(r) \in Register32
         /\ Run32(r) = Run32(q) => r = q
<1>1. Twice32(r) \in Register32 /\ Twice32(q) \in Register32
  BY Twice32Facts
<1>2. Twice32(Twice32(r)) \in Register32 /\ Twice32(Twice32(q)) \in Register32
  BY <1>1, Twice32Facts
<1>3. /\ Twice32(Twice32(Twice32(r))) \in Register32
      /\ Twice32(Twice32(Twice32(q))) \in Register32
  BY <1>2, Twice32Facts
<1>4. Run32(r) \in Register32
  BY <1>3, Twice32Facts DEF Run32
<1>5. ASSUME Run32(r) = Run32(q) PROVE r = q
  <2>1. Twice32(Twice32(Twice32(r))) = Twice32(Twice32(Twice32(q)))
    BY <1>3, <1>5, Twice32Facts DEF Run32
  <2>2. Twice32(Twice32(r)) = Twice32(Twice32(q))
    BY <1>2, <2>1, Twice32Facts
  <2>3. Twice32(r) = Twice32(q)
    BY <1>1, <2>2, Twice32Facts
  <2>4. QED
    BY <2>3, Twice32Facts
<1>6. QED
  BY <1>4, <1>5

LEMMA Crc32UpdateFacts ==
  ASSUME NEW a \in Register32, NEW b \in Register32,
         NEW x \in 0 .. 255, NEW y \in 0 .. 255
  PROVE  /\ Crc32Update(a, x) \in Register32
         /\ Crc32Update(a, x) = Crc32Update(b, x) => a = b
         /\ Crc32Update(a, x) = Crc32Update(a, y) => x = y
<1> DEFINE ax == SymDiff(a, Bits(x))
           bx == SymDiff(b, Bits(x))
           ay == SymDiff(a, Bits(y))
<1>1. ax \in Register32 /\ bx \in Register32 /\ ay \in Register32
  <2>1. Bits(x) \in Register32 /\ Bits(y) \in Register32
    BY BitsRange DEF Register32
  <2>2. QED
    BY <2>1, SymDiffRange
<1>2. /\ Crc32Update(a, x) = Run32(ax)
      /\ Crc32Update(b, x) = Run32(bx)
      /\ Crc32Update(a, y) = Run32(ay)
  BY DEF Crc32Update, Run32
<1> HIDE DEF ax, bx, ay
<1>3. Crc32Update(a, x) \in Register32
  BY <1>1, <1>2, Run32Facts
<1>4. ASSUME Crc32Update(a, x) = Crc32Update(b, x) PROVE a = b
  <2>1. ax = bx
    BY <1>1, <1>2, <1>4, Run32Facts
  <2>2. QED
    BY <2>1, SymDiffInjective DEF ax, bx
<1>5. ASSUME Crc32Update(a, x) = Crc32Update(a, y) PROVE x = y
  <2>1. ax = ay
    BY <1>1, <1>2, <1>5, Run32Facts
  <2>2. Bits(x) = Bits(y)
    BY <2>1 DEF SymDiff, ax, ay
  <2>3. QED
    BY <2>2, BitsInjective
<1>6. QED
  BY <1>3, <1>4, <1>5

-----------------------------------------------------------------------------
(***************************************************************************)
(* The two ends hold the same registers until a byte is damaged, and       *)
(* different ones from then on.                                            *)
(***************************************************************************)
Registers ==
  /\ crc16 \in Register16 /\ damaged16 \in Register16
  /\ crc32 \in Register32 /\ damaged32 \in Register32
  /\ altered \in BOOLEAN
Together == ~altered => crc16 = damaged16 /\ crc32 = damaged32
Apart == altered => crc16 # damaged16 /\ crc32 # damaged32
CrcInv == Registers /\ Together /\ Apart

LEMMA InitCrcInv == CrcInit => CrcInv
BY DEF CrcInit, CrcInv, Registers, Together, Apart, Register16, Register32,
       Crc16Start, Crc32Start

\* One byte at both ends of the line.
LEMMA UpdateByteFacts ==
  ASSUME Registers, NEW byte \in 0 .. 255, NEW arrived \in 0 .. 255,
         UpdateByte(byte, arrived)
  PROVE  /\ crc16' \in Register16 /\ damaged16' \in Register16
         /\ crc32' \in Register32 /\ damaged32' \in Register32
         /\ crc16' = damaged16' /\ byte = arrived => crc16 = damaged16
         /\ crc32' = damaged32' /\ byte = arrived => crc32 = damaged32
         /\ crc16' = damaged16' /\ crc16 = damaged16 => byte = arrived
         /\ crc32' = damaged32' /\ crc32 = damaged32 => byte = arrived
<1>1. /\ crc16 \in Register16 /\ damaged16 \in Register16
      /\ crc32 \in Register32 /\ damaged32 \in Register32
  BY DEF Registers
<1>2. /\ crc16' = Crc16Update(crc16, byte)
      /\ damaged16' = Crc16Update(damaged16, arrived)
      /\ crc32' = Crc32Update(crc32, byte)
      /\ damaged32' = Crc32Update(damaged32, arrived)
  BY DEF UpdateByte
<1>3. crc16' \in Register16 /\ damaged16' \in Register16
  BY <1>1, <1>2, Crc16UpdateFacts
<1>4. crc32' \in Register32 /\ damaged32' \in Register32
  BY <1>1, <1>2, Crc32UpdateFacts
<1>5. /\ crc16' = damaged16' /\ byte = arrived => crc16 = damaged16
      /\ crc16' = damaged16' /\ crc16 = damaged16 => byte = arrived
  <2>1. Crc16Update(crc16, byte) = Crc16Update(damaged16, byte)
          => crc16 = damaged16
    BY <1>1, Crc16UpdateFacts
  <2>2. Crc16Update(crc16, byte) = Crc16Update(crc16, arrived)
          => byte = arrived
    BY <1>1, Crc16UpdateFacts
  <2>3. QED
    BY <1>2, <2>1, <2>2
<1>6. /\ crc32' = damaged32' /\ byte = arrived => crc32 = damaged32
      /\ crc32' = damaged32' /\ crc32 = damaged32 => byte = arrived
  <2>1. Crc32Update(crc32, byte) = Crc32Update(damaged32, byte)
          => crc32 = damaged32
    BY <1>1, Crc32UpdateFacts
  <2>2. Crc32Update(crc32, byte) = Crc32Update(crc32, arrived)
          => byte = arrived
    BY <1>1, Crc32UpdateFacts
  <2>3. QED
    BY <1>2, <2>1, <2>2
<1>7. QED
  BY <1>3, <1>4, <1>5, <1>6

LEMMA NextCrcInv == CrcInv /\ [CrcNext]_crcVars => CrcInv'
<1> SUFFICES ASSUME Registers, Together, Apart, [CrcNext]_crcVars
             PROVE  Registers' /\ Together' /\ Apart'
  BY DEF CrcInv
<1>1. ASSUME NEW byte \in MessageBytes, Update(byte)
      PROVE  Registers' /\ Together' /\ Apart'
  <2>1. byte \in 0 .. 255
    BY MessageAssumption
  <2>2. UpdateByte(byte, byte) /\ altered' = altered
    BY <1>1 DEF Update
  <2>3. Registers'
    BY <2>1, <2>2, UpdateByteFacts DEF Registers
  <2>4. Together'
    BY <2>2 DEF UpdateByte, Together
  <2>5. /\ crc16 # damaged16 => crc16' # damaged16'
        /\ crc32 # damaged32 => crc32' # damaged32'
    BY <2>1, <2>2, UpdateByteFacts
  <2>6. Apart'
    BY <2>2, <2>5 DEF Apart
  <2>7. QED
    BY <2>3, <2>4, <2>6
<1>2. ASSUME NEW byte \in MessageBytes, NEW arrived \in MessageBytes,
             UpdateDamaged(byte, arrived)
      PROVE  Registers' /\ Together' /\ Apart'
  <2>1. byte \in 0 .. 255 /\ arrived \in 0 .. 255
    BY MessageAssumption
  <2>2. /\ UpdateByte(byte, arrived) /\ byte # arrived
        /\ ~altered /\ altered' = TRUE
    BY <1>2 DEF UpdateDamaged
  <2>3. Registers'
    BY <2>1, <2>2, UpdateByteFacts DEF Registers
  <2>4. crc16 = damaged16 /\ crc32 = damaged32
    BY <2>2 DEF Together
  <2>5. crc16' # damaged16' /\ crc32' # damaged32'
    BY <2>1, <2>2, <2>4, UpdateByteFacts
  <2>6. Together' /\ Apart'
    BY <2>2, <2>5 DEF Together, Apart
  <2>7. QED
    BY <2>3, <2>6
<1>3. ASSUME UNCHANGED crcVars PROVE Registers' /\ Together' /\ Apart'
  BY <1>3 DEF crcVars, Registers, Together, Apart
<1>4. QED
  BY <1>1, <1>2, <1>3 DEF CrcNext

\* Whatever the message and its length, a single damaged byte changes both
\* checksums.
THEOREM DamagedByteShows == CrcSpec => []DamageShows
<1>1. CrcInv => DamageShows
  BY DEF CrcInv, Registers, Apart, DamageShows, Crc32Final, Register32
<1>2. QED
  BY <1>1, InitCrcInv, NextCrcInv, PTL DEF CrcSpec

-----------------------------------------------------------------------------
(***************************************************************************)
(* The checksum of a whole message is the fold of its bytes.               *)
(***************************************************************************)
Byte == 0 .. 255

Step16 == [crc \in Register16 |-> [byte \in Byte |-> Crc16Update(crc, byte)]]
Iteration16(message, f) ==
  f = [s \in SUBSET (DOMAIN message) |->
         IF s = {} THEN {} ELSE Crc16Update(f[s \ {Max(s)}], message[Max(s)])]

LEMMA Step16Folds ==
  /\ Folds(Register16, Byte, Step16)
  /\ \A crc \in Register16, byte \in Byte :
       Step16[crc][byte] = Crc16Update(crc, byte)
  /\ {} \in Register16
<1>1. \A crc \in Register16, byte \in Byte : Crc16Update(crc, byte) \in Register16
  BY Crc16UpdateFacts DEF Byte
<1> QED
  BY <1>1 DEF Folds, Step16, Register16

LEMMA Iteration16Exists ==
  ASSUME NEW message \in Seq(Byte)
  PROVE  \E f : Iteration16(message, f)
<1>1. PICK f : Iteration(Register16, Step16, {}, message, f)
  BY Step16Folds, IteratesExist
<1>2. DOMAIN message = 1 .. Len(message)
  OBVIOUS
<1>3. ASSUME NEW s \in SUBSET (1 .. Len(message)), s # {}
      PROVE  f[s] = Crc16Update(f[s \ {Max(s)}], message[Max(s)])
  <2>1. /\ f[s] = Step16[f[s \ {Max(s)}]][message[Max(s)]]
        /\ f[s \ {Max(s)}] \in Register16 /\ message[Max(s)] \in Byte
    BY <1>1, <1>3, LastStep
  <2> QED
    BY <2>1, Step16Folds
<1>4. f = [s \in SUBSET (1 .. Len(message)) |-> f[s]] /\ f[{}] = {}
  BY <1>1 DEF Iteration
<1>5. f = [s \in SUBSET (1 .. Len(message)) |->
             IF s = {} THEN {} ELSE Crc16Update(f[s \ {Max(s)}], message[Max(s)])]
  BY <1>3, <1>4
<1>6. Iteration16(message, f)
  BY <1>2, <1>5 DEF Iteration16
<1> QED
  BY ONLY <1>6

LEMMA Crc16IsFold ==
  ASSUME NEW message \in Seq(Byte)
  PROVE  Crc16Xmodem(message) = Fold(Step16, {}, message)
<1> PICK f : f = CHOOSE g : Iteration16(message, g)
  OBVIOUS
<1>1. Iteration16(message, f)
  BY Iteration16Exists
<1>2. DOMAIN message = 1 .. Len(message)
  OBVIOUS
<1>3. Crc16Xmodem(message) = f[1 .. Len(message)]
  BY <1>2 DEF Crc16Xmodem, FoldLeft, MapThenFoldSet, Crc16Start, Iteration16
<1>4. Iterates(Register16, Step16, {}, message, f)
  <2> SUFFICES ASSUME NEW s \in SUBSET (1 .. Len(message))
               PROVE  IF s = {} THEN f[s] = {}
                      ELSE f[s \ {Max(s)}] \in Register16
                             => f[s] = Step16[f[s \ {Max(s)}]][message[Max(s)]]
    BY DEF Iterates
  <2>1. f[s] = IF s = {} THEN {} ELSE Crc16Update(f[s \ {Max(s)}], message[Max(s)])
    BY <1>1, <1>2 DEF Iteration16
  <2>2. s # {} => message[Max(s)] \in Byte
    BY ElementAtMax
  <2> QED
    BY <2>1, <2>2, Step16Folds
<1> QED
  BY <1>3, <1>4, Step16Folds, IterateFolds

Step32 == [crc \in Register32 |-> [byte \in Byte |-> Crc32Update(crc, byte)]]
Iteration32(message, f) ==
  f = [s \in SUBSET (DOMAIN message) |->
         IF s = {} THEN Crc32Start ELSE Crc32Update(f[s \ {Max(s)}], message[Max(s)])]

LEMMA Step32Folds ==
  /\ Folds(Register32, Byte, Step32)
  /\ \A crc \in Register32, byte \in Byte :
       Step32[crc][byte] = Crc32Update(crc, byte)
  /\ Crc32Start \in Register32
<1>1. \A crc \in Register32, byte \in Byte : Crc32Update(crc, byte) \in Register32
  BY Crc32UpdateFacts DEF Byte
<1> QED
  BY <1>1 DEF Folds, Step32, Register32, Crc32Start

LEMMA Iteration32Exists ==
  ASSUME NEW message \in Seq(Byte)
  PROVE  \E f : Iteration32(message, f)
<1>1. PICK f : Iteration(Register32, Step32, Crc32Start, message, f)
  BY Step32Folds, IteratesExist
<1>2. DOMAIN message = 1 .. Len(message)
  OBVIOUS
<1>3. ASSUME NEW s \in SUBSET (1 .. Len(message)), s # {}
      PROVE  f[s] = Crc32Update(f[s \ {Max(s)}], message[Max(s)])
  <2>1. /\ f[s] = Step32[f[s \ {Max(s)}]][message[Max(s)]]
        /\ f[s \ {Max(s)}] \in Register32 /\ message[Max(s)] \in Byte
    BY <1>1, <1>3, LastStep
  <2> QED
    BY <2>1, Step32Folds
<1>4. f = [s \in SUBSET (1 .. Len(message)) |-> f[s]] /\ f[{}] = Crc32Start
  BY <1>1 DEF Iteration
<1>5. f = [s \in SUBSET (1 .. Len(message)) |->
             IF s = {} THEN Crc32Start ELSE Crc32Update(f[s \ {Max(s)}], message[Max(s)])]
  BY <1>3, <1>4
<1>6. Iteration32(message, f)
  BY <1>2, <1>5 DEF Iteration32
<1> QED
  BY ONLY <1>6

LEMMA Crc32IsFold ==
  ASSUME NEW message \in Seq(Byte)
  PROVE  Crc32IsoHdlc(message) = Crc32Final(Fold(Step32, Crc32Start, message))
<1> PICK f : f = CHOOSE g : Iteration32(message, g)
  OBVIOUS
<1>1. Iteration32(message, f)
  BY Iteration32Exists
<1>2. DOMAIN message = 1 .. Len(message)
  OBVIOUS
<1>3. Crc32IsoHdlc(message) = Crc32Final(f[1 .. Len(message)])
  BY <1>2 DEF Crc32IsoHdlc, FoldLeft, MapThenFoldSet, Iteration32
<1>4. Iterates(Register32, Step32, Crc32Start, message, f)
  <2> SUFFICES ASSUME NEW s \in SUBSET (1 .. Len(message))
               PROVE  IF s = {} THEN f[s] = Crc32Start
                      ELSE f[s \ {Max(s)}] \in Register32
                             => f[s] = Step32[f[s \ {Max(s)}]][message[Max(s)]]
    BY DEF Iterates
  <2>1. f[s] = IF s = {} THEN Crc32Start ELSE Crc32Update(f[s \ {Max(s)}], message[Max(s)])
    BY <1>1, <1>2 DEF Iteration32
  <2>2. s # {} => message[Max(s)] \in Byte
    BY ElementAtMax
  <2> QED
    BY <2>1, <2>2, Step32Folds
<1> QED
  BY <1>3, <1>4, Step32Folds, IterateFolds

-----------------------------------------------------------------------------
(***************************************************************************)
(* Long division, one byte of the message more.                            *)
(***************************************************************************)
Polynomial == SUBSET Int
Times(m, p) == {i + m : i \in p}
Eliminate(generator, degree, p, e) ==
  IF e \in p THEN SymDiff(p, {e - degree + i : i \in generator}) ELSE p
Division(generator, degree) ==
  [p \in Polynomial |-> [e \in Int |-> Eliminate(generator, degree, p, e)]]
Exponents(n, degree) == [i \in 1 .. 8 * n |-> degree + 8 * n - i]

LEMMA TimesIs ==
  ASSUME NEW m \in Int, NEW p \in Polynomial
  PROVE  /\ Times(m, p) \in Polynomial
         /\ \A z : z \in Times(m, p) <=> z \in Int /\ z - m \in p
<1>1. \A i \in p : i \in Int
  BY DEF Polynomial
<1>2. ASSUME NEW z \in Int, z - m \in p
      PROVE  z \in Times(m, p)
  <2>1. z = (z - m) + m
    OBVIOUS
  <2> QED
    BY <1>2, <2>1 DEF Times
<1>3. ASSUME NEW z \in Times(m, p)
      PROVE  z \in Int /\ z - m \in p
  <2>1. PICK i \in p : z = i + m
    BY DEF Times
  <2>2. i \in Int
    BY <1>1
  <2>3. z \in Int /\ z - m = i
    BY <2>1, <2>2
  <2> QED
    BY <2>3
<1>4. Times(m, p) \in Polynomial
  BY <1>3 DEF Polynomial
<1> QED
  BY <1>2, <1>3, <1>4

LEMMA SymDiffIs ==
  ASSUME NEW p \in Polynomial, NEW q \in Polynomial
  PROVE  /\ SymDiff(p, q) \in Polynomial
         /\ \A z : z \in SymDiff(p, q) <=> (z \in p) # (z \in q)
BY DEF SymDiff, Polynomial

LEMMA EliminateIs ==
  ASSUME NEW generator \in Polynomial, NEW degree \in Int,
         NEW p \in Polynomial, NEW e \in Int
  PROVE  /\ Eliminate(generator, degree, p, e) \in Polynomial
         /\ \A z : z \in Eliminate(generator, degree, p, e) <=>
                     (z \in p) # (e \in p /\ z \in Int /\ z - (e - degree) \in generator)
<1>1. {e - degree + i : i \in generator} = Times(e - degree, generator)
  <2>1. \A i \in generator : e - degree + i = i + (e - degree)
    BY DEF Polynomial
  <2> QED
    BY ONLY <2>1 DEF Times
<1>2. /\ Times(e - degree, generator) \in Polynomial
      /\ \A z : z \in Times(e - degree, generator) <=>
                  z \in Int /\ z - (e - degree) \in generator
  BY TimesIs
<1> PICK t \in Polynomial : t = Times(e - degree, generator)
  BY <1>2
<1>3. Eliminate(generator, degree, p, e) = IF e \in p THEN SymDiff(p, t) ELSE p
  BY <1>1 DEF Eliminate
<1>4. /\ SymDiff(p, t) \in Polynomial
      /\ \A z : z \in SymDiff(p, t) <=> (z \in p) # (z \in t)
  BY SymDiffIs
<1> QED
  BY <1>2, <1>3, <1>4

\* What is added below the exponent is not seen, and all of it may be moved up.
LEMMA EliminateAbove ==
  ASSUME NEW generator \in Polynomial, NEW degree \in Int,
         NEW p \in Polynomial, NEW low \in Polynomial, NEW e \in Int,
         e + 8 \notin low
  PROVE  Eliminate(generator, degree, SymDiff(Times(8, p), low), e + 8)
           = SymDiff(Times(8, Eliminate(generator, degree, p, e)), low)
<1>0. \A q \in Polynomial, k \in Int :
        /\ Eliminate(generator, degree, q, k) \in Polynomial
        /\ \A z : z \in Eliminate(generator, degree, q, k) <=>
                    (z \in q) # (k \in q /\ z \in Int /\ z - (k - degree) \in generator)
  BY EliminateIs
<1> PICK up \in Polynomial : up = Times(8, p) /\ \A z : z \in up <=> z \in Int /\ z - 8 \in p
  BY TimesIs
<1> PICK both \in Polynomial :
      both = SymDiff(up, low) /\ \A z : z \in both <=> (z \in up) # (z \in low)
  BY SymDiffIs
<1> PICK rest \in Polynomial :
      /\ rest = Eliminate(generator, degree, p, e)
      /\ \A z : z \in rest <=>
                  (z \in p) # (e \in p /\ z \in Int /\ z - (e - degree) \in generator)
  BY EliminateIs
<1> PICK right \in Polynomial :
      right = Times(8, rest) /\ \A z : z \in right <=> z \in Int /\ z - 8 \in rest
  BY TimesIs
<1> PICK k \in Int : k = e + 8
  OBVIOUS
<1>1. k \in both <=> e \in p
  <2>1. k - 8 = e
    OBVIOUS
  <2> QED
    BY <2>1
<1> PICK left \in Polynomial :
      /\ left = Eliminate(generator, degree, both, k)
      /\ \A z : z \in left <=>
                  (z \in both) # (k \in both /\ z \in Int
                                    /\ z - (k - degree) \in generator)
  BY ONLY <1>0, both \in Polynomial, k \in Int
<1>2. ASSUME NEW z \in Int
      PROVE  z \in left <=> z \in SymDiff(right, low)
  <2>1. z \in SymDiff(right, low) <=> (z \in right) # (z \in low)
    BY SymDiffIs
  <2>2. z \in right <=> (z - 8 \in p) # (e \in p /\ z - 8 - (e - degree) \in generator)
    OBVIOUS
  <2>3. z \in left <=> (z \in both) # (e \in p /\ z - (k - degree) \in generator)
    BY <1>1
  <2>4. z - (k - degree) = z - 8 - (e - degree)
    OBVIOUS
  <2>5. z \in both <=> (z - 8 \in p) # (z \in low)
    OBVIOUS
  <2> QED
    BY ONLY <2>1, <2>2, <2>3, <2>4, <2>5
<1>3. SymDiff(right, low) \in Polynomial
  BY SymDiffIs
<1>4. left = SymDiff(right, low)
  BY <1>2, <1>3 DEF Polynomial
<1> QED
  BY <1>4

\* One step of a division is one step of a shift register.
Reduced(generator, degree, c) ==
  IF degree - 1 \in c
  THEN SymDiff(Times(1, c \ {degree - 1}), generator \ {degree}) ELSE Times(1, c)

LEMMA ReducedIs ==
  ASSUME NEW generator \in Polynomial, NEW degree \in Int, degree \in generator,
         NEW c \in Polynomial
  PROVE  /\ Reduced(generator, degree, c) \in Polynomial
         /\ \A z : z \in Reduced(generator, degree, c) <=>
                     z \in Int /\ (z - 1 \in c) # (degree - 1 \in c /\ z \in generator)
<1>0. \A p \in Polynomial, q \in Polynomial :
        /\ SymDiff(p, q) \in Polynomial
        /\ \A z : z \in SymDiff(p, q) <=> (z \in p) # (z \in q)
  BY SymDiffIs
<1> PICK up \in Polynomial : up = Times(1, c) /\ \A z : z \in up <=> z \in Int /\ z - 1 \in c
  BY TimesIs
<1>1. CASE degree - 1 \in c
  <2>1. c \ {degree - 1} \in Polynomial
    BY DEF Polynomial
  <2> PICK less \in Polynomial :
        /\ less = Times(1, c \ {degree - 1})
        /\ \A z : z \in less <=> z \in Int /\ z - 1 \in c \ {degree - 1}
    BY <2>1, TimesIs
  <2> PICK poly \in Polynomial : poly = generator \ {degree}
    BY DEF Polynomial
  <2>2. Reduced(generator, degree, c) = SymDiff(less, poly)
    BY <1>1 DEF Reduced
  <2>3. /\ SymDiff(less, poly) \in Polynomial
        /\ \A z : z \in SymDiff(less, poly) <=> (z \in less) # (z \in poly)
    BY ONLY <1>0, less \in Polynomial, poly \in Polynomial
  <2>4. ASSUME NEW z \in Int
        PROVE  (z \in less) # (z \in poly) <=> (z - 1 \in c) # (z \in generator)
    <3>1. z - 1 = degree - 1 <=> z = degree
      OBVIOUS
    <3>2. z \in less <=> z - 1 \in c /\ z # degree
      BY <3>1
    <3>3. z \in poly <=> z \in generator /\ z # degree
      OBVIOUS
    <3>4. z = degree => z - 1 \in c /\ z \in generator
      BY <1>1, <3>1
    <3> QED
      BY ONLY <3>2, <3>3, <3>4
  <2>5. \A z \in SymDiff(less, poly) : z \in Int
    BY <2>3 DEF Polynomial
  <2> QED
    BY ONLY <1>1, <2>2, <2>3, <2>4, <2>5
<1>2. CASE degree - 1 \notin c
  BY <1>2 DEF Reduced
<1> QED
  BY <1>1, <1>2

LEMMA EliminateTop ==
  ASSUME NEW generator \in Polynomial, NEW degree \in Int, degree \in generator,
         NEW c \in Polynomial, NEW m \in Int
  PROVE  /\ Reduced(generator, degree, c) \in Polynomial
         /\ Eliminate(generator, degree, Times(m, c), degree - 1 + m)
              = Times(m - 1, Reduced(generator, degree, c))
<1>0. \A q \in Polynomial, k \in Int :
        /\ Eliminate(generator, degree, q, k) \in Polynomial
        /\ \A z : z \in Eliminate(generator, degree, q, k) <=>
                    (z \in q) # (k \in q /\ z \in Int /\ z - (k - degree) \in generator)
  BY EliminateIs
<1> PICK t \in Polynomial : t = Times(m, c) /\ \A z : z \in t <=> z \in Int /\ z - m \in c
  BY TimesIs
<1> PICK k \in Int : k = degree - 1 + m
  OBVIOUS
<1> PICK left \in Polynomial :
      /\ left = Eliminate(generator, degree, t, k)
      /\ \A z : z \in left <=>
                  (z \in t) # (k \in t /\ z \in Int /\ z - (k - degree) \in generator)
  BY ONLY <1>0, t \in Polynomial, k \in Int
<1>1. k \in t <=> degree - 1 \in c
  <2>1. k - m = degree - 1
    OBVIOUS
  <2> QED
    BY <2>1
<1>2. /\ Reduced(generator, degree, c) \in Polynomial
      /\ \A z : z \in Reduced(generator, degree, c) <=>
                  z \in Int /\ (z - 1 \in c) # (degree - 1 \in c /\ z \in generator)
  BY ReducedIs
<1> PICK r \in Polynomial : r = Reduced(generator, degree, c)
  BY <1>2
<1> PICK right \in Polynomial :
      right = Times(m - 1, r) /\ \A z : z \in right <=> z \in Int /\ z - (m - 1) \in r
  BY TimesIs
<1>3. ASSUME NEW z \in Int
      PROVE  z \in left <=> z \in right
  <2>1. z \in left <=> (z - m \in c) # (degree - 1 \in c /\ z - (m - 1) \in generator)
    <3>1. z - (k - degree) = z - (m - 1)
      OBVIOUS
    <3> QED
      BY <1>1, <3>1
  <2>2. z \in right <=> (z - (m - 1) - 1 \in c) # (degree - 1 \in c /\ z - (m - 1) \in generator)
    BY <1>2
  <2>3. z - (m - 1) - 1 = z - m
    OBVIOUS
  <2> QED
    BY ONLY <2>1, <2>2, <2>3
<1>4. left = right
  BY <1>3 DEF Polynomial
<1> QED
  BY <1>2, <1>4

LEMMA TimesSymDiff ==
  ASSUME NEW p \in Polynomial, NEW q \in Polynomial, NEW m \in Int
  PROVE  SymDiff(Times(m, p), Times(m, q)) = Times(m, SymDiff(p, q))
<1>0. \A a \in Polynomial, b \in Polynomial :
        /\ SymDiff(a, b) \in Polynomial
        /\ \A z : z \in SymDiff(a, b) <=> (z \in a) # (z \in b)
  BY SymDiffIs
<1>1. \A a \in Polynomial :
        /\ Times(m, a) \in Polynomial
        /\ \A z : z \in Times(m, a) <=> z \in Int /\ z - m \in a
  BY TimesIs
<1> PICK a \in Polynomial : a = Times(m, p) /\ \A z : z \in a <=> z \in Int /\ z - m \in p
  BY <1>1
<1> PICK b \in Polynomial : b = Times(m, q) /\ \A z : z \in b <=> z \in Int /\ z - m \in q
  BY <1>1
<1> PICK s \in Polynomial : s = SymDiff(p, q) /\ \A z : z \in s <=> (z \in p) # (z \in q)
  BY <1>0
<1>2. \A z : z \in SymDiff(a, b) <=> (z \in a) # (z \in b)
  BY <1>0
<1>3. \A z : z \in Times(m, s) <=> z \in Int /\ z - m \in s
  BY <1>1
<1>4. \A z : z \in SymDiff(a, b) <=> z \in Times(m, s)
  BY <1>2, <1>3
<1>5. SymDiff(a, b) = Times(m, s)
  BY ONLY <1>4
<1> QED
  BY <1>5

LEMMA TimesZero == ASSUME NEW p \in Polynomial PROVE Times(0, p) = p
<1>1. \A z : z \in Times(0, p) <=> z \in Int /\ z - 0 \in p
  BY TimesIs
<1>2. \A z \in p : z \in Int
  BY DEF Polynomial
<1>3. \A z \in Int : z - 0 = z
  OBVIOUS
<1> QED
  BY ONLY <1>1, <1>2, <1>3

LEMMA DivisionFolds ==
  ASSUME NEW generator \in Polynomial, NEW degree \in Int
  PROVE  /\ Folds(Polynomial, Int, Division(generator, degree))
         /\ \A p \in Polynomial, e \in Int :
              Division(generator, degree)[p][e] = Eliminate(generator, degree, p, e)
<1>1. \A p \in Polynomial, e \in Int : Eliminate(generator, degree, p, e) \in Polynomial
  BY EliminateIs
<1> QED
  BY <1>1 DEF Folds, Division

LEMMA ExponentsAre ==
  ASSUME NEW n \in Nat, NEW degree \in Int
  PROVE  /\ Exponents(n, degree) \in Seq(Int) /\ Len(Exponents(n, degree)) = 8 * n
         /\ \A k \in 1 .. 8 * n : Exponents(n, degree)[k] = degree + 8 * n - k
<1> PICK m \in Nat : m = 8 * n
  OBVIOUS
<1>1. \A k \in 1 .. m : degree + m - k \in Int
  OBVIOUS
<1>2. [k \in 1 .. m |-> degree + m - k] \in Seq(Int)
  BY <1>1
<1>3. Len([k \in 1 .. m |-> degree + m - k]) = m
  BY <1>2
<1> QED
  BY <1>2, <1>3 DEF Exponents

Twice(generator, degree, c) == Reduced(generator, degree, Reduced(generator, degree, c))
EightTimes(generator, degree, c) ==
  Twice(generator, degree, Twice(generator, degree,
    Twice(generator, degree, Twice(generator, degree, c))))

\* A division of everything but the last byte, and the eight steps for it.
LEMMA LongerDivision ==
  ASSUME NEW generator \in Polynomial, NEW degree \in Int, degree \in generator,
         NEW p \in Polynomial, NEW last \in Polynomial, \A i \in last : i < degree,
         NEW n \in Nat
  PROVE  Fold(Division(generator, degree), SymDiff(Times(8, p), Times(8, last)),
              Exponents(n + 1, degree))
           = EightTimes(generator, degree,
               SymDiff(Fold(Division(generator, degree), p, Exponents(n, degree)), last))
<1>0. \A m \in Nat : /\ Exponents(m, degree) \in Seq(Int)
                     /\ Len(Exponents(m, degree)) = 8 * m
                     /\ \A k \in 1 .. 8 * m : Exponents(m, degree)[k] = degree + 8 * m - k
  BY ExponentsAre
<1>1. /\ Folds(Polynomial, Int, Division(generator, degree))
      /\ \A a \in Polynomial, e \in Int :
           Division(generator, degree)[a][e] = Eliminate(generator, degree, a, e)
  BY DivisionFolds
<1>2. \A a \in Polynomial, s \in Seq(Int) :
        \E r \in [0 .. Len(s) -> Polynomial] :
          /\ Follows(Division(generator, degree), a, s, r, Len(s))
          /\ Fold(Division(generator, degree), a, s) = r[Len(s)]
  BY <1>1, FoldIs
<1>3. \A a \in Polynomial, b \in Polynomial : SymDiff(a, b) \in Polynomial
  BY SymDiffIs
<1>4. \A m \in Int, a \in Polynomial :
        Times(m, a) \in Polynomial /\ \A z : z \in Times(m, a) <=> z \in Int /\ z - m \in a
  BY TimesIs
<1>5. \A a \in Polynomial, b \in Polynomial, e \in Int :
         e + 8 \notin b =>
           Eliminate(generator, degree, SymDiff(Times(8, a), b), e + 8)
             = SymDiff(Times(8, Eliminate(generator, degree, a, e)), b)
  BY EliminateAbove
<1> PICK N \in Nat : N = 8 * n
  OBVIOUS
<1> PICK low \in Polynomial : low = Times(8, last)
  BY <1>4
<1> PICK start \in Polynomial : start = SymDiff(Times(8, p), low)
  BY <1>3, <1>4
<1>6. /\ Exponents(n, degree) \in Seq(Int) /\ Len(Exponents(n, degree)) = N
      /\ \A k \in 1 .. N : Exponents(n, degree)[k] = degree + N - k
  BY <1>0
<1>7. /\ Exponents(n + 1, degree) \in Seq(Int) /\ Len(Exponents(n + 1, degree)) = N + 8
      /\ \A k \in 1 .. N + 8 : Exponents(n + 1, degree)[k] = degree + (N + 8) - k
  <2>1. n + 1 \in Nat /\ 8 * (n + 1) = N + 8
    OBVIOUS
  <2> QED
    BY <1>0, <2>1
<1> PICK r \in [0 .. N -> Polynomial] :
      /\ Follows(Division(generator, degree), p, Exponents(n, degree), r, N)
      /\ Fold(Division(generator, degree), p, Exponents(n, degree)) = r[N]
  BY <1>2, <1>6
<1> PICK q \in [0 .. N + 8 -> Polynomial] :
      /\ Follows(Division(generator, degree), start, Exponents(n + 1, degree), q, N + 8)
      /\ Fold(Division(generator, degree), start, Exponents(n + 1, degree)) = q[N + 8]
  BY ONLY <1>2, <1>7, start \in Polynomial
<1>8. /\ r[0] = p /\ q[0] = start
      /\ \A k \in 1 .. N : r[k] = Eliminate(generator, degree, r[k - 1], degree + N - k)
      /\ \A k \in 1 .. N + 8 :
           q[k] = Eliminate(generator, degree, q[k - 1], degree + (N + 8) - k)
  <2>1. ASSUME NEW k \in 1 .. N
        PROVE  r[k] = Eliminate(generator, degree, r[k - 1], degree + N - k)
    <3>1. r[k] = Division(generator, degree)[r[k - 1]][degree + N - k]
      BY <1>6 DEF Follows
    <3>2. r[k - 1] \in Polynomial /\ degree + N - k \in Int
      OBVIOUS
    <3> QED
      BY <1>1, <3>1, <3>2
  <2>2. ASSUME NEW k \in 1 .. N + 8
        PROVE  q[k] = Eliminate(generator, degree, q[k - 1], degree + (N + 8) - k)
    <3>1. q[k] = Division(generator, degree)[q[k - 1]][degree + (N + 8) - k]
      BY <1>7 DEF Follows
    <3>2. q[k - 1] \in Polynomial /\ degree + (N + 8) - k \in Int
      OBVIOUS
    <3> QED
      BY <1>1, <3>1, <3>2
  <2> QED
    BY <2>1, <2>2 DEF Follows
<1> DEFINE S == {k \in 0 .. N : q[k] = SymDiff(Times(8, r[k]), low)}
<1>9. 0 \in S
  BY <1>8
<1>10. ASSUME NEW k \in 1 .. N, k - 1 \in S
      PROVE  k \in S
  <2> PICK e \in Int : e = degree + N - k
    OBVIOUS
  <2>1. degree + (N + 8) - k = e + 8 /\ k \in 1 .. N + 8
    OBVIOUS
  <2>2. r[k - 1] \in Polynomial
    OBVIOUS
  <2>3. e + 8 \notin low
    <3>1. e >= degree /\ (e + 8) - 8 = e
      OBVIOUS
    <3>2. e \notin last
      BY <3>1
    <3> QED
      BY <1>4, <3>1, <3>2
  <2>4. q[k - 1] = SymDiff(Times(8, r[k - 1]), low)
    BY <1>10
  <2>5. q[k] = Eliminate(generator, degree, SymDiff(Times(8, r[k - 1]), low), e + 8)
    BY <1>8, <2>1, <2>4
  <2>6. r[k] = Eliminate(generator, degree, r[k - 1], e)
    BY <1>8
  <2>7. Eliminate(generator, degree, SymDiff(Times(8, r[k - 1]), low), e + 8)
          = SymDiff(Times(8, Eliminate(generator, degree, r[k - 1], e)), low)
    BY ONLY <1>5, <2>2, <2>3, e \in Int, low \in Polynomial
  <2>8. k \in 0 .. N
    OBVIOUS
  <2> QED
    BY ONLY <2>5, <2>6, <2>7, <2>8
<1>11. \A k \in 0 .. N : k \in S
  <2> HIDE DEF S
  <2> QED
    BY <1>9, <1>10, UpTo
<1>12. q[N] = SymDiff(Times(8, r[N]), Times(8, last))
  <2>1. N \in 0 .. N
    OBVIOUS
  <2> QED
    BY <1>11, <2>1
<1>13. r[N] \in Polynomial
  OBVIOUS
<1> DEFINE Down(c) == Reduced(generator, degree, c)
<1>14. \A c \in Polynomial, m \in Int :
         /\ Down(c) \in Polynomial
         /\ Eliminate(generator, degree, Times(m, c), degree - 1 + m) = Times(m - 1, Down(c))
  BY EliminateTop
<1> HIDE DEF Down
<1>15. ASSUME NEW j \in 1 .. 8, NEW c \in Polynomial, q[N + j - 1] = Times(9 - j, c)
       PROVE  Down(c) \in Polynomial /\ q[N + j] = Times(8 - j, Down(c))
  <2>1. N + j \in 1 .. N + 8 /\ (N + j) - 1 = N + j - 1
        /\ degree + (N + 8) - (N + j) = degree - 1 + (9 - j)
        /\ 9 - j \in Int /\ (9 - j) - 1 = 8 - j
    OBVIOUS
  <2>2. q[N + j] = Eliminate(generator, degree, q[N + j - 1], degree - 1 + (9 - j))
    BY <1>8, <2>1
  <2> QED
    BY <1>14, <1>15, <2>1, <2>2
<1> PICK c0 \in Polynomial : c0 = SymDiff(r[N], last)
  BY <1>3, <1>13
<1>16. q[N] = Times(8, c0)
  BY <1>12, <1>13, TimesSymDiff
<1>17. Down(c0) \in Polynomial /\ q[N + 1] = Times(7, Down(c0))
  BY <1>15, <1>16
<1>18. Down(Down(c0)) \in Polynomial /\ q[N + 2] = Times(6, Down(Down(c0)))
  BY <1>15, <1>17
<1> PICK c2 \in Polynomial : c2 = Down(Down(c0))
  BY <1>18
<1>19. Down(c2) \in Polynomial /\ q[N + 3] = Times(5, Down(c2))
  BY <1>15, <1>18
<1>20. Down(Down(c2)) \in Polynomial /\ q[N + 4] = Times(4, Down(Down(c2)))
  BY <1>15, <1>19
<1> PICK c4 \in Polynomial : c4 = Down(Down(c2))
  BY <1>20
<1>21. Down(c4) \in Polynomial /\ q[N + 5] = Times(3, Down(c4))
  BY <1>15, <1>20
<1>22. Down(Down(c4)) \in Polynomial /\ q[N + 6] = Times(2, Down(Down(c4)))
  BY <1>15, <1>21
<1> PICK c6 \in Polynomial : c6 = Down(Down(c4))
  BY <1>22
<1>23. Down(c6) \in Polynomial /\ q[N + 7] = Times(1, Down(c6))
  BY <1>15, <1>22
<1>24. Down(Down(c6)) \in Polynomial /\ q[N + 8] = Times(0, Down(Down(c6)))
  BY <1>15, <1>23
<1>25. q[N + 8] = Down(Down(c6))
  BY <1>24, TimesZero
<1>26. EightTimes(generator, degree, c0) = Down(Down(c6))
  BY DEF EightTimes, Twice, Down
<1> QED
  BY <1>25, <1>26

-----------------------------------------------------------------------------
(***************************************************************************)
(* Remainder is such a division.                                           *)
(***************************************************************************)
DivisionIteration(generator, degree, p, exponents, f) ==
  f = [s \in SUBSET (DOMAIN exponents) |->
         IF s = {} THEN p
         ELSE Eliminate(generator, degree, f[s \ {Max(s)}], exponents[Max(s)])]

LEMMA DivisionIterationExists ==
  ASSUME NEW generator \in Polynomial, NEW degree \in Int,
         NEW p \in Polynomial, NEW exponents \in Seq(Int)
  PROVE  \E f : DivisionIteration(generator, degree, p, exponents, f)
<1>1. /\ Folds(Polynomial, Int, Division(generator, degree))
      /\ \A a \in Polynomial, e \in Int :
           Division(generator, degree)[a][e] = Eliminate(generator, degree, a, e)
  BY DivisionFolds
<1>2. PICK f : Iteration(Polynomial, Division(generator, degree), p, exponents, f)
  BY <1>1, IteratesExist
<1>3. DOMAIN exponents = 1 .. Len(exponents)
  OBVIOUS
<1>4. ASSUME NEW s \in SUBSET (1 .. Len(exponents)), s # {}
      PROVE  f[s] = Eliminate(generator, degree, f[s \ {Max(s)}], exponents[Max(s)])
  <2>1. /\ f[s] = Division(generator, degree)[f[s \ {Max(s)}]][exponents[Max(s)]]
        /\ f[s \ {Max(s)}] \in Polynomial /\ exponents[Max(s)] \in Int
    BY <1>2, <1>4, LastStep
  <2> QED
    BY ONLY <1>1, <2>1
<1>5. f = [s \in SUBSET (1 .. Len(exponents)) |-> f[s]] /\ f[{}] = p
  BY <1>2 DEF Iteration
<1>6. f = [s \in SUBSET (1 .. Len(exponents)) |->
             IF s = {} THEN p
             ELSE Eliminate(generator, degree, f[s \ {Max(s)}], exponents[Max(s)])]
  BY <1>4, <1>5
<1>7. DivisionIteration(generator, degree, p, exponents, f)
  BY <1>3, <1>6 DEF DivisionIteration
<1> QED
  BY ONLY <1>7

LEMMA RemainderIsFold ==
  ASSUME NEW generator \in Polynomial, NEW degree \in Int, NEW p \in Polynomial,
         NEW n \in Nat
  PROVE  Remainder(p, n, generator, degree)
           = Fold(Division(generator, degree), p, Exponents(n, degree))
<1>0. /\ Folds(Polynomial, Int, Division(generator, degree))
      /\ \A a \in Polynomial, e \in Int :
           Division(generator, degree)[a][e] = Eliminate(generator, degree, a, e)
  BY DivisionFolds
<1> PICK exponents \in Seq(Int) : exponents = Exponents(n, degree)
  BY ExponentsAre
<1> PICK f : f = CHOOSE g : DivisionIteration(generator, degree, p, exponents, g)
  OBVIOUS
<1>1. DivisionIteration(generator, degree, p, exponents, f)
  BY DivisionIterationExists
<1>2. DOMAIN exponents = 1 .. Len(exponents)
  OBVIOUS
<1>3. Remainder(p, n, generator, degree) = f[1 .. Len(exponents)]
  <2>1. Remainder(p, n, generator, degree) = f[DOMAIN exponents]
    BY DEF Remainder, FoldLeft, MapThenFoldSet, DivisionIteration, Eliminate, Exponents
  <2> QED
    BY ONLY <1>2, <2>1
<1>4. Iterates(Polynomial, Division(generator, degree), p, exponents, f)
  <2> SUFFICES ASSUME NEW s \in SUBSET (1 .. Len(exponents))
               PROVE  IF s = {} THEN f[s] = p
                      ELSE f[s \ {Max(s)}] \in Polynomial
                             => f[s] = Division(generator, degree)
                                         [f[s \ {Max(s)}]][exponents[Max(s)]]
    BY DEF Iterates
  <2>1. f[s] = IF s = {} THEN p
               ELSE Eliminate(generator, degree, f[s \ {Max(s)}], exponents[Max(s)])
    BY <1>1, <1>2 DEF DivisionIteration
  <2>2. s # {} => exponents[Max(s)] \in Int
    BY ElementAtMax
  <2> QED
    BY ONLY <1>0, <2>1, <2>2
<1>5. f[1 .. Len(exponents)] = Fold(Division(generator, degree), p, exponents)
  BY <1>0, <1>4, IterateFolds
<1> QED
  BY <1>3, <1>5

LEMMA RemainderLonger ==
  ASSUME NEW generator \in Polynomial, NEW degree \in Int, degree \in generator,
         NEW p \in Polynomial, NEW last \in Polynomial, \A i \in last : i < degree,
         NEW n \in Nat
  PROVE  Remainder(SymDiff(Times(8, p), Times(8, last)), n + 1, generator, degree)
           = EightTimes(generator, degree,
                        SymDiff(Remainder(p, n, generator, degree), last))
<1>1. SymDiff(Times(8, p), Times(8, last)) \in Polynomial
  <2>1. Times(8, p) \in Polynomial /\ Times(8, last) \in Polynomial
    BY TimesIs
  <2> QED
    BY <2>1, SymDiffIs
<1>2. n + 1 \in Nat
  OBVIOUS
<1>3. Remainder(SymDiff(Times(8, p), Times(8, last)), n + 1, generator, degree)
        = Fold(Division(generator, degree), SymDiff(Times(8, p), Times(8, last)),
               Exponents(n + 1, degree))
  BY <1>1, <1>2, RemainderIsFold
<1>4. Remainder(p, n, generator, degree)
        = Fold(Division(generator, degree), p, Exponents(n, degree))
  BY RemainderIsFold
<1> QED
  BY <1>3, <1>4, LongerDivision

LEMMA RemainderOfNothing ==
  ASSUME NEW generator \in Polynomial, NEW degree \in Int, NEW p \in Polynomial
  PROVE  Remainder(p, 0, generator, degree) = p
<1>1. Remainder(p, 0, generator, degree)
        = Fold(Division(generator, degree), p, Exponents(0, degree))
  BY RemainderIsFold
<1>2. Exponents(0, degree) = <<>>
  <2>1. 1 .. 8 * 0 = {}
    OBVIOUS
  <2> QED
    BY <2>1 DEF Exponents
<1>3. Folds(Polynomial, Int, Division(generator, degree))
  BY DivisionFolds
<1>4. Fold(Division(generator, degree), p, <<>>) = p
  BY <1>3, FoldNothing
<1> QED
  BY ONLY <1>1, <1>2, <1>4

-----------------------------------------------------------------------------
(***************************************************************************)
(* A message with one byte more, and the registers.                        *)
(***************************************************************************)
Low(byte) == {31 - i : i \in Bits(byte)}
Mirror(c) == {31 - i : i \in c}

LEMMA Terms16 ==
  ASSUME NEW message \in Seq(Byte)
  PROVE  /\ Message16(message) \in Polynomial
         /\ \A z : z \in Message16(message) <=>
              \E k \in 1 .. Len(message) : \E i \in Bits(message[k]) :
                z = 16 + 8 * (Len(message) - k) + i
<1>1. \A z : z \in Message16(message) <=>
        \E k \in 1 .. Len(message) : \E i \in Bits(message[k]) :
          z = 16 + 8 * (Len(message) - k) + i
  <2> DEFINE Part(k) == {16 + 8 * (Len(message) - k) + i : i \in Bits(message[k])}
  <2>1. DOMAIN message = 1 .. Len(message)
    OBVIOUS
  <2>2. Message16(message) = UNION {Part(k) : k \in 1 .. Len(message)}
    BY ONLY <2>1 DEF Message16
  <2>3. \A z, k : z \in Part(k) <=>
          \E i \in Bits(message[k]) : z = 16 + 8 * (Len(message) - k) + i
    OBVIOUS
  <2> HIDE DEF Part
  <2>4. \A z : z \in Message16(message) <=> \E k \in 1 .. Len(message) : z \in Part(k)
    BY ONLY <2>2
  <2> QED
    BY ONLY <2>3, <2>4
<1>2. ASSUME NEW k \in 1 .. Len(message), NEW i \in Bits(message[k])
      PROVE  16 + 8 * (Len(message) - k) + i \in Int
  <2>1. i \in Int /\ k \in Int /\ Len(message) \in Int
    BY DEF Bits
  <2> QED
    BY ONLY <2>1
<1> QED
  BY <1>1, <1>2 DEF Polynomial

LEMMA HighIs ==
  ASSUME NEW byte \in Byte
  PROVE  /\ High(byte) \in Polynomial /\ High(byte) \in Register16
         /\ \A z \in High(byte) : z < 16
         /\ \A z : z \in High(byte) <=> \E i \in Bits(byte) : z = i + 8
<1>1. Bits(byte) \subseteq 0 .. 7
  BY BitsRange DEF Byte
<1> QED
  BY <1>1 DEF High, Polynomial, Register16

LEMMA Message16Longer ==
  ASSUME NEW message \in Seq(Byte), NEW byte \in Byte
  PROVE  Message16(Append(message, byte))
           = SymDiff(Times(8, Message16(message)), Times(8, High(byte)))
<1>1. \A m \in Seq(Byte) : /\ Message16(m) \in Polynomial
                           /\ \A z : z \in Message16(m) <=>
                                \E k \in 1 .. Len(m) : \E i \in Bits(m[k]) :
                                  z = 16 + 8 * (Len(m) - k) + i
  BY Terms16
<1>2. \A a \in Polynomial : /\ Times(8, a) \in Polynomial
                            /\ \A z : z \in Times(8, a) <=> z \in Int /\ z - 8 \in a
  BY TimesIs
<1>3. \A a \in Polynomial, b \in Polynomial :
        \A z : z \in SymDiff(a, b) <=> (z \in a) # (z \in b)
  BY SymDiffIs
<1>4. /\ High(byte) \in Polynomial
      /\ \A z : z \in High(byte) <=> \E i \in Bits(byte) : z = i + 8
  BY HighIs
<1>5. \A b \in Byte : \A i \in Bits(b) : i \in 0 .. 7
  BY BitsRange DEF Byte
<1>0. Append(message, byte) \in Seq(Byte)
  OBVIOUS
<1> PICK longer \in Seq(Byte) : longer = Append(message, byte)
  BY <1>0
<1> PICK n \in Nat : n = Len(message)
  OBVIOUS
<1>6. /\ Len(longer) = n + 1 /\ longer[n + 1] = byte
      /\ \A k \in 1 .. n : longer[k] = message[k]
      /\ \A k \in 1 .. n : message[k] \in Byte
  OBVIOUS
<1> PICK m \in Polynomial :
      /\ m = Message16(message)
      /\ \A z : z \in m <=> \E k \in 1 .. n : \E i \in Bits(message[k]) :
                              z = 16 + 8 * (n - k) + i
  BY <1>1
<1> PICK l \in Polynomial :
      /\ l = Message16(longer)
      /\ \A z : z \in l <=> \E k \in 1 .. n + 1 : \E i \in Bits(longer[k]) :
                              z = 16 + 8 * ((n + 1) - k) + i
  <2>1. /\ Message16(longer) \in Polynomial
        /\ \A z : z \in Message16(longer) <=>
             \E k \in 1 .. Len(longer) : \E i \in Bits(longer[k]) :
               z = 16 + 8 * (Len(longer) - k) + i
    BY ONLY <1>1, longer \in Seq(Byte)
  <2>2. Len(longer) = n + 1
    BY <1>6
  <2> QED
    BY ONLY <2>1, <2>2
<1>7. ASSUME NEW z \in l
      PROVE  z - 8 \in m \/ z - 8 \in High(byte)
  <2> PICK k \in 1 .. n + 1 : \E i \in Bits(longer[k]) : z = 16 + 8 * ((n + 1) - k) + i
    OBVIOUS
  <2> PICK i \in Bits(longer[k]) : z = 16 + 8 * ((n + 1) - k) + i
    OBVIOUS
  <2>1. CASE k = n + 1
    <3>1. i \in Bits(byte) /\ i \in 0 .. 7
      BY <1>5, <1>6, <2>1
    <3>2. z - 8 = i + 8
      BY <2>1, <3>1
    <3> QED
      BY <1>4, <3>1, <3>2
  <2>2. CASE k # n + 1
    <3>1. k \in 1 .. n
      BY <2>2
    <3>2. i \in Bits(message[k]) /\ i \in 0 .. 7
      BY <1>5, <1>6, <3>1
    <3>3. z - 8 = 16 + 8 * (n - k) + i
      BY <3>1, <3>2
    <3> QED
      BY <3>1, <3>2, <3>3
  <2> QED
    BY <2>1, <2>2
<1>8. ASSUME NEW z \in Int, z - 8 \in m
      PROVE  z \in l
  <2> PICK k \in 1 .. n : \E i \in Bits(message[k]) : z - 8 = 16 + 8 * (n - k) + i
    BY <1>8
  <2> PICK i \in Bits(message[k]) : z - 8 = 16 + 8 * (n - k) + i
    OBVIOUS
  <2>1. i \in Bits(longer[k]) /\ i \in 0 .. 7 /\ k \in 1 .. n + 1
    BY <1>5, <1>6
  <2>2. z = 16 + 8 * ((n + 1) - k) + i
    BY <2>1
  <2> QED
    BY <2>1, <2>2
<1>9. ASSUME NEW z \in Int, z - 8 \in High(byte)
      PROVE  z \in l
  <2> PICK i \in Bits(byte) : z - 8 = i + 8
    BY <1>4, <1>9
  <2>1. i \in Bits(longer[n + 1]) /\ i \in 0 .. 7 /\ n + 1 \in 1 .. n + 1
    BY <1>5, <1>6
  <2>2. z = 16 + 8 * ((n + 1) - (n + 1)) + i
    BY <2>1
  <2> QED
    BY <2>1, <2>2
<1>10. ASSUME NEW z \in m
       PROVE  z \notin High(byte)
  <2>1. z >= 16
    <3> PICK k \in 1 .. n : \E i \in Bits(message[k]) : z = 16 + 8 * (n - k) + i
      OBVIOUS
    <3> PICK i \in Bits(message[k]) : z = 16 + 8 * (n - k) + i
      OBVIOUS
    <3>1. i \in 0 .. 7
      BY <1>5, <1>6
    <3> QED
      BY <3>1
  <2>2. \A y \in High(byte) : y < 16
    BY HighIs
  <2>3. z \in Int
    BY DEF Polynomial
  <2>4. ~ z < 16
    BY <2>1, <2>3
  <2> QED
    BY <2>2, <2>4
<1>11. \A z : z \in SymDiff(Times(8, m), Times(8, High(byte))) <=>
                z \in Int /\ (z - 8 \in m) # (z - 8 \in High(byte))
  <2>1. /\ Times(8, m) \in Polynomial /\ Times(8, High(byte)) \in Polynomial
        /\ \A z : z \in Times(8, m) <=> z \in Int /\ z - 8 \in m
        /\ \A z : z \in Times(8, High(byte)) <=> z \in Int /\ z - 8 \in High(byte)
    BY <1>2, <1>4
  <2>2. \A z : z \in SymDiff(Times(8, m), Times(8, High(byte))) <=>
                 (z \in Times(8, m)) # (z \in Times(8, High(byte)))
    BY <1>3, <2>1
  <2> QED
    BY ONLY <2>1, <2>2
<1>12. \A z \in l : z \in Int
  BY DEF Polynomial
<1>13. \A z : z \in l <=> z \in SymDiff(Times(8, m), Times(8, High(byte)))
  BY ONLY <1>7, <1>8, <1>9, <1>10, <1>11, <1>12
<1>14. l = SymDiff(Times(8, m), Times(8, High(byte)))
  BY ONLY <1>13
<1> QED
  BY <1>14

LEMMA Message16Nothing == Message16(<<>>) = {}
BY DEF Message16

\* The register is the dividend, seen from the top.
LEMMA Reduced16 ==
  ASSUME NEW c \in Register16
  PROVE  Reduced(Generator16, 16, c) = Shift16(c)
<1>1. Generator16 \ {16} = Poly16
  BY DEF Generator16, Poly16
<1>2. Times(1, c \ {15}) = {i + 1 : i \in c \ {15}} /\ Times(1, c) = {i + 1 : i \in c}
  BY DEF Times
<1>3. 16 - 1 = 15
  OBVIOUS
<1>4. 15 \notin c => c \ {15} = c
  OBVIOUS
<1> QED
  BY <1>1, <1>2, <1>3, <1>4 DEF Reduced, Shift16

LEMMA EightTimes16 ==
  ASSUME NEW c \in Register16
  PROVE  EightTimes(Generator16, 16, c) = Run16(c)
<1>1. ASSUME NEW a \in Register16
      PROVE  Twice(Generator16, 16, a) = Twice16(a) /\ Twice16(a) \in Register16
  <2>1. Reduced(Generator16, 16, a) = Shift16(a)
    BY Reduced16
  <2>2. Shift16(a) \in Register16
    BY Shift16Range
  <2>3. Reduced(Generator16, 16, Shift16(a)) = Shift16(Shift16(a))
    BY <2>2, Reduced16
  <2>4. Shift16(Shift16(a)) \in Register16
    BY <2>2, Shift16Range
  <2> QED
    BY <2>1, <2>3, <2>4 DEF Twice, Twice16
<1>2. /\ Twice(Generator16, 16, c) = Twice16(c) /\ Twice16(c) \in Register16
  BY <1>1
<1>3. /\ Twice(Generator16, 16, Twice16(c)) = Twice16(Twice16(c))
      /\ Twice16(Twice16(c)) \in Register16
  BY <1>1, <1>2
<1>4. /\ Twice(Generator16, 16, Twice16(Twice16(c))) = Twice16(Twice16(Twice16(c)))
      /\ Twice16(Twice16(Twice16(c))) \in Register16
  BY <1>1, <1>3
<1>5. Twice(Generator16, 16, Twice16(Twice16(Twice16(c)))) = Run16(c)
  BY <1>1, <1>4 DEF Run16
<1> QED
  BY <1>2, <1>3, <1>4, <1>5 DEF EightTimes

\* The terms of a message, without the complement.
Terms(message) ==
  UNION {{32 + 8 * (Len(message) - k) + 7 - i : i \in Bits(message[k])} :
           k \in DOMAIN message}
Head32(n) == {8 * n + i : i \in 0 .. 31}

LEMMA Terms32 ==
  ASSUME NEW message \in Seq(Byte)
  PROVE  /\ Terms(message) \in Polynomial
         /\ \A z : z \in Terms(message) <=>
              \E k \in 1 .. Len(message) : \E i \in Bits(message[k]) :
                z = 32 + 8 * (Len(message) - k) + 7 - i
<1>1. \A z : z \in Terms(message) <=>
        \E k \in 1 .. Len(message) : \E i \in Bits(message[k]) :
          z = 32 + 8 * (Len(message) - k) + 7 - i
  <2> DEFINE Part(k) == {32 + 8 * (Len(message) - k) + 7 - i : i \in Bits(message[k])}
  <2>1. DOMAIN message = 1 .. Len(message)
    OBVIOUS
  <2>2. Terms(message) = UNION {Part(k) : k \in 1 .. Len(message)}
    BY ONLY <2>1 DEF Terms
  <2>3. \A z, k : z \in Part(k) <=>
          \E i \in Bits(message[k]) : z = 32 + 8 * (Len(message) - k) + 7 - i
    OBVIOUS
  <2> HIDE DEF Part
  <2>4. \A z : z \in Terms(message) <=> \E k \in 1 .. Len(message) : z \in Part(k)
    BY ONLY <2>2
  <2> QED
    BY ONLY <2>3, <2>4
<1>2. ASSUME NEW k \in 1 .. Len(message), NEW i \in Bits(message[k])
      PROVE  32 + 8 * (Len(message) - k) + 7 - i \in Int
  <2>1. i \in Int /\ k \in Int /\ Len(message) \in Int
    BY DEF Bits
  <2> QED
    BY ONLY <2>1
<1> QED
  BY <1>1, <1>2 DEF Polynomial

LEMMA LowIs ==
  ASSUME NEW byte \in Byte
  PROVE  /\ Low(byte) \in Polynomial
         /\ \A z \in Low(byte) : z < 32
         /\ \A z : z \in Low(byte) <=> \E i \in Bits(byte) : z = 31 - i
<1>1. Bits(byte) \subseteq 0 .. 7
  BY BitsRange DEF Byte
<1> QED
  BY <1>1 DEF Low, Polynomial

LEMMA TermsLonger ==
  ASSUME NEW message \in Seq(Byte), NEW byte \in Byte
  PROVE  Terms(Append(message, byte))
           = SymDiff(Times(8, Terms(message)), Times(8, Low(byte)))
<1>1. \A m \in Seq(Byte) : /\ Terms(m) \in Polynomial
                           /\ \A z : z \in Terms(m) <=>
                                \E k \in 1 .. Len(m) : \E i \in Bits(m[k]) :
                                  z = 32 + 8 * (Len(m) - k) + 7 - i
  BY Terms32
<1>2. \A a \in Polynomial : /\ Times(8, a) \in Polynomial
                            /\ \A z : z \in Times(8, a) <=> z \in Int /\ z - 8 \in a
  BY TimesIs
<1>3. \A a \in Polynomial, b \in Polynomial :
        \A z : z \in SymDiff(a, b) <=> (z \in a) # (z \in b)
  BY SymDiffIs
<1>4. /\ Low(byte) \in Polynomial
      /\ \A z : z \in Low(byte) <=> \E i \in Bits(byte) : z = 31 - i
  BY LowIs
<1>5. \A b \in Byte : \A i \in Bits(b) : i \in 0 .. 7
  BY BitsRange DEF Byte
<1>0. Append(message, byte) \in Seq(Byte)
  OBVIOUS
<1> PICK longer \in Seq(Byte) : longer = Append(message, byte)
  BY <1>0
<1> PICK n \in Nat : n = Len(message)
  OBVIOUS
<1>6. /\ Len(longer) = n + 1 /\ longer[n + 1] = byte
      /\ \A k \in 1 .. n : longer[k] = message[k]
      /\ \A k \in 1 .. n : message[k] \in Byte
  OBVIOUS
<1> PICK m \in Polynomial :
      /\ m = Terms(message)
      /\ \A z : z \in m <=> \E k \in 1 .. n : \E i \in Bits(message[k]) :
                              z = 32 + 8 * (n - k) + 7 - i
  BY <1>1
<1> PICK l \in Polynomial :
      /\ l = Terms(longer)
      /\ \A z : z \in l <=> \E k \in 1 .. n + 1 : \E i \in Bits(longer[k]) :
                              z = 32 + 8 * ((n + 1) - k) + 7 - i
  <2>1. /\ Terms(longer) \in Polynomial
        /\ \A z : z \in Terms(longer) <=>
             \E k \in 1 .. Len(longer) : \E i \in Bits(longer[k]) :
               z = 32 + 8 * (Len(longer) - k) + 7 - i
    BY ONLY <1>1, longer \in Seq(Byte)
  <2>2. Len(longer) = n + 1
    BY <1>6
  <2> QED
    BY ONLY <2>1, <2>2
<1>7. ASSUME NEW z \in l
      PROVE  z - 8 \in m \/ z - 8 \in Low(byte)
  <2> PICK k \in 1 .. n + 1 : \E i \in Bits(longer[k]) : z = 32 + 8 * ((n + 1) - k) + 7 - i
    OBVIOUS
  <2> PICK i \in Bits(longer[k]) : z = 32 + 8 * ((n + 1) - k) + 7 - i
    OBVIOUS
  <2>1. CASE k = n + 1
    <3>1. i \in Bits(byte) /\ i \in 0 .. 7
      BY <1>5, <1>6, <2>1
    <3>2. z - 8 = 31 - i
      BY <2>1, <3>1
    <3> QED
      BY <1>4, <3>1, <3>2
  <2>2. CASE k # n + 1
    <3>1. k \in 1 .. n
      BY <2>2
    <3>2. i \in Bits(message[k]) /\ i \in 0 .. 7
      BY <1>5, <1>6, <3>1
    <3>3. k \in Int /\ i \in Int /\ n \in Int
      BY <3>1, <3>2
    <3>4. z = 32 + 8 * ((n + 1) - k) + 7 - i
      OBVIOUS
    <3>5. z - 8 = 32 + 8 * (n - k) + 7 - i
      BY ONLY <3>3, <3>4
    <3> QED
      BY <3>1, <3>2, <3>5
  <2> QED
    BY <2>1, <2>2
<1>8. ASSUME NEW z \in Int, z - 8 \in m
      PROVE  z \in l
  <2> PICK k \in 1 .. n : \E i \in Bits(message[k]) : z - 8 = 32 + 8 * (n - k) + 7 - i
    BY <1>8
  <2> PICK i \in Bits(message[k]) : z - 8 = 32 + 8 * (n - k) + 7 - i
    OBVIOUS
  <2>1. i \in Bits(longer[k]) /\ i \in 0 .. 7 /\ k \in 1 .. n + 1
    BY <1>5, <1>6
  <2>2. z = 32 + 8 * ((n + 1) - k) + 7 - i
    BY <2>1
  <2> QED
    BY <2>1, <2>2
<1>9. ASSUME NEW z \in Int, z - 8 \in Low(byte)
      PROVE  z \in l
  <2> PICK i \in Bits(byte) : z - 8 = 31 - i
    BY <1>4, <1>9
  <2>1. i \in Bits(longer[n + 1]) /\ i \in 0 .. 7 /\ n + 1 \in 1 .. n + 1
    BY <1>5, <1>6
  <2>2. z = 32 + 8 * ((n + 1) - (n + 1)) + 7 - i
    BY <2>1
  <2> QED
    BY <2>1, <2>2
<1>10. ASSUME NEW z \in m
       PROVE  z \notin Low(byte)
  <2>1. z >= 32
    <3> PICK k \in 1 .. n : \E i \in Bits(message[k]) : z = 32 + 8 * (n - k) + 7 - i
      OBVIOUS
    <3> PICK i \in Bits(message[k]) : z = 32 + 8 * (n - k) + 7 - i
      OBVIOUS
    <3>1. i \in 0 .. 7
      BY <1>5, <1>6
    <3> QED
      BY <3>1
  <2>2. \A y \in Low(byte) : y < 32
    BY LowIs
  <2>3. z \in Int
    BY DEF Polynomial
  <2>4. ~ z < 32
    BY <2>1, <2>3
  <2> QED
    BY <2>2, <2>4
<1>11. \A z : z \in SymDiff(Times(8, m), Times(8, Low(byte))) <=>
                z \in Int /\ (z - 8 \in m) # (z - 8 \in Low(byte))
  <2>1. /\ Times(8, m) \in Polynomial /\ Times(8, Low(byte)) \in Polynomial
        /\ \A z : z \in Times(8, m) <=> z \in Int /\ z - 8 \in m
        /\ \A z : z \in Times(8, Low(byte)) <=> z \in Int /\ z - 8 \in Low(byte)
    BY <1>2, <1>4
  <2>2. \A z : z \in SymDiff(Times(8, m), Times(8, Low(byte))) <=>
                 (z \in Times(8, m)) # (z \in Times(8, Low(byte)))
    BY <1>3, <2>1
  <2> QED
    BY ONLY <2>1, <2>2
<1>12. \A z \in l : z \in Int
  BY DEF Polynomial
<1>13. \A z : z \in l <=> z \in SymDiff(Times(8, m), Times(8, Low(byte)))
  BY ONLY <1>7, <1>8, <1>9, <1>10, <1>11, <1>12
<1>14. l = SymDiff(Times(8, m), Times(8, Low(byte)))
  BY ONLY <1>13
<1> QED
  BY <1>14

LEMMA Head32Longer ==
  ASSUME NEW n \in Nat
  PROVE  /\ Head32(n) \in Polynomial /\ Head32(n + 1) = Times(8, Head32(n))
<1>1. Head32(n) \in Polynomial
  BY DEF Head32, Polynomial
<1>2. \A i \in 0 .. 31 : 8 * (n + 1) + i = (8 * n + i) + 8
  OBVIOUS
<1>3. Head32(n + 1) = {(8 * n + i) + 8 : i \in 0 .. 31}
  BY ONLY <1>2 DEF Head32
<1>4. Times(8, Head32(n)) = {(8 * n + i) + 8 : i \in 0 .. 31}
  BY ONLY DEF Head32, Times
<1> QED
  BY ONLY <1>1, <1>3, <1>4

LEMMA Message32Longer ==
  ASSUME NEW message \in Seq(Byte), NEW byte \in Byte
  PROVE  /\ Message32(message) \in Polynomial
         /\ Message32(Append(message, byte))
              = SymDiff(Times(8, Message32(message)), Times(8, Low(byte)))
<1>1. \A m \in Seq(Byte) : Message32(m) = SymDiff(Terms(m), Head32(Len(m)))
  BY DEF Message32, Terms, Head32
<1>2. Terms(Append(message, byte)) = SymDiff(Times(8, Terms(message)), Times(8, Low(byte)))
  BY TermsLonger
<1>3. Terms(message) \in Polynomial /\ Low(byte) \in Polynomial
  BY Terms32, LowIs
<1>4. \A a \in Polynomial, b \in Polynomial :
        /\ SymDiff(a, b) \in Polynomial
        /\ SymDiff(Times(8, a), Times(8, b)) = Times(8, SymDiff(a, b))
        /\ \A z : z \in SymDiff(a, b) <=> (z \in a) # (z \in b)
  BY SymDiffIs, TimesSymDiff
<1>5. \A a \in Polynomial : Times(8, a) \in Polynomial
  BY TimesIs
<1>6. Append(message, byte) \in Seq(Byte) /\ Len(Append(message, byte)) = Len(message) + 1
  OBVIOUS
<1> PICK n \in Nat : n = Len(message)
  OBVIOUS
<1>7. Head32(n) \in Polynomial /\ Head32(n + 1) = Times(8, Head32(n))
  BY Head32Longer
<1> PICK h \in Polynomial : h = Head32(n)
  BY <1>7
<1> PICK t \in Polynomial : t = Terms(message)
  BY <1>3
<1> PICK l \in Polynomial : l = Low(byte)
  BY <1>3
<1> PICK m \in Polynomial : m = SymDiff(t, h)
  BY <1>4
<1>8. Message32(message) = m
  BY <1>1
<1>9. Message32(Append(message, byte))
        = SymDiff(SymDiff(Times(8, t), Times(8, l)), Times(8, h))
  BY <1>1, <1>2, <1>6, <1>7
<1>10. SymDiff(SymDiff(Times(8, t), Times(8, l)), Times(8, h))
         = SymDiff(Times(8, m), Times(8, l))
  <2>1. SymDiff(Times(8, t), Times(8, l)) = Times(8, SymDiff(t, l)) /\ SymDiff(t, l) \in Polynomial
    BY <1>4
  <2>2. SymDiff(Times(8, SymDiff(t, l)), Times(8, h)) = Times(8, SymDiff(SymDiff(t, l), h))
    BY <1>4, <2>1
  <2>3. SymDiff(Times(8, m), Times(8, l)) = Times(8, SymDiff(m, l))
    BY <1>4
  <2>4. SymDiff(SymDiff(t, l), h) = SymDiff(SymDiff(t, h), l)
    BY DEF SymDiff
  <2> QED
    BY <2>1, <2>2, <2>3, <2>4
<1> QED
  BY <1>8, <1>9, <1>10

LEMMA Message32Nothing == Message32(<<>>) = 0 .. 31
<1>1. Message32(<<>>) = SymDiff({}, {8 * 0 + i : i \in 0 .. 31})
  BY DEF Message32
<1>2. {8 * 0 + i : i \in 0 .. 31} = 0 .. 31
  OBVIOUS
<1> QED
  BY <1>1, <1>2 DEF SymDiff

\* The register of CRC-32 holds the dividend mirrored.
LEMMA MirrorIs ==
  ASSUME NEW c \in Register32
  PROVE  /\ Mirror(c) \in Polynomial /\ Mirror(c) \in Register32
         /\ \A z : z \in Mirror(c) <=> z \in 0 .. 31 /\ 31 - z \in c
<1>1. \A i \in c : i \in 0 .. 31
  BY DEF Register32
<1>2. ASSUME NEW z \in 0 .. 31, 31 - z \in c
      PROVE  z \in Mirror(c)
  <2>1. z = 31 - (31 - z)
    OBVIOUS
  <2> QED
    BY <1>2, <2>1 DEF Mirror
<1>3. ASSUME NEW z \in Mirror(c)
      PROVE  z \in 0 .. 31 /\ 31 - z \in c
  <2>1. PICK i \in c : z = 31 - i
    BY DEF Mirror
  <2>2. i \in 0 .. 31
    BY <1>1
  <2>3. z \in 0 .. 31 /\ 31 - z = i
    BY <2>1, <2>2
  <2> QED
    BY <2>3
<1>4. \A z \in 0 .. 31 : z \in Int
  OBVIOUS
<1> QED
  BY <1>2, <1>3, <1>4 DEF Polynomial, Register32

LEMMA MirrorTwice ==
  ASSUME NEW c \in Register32
  PROVE  Mirror(Mirror(c)) = c
<1>1. /\ Mirror(c) \in Register32
      /\ \A z : z \in Mirror(c) <=> z \in 0 .. 31 /\ 31 - z \in c
  BY MirrorIs
<1>2. \A z : z \in Mirror(Mirror(c)) <=> z \in 0 .. 31 /\ 31 - z \in Mirror(c)
  BY <1>1, MirrorIs
<1>3. \A z \in 0 .. 31 : 31 - z \in 0 .. 31 /\ 31 - (31 - z) = z
  OBVIOUS
<1>4. \A z \in c : z \in 0 .. 31
  BY DEF Register32
<1> QED
  BY ONLY <1>1, <1>2, <1>3, <1>4

LEMMA MirrorSymDiff ==
  ASSUME NEW c \in Register32, NEW b \in Register32
  PROVE  Mirror(SymDiff(c, b)) = SymDiff(Mirror(c), Mirror(b))
<1>1. SymDiff(c, b) \in Register32
  BY SymDiffRange
<1>2. \A a \in Register32 : \A z : z \in Mirror(a) <=> z \in 0 .. 31 /\ 31 - z \in a
  BY MirrorIs
<1>3. \A z : z \in SymDiff(c, b) <=> (z \in c) # (z \in b)
  BY DEF SymDiff
<1>4. \A z : z \in SymDiff(Mirror(c), Mirror(b)) <=> (z \in Mirror(c)) # (z \in Mirror(b))
  BY DEF SymDiff
<1>5. \A z : z \in Mirror(SymDiff(c, b)) <=> z \in SymDiff(Mirror(c), Mirror(b))
  BY <1>1, <1>2, <1>3, <1>4
<1> QED
  BY ONLY <1>5

LEMMA Reduced32 ==
  ASSUME NEW c \in Register32
  PROVE  Reduced(Generator32, 32, Mirror(c)) = Mirror(Shift32(c))
<1>1. Generator32 \in Polynomial /\ 32 \in Generator32
  BY DEF Generator32, Polynomial
<1>2. /\ Mirror(c) \in Polynomial
      /\ \A z : z \in Mirror(c) <=> z \in 0 .. 31 /\ 31 - z \in c
  BY MirrorIs
<1>3. \A z : z \in Reduced(Generator32, 32, Mirror(c)) <=>
               z \in Int /\ (z - 1 \in Mirror(c)) # (32 - 1 \in Mirror(c) /\ z \in Generator32)
  BY <1>1, <1>2, ReducedIs
<1>4. 31 \in Mirror(c) <=> 0 \in c
  BY <1>2
<1>5. \A z : z \in Mirror(Shift32(c)) <=> z \in 0 .. 31 /\ 31 - z \in Shift32(c)
  BY Shift32Range, MirrorIs
<1>6. \A y \in 0 .. 31 : y \in Shift32(c) <=> (y + 1 \in c) # (0 \in c /\ y \in Poly32)
  BY DEF Shift32, SymDiff, Register32
<1>7. \A z \in 0 .. 31 : 31 - z \in Poly32 <=> z \in Generator32
  BY DEF Poly32, Generator32
<1>8. \A z \in Generator32 : z \in 0 .. 31 \/ z = 32
  BY DEF Generator32
<1>9. ASSUME NEW z \in 0 .. 31
      PROVE  z \in Reduced(Generator32, 32, Mirror(c)) <=> z \in Mirror(Shift32(c))
  <2>1. z - 1 \in Mirror(c) <=> 31 - z + 1 \in c
    <3>1. CASE z = 0
      <4>1. z - 1 \notin 0 .. 31 /\ 31 - z + 1 \notin 0 .. 31
        BY <3>1
      <4> QED
        BY <1>2, <4>1 DEF Register32
    <3>2. CASE z # 0
      <4>1. z - 1 \in 0 .. 31 /\ 31 - (z - 1) = 31 - z + 1
        BY <3>2
      <4> QED
        BY <1>2, <4>1
    <3> QED
      BY <3>1, <3>2
  <2>2. 31 - z \in 0 .. 31 /\ 32 - 1 = 31 /\ z \in Int
    OBVIOUS
  <2> QED
    BY <1>3, <1>4, <1>5, <1>6, <1>7, <2>1, <2>2
<1>10. ASSUME NEW z \in Int, z \notin 0 .. 31
       PROVE  z \notin Reduced(Generator32, 32, Mirror(c))
  <2>1. CASE z = 32
    <3>1. z - 1 = 31 /\ 32 - 1 = 31
      BY <2>1
    <3> QED
      BY <1>1, <1>3, <2>1, <3>1
  <2>2. CASE z # 32
    <3>1. z - 1 \notin 0 .. 31
      BY <1>10, <2>2
    <3>2. z \notin Generator32
      BY <1>8, <1>10, <2>2
    <3> QED
      BY <1>2, <1>3, <3>1, <3>2
  <2> QED
    BY <2>1, <2>2
<1>11. \A z : z \in Reduced(Generator32, 32, Mirror(c)) <=> z \in Mirror(Shift32(c))
  BY <1>3, <1>5, <1>9, <1>10
<1> QED
  BY ONLY <1>11

LEMMA EightTimes32 ==
  ASSUME NEW c \in Register32
  PROVE  EightTimes(Generator32, 32, Mirror(c)) = Mirror(Run32(c))
<1>1. ASSUME NEW a \in Register32
      PROVE  Twice(Generator32, 32, Mirror(a)) = Mirror(Twice32(a)) /\ Twice32(a) \in Register32
  <2>1. Reduced(Generator32, 32, Mirror(a)) = Mirror(Shift32(a))
    BY Reduced32
  <2>2. Shift32(a) \in Register32
    BY Shift32Range
  <2>3. Reduced(Generator32, 32, Mirror(Shift32(a))) = Mirror(Shift32(Shift32(a)))
    BY <2>2, Reduced32
  <2>4. Shift32(Shift32(a)) \in Register32
    BY <2>2, Shift32Range
  <2> QED
    BY <2>1, <2>3, <2>4 DEF Twice, Twice32
<1>2. /\ Twice(Generator32, 32, Mirror(c)) = Mirror(Twice32(c)) /\ Twice32(c) \in Register32
  BY <1>1
<1>3. /\ Twice(Generator32, 32, Mirror(Twice32(c))) = Mirror(Twice32(Twice32(c)))
      /\ Twice32(Twice32(c)) \in Register32
  BY <1>1, <1>2
<1>4. /\ Twice(Generator32, 32, Mirror(Twice32(Twice32(c)))) = Mirror(Twice32(Twice32(Twice32(c))))
      /\ Twice32(Twice32(Twice32(c))) \in Register32
  BY <1>1, <1>3
<1>5. Twice(Generator32, 32, Mirror(Twice32(Twice32(Twice32(c))))) = Mirror(Run32(c))
  BY <1>1, <1>4 DEF Run32
<1> QED
  BY <1>2, <1>3, <1>4, <1>5 DEF EightTimes

-----------------------------------------------------------------------------
(***************************************************************************)
(* One byte more: the calculators against the remainders.                  *)
(***************************************************************************)
LEMMA Remainder16Longer ==
  ASSUME NEW message \in Seq(Byte), NEW byte \in Byte, NEW crc \in Register16,
         crc = Remainder(Message16(message), Len(message), Generator16, 16)
  PROVE  Crc16Update(crc, byte)
           = Remainder(Message16(Append(message, byte)), Len(Append(message, byte)),
                       Generator16, 16)
<1>1. Generator16 \in Polynomial /\ 16 \in Generator16 /\ 16 \in Int
  BY DEF Generator16, Polynomial
<1>2. Message16(message) \in Polynomial
  BY Terms16
<1>3. /\ High(byte) \in Polynomial /\ High(byte) \in Register16
      /\ \A i \in High(byte) : i < 16
  BY HighIs
<1>4. Message16(Append(message, byte))
        = SymDiff(Times(8, Message16(message)), Times(8, High(byte)))
  BY Message16Longer
<1>5. Len(message) \in Nat /\ Len(Append(message, byte)) = Len(message) + 1
  OBVIOUS
<1>6. Remainder(SymDiff(Times(8, Message16(message)), Times(8, High(byte))),
                Len(message) + 1, Generator16, 16)
        = EightTimes(Generator16, 16,
            SymDiff(Remainder(Message16(message), Len(message), Generator16, 16), High(byte)))
  BY <1>1, <1>2, <1>3, <1>5, RemainderLonger
<1>7. SymDiff(crc, High(byte)) \in Register16
  BY <1>3, SymDiffRange
<1>8. EightTimes(Generator16, 16, SymDiff(crc, High(byte))) = Run16(SymDiff(crc, High(byte)))
  BY <1>7, EightTimes16
<1>9. Run16(SymDiff(crc, High(byte))) = Crc16Update(crc, byte)
  BY DEF Run16, Crc16Update, High
<1> QED
  BY <1>4, <1>5, <1>6, <1>8, <1>9

LEMMA Remainder32Longer ==
  ASSUME NEW message \in Seq(Byte), NEW byte \in Byte, NEW crc \in Register32,
         Mirror(crc) = Remainder(Message32(message), Len(message), Generator32, 32)
  PROVE  Mirror(Crc32Update(crc, byte))
           = Remainder(Message32(Append(message, byte)), Len(Append(message, byte)),
                       Generator32, 32)
<1>1. Generator32 \in Polynomial /\ 32 \in Generator32 /\ 32 \in Int
  BY DEF Generator32, Polynomial
<1>2. /\ Message32(message) \in Polynomial
      /\ Message32(Append(message, byte))
           = SymDiff(Times(8, Message32(message)), Times(8, Low(byte)))
  BY Message32Longer
<1>3. Low(byte) \in Polynomial /\ \A i \in Low(byte) : i < 32
  BY LowIs
<1>4. Bits(byte) \in Register32 /\ Low(byte) = Mirror(Bits(byte))
  <2>1. Bits(byte) \subseteq 0 .. 7
    BY BitsRange DEF Byte
  <2>2. Bits(byte) \in Register32
    BY <2>1 DEF Register32
  <2>3. Low(byte) = Mirror(Bits(byte))
    BY ONLY DEF Low, Mirror
  <2> QED
    BY <2>2, <2>3
<1>5. Len(message) \in Nat /\ Len(Append(message, byte)) = Len(message) + 1
  OBVIOUS
<1>6. Remainder(SymDiff(Times(8, Message32(message)), Times(8, Low(byte))),
                Len(message) + 1, Generator32, 32)
        = EightTimes(Generator32, 32,
            SymDiff(Remainder(Message32(message), Len(message), Generator32, 32), Low(byte)))
  BY <1>1, <1>2, <1>3, <1>5, RemainderLonger
<1>7. /\ SymDiff(crc, Bits(byte)) \in Register32
      /\ SymDiff(Mirror(crc), Low(byte)) = Mirror(SymDiff(crc, Bits(byte)))
  BY <1>4, SymDiffRange, MirrorSymDiff
<1>8. EightTimes(Generator32, 32, Mirror(SymDiff(crc, Bits(byte))))
        = Mirror(Run32(SymDiff(crc, Bits(byte))))
  BY <1>7, EightTimes32
<1>9. Run32(SymDiff(crc, Bits(byte))) = Crc32Update(crc, byte)
  BY DEF Run32, Crc32Update
<1> QED
  BY <1>2, <1>5, <1>6, <1>7, <1>8, <1>9

\* Both calculators are the fold of the message and hold its remainder.
Standard ==
  /\ data \in Seq(Byte) /\ crc16 \in Register16 /\ crc32 \in Register32
  /\ crc16 = Fold(Step16, {}, data)
  /\ crc32 = Fold(Step32, Crc32Start, data)
  /\ crc16 = Remainder(Message16(data), Len(data), Generator16, 16)
  /\ Mirror(crc32) = Remainder(Message32(data), Len(data), Generator32, 32)

LEMMA InitStandard == CrcInit => Standard
<1> SUFFICES ASSUME CrcInit
             PROVE  Standard
  OBVIOUS
<1>1. data = <<>> /\ crc16 = {} /\ crc32 = Crc32Start
  BY DEF CrcInit, Crc16Start
<1>2. Crc32Start \in Register32 /\ {} \in Register16
  BY Step32Folds, Step16Folds
<1>3. Fold(Step16, {}, <<>>) = {}
  <2>1. Folds(Register16, Byte, Step16)
    BY Step16Folds
  <2> QED
    BY <1>2, <2>1, FoldNothing
<1>4. Fold(Step32, Crc32Start, <<>>) = Crc32Start
  <2>1. Folds(Register32, Byte, Step32)
    BY Step32Folds
  <2> QED
    BY <1>2, <2>1, FoldNothing
<1>5. Len(<<>>) = 0 /\ <<>> \in Seq(Byte)
  OBVIOUS
<1>6. Remainder(Message16(<<>>), Len(<<>>), Generator16, 16) = {}
  <2>1. Generator16 \in Polynomial /\ {} \in Polynomial /\ 16 \in Int
    BY DEF Generator16, Polynomial
  <2>2. Remainder({}, 0, Generator16, 16) = {}
    BY <2>1, RemainderOfNothing
  <2> QED
    BY <1>5, <2>2, Message16Nothing
<1>7. Remainder(Message32(<<>>), Len(<<>>), Generator32, 32) = 0 .. 31
  <2>1. Generator32 \in Polynomial /\ 0 .. 31 \in Polynomial /\ 32 \in Int
    BY DEF Generator32, Polynomial
  <2>2. Remainder(0 .. 31, 0, Generator32, 32) = 0 .. 31
    BY <2>1, RemainderOfNothing
  <2> QED
    BY <1>5, <2>2, Message32Nothing
<1>8. Mirror(Crc32Start) = 0 .. 31
  <2>1. \A z : z \in Mirror(Crc32Start) <=> z \in 0 .. 31 /\ 31 - z \in 0 .. 31
    BY <1>2, MirrorIs DEF Crc32Start
  <2>2. \A z \in 0 .. 31 : 31 - z \in 0 .. 31
    OBVIOUS
  <2> QED
    BY ONLY <2>1, <2>2
<1> QED
  BY <1>1, <1>2, <1>3, <1>4, <1>5, <1>6, <1>7, <1>8 DEF Standard

LEMMA NextStandard == Standard /\ [CrcNext]_crcVars => Standard'
<1> SUFFICES ASSUME Standard, [CrcNext]_crcVars
             PROVE  Standard'
  OBVIOUS
<1>1. ASSUME NEW byte \in MessageBytes, NEW arrived, UpdateByte(byte, arrived)
      PROVE  Standard'
  <2>1. byte \in Byte
    BY MessageAssumption DEF Byte
  <2>2. /\ data' = Append(data, byte) /\ crc16' = Crc16Update(crc16, byte)
        /\ crc32' = Crc32Update(crc32, byte)
    BY <1>1 DEF UpdateByte
  <2>3. data \in Seq(Byte) /\ crc16 \in Register16 /\ crc32 \in Register32
    BY DEF Standard
  <2>4. data' \in Seq(Byte)
    BY <2>1, <2>2, <2>3
  <2>5. crc16' \in Register16 /\ crc32' \in Register32
    BY <2>1, <2>2, <2>3, Crc16UpdateFacts, Crc32UpdateFacts DEF Byte
  <2>6. crc16' = Fold(Step16, {}, data')
    <3>1. Folds(Register16, Byte, Step16) /\ {} \in Register16
      BY Step16Folds
    <3>2. Fold(Step16, {}, Append(data, byte)) = Step16[Fold(Step16, {}, data)][byte]
      BY <2>1, <2>3, <3>1, FoldAppend
    <3>3. Step16[crc16][byte] = Crc16Update(crc16, byte)
      BY <2>1, <2>3, Step16Folds
    <3> QED
      BY <2>2, <3>2, <3>3 DEF Standard
  <2>7. crc32' = Fold(Step32, Crc32Start, data')
    <3>1. Folds(Register32, Byte, Step32) /\ Crc32Start \in Register32
      BY Step32Folds
    <3>2. Fold(Step32, Crc32Start, Append(data, byte))
            = Step32[Fold(Step32, Crc32Start, data)][byte]
      BY <2>1, <2>3, <3>1, FoldAppend
    <3>3. Step32[crc32][byte] = Crc32Update(crc32, byte)
      BY <2>1, <2>3, Step32Folds
    <3> QED
      BY <2>2, <3>2, <3>3 DEF Standard
  <2>8. crc16' = Remainder(Message16(data'), Len(data'), Generator16, 16)
    <3>1. crc16 = Remainder(Message16(data), Len(data), Generator16, 16)
      BY DEF Standard
    <3> QED
      BY <2>1, <2>2, <2>3, <3>1, Remainder16Longer
  <2>9. Mirror(crc32)' = Remainder(Message32(data'), Len(data'), Generator32, 32)
    <3>1. Mirror(crc32) = Remainder(Message32(data), Len(data), Generator32, 32)
      BY DEF Standard
    <3> QED
      BY <2>1, <2>2, <2>3, <3>1, Remainder32Longer
  <2> QED
    BY <2>4, <2>5, <2>6, <2>7, <2>8, <2>9 DEF Standard
<1>2. ASSUME UNCHANGED crcVars
      PROVE  Standard'
  BY <1>2 DEF crcVars, Standard
<1> QED
  BY <1>1, <1>2 DEF CrcNext, Update, UpdateDamaged

\* The bitwise calculators of src/crc.rs compute the standard checksums of a
\* message of any length: the remainder of long division, and the same byte by
\* byte as in one go.
THEOREM StandardChecksums == CrcSpec => []IsTheStandardChecksum
<1>1. Standard => IsTheStandardChecksum
  <2> SUFFICES ASSUME Standard
               PROVE  IsTheStandardChecksum
    OBVIOUS
  <2>1. crc16 = Crc16Xmodem(data)
    BY Crc16IsFold DEF Standard
  <2>2. Crc32Final(crc32) = Crc32IsoHdlc(data)
    BY Crc32IsFold DEF Standard
  <2>3. crc32 = Mirror(Remainder(Message32(data), Len(data), Generator32, 32))
    BY MirrorTwice DEF Standard
  <2>4. crc32 = {31 - i : i \in Remainder(Message32(data), Len(data), Generator32, 32)}
    BY <2>3 DEF Mirror
  <2> QED
    BY <2>1, <2>2, <2>4 DEF IsTheStandardChecksum, Standard
<1>2. QED
  BY <1>1, InitStandard, NextStandard, PTL DEF CrcSpec
=============================================================================
