------------------------------ MODULE FileInfo ------------------------------
(***************************************************************************)
(* How a file is announced: the payload of a ZFILE, written by write_zfile *)
(* and read by parse_zfile_buf and parse_file_size (src/file.rs,           *)
(* src/receiver.rs).  The payload is "name NUL size NUL" from this         *)
(* library, and whatever text arrives from another sender.                 *)
(***************************************************************************)
EXTENDS Naturals, SequencesExt

CONSTANTS
  MaxPosition,    \* the largest u32
  StringCap,      \* STRING_CAP, 256
  Text,           \* the bytes another sender may use
  MaxLength,      \* how many of them come
  FileNames       \* the names this library's sender is given

NUL == 0
SP == 32
Digits == 48 .. 57
NoSize == MaxPosition + 1    \* no size

ASSUME FileNamesAssumption ==
  /\ FileNames \subseteq Seq(0 .. 255)
  /\ \A name \in FileNames : /\ name # <<>> /\ Len(name) <= StringCap
                             /\ NUL \notin Range(name)
ASSUME TextAssumption ==
  MaxPosition \in Nat /\ StringCap \in Nat /\ Text \subseteq 0 .. 255

VARIABLES
  zfileBuf,               \* the subpacket received
  announced,              \* what this library's sender announced with it
  fileName, fileSize,     \* what the receiver makes of it
  parsed                  \* "Pending", "Ok" or the error

fileVars == <<zfileBuf, announced, fileName, fileSize, parsed>>

Nothing == [name |-> <<>>, size |-> 0]

FileInit ==
  /\ zfileBuf = <<>> /\ announced = Nothing
  /\ fileName = <<>> /\ fileSize = 0 /\ parsed = "Pending"

-----------------------------------------------------------------------------
Decimal[n \in Nat] ==
  (IF n < 10 THEN <<>> ELSE Decimal[n \div 10]) \o <<48 + (n % 10)>>
BugZfilePayload(name, size) == name \o Decimal[size] \o <<NUL>>   \* no NUL
ZfilePayload(name, size) == name \o <<NUL>> \o Decimal[size] \o <<NUL>>

WriteZfile(name, size) ==
  /\ parsed = "Pending" /\ zfileBuf = <<>>
  /\ zfileBuf' = ZfilePayload(name, size)
  /\ announced' = [name |-> name, size |-> size]
  /\ UNCHANGED <<fileName, fileSize, parsed>>

\* Another sender sends one more byte.
Collect(byte) ==
  /\ parsed = "Pending" /\ announced = Nothing /\ Len(zfileBuf) < MaxLength
  /\ zfileBuf' = Append(zfileBuf, byte)
  /\ UNCHANGED <<announced, fileName, fileSize, parsed>>

-----------------------------------------------------------------------------
\* The part of bytes before the first separator, and the part behind it.
Before(bytes, separator) ==
  LET i == SelectInSeq(bytes, LAMBDA b : b = separator)
  IN  IF i = 0 THEN bytes ELSE SubSeq(bytes, 1, i - 1)
After(bytes, separator) ==
  SubSeq(bytes, Len(Before(bytes, separator)) + 2, Len(bytes))

\* One more digit, with checked_mul and checked_add.
BugNextDigit(size, byte) ==    \* the u32 wraps
  IF size = NoSize \/ byte \notin Digits THEN NoSize
  ELSE (10 * size + byte - 48) % (MaxPosition + 1)
NextDigit(size, byte) ==
  IF size = NoSize \/ byte \notin Digits \/ 10 * size + byte - 48 > MaxPosition
  THEN NoSize ELSE 10 * size + byte - 48
ParseFileSize(bytes) == FoldLeft(NextDigit, 0, bytes)

NameField == Before(zfileBuf, NUL)
\* Other fields than the size follow it behind a space, and are not read.
SizeField == ParseFileSize(Before(Before(After(zfileBuf, NUL), NUL), SP))

ParseZfileBuf ==
  /\ parsed = "Pending"
  /\ \/ /\ NameField = <<>>
        /\ parsed' = "MalformedFileName"
        /\ UNCHANGED <<fileName, fileSize>>
     \/ /\ Len(NameField) > StringCap
        /\ parsed' = "OutOfMemory"
        /\ fileName' = <<>> /\ UNCHANGED fileSize
     \/ /\ Len(NameField) \in 1 .. StringCap
        /\ fileName' = NameField
        /\ \/ /\ SizeField = NoSize
              /\ parsed' = "MalformedFileSize" /\ UNCHANGED fileSize
           \/ /\ SizeField # NoSize
              /\ parsed' = "Ok" /\ fileSize' = SizeField
  /\ UNCHANGED <<zfileBuf, announced>>

FileNext ==
  \/ \E name \in FileNames, size \in 0 .. MaxPosition : WriteZfile(name, size)
  \/ \E byte \in Text : Collect(byte)
  \/ ParseZfileBuf

FileSpec == FileInit /\ [][FileNext]_fileVars

-----------------------------------------------------------------------------
(***************************************************************************)
(* What a payload announces, said without reading it from left to right:   *)
(* a name, and a size if digits stand between the NUL that ends the name   *)
(* and the next NUL, space or end.                                         *)
(***************************************************************************)
PowerOfTen[n \in Nat] == IF n = 0 THEN 1 ELSE 10 * PowerOfTen[n - 1]
ValueOf(digits) ==
  FoldLeft(LAMBDA sum, i : sum + (digits[i] - 48) * PowerOfTen[Len(digits) - i], 0,
           [i \in 1 .. Len(digits) |-> i])

IsName(name) ==
  Len(name) \in 1 .. StringCap /\ NUL \notin Range(name)

\* Where a size may stand: behind the first index, up to the second.
SizesIn ==
  {p \in (1 .. Len(zfileBuf)) \X (1 .. Len(zfileBuf)) :
     /\ p[1] <= p[2] /\ zfileBuf[p[1]] = NUL
     /\ IsName(SubSeq(zfileBuf, 1, p[1] - 1))
     /\ Range(SubSeq(zfileBuf, p[1] + 1, p[2])) \subseteq Digits
     /\ p[2] < Len(zfileBuf) => zfileBuf[p[2] + 1] \in {NUL, SP}
     /\ ValueOf(SubSeq(zfileBuf, p[1] + 1, p[2])) <= MaxPosition}

FilesIn ==
  {[name |-> whole, size |-> 0] : whole \in {p \in {zfileBuf} : IsName(p)}}
  \cup
  {[name |-> SubSeq(zfileBuf, 1, p[1] - 1),
    size |-> ValueOf(SubSeq(zfileBuf, p[1] + 1, p[2]))] : p \in SizesIn}

\* The receiver takes a payload exactly if it announces a file whose size is
\* a u32, and then it takes the name and the size it announces: no size wraps,
\* none is cut off, and none is refused that fits.
ReadsWhatIsAnnounced ==
  /\ parsed = "Ok" => FilesIn = {[name |-> fileName, size |-> fileSize]}
  /\ parsed \notin {"Ok", "Pending"} => FilesIn = {}

\* What this library's sender announces its receiver reads, whatever the
\* size: they never disagree on where a file ends.
ReadsWhatWasWritten ==
  (announced # Nothing /\ parsed # "Pending") =>
    parsed = "Ok" /\ announced = [name |-> fileName, size |-> fileSize]
=============================================================================
