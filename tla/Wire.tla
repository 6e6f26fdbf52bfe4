-------------------------------- MODULE Wire --------------------------------
(***************************************************************************)
(* What the two state machines of zmodem2 put on the wire, as units.       *)
(*                                                                         *)
(* The code writes bytes; a state machine only ever acts on a whole header *)
(* or on a whole subpacket, so the wire carries                            *)
(*   - a header: its frame type and its four flag bytes.  The flag bytes   *)
(*     are a 32-bit count for every frame but ZRINIT, where they hold the  *)
(*     receiver's buffer length and the CANOVIO capability bit;            *)
(*   - a data subpacket: the payload bytes and the terminator that ends it;*)
(*   - the ZCRCW subpacket of a ZFILE frame: file name and size;           *)
(*   - the two characters "OO" that end a session.                         *)
(* Escaping, hex digits and CRC bytes are framing: they only decide        *)
(* whether a unit arrives intact.                                          *)
(***************************************************************************)
EXTENDS Naturals, Sequences

CONSTANTS
  Byte,          \* payload bytes
  Name,          \* file names of 1 to 256 bytes
  EmptyName      \* the empty file name

ASSUME EmptyNameAssumption == EmptyName \notin Name

(***************************************************************************)
(* The frame types.                                                        *)
(***************************************************************************)
Frame == {"ZRQINIT", "ZRINIT", "ZSINIT", "ZACK", "ZFILE", "ZSKIP", "ZNAK",
          "ZABORT", "ZFIN", "ZRPOS", "ZDATA", "ZEOF", "ZFERR", "ZCRC",
          "ZCHALLENGE", "ZCOMPL", "ZCAN", "ZFREECNT", "ZCOMMAND", "ZSTDERR"}

\* The terminators of a subpacket.  E: frame ends, no answer; G: frame
\* continues, no answer; Q: frame continues, ZACK; W: frame ends, ZACK.
SubpacketType == {"ZCRCE", "ZCRCG", "ZCRCQ", "ZCRCW"}

Header(frame, count) ==
  [is |-> "header", frame |-> frame, count |-> count,
   bufferLen |-> 0, canOvio |-> FALSE]

\* A ZRINIT header spends its flag bytes on the receiver's capabilities.
Zrinit(bufferLen, canOvio) ==
  [is |-> "header", frame |-> "ZRINIT", count |-> 0,
   bufferLen |-> bufferLen, canOvio |-> canOvio]

Subpacket(kind, data) == [is |-> "subpacket", kind |-> kind, data |-> data]

\* The payload of a ZFILE frame, a ZCRCW subpacket "name NUL size NUL".
Metadata(name, size) == [is |-> "metadata", name |-> name, size |-> size]

OverAndOut == [is |-> "OO"]

HeaderUnit == [is : {"header"}, frame : Frame, count : Nat,
               bufferLen : Nat, canOvio : BOOLEAN]
SubpacketUnit == [is : {"subpacket"}, kind : SubpacketType, data : Seq(Byte)]
MetadataUnit == [is : {"metadata"}, name : Name \cup {EmptyName}, size : Nat]

Unit == HeaderUnit \cup SubpacketUnit \cup MetadataUnit \cup {OverAndOut}

\* Units of a given sort in a sequence of units.
HeadersOf(units, frame) ==
  {i \in 1 .. Len(units) : units[i].is = "header" /\ units[i].frame = frame}
DataOf(units) == {i \in 1 .. Len(units) : units[i].is = "subpacket"}
=============================================================================
