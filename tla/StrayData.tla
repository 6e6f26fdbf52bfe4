----------------------------- MODULE StrayData ------------------------------
(***************************************************************************)
(* The header reader fed with the data of any subpackets, byte by byte:    *)
(* the rest of a window the sender goes on with after the receiver asked   *)
(* it to rewind, or a frame at a position the receiver does not take.      *)
(* Data and checksums are any bytes, escaped; only terminators follow a    *)
(* ZDLE otherwise.                                                         *)
(***************************************************************************)
EXTENDS HeaderReader

VARIABLE rest    \* what is left of the byte on its way, or of its escape

strayVars == <<readerVars, rest>>

Terminators == {<<ZDLE, TerminatorByte[k]>> : k \in SubpacketType}
Symbols == {Escaped(b) : b \in Octet} \cup Terminators

StrayInit == ReaderInit /\ rest = <<>>

SendSymbol ==
  /\ rest = <<>>
  /\ rest' \in Symbols
  /\ UNCHANGED readerVars

RewindStray == EnterResync /\ UNCHANGED rest

DeliverByte ==
  /\ rest # <<>>
  /\ Skips(<<rest[1]>>) \/ Fails(<<rest[1]>>) \/ Finds(<<rest[1]>>)
  /\ rest' = IF Len(rest) = 2 THEN <<rest[2]>> ELSE <<>>

StrayNext == SendSymbol \/ RewindStray \/ DeliverByte

StraySpec == StrayInit /\ [][StrayNext]_strayVars

-----------------------------------------------------------------------------
\* No data is ever taken for a header: while some is on its way not even the
\* encoding of one is found, whatever the payload.  So a rewind may skip the
\* rest of a window without knowing where it ends, and resynchronisation
\* cannot end inside it (the comment on recover_corrupt_subpacket,
\* receiver.rs:742-753).  This is about data escaped as this crate escapes it
\* (Escaped): a sender that escapes every control byte writes SOH as ZDLE A,
\* which is the encoding of a header behind a ZPAD; what it then takes for a
\* header is left to the header's checksum.
StrayIsNoHeader == rest # <<>> => readerState # "ReadingData"
=============================================================================
