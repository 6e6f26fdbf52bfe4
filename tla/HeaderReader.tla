---------------------------- MODULE HeaderReader ----------------------------
(***************************************************************************)
(* The incremental header reader, src/wire.rs, that both machines feed     *)
(* with what they do not read as data: a byte automaton that looks for     *)
(* ZPAD ZDLE, an encoding and the escaped bytes of a header.               *)
(*                                                                         *)
(* One step reads one byte, or the two bytes of an escape when both are    *)
(* there.  That is all a call boundary can change, so input cut into calls *)
(* at any places is the choice between those steps.                        *)
(***************************************************************************)
EXTENDS Codec

VARIABLES
  readerState,     \* HeaderReadState
  zpadState,       \* how many ZPADs were seen: none, one, more
  encoding,        \* the encoding read, or "None"
  headerBuf,       \* the bytes collected behind it
  escapePending,   \* the last byte of the input was a ZDLE
  resyncing        \* malformed framing is skipped, not reported

readerVars == <<readerState, zpadState, encoding, headerBuf, escapePending,
                resyncing>>

HeaderReadState == {"SeekingZpad", "ReadingEncoding", "ReadingData"}

ReaderInit ==
  /\ readerState = "SeekingZpad" /\ zpadState = "Idle"
  /\ encoding = "None" /\ headerBuf = <<>>
  /\ escapePending = FALSE /\ resyncing = FALSE

ReaderTypeOK ==
  /\ readerState \in HeaderReadState
  /\ zpadState \in {"Idle", "Zpad", "ZpadZpad"}
  /\ encoding \in Encoding \cup {"None"}
  /\ (readerState = "ReadingData") = (encoding # "None")
  /\ headerBuf \in Seq(Octet)
  /\ encoding # "None" => Len(headerBuf) < ReadSize[encoding]
  /\ escapePending \in BOOLEAN /\ resyncing \in BOOLEAN

\* Back to looking for a header; resynchronisation goes on.
Reset ==
  /\ readerState' = "SeekingZpad" /\ zpadState' = "Idle"
  /\ encoding' = "None" /\ headerBuf' = <<>> /\ escapePending' = FALSE

EnterResync ==
  /\ resyncing' = TRUE
  /\ UNCHANGED <<readerState, zpadState, encoding, headerBuf, escapePending>>

-----------------------------------------------------------------------------
BugStartsHeader(b) == zpadState = "Zpad" /\ b = ZDLE    \* not after two ZPADs
StartsHeader(b) == zpadState # "Idle" /\ b = ZDLE
ZpadAfter(b) == IF b # ZPAD THEN "Idle"
                ELSE IF zpadState = "Idle" THEN "Zpad" ELSE "ZpadZpad"

SeekZpad(bytes) ==
  /\ readerState = "SeekingZpad" /\ Len(bytes) = 1
  /\ \/ /\ StartsHeader(bytes[1])
        /\ readerState' = "ReadingEncoding" /\ zpadState' = "Idle"
     \/ /\ ~StartsHeader(bytes[1])
        /\ zpadState' = ZpadAfter(bytes[1])
        /\ UNCHANGED readerState
  /\ UNCHANGED <<encoding, headerBuf, escapePending, resyncing>>

\* Which encodings a byte may stand for.
Encodings(b) == {e \in Encoding : EncodingByte[e] = b}

ReadEncoding(bytes) ==
  /\ readerState = "ReadingEncoding" /\ Len(bytes) = 1
  /\ encoding' \in Encodings(bytes[1])
  /\ readerState' = "ReadingData"
  /\ headerBuf' = <<>> /\ escapePending' = FALSE
  /\ UNCHANGED <<zpadState, resyncing>>

UnknownEncoding(bytes) ==
  /\ readerState = "ReadingEncoding" /\ Len(bytes) = 1
  /\ Encodings(bytes[1]) = {}
  /\ Reset
  /\ UNCHANGED resyncing

StopAtEscape(bytes) ==
  /\ readerState = "ReadingData" /\ IsCut(escapePending, bytes)
  /\ escapePending' = TRUE
  /\ UNCHANGED <<readerState, zpadState, encoding, headerBuf, resyncing>>

Collected(bytes) == Append(headerBuf, Unescaped(escapePending, bytes))

CollectByte(bytes) ==
  /\ readerState = "ReadingData" /\ IsWhole(escapePending, bytes)
  /\ Len(headerBuf) + 1 < ReadSize[encoding]
  /\ headerBuf' = Collected(bytes)
  /\ escapePending' = FALSE
  /\ UNCHANGED <<readerState, zpadState, encoding, resyncing>>

\* The last byte of a header is there.
Completes(bytes) ==
  /\ readerState = "ReadingData" /\ IsWhole(escapePending, bytes)
  /\ Len(headerBuf) + 1 = ReadSize[encoding]
Decoded(bytes) == DecodeHeader(encoding, Collected(bytes))

DropHeader(bytes) ==
  /\ Completes(bytes) /\ Decoded(bytes) = Malformed
  /\ Reset
  /\ UNCHANGED resyncing

-----------------------------------------------------------------------------
(***************************************************************************)
(* What read makes of the next bytes: it wants more, it returns an error,  *)
(* or it returns a header, Decoded(bytes).                                 *)
(***************************************************************************)
Stumbles(bytes) == UnknownEncoding(bytes) \/ DropHeader(bytes)

Skips(bytes) ==
  \/ SeekZpad(bytes) \/ ReadEncoding(bytes)
  \/ StopAtEscape(bytes) \/ CollectByte(bytes)
  \/ resyncing /\ Stumbles(bytes)

Fails(bytes) == ~resyncing /\ Stumbles(bytes)

Finds(bytes) ==
  /\ Completes(bytes) /\ Decoded(bytes) # Malformed
  /\ Reset
  /\ resyncing' = FALSE
=============================================================================
