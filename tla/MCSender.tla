------------------------------ MODULE MCSender ------------------------------
(***************************************************************************)
(* The sender against any receiver: every header may arrive at any time.   *)
(*                                                                         *)
(* Bounds: subpackets of 2 bytes; files of 0 and 5 bytes, so that a     *)
(* frame has up to three subpackets, the last one short; positions up to   *)
(* 6, one past the largest file; receiver buffers of none, less than one   *)
(* subpacket, more than one and exactly two; windows of 0 (clamped) and 3  *)
(* subpackets.  Nothing else is bounded: the state space is finite.        *)
(***************************************************************************)
EXTENDS SenderFlow

CONSTANTS byte, name

MCByte == {byte}
MCName == {name}
MCChunk == {<<byte>>, <<byte, byte>>}
MCFileSize == {0, 5}
MCWindow == {0, 3}
MCIncoming ==
  {Header(f, 0) : f \in {"ZRQINIT", "ZSKIP", "ZNAK", "ZABORT", "ZFIN"}}
    \cup {Header(f, n) : f \in {"ZRPOS", "ZACK"}, n \in {0, 2, 5, 6}}
    \cup {Zrinit(n, c) : n \in {0, 1, 3, 4}, c \in BOOLEAN}
=============================================================================
