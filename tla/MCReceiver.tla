----------------------------- MODULE MCReceiver -----------------------------
(***************************************************************************)
(* The receiver against any sender: any header and any subpacket may       *)
(* arrive whenever the receiver reads.                                     *)
(*                                                                         *)
(* Bounds: subpackets of up to 2 bytes; positions up to 3, so that the     *)
(* fourth byte overflows a position; an event queue of 3 slots, enough to  *)
(* fill it with an announcement, a completion and an end; a retry budget   *)
(* of 2.  Nothing else is bounded: the state space is finite.              *)
(***************************************************************************)
EXTENDS ReceiverFlow

CONSTANTS byte, name

MCByte == {byte}
MCName == {name}
MCIncomingData == {<<>>, <<byte>>, <<byte, byte>>}
MCIncomingSize == {2}
MCResumeOffset == {0, 2}
MCIncoming ==
  {Header(f, 0) : f \in {"ZRQINIT", "ZSINIT", "ZFILE", "ZNAK", "ZABORT",
                         "ZFIN"}}
    \cup {Header(f, n) : f \in {"ZDATA", "ZEOF"}, n \in {0, 2, 3}}
=============================================================================
