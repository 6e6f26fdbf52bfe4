------------------------------ MODULE MCSession -----------------------------
(***************************************************************************)
(* Up to three files over one link.                                        *)
(*                                                                         *)
(* Bounds: subpackets of 2 bytes; a file of 6 bytes, so that a frame has   *)
(* up to three subpackets, one of 2 bytes and one of none; every byte      *)
(* different, so that data at a wrong offset shows.  In manual mode the    *)
(* receiver already has a part of the big file and all of the small one;   *)
(* that one comes first where every order of answers matters.              *)
(***************************************************************************)
EXTENDS SessionFlow

CONSTANTS big, small, empty

MCName == {big, small, empty}
MCByte == 1 .. 8
MCContent == [n \in MCName |-> CASE n = big -> <<1, 2, 3, 4, 5, 6>>
                                 [] n = small -> <<7, 8>>
                                 [] n = empty -> <<>>]
HasNothing == [n \in MCName |-> <<>>]
HasSome == [n \in MCName |-> CASE n = big -> <<1>>
                               [] n = small -> <<7, 8>>
                               [] n = empty -> <<>>]
BigAndEmpty == <<big, empty>>
SmallBigEmpty == <<small, big, empty>>
Small == <<small>>
NoFiles == <<>>
NoneOfThem == {}
NotTheLast == {big, small}
Headers == {"header"}
Subpackets == {"subpacket"}
Repairable == {"handshake", "subpacket"}
Everything == {"handshake", "header", "subpacket", "metadata"}
=============================================================================
