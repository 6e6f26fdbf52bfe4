---------------------------- MODULE FileTransfer ----------------------------
(***************************************************************************)
(* What a session of zmodem2 promises the people at its two ends, with no  *)
(* protocol in it: the files arrive one after the other, each from its     *)
(* start or from where the receiver already had it, in order and without a *)
(* gap; the next one is offered when the last one is settled.              *)
(*                                                                         *)
(* Module Session, which has the protocol, the link and its faults, is     *)
(* checked to implement this one.                                          *)
(***************************************************************************)
EXTENDS Naturals, Sequences

CONSTANTS
  Files,        \* the names of the files to send, in order, all different
  Content,      \* what each of them holds
  AlreadyHas    \* what the receiver has of each before

VARIABLES
  offered,      \* how many files were offered
  disk,         \* what the receiver has
  declined,     \* the files the receiver does not want
  completed     \* the files reported complete at the receiver

vars == <<offered, disk, declined, completed>>

Current == Files[offered]
Has(name) == disk[name] = Content[name]
Settled(name) == Has(name) \/ name \in declined

Init ==
  /\ offered = 0
  /\ disk = AlreadyHas
  /\ declined = {} /\ completed = {}

Offer ==
  /\ offered < Len(Files)
  /\ offered > 0 => Settled(Current)
  /\ offered' = offered + 1
  /\ UNCHANGED <<disk, declined, completed>>

\* The receiver takes the file from its start, whatever it has of it.
Restart ==
  /\ offered > 0 /\ Current \notin declined \cup completed
  /\ disk' = [disk EXCEPT ![Current] = <<>>]
  /\ UNCHANGED <<offered, declined, completed>>

\* The receiver gets more of the file.
Extend ==
  /\ offered > 0 /\ Current \notin declined \cup completed
  /\ \E n \in Len(disk[Current]) + 1 .. Len(Content[Current]) :
       disk' = [disk EXCEPT ![Current] = SubSeq(Content[Current], 1, n)]
  /\ UNCHANGED <<offered, declined, completed>>

Decline ==
  /\ offered > 0 /\ Current \notin completed
  /\ declined' = declined \cup {Current}
  /\ UNCHANGED <<offered, disk, completed>>

Complete ==
  /\ \E i \in 1 .. offered :
       /\ Files[i] \notin declined /\ Has(Files[i])
       /\ completed' = completed \cup {Files[i]}
  /\ UNCHANGED <<offered, disk, declined>>

Next == Offer \/ Restart \/ Extend \/ Decline \/ Complete

Spec == Init /\ [][Next]_vars

\* Nobody waits forever: the sender goes on to the next file, and a file that
\* was offered is received, or declined, and reported.
FairSpec ==
  /\ Spec
  /\ WF_vars(Offer)
  /\ WF_vars(Extend \/ Decline)
  /\ WF_vars(Complete \/ Decline)
=============================================================================
