---------------------------- MODULE FrameChannel ----------------------------
(***************************************************************************)
(* What the session layer takes a framed connection to be: one direction   *)
(* hands over the frames that were sent, whole, in order and once, and may *)
(* fall silent at any time.                                                *)
(***************************************************************************)
EXTENDS Naturals, Sequences

CONSTANT Frame

VARIABLES sent, received

Init == sent = <<>> /\ received = <<>>

Send ==
  /\ \E f \in Frame : sent' = Append(sent, f)
  /\ UNCHANGED received

Receive ==
  /\ Len(received) < Len(sent)
  /\ received' = Append(received, sent[Len(received) + 1])
  /\ UNCHANGED sent

Spec == Init /\ [][Send \/ Receive]_<<sent, received>>
=============================================================================
