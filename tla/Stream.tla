------------------------------- MODULE Stream -------------------------------
(***************************************************************************)
(* What a pipe with one reading and one writing environment promises: the  *)
(* bytes arrive in the order they were sent, each of them once, and at     *)
(* most Size are under way.  The k-th byte sent is k.                      *)
(***************************************************************************)
EXTENDS Naturals, Sequences

CONSTANT Size

VARIABLES sent, received

Init == sent = 0 /\ received = <<>>

Send ==
    /\ sent - Len(received) < Size
    /\ sent' = sent + 1
    /\ UNCHANGED received

Receive ==
    /\ Len(received) < sent
    /\ received' = Append(received, Len(received) + 1)
    /\ UNCHANGED sent

Next == Send \/ Receive

Spec == Init /\ [][Next]_<<sent, received>>
=============================================================================
