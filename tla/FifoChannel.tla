---------------------------- MODULE FifoChannel ----------------------------
(***************************************************************************)
(* What one direction of an intermediary promises: the messages of its      *)
(* source arrive once, in order and unchanged, and the end of the stream    *)
(* arrives after the last of them.                                          *)
(***************************************************************************)
EXTENDS Naturals, Sequences

CONSTANT Payload

VARIABLES sent, ended, got, closed

vars == <<sent, ended, got, closed>>

Init == sent = <<>> /\ ended = FALSE /\ got = <<>> /\ closed = FALSE

Send ==
    /\ ~ended
    /\ \E m \in Payload : sent' = Append(sent, m)
    /\ UNCHANGED <<ended, got, closed>>

End == ended' = TRUE /\ UNCHANGED <<sent, got, closed>>

Deliver ==
    /\ Len(got) < Len(sent) /\ ~closed
    /\ got' = Append(got, sent[Len(got) + 1])
    /\ UNCHANGED <<sent, ended, closed>>

DeliverEnd ==
    /\ ended /\ got = sent
    /\ closed' = TRUE
    /\ UNCHANGED <<sent, ended, got>>

Next == Send \/ End \/ Deliver \/ DeliverEnd

Spec == Init /\ [][Next]_vars

=============================================================================
