-------------------------------- MODULE Fifo --------------------------------
(***************************************************************************)
(* What the two programs take a framed connection for: packets come out    *)
(* whole, once and in the order they went in, until it ends.               *)
(***************************************************************************)
EXTENDS Naturals, Sequences

CONSTANT Packets

VARIABLES
    sent,      \* the packets that went in
    received,  \* the packets that came out
    ended      \* no more come out

vars == <<sent, received, ended>>

Init == sent = <<>> /\ received = <<>> /\ ended = FALSE

Send(p) ==
    /\ sent' = Append(sent, p)
    /\ UNCHANGED <<received, ended>>

Receive ==
    /\ ~ended
    /\ Len(received) < Len(sent)
    /\ received' = Append(received, sent[Len(received) + 1])
    /\ UNCHANGED <<sent, ended>>

End ==
    /\ ended' = TRUE
    /\ UNCHANGED <<sent, received>>

Next == Receive \/ End \/ \E p \in Packets : Send(p)

Spec == Init /\ [][Next]_vars

=============================================================================
