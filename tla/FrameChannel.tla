----------------------------- MODULE FrameChannel -----------------------------
(***************************************************************************)
(* What a framed link promises the layer above it: a channel that may lose *)
(* whole packets but never invents, cuts, joins, repeats or reorders them. *)
(***************************************************************************)
EXTENDS Naturals, Sequences

CONSTANT Payloads
VARIABLES
    sent,    \* every packet given to the link, in order
    handed,  \* every packet the link gave to the receiver's callback
    last     \* index in sent of the last packet handed over

vars == <<sent, handed, last>>

Init == sent = <<>> /\ handed = <<>> /\ last = 0

Send == \E p \in Payloads : sent' = Append(sent, p) /\ UNCHANGED <<handed, last>>

Hand ==
    \E i \in last + 1..Len(sent) :
        /\ handed' = Append(handed, sent[i])
        /\ last' = i
        /\ UNCHANGED sent

Next == Send \/ Hand

Spec == Init /\ [][Next]_vars
=============================================================================
