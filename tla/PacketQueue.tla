----------------------------- MODULE PacketQueue -----------------------------
(***************************************************************************)
(* What comgenbuf promises: a first-in first-out queue of whole packets    *)
(* with a budget of bytes.  A packet costs its length and its header.      *)
(***************************************************************************)
EXTENDS Naturals, Sequences

CONSTANTS
    Packets,    \* what may be pushed
    Capacities, \* destination sizes a consumer may pass
    Size,       \* the byte budget
    Header,     \* bytes a packet costs beyond its own
    CountMod    \* where the drop count wraps

VARIABLES
    packets,    \* the packets queued, oldest first
    free,       \* bytes of the budget left
    drops,      \* packets refused for want of room
    out         \* what the last Pop returned, <<>> for nothing

vars == <<packets, free, drops, out>>

Cost(p) == Len(p) + Header

Init == packets = <<>> /\ free = Size /\ drops = 0 /\ out = <<>>

Push(p) ==
    /\ Cost(p) <= free
    /\ packets' = Append(packets, p)
    /\ free' = free - Cost(p)
    /\ UNCHANGED <<drops, out>>

Refuse(p) ==
    /\ Cost(p) > free
    /\ drops' = (drops + 1) % CountMod
    /\ UNCHANGED <<packets, free, out>>

(* The oldest packet, all of it, or nothing. *)
Pop(capacity) ==
    /\ packets # <<>> /\ Len(Head(packets)) <= capacity
    /\ out' = Head(packets)
    /\ packets' = Tail(packets)
    /\ free' = free + Cost(Head(packets))
    /\ UNCHANGED drops

PopNothing(capacity) ==
    /\ packets # <<>> => Len(Head(packets)) > capacity
    /\ out' = <<>>
    /\ UNCHANGED <<packets, free, drops>>

Flush == packets' = <<>> /\ free' = Size /\ drops' = 0 /\ UNCHANGED out

Next ==
    \/ \E p \in Packets : Push(p) \/ Refuse(p)
    \/ \E capacity \in Capacities : Pop(capacity) \/ PopNothing(capacity)
    \/ Flush

Spec == Init /\ [][Next]_vars
=============================================================================
