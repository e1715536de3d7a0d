---------------------------- MODULE BoundedQueue ----------------------------
(***************************************************************************)
(* What a circBuf promises: a first-in first-out queue of at most capacity *)
(* elements that, when it is full, either drops its oldest element for a   *)
(* new one or refuses the new one.                                         *)
(***************************************************************************)
EXTENDS Naturals, Sequences

CONSTANTS Values, Capacities, Behaviours

VARIABLES
    queue,      \* the elements, oldest first
    capacity, behaviour,
    answer      \* what the last call returned, and the element it read

vars == <<queue, capacity, behaviour, answer>>

Init ==
    /\ queue = <<>>
    /\ capacity \in Capacities \ {0} /\ behaviour \in Behaviours
    /\ answer = [init |-> TRUE]

Add(data) ==
    /\ Len(queue) < capacity
    /\ queue' = Append(queue, data) /\ answer' = [added |-> TRUE]

Displace(data) ==
    /\ Len(queue) = capacity /\ behaviour = "OVERWRITE"
    /\ queue' = Append(Tail(queue), data) /\ answer' = [added |-> TRUE]

Refuse ==
    /\ Len(queue) = capacity /\ behaviour = "STOP"
    /\ answer' = [added |-> FALSE] /\ UNCHANGED queue

Read ==
    /\ queue # <<>>
    /\ queue' = Tail(queue) /\ answer' = [read |-> TRUE, data |-> Head(queue)]

ReadNothing == queue = <<>> /\ answer' = [read |-> FALSE, data |-> 0] /\ UNCHANGED queue

GetLength == answer' = [length |-> Len(queue)] /\ UNCHANGED queue

GetStatus ==
    /\ answer' = [status |-> IF queue = <<>> THEN "EMPTY"
                   ELSE IF Len(queue) = capacity THEN "FULL" ELSE "NOTEMPTY"]
    /\ UNCHANGED queue

Next ==
    /\ \/ \E data \in Values : Add(data) \/ Displace(data)
       \/ Refuse \/ Read \/ ReadNothing \/ GetLength \/ GetStatus
    /\ UNCHANGED <<capacity, behaviour>>

Spec == Init /\ [][Next]_vars
=============================================================================
