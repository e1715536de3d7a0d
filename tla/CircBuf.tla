------------------------------ MODULE CircBuf ------------------------------
(***************************************************************************)
(* circBuf: a ring of elements between a read and a write index.  Equal    *)
(* indices mean an empty ring or a full one, which only status tells       *)
(* apart.  The three widths are one text in the code; Values has the       *)
(* elements of each.  Every call is a step: circBuf has one context.       *)
(***************************************************************************)
EXTENDS Integers, Sequences

CONSTANTS
    Values,     \* the elements of each width
    Capacities  \* what circBufInit is given

VARIABLES
    width,      \* which of the three types the ring is
    buffer, capacity, rp, wp, behaviour, status,
    answer      \* what the last call returned, and the element it read

indices == <<buffer, rp, wp, status>>
vars == <<width, capacity, behaviour, indices, answer>>

Behaviours == {"OVERWRITE", "STOP"}
Statuses == {"EMPTY", "NOTEMPTY", "FULL"}

(* The storage is the caller's and holds anything. *)
Ring ==
    /\ capacity \in Capacities /\ capacity # 0
    /\ behaviour \in Behaviours
    /\ \E old \in Values[width] : buffer = [i \in 0 .. capacity - 1 |-> old]
    /\ rp = 0 /\ wp = 0 /\ status = "EMPTY"
    /\ answer = [init |-> TRUE]
Initu32 == width = "u32" /\ Ring
Initu8  == width = "u8"  /\ Ring
Initi32 == width = "i32" /\ Ring
Init == Initu32 \/ Initu8 \/ Initi32

Step(index) == IF index + 1 >= capacity THEN 0 ELSE index + 1

Room == wp # rp \/ status = "EMPTY"

Store(data) == buffer' = [buffer EXCEPT ![wp] = data]

AddElement(data) ==
    /\ Room
    /\ Store(data) /\ wp' = Step(wp)
    /\ status' = IF wp' = rp THEN "FULL" ELSE "NOTEMPTY"
    /\ answer' = [added |-> TRUE] /\ UNCHANGED rp

OverwriteKeepingOldest(data) == \* mutant: the read index is left behind
    /\ ~ Room /\ behaviour = "OVERWRITE"
    /\ Store(data) /\ wp' = Step(wp) /\ status' = "FULL"
    /\ answer' = [added |-> TRUE] /\ UNCHANGED rp
Overwrite(data) ==
    /\ ~ Room /\ behaviour = "OVERWRITE"
    /\ Store(data) /\ wp' = Step(wp) /\ rp' = Step(rp) /\ status' = "FULL"
    /\ answer' = [added |-> TRUE]

AddRefused ==
    /\ ~ Room /\ behaviour = "STOP"
    /\ status' = "FULL" /\ answer' = [added |-> FALSE] /\ UNCHANGED <<buffer, rp, wp>>

Add(data) == AddElement(data) \/ Overwrite(data) \/ AddRefused

ReadElement ==
    /\ status # "EMPTY" /\ rp < capacity
    /\ answer' = [read |-> TRUE, data |-> buffer[rp]]
    /\ rp' = Step(rp)
    /\ status' = IF rp' = wp THEN "EMPTY" ELSE "NOTEMPTY"
    /\ UNCHANGED <<buffer, wp>>

ReadNothing == status = "EMPTY" /\ answer' = [read |-> FALSE, data |-> 0] /\ UNCHANGED indices

Read == ReadElement \/ ReadNothing

Length ==
    IF status = "FULL" THEN capacity
    ELSE IF wp >= rp THEN wp - rp ELSE wp + (capacity - rp)
GetLength == answer' = [length |-> Length] /\ UNCHANGED indices
GetStatus == answer' = [status |-> status] /\ UNCHANGED indices

Callsu32 ==
    /\ width = "u32"
    /\ (\E data \in Values["u32"] : Add(data)) \/ Read \/ GetLength \/ GetStatus
Callsu8 ==
    /\ width = "u8"
    /\ (\E data \in Values["u8"] : Add(data)) \/ Read \/ GetLength \/ GetStatus
Callsi32 ==
    /\ width = "i32"
    /\ (\E data \in Values["i32"] : Add(data)) \/ Read \/ GetLength \/ GetStatus

Next ==
    /\ Callsu32 \/ Callsu8 \/ Callsi32
    /\ UNCHANGED <<width, capacity, behaviour>>

Spec == Init /\ [][Next]_vars

-----------------------------------------------------------------------------
Offset(i) == IF rp + i - 1 < capacity THEN rp + i - 1 ELSE rp + i - 1 - capacity
Contents == [i \in 1 .. Length |-> buffer[Offset(i)]]

(* Through every wrap of the two indices, full, empty and overwritten, the *)
(* ring is a bounded queue: what is read is the oldest element, no element *)
(* is lost but the one a full ring drops, the length and the status are    *)
(* those of the queue, and a refused call changes nothing.                 *)
Queue == INSTANCE BoundedQueue
    WITH queue <- Contents, Values <- UNION {Values[w] : w \in DOMAIN Values}
RingIsQueue == Queue!Spec
=============================================================================
