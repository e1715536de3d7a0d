----------------------------- MODULE ComGenBufIsr -----------------------------
(***************************************************************************)
(* comgenbuf between an interrupt and the main loop: comgenbufPush runs in *)
(* the interrupt, to completion; comgenbufPop and comgenbufFlush run in    *)
(* the main loop and the interrupt may come between any two of their       *)
(* accesses to the shared fields.  `used -= bytes` and `--count` are each  *)
(* a load and a store.  Masked says where the caller holds the interrupt   *)
(* off: the steps that follow a load it must not come before, for one.  A  *)
(* caller may also hold it off over a whole call, which is then one step.  *)
(***************************************************************************)
EXTENDS ComGenBuf

CONSTANT Masked  \* the labels at which the interrupt is held off

FlushLabels == {"flushTail", "flushUsed", "flushCount", "flushDrops"}
Labels == {"idle", "peek", "copy", "loadUsed", "storeUsed", "loadCount", "storeCount"}
          \union FlushLabels

ASSUME MaskedAssumption == Masked \subseteq Labels /\ Capacities # {}

(* The least the caller must mask: the store of each read-modify-write of    *)
(* Pop, and all of Flush after its first store.                              *)
UpdatesMasked == {"storeUsed", "storeCount"} \union FlushLabels \subseteq Masked

VARIABLES
    pc,         \* where the main loop stands
    capacity,   \* the destination size of the Pop running
    length,     \* its local: the length it peeked
    register,   \* what it loaded and has not stored back yet
    returned    \* the packet the last completed Pop handed its caller

main == <<pc, capacity, length, register, returned>>
isrVars == <<vars, main>>

IsrInit ==
    /\ Init
    /\ pc = "idle" /\ capacity = 0 /\ length = 0 /\ register = 0 /\ returned = <<>>

-----------------------------------------------------------------------------
(* The interrupt. *)

InterruptAlways == pc \in Labels  \* mutant: the caller masks nothing
InterruptEnabled == pc \notin Masked

PushInterrupt ==
    /\ InterruptEnabled
    /\ \E p \in Packets : Push(p) \/ PushRefused(p)
    /\ UNCHANGED main

-----------------------------------------------------------------------------
(* comgenbufPop. *)

LeavePop ==
    /\ pc' = "idle"
    /\ capacity' = 0 /\ length' = 0 /\ register' = 0

ReturnNothing == LeavePop /\ out' = <<>> /\ returned' = <<>>

PopCall ==
    /\ pc = "idle" /\ count # 0
    /\ capacity' \in Capacities
    /\ pc' = "peek"
    /\ UNCHANGED <<vars, length, register, returned>>

PopEmpty ==
    /\ pc = "idle" /\ count = 0
    /\ ReturnNothing
    /\ UNCHANGED <<driver, queued, starts>>

PopPeek ==
    /\ pc = "peek" /\ capacity >= PeekLength
    /\ length' = PeekLength /\ out' = <<>>
    /\ pc' = "copy"
    /\ UNCHANGED <<driver, queued, starts, capacity, register, returned>>

PopTooSmall ==
    /\ pc = "peek" /\ capacity < PeekLength
    /\ ReturnNothing
    /\ UNCHANGED <<driver, queued, starts>>

PopCopyByte ==
    /\ pc = "copy" /\ Len(out) < length
    /\ out' = Append(out, PeekByte(Header + Len(out)))
    /\ UNCHANGED <<driver, queued, starts, main>>

PopMoveTail ==
    /\ pc = "copy" /\ Len(out) = length
    /\ tail' = Wrap(tail + length + Header)
    /\ pc' = "loadUsed"
    /\ UNCHANGED <<buffer, head, used, count, dropCount, out, queued, starts,
                   capacity, length, register, returned>>

PopLoadUsed ==
    /\ pc = "loadUsed" /\ pc' = "storeUsed"
    /\ register' = used
    /\ UNCHANGED <<vars, capacity, length, returned>>

PopStoreUsed ==
    /\ pc = "storeUsed" /\ pc' = "loadCount"
    /\ used' = register - (length + Header)
    /\ returned' = out  \* the bytes are free: this is where Pop takes effect
    /\ queued' = Tail(queued)
    /\ starts' = [i \in 1..Len(starts) - 1 |-> starts[i + 1] - (length + Header)]
    /\ UNCHANGED <<buffer, head, tail, count, dropCount, out, capacity, length, register>>

PopLoadCount ==
    /\ pc = "loadCount" /\ pc' = "storeCount"
    /\ register' = count
    /\ UNCHANGED <<vars, capacity, length, returned>>

PopStoreCount ==
    /\ pc = "storeCount"
    /\ count' = register - 1
    /\ LeavePop
    /\ UNCHANGED <<buffer, head, tail, used, dropCount, out, queued, starts, returned>>

-----------------------------------------------------------------------------
(* comgenbufFlush, one store at a time. *)

FlushHead ==
    /\ pc = "idle" /\ pc' = "flushTail"
    /\ head' = 0
    /\ queued' = <<>> /\ starts' = <<>>  \* from here on the packets are gone
    /\ UNCHANGED <<buffer, tail, used, count, dropCount, out,
                   capacity, length, register, returned>>

FlushTail ==
    /\ pc = "flushTail" /\ pc' = "flushUsed"
    /\ tail' = 0
    /\ UNCHANGED <<buffer, head, used, count, dropCount, out, queued, starts,
                   capacity, length, register, returned>>

FlushUsed ==
    /\ pc = "flushUsed" /\ pc' = "flushCount"
    /\ used' = 0
    /\ UNCHANGED <<buffer, head, tail, count, dropCount, out, queued, starts,
                   capacity, length, register, returned>>

FlushCount ==
    /\ pc = "flushCount" /\ pc' = "flushDrops"
    /\ count' = 0
    /\ UNCHANGED <<buffer, head, tail, used, dropCount, out, queued, starts,
                   capacity, length, register, returned>>

FlushDrops ==
    /\ pc = "flushDrops" /\ pc' = "idle"
    /\ dropCount' = 0
    /\ UNCHANGED <<buffer, head, tail, used, count, out, queued, starts,
                   capacity, length, register, returned>>

(* Either call with the interrupt held off from its start to its end.        *)
WholeCall ==
    /\ pc = "idle"
    /\ \/ \E c \in Capacities : Pop(c) \/ PopRefused(c)
       \/ Flush
    /\ returned' = out'
    /\ UNCHANGED <<pc, capacity, length, register>>

MainStep ==
    \/ WholeCall
    \/ PopCall \/ PopEmpty \/ PopPeek \/ PopTooSmall \/ PopCopyByte \/ PopMoveTail
    \/ PopLoadUsed \/ PopStoreUsed \/ PopLoadCount \/ PopStoreCount
    \/ FlushHead \/ FlushTail \/ FlushUsed \/ FlushCount \/ FlushDrops

IsrNext == PushInterrupt \/ MainStep

IsrSpec == IsrInit /\ [][IsrNext]_isrVars

-----------------------------------------------------------------------------
(* Whenever the main loop is outside the queue the ring is in order, however *)
(* many pushes came in the middle of the calls before.                       *)
IdleRingOK == pc = "idle" => RingOK

(* With the interrupt held off around each update, Pop takes effect as one   *)
(* step: the caller gets the packet that was oldest, entire, though packets  *)
(* are pushed while it is being copied out, and no push is refused that fits.*)
FlushUnderway == pc \in FlushLabels
IsrQueue == INSTANCE PacketQueue
    WITH packets <- queued, out <- returned,
         free <- IF FlushUnderway THEN Size ELSE Size - used,
         drops <- IF FlushUnderway THEN 0 ELSE dropCount
IsrImplementsQueue == IsrQueue!Spec
=============================================================================
