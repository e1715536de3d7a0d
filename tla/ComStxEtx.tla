------------------------------ MODULE ComStxEtx ------------------------------
(***************************************************************************)
(* The receive side of comstxetx: a byte framer driven from three places.  *)
(* The receive interrupt calls comstxetxReceive for every byte, the tick   *)
(* interrupt calls comstxetxTimeoutCounter, and the main loop calls        *)
(* comstxetxEvaluate.  Receive and TimeoutCounter run to completion (they  *)
(* share one priority); Evaluate is a sequence of steps the interrupts may *)
(* come between, one per store to a shared field.  Those fields are        *)
(* volatile in comstxetx_t, so the stores happen in program order.         *)
(***************************************************************************)
EXTENDS Integers, Sequences

CONSTANTS
    Byte,           \* the values a byte can have
    stx, etx, dle,  \* the three framing bytes
    rxSize,         \* bytes of receive buffer
    rxTimeout,      \* ticks of the whole-frame timeout
    Checksum(_),    \* the caller's callback: check bytes of a payload, low first
    CountMod        \* rxRejectCount is a uint32_t: 2^32 in the code

ChecksumSize == 2

ASSUME FramingAssumption ==
    /\ {stx, etx, dle} \subseteq Byte
    /\ stx # etx /\ stx # dle /\ etx # dle
    /\ 0 \in Byte
ASSUME SizeAssumption ==
    /\ rxSize \in Nat /\ rxSize >= ChecksumSize
    /\ rxTimeout \in Nat
    /\ CountMod \in Nat \ {0}

VARIABLES
    rxBuffer, rxIndex, rxFrameOpen, rxEscape, rxReadyToEvaluate,
    rxTimeoutCounter, rxRejectCount,
    pc,             \* where the main loop stands in Evaluate
    (* History, read by the properties only. *)
    age,            \* ticks since the STX that started the frame being built
    origin,         \* what the receiver was doing when that STX arrived
    unsettled       \* completed frames less the ones handed over, modulo CountMod

shared == <<rxBuffer, rxIndex, rxFrameOpen, rxEscape, rxReadyToEvaluate,
            rxTimeoutCounter>>
history == <<age, origin, unsettled>>
vars == <<shared, rxRejectCount, pc, history>>

Labels == {"idle", "process", "clearIndex", "clearOpen", "clearEscape",
           "clearReady", "clearTimer"}

(* A frame is "fresh" unless its STX arrived inside an open frame, or "late" *)
(* between the last two stores of Evaluate, where the timer is still to be   *)
(* cleared.                                                                  *)
Origins == {"fresh", "late", "restarted"}

Init ==
    /\ rxBuffer = [i \in 0..rxSize - 1 |-> 0]
    /\ rxIndex = 0 /\ rxTimeoutCounter = 0 /\ rxRejectCount = 0
    /\ rxFrameOpen = FALSE /\ rxEscape = FALSE /\ rxReadyToEvaluate = FALSE
    /\ pc = "idle"
    /\ age = 0 /\ origin = "fresh" /\ unsettled = 0

-----------------------------------------------------------------------------
(* comstxetxReceive, one action per way through it. *)

Hunting == ~rxReadyToEvaluate /\ ~rxFrameOpen
CollectingAlways == rxFrameOpen  \* mutant: bytes taken while a frame waits
Collecting == ~rxReadyToEvaluate /\ rxFrameOpen

(* The partial frame is thrown away: everything that describes it is cleared. *)
Terminate ==
    /\ rxFrameOpen' = FALSE
    /\ rxEscape' = FALSE
    /\ rxIndex' = 0
    /\ rxTimeoutCounter' = 0
    /\ age' = 0 /\ origin' = "fresh"

FillsLate(index) == index + 1 > rxSize  \* mutant: one cell too many
(* The index is compared with the size after the store, so the last cell is  *)
(* written but never part of a complete frame.                               *)
Fills(index) == index + 1 >= rxSize

Store(b) ==
    /\ rxBuffer' = [rxBuffer EXCEPT ![rxIndex] = b]
    /\ IF Fills(rxIndex)
         THEN Terminate
         ELSE /\ rxIndex' = rxIndex + 1
              /\ rxEscape' = FALSE
              /\ UNCHANGED <<rxFrameOpen, rxTimeoutCounter, age, origin>>
    /\ UNCHANGED <<rxReadyToEvaluate, unsettled>>

Ignore(b) ==
    /\ \/ rxReadyToEvaluate
       \/ Hunting /\ b # stx
    /\ UNCHANGED <<shared, history>>

OpenFrame(b) ==
    /\ Hunting /\ b = stx
    /\ rxFrameOpen' = TRUE /\ rxIndex' = 0 /\ rxEscape' = FALSE
    /\ age' = 0 /\ origin' = IF pc = "clearTimer" THEN "late" ELSE "fresh"
    /\ UNCHANGED <<rxBuffer, rxReadyToEvaluate, rxTimeoutCounter, unsettled>>

StoreEscaped(b) == Collecting /\ rxEscape /\ Store(b)

StorePlain(b) == Collecting /\ ~rxEscape /\ b \notin {stx, etx, dle} /\ Store(b)

EscapeNext(b) ==
    /\ Collecting /\ ~rxEscape /\ b = dle
    /\ rxEscape' = TRUE
    /\ UNCHANGED <<rxBuffer, rxIndex, rxFrameOpen, rxReadyToEvaluate,
                   rxTimeoutCounter, history>>

CompleteFrame(b) ==
    /\ Collecting /\ ~rxEscape /\ b = etx
    /\ rxReadyToEvaluate' = TRUE
    /\ unsettled' = (unsettled + 1) % CountMod
    /\ UNCHANGED <<rxBuffer, rxIndex, rxFrameOpen, rxEscape, rxTimeoutCounter,
                   age, origin>>

(* An unescaped STX starts the payload again; the timer is left running. *)
RestartFrame(b) ==
    /\ Collecting /\ ~rxEscape /\ b = stx
    /\ rxIndex' = 0
    /\ age' = 0 /\ origin' = IF origin = "late" THEN "late" ELSE "restarted"
    /\ UNCHANGED <<rxBuffer, rxFrameOpen, rxEscape, rxReadyToEvaluate,
                   rxTimeoutCounter, unsettled>>

Receive(b) ==
    /\ \/ Ignore(b)
       \/ OpenFrame(b)
       \/ StoreEscaped(b)
       \/ StorePlain(b)
       \/ EscapeNext(b)
       \/ CompleteFrame(b)
       \/ RestartFrame(b)
    /\ UNCHANGED <<rxRejectCount, pc>>

-----------------------------------------------------------------------------
(* comstxetxTimeoutCounter. *)

OverdueLate == rxTimeoutCounter > rxTimeout + 1  \* mutant
Overdue == rxTimeoutCounter > rxTimeout

PendingByIndex == rxIndex # 0 /\ ~rxReadyToEvaluate  \* mutant: keyed off rxIndex
PendingAlways == rxFrameOpen  \* mutant: the tick also counts a waiting frame
Pending == rxFrameOpen /\ ~rxReadyToEvaluate

TimeoutCounter ==
    /\ Pending
    /\ IF Overdue
         THEN Terminate
         ELSE /\ rxTimeoutCounter' = rxTimeoutCounter + 1
              /\ age' = age + 1
              /\ UNCHANGED <<rxFrameOpen, rxEscape, rxIndex, origin>>
    /\ UNCHANGED <<rxBuffer, rxReadyToEvaluate, rxRejectCount, pc, unsettled>>

-----------------------------------------------------------------------------
(* comstxetxEvaluate. *)

Stored == [i \in 1..rxIndex |-> rxBuffer[i - 1]]
PayloadLength == rxIndex - ChecksumSize
Payload == SubSeq(Stored, 1, PayloadLength)
ReceivedCheck == SubSeq(Stored, PayloadLength + 1, rxIndex)

CheckPasses == rxIndex >= ChecksumSize /\ ReceivedCheck = Checksum(Payload)

EvaluateUncounted ==  \* mutant: a rejected frame leaves no trace
    /\ pc = "idle" /\ rxReadyToEvaluate
    /\ pc' = IF CheckPasses THEN "process" ELSE "clearIndex"
    /\ UNCHANGED <<shared, rxRejectCount, history>>

EvaluateBegin ==
    /\ pc = "idle" /\ rxReadyToEvaluate
    /\ IF CheckPasses
         THEN pc' = "process" /\ UNCHANGED rxRejectCount
         ELSE /\ pc' = "clearIndex"
              /\ rxRejectCount' = (rxRejectCount + 1) % CountMod
    /\ UNCHANGED <<shared, history>>

(* The callback is handed rxBuffer itself, not a copy. *)
PacketProcess ==
    /\ pc = "process" /\ pc' = "clearIndex"
    /\ unsettled' = (unsettled - 1) % CountMod
    /\ UNCHANGED <<shared, rxRejectCount, age, origin>>

ClearIndex ==
    /\ pc = "clearIndex" /\ pc' = "clearOpen"
    /\ rxIndex' = 0
    /\ UNCHANGED <<rxBuffer, rxFrameOpen, rxEscape, rxReadyToEvaluate,
                   rxTimeoutCounter, rxRejectCount, history>>

ClearOpen ==
    /\ pc = "clearOpen" /\ pc' = "clearEscape"
    /\ rxFrameOpen' = FALSE
    /\ UNCHANGED <<rxBuffer, rxIndex, rxEscape, rxReadyToEvaluate,
                   rxTimeoutCounter, rxRejectCount, history>>

ClearEscape ==
    /\ pc = "clearEscape" /\ pc' = "clearReady"
    /\ rxEscape' = FALSE
    /\ UNCHANGED <<rxBuffer, rxIndex, rxFrameOpen, rxReadyToEvaluate,
                   rxTimeoutCounter, rxRejectCount, history>>

ClearReady ==
    /\ pc = "clearReady" /\ pc' = "clearTimer"
    /\ rxReadyToEvaluate' = FALSE
    /\ age' = 0 /\ origin' = "fresh"
    /\ UNCHANGED <<rxBuffer, rxIndex, rxFrameOpen, rxEscape, rxTimeoutCounter,
                   rxRejectCount, unsettled>>

ClearTimerForgotten ==  \* mutant: the 01/08/2026 bug, the counter runs on
    /\ pc = "clearTimer" /\ pc' = "idle"
    /\ UNCHANGED <<shared, rxRejectCount, history>>

ClearTimer ==
    /\ pc = "clearTimer" /\ pc' = "idle"
    /\ rxTimeoutCounter' = 0
    /\ UNCHANGED <<rxBuffer, rxIndex, rxFrameOpen, rxEscape, rxReadyToEvaluate,
                   rxRejectCount, history>>

Evaluate ==
    \/ EvaluateBegin \/ PacketProcess
    \/ ClearIndex \/ ClearOpen \/ ClearEscape \/ ClearReady \/ ClearTimer

Next ==
    \/ \E b \in Byte : Receive(b)
    \/ TimeoutCounter
    \/ Evaluate

Spec == Init /\ [][Next]_vars

(* The tick interrupt keeps coming and the main loop keeps calling Evaluate; *)
(* nothing obliges the sender to send.                                       *)
FairSpec == Spec /\ WF_vars(TimeoutCounter) /\ WF_vars(Evaluate)

-----------------------------------------------------------------------------
(* The longest a frame can stay pending: its own budget, plus the ticks it   *)
(* had already seen when Evaluate's last store cleared the timer under it.   *)
MaxAge == 2 * (rxTimeout + 1)

(* Every field keeps its type, and no store of comstxetxReceive lands        *)
(* outside rxBuffer: the index it stores at is always below rxSize.          *)
TypeOK ==
    /\ rxBuffer \in [0..rxSize - 1 -> Byte]
    /\ rxIndex \in 0..rxSize - 1
    /\ rxFrameOpen \in BOOLEAN /\ rxEscape \in BOOLEAN
    /\ rxReadyToEvaluate \in BOOLEAN
    /\ rxTimeoutCounter \in 0..rxTimeout + 1
    /\ rxRejectCount \in 0..CountMod - 1
    /\ pc \in Labels
    /\ age \in 0..MaxAge /\ origin \in Origins
    /\ unsettled \in 0..CountMod - 1

(* comstxetxEvaluate checks the buffer and then hands the same buffer to     *)
(* packetProcess: whatever the interrupts do in between, the bytes the       *)
(* callback gets are bytes that pass the check.                              *)
CheckedIsProcessed == pc = "process" => CheckPasses

(* A completed frame stands untouched, by further bytes and by the timeout   *)
(* tick, from its ETX until comstxetxEvaluate has finished with it.          *)
FrameHeld ==
    [][rxReadyToEvaluate /\ pc \in {"idle", "process"}
         => UNCHANGED <<rxBuffer, rxIndex, rxReadyToEvaluate>>]_vars

(* Every frame whose ETX arrived is handed over once or counted once in      *)
(* rxRejectCount; at most one is still waiting for either.                   *)
FrameWaiting == rxReadyToEvaluate /\ pc \in {"idle", "process", "clearTimer"}
EveryFrameSettled ==
    unsettled = (rxRejectCount + (IF FrameWaiting THEN 1 ELSE 0)) % CountMod

FreshFrameHasBudget == Pending /\ Overdue /\ origin = "fresh" => age > rxTimeout
PromptDiscard == Pending /\ origin # "late" => age <= rxTimeout + 1

(* A frame that opened on an idle receiver is discarded by                   *)
(* comstxetxTimeoutCounter only after a full budget of rxTimeout + 1 ticks   *)
(* of its own, whatever became of the frames before it; and no pending one,  *)
(* even if the sender keeps restarting it, outlives those ticks, unless it   *)
(* opened under Evaluate's last store.                                       *)
BudgetKept == FreshFrameHasBudget /\ PromptDiscard

(* What the comment at comstxetxTimeoutCounter says: rxTimeoutCounter is     *)
(* cleared wherever rxIndex returns to zero, so every frame has that budget. *)
EveryFrameHasBudget == Pending /\ Overdue => age > rxTimeout

(* The receiver never wedges: an open frame, one that never got a byte after *)
(* its STX included, is closed again by its ETX, the timeout or Evaluate.    *)
NeverWedged == rxFrameOpen ~> ~rxFrameOpen

=============================================================================
