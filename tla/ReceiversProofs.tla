--------------------------- MODULE ReceiversProofs ---------------------------
(***************************************************************************)
(* The three receivers, for every buffer size, budget, alphabet and check, *)
(* however the interrupts fall between the stores of the main loop.        *)
(* comstxetx: its types, what it hands over, the balance of its counts and *)
(* the budget of every frame that opens on an idle receiver.  commodbus:   *)
(* what is handed over is a built frame, every frame is settled, and the   *)
(* silence that ends one is of the line.  comat: whole lines, each with    *)
(* its budget and its own reply.                                           *)
(***************************************************************************)
EXTENDS MCReceivers, StxEtxLink, Counting, SequenceTheorems

(* From the moment Evaluate sees a frame until its fourth store the frame    *)
(* flag stays up, which is what keeps the interrupts off the buffer.         *)
Guarded ==
    pc \in {"process", "clearIndex", "clearOpen", "clearEscape", "clearReady"}
        => rxReadyToEvaluate

(* How far a frame's age can be ahead of the counter that times it: not at   *)
(* all while Evaluate's last store is still to come, and by what that store  *)
(* may have cleared under the frame afterwards.                              *)
AgeBounded ==
    Pending => IF pc = "clearTimer" THEN age <= rxTimeoutCounter
                                    ELSE age <= rxTimeoutCounter + rxTimeout + 1

ReceiverInv == TypeOK /\ Guarded /\ AgeBounded /\ CheckedIsProcessed

-----------------------------------------------------------------------------
(* What the steps do to the fields the invariant reads. *)

LEMMA InitReceiver == Init => ReceiverInv
<1> SUFFICES ASSUME Init PROVE ReceiverInv
    OBVIOUS
<1>1. rxBuffer \in [0..rxSize - 1 -> Byte]
    BY FramingAssumption DEF Init
<1>2. /\ rxIndex \in 0..rxSize - 1 /\ rxTimeoutCounter \in 0..rxTimeout + 1
      /\ rxRejectCount \in 0..CountMod - 1 /\ age \in 0..MaxAge
      /\ unsettled \in 0..CountMod - 1
    BY SizeAssumption DEF Init, MaxAge, ChecksumSize
<1>3. /\ rxFrameOpen \in BOOLEAN /\ rxEscape \in BOOLEAN /\ rxReadyToEvaluate \in BOOLEAN
      /\ origin \in Origins /\ pc \in Labels
    BY DEF Init, Labels, Origins
<1>4. Guarded /\ AgeBounded /\ CheckedIsProcessed
    BY DEF Init, Guarded, AgeBounded, Pending, CheckedIsProcessed
<1> QED BY <1>1, <1>2, <1>3, <1>4 DEF ReceiverInv, TypeOK

(* Nobody writes rxBuffer or rxIndex while a frame waits for its handler.    *)
LEMMA CheckStands ==
    ASSUME rxBuffer' = rxBuffer, rxIndex' = rxIndex
    PROVE  CheckPasses' <=> CheckPasses
BY DEF CheckPasses, ReceivedCheck, Payload, Stored, PayloadLength

LEMMA StoreOK ==
    ASSUME TypeOK, AgeBounded, NEW b \in Byte, Collecting, Store(b), pc' = pc,
           rxRejectCount' = rxRejectCount
    PROVE  TypeOK' /\ AgeBounded' /\ rxReadyToEvaluate' = rxReadyToEvaluate
<1> USE SizeAssumption
<1>1. rxBuffer' \in [0..rxSize - 1 -> Byte]
    BY DEF Store, TypeOK
<1>2. rxReadyToEvaluate' = rxReadyToEvaluate /\ unsettled' = unsettled
    BY DEF Store
<1>3. CASE Fills(rxIndex)
  <2>1. Terminate
      BY <1>3 DEF Store
  <2>2. ~Pending'
      BY <2>1 DEF Terminate, Pending
  <2>3. /\ rxIndex' \in 0..rxSize - 1 /\ rxTimeoutCounter' \in 0..rxTimeout + 1
        /\ age' \in 0..MaxAge
      BY <2>1 DEF Terminate, ChecksumSize, MaxAge
  <2>4. rxFrameOpen' \in BOOLEAN /\ rxEscape' \in BOOLEAN /\ origin' \in Origins
      BY <2>1 DEF Terminate, Origins
  <2> QED BY <1>1, <1>2, <2>2, <2>3, <2>4 DEF TypeOK, AgeBounded
<1>4. CASE ~Fills(rxIndex)
  <2>1. /\ rxIndex' = rxIndex + 1 /\ rxEscape' = FALSE
        /\ UNCHANGED <<rxFrameOpen, rxTimeoutCounter, age, origin>>
      BY <1>4 DEF Store
  <2>2. rxIndex' \in 0..rxSize - 1
      BY <1>4, <2>1 DEF Fills, TypeOK
  <2>3. AgeBounded'
      BY <1>2, <2>1 DEF AgeBounded, Pending
  <2> QED BY <1>1, <1>2, <2>1, <2>2, <2>3 DEF TypeOK
<1> QED BY <1>3, <1>4

LEMMA ReceiveOK ==
    ASSUME ReceiverInv, NEW b \in Byte, Receive(b)
    PROVE  ReceiverInv'
<1> USE SizeAssumption DEF ReceiverInv
<1>1. pc' = pc /\ rxRejectCount' = rxRejectCount
    BY DEF Receive
<1>2. CASE Ignore(b)
  <2>1. UNCHANGED <<rxBuffer, rxIndex, rxFrameOpen, rxEscape, rxReadyToEvaluate,
                    rxTimeoutCounter, age, origin, unsettled>>
      BY <1>2 DEF Ignore, shared, history
  <2>2. TypeOK' /\ Guarded' /\ AgeBounded'
      BY <1>1, <2>1 DEF TypeOK, Guarded, AgeBounded, Pending
  <2> QED BY <1>1, <2>1, <2>2, CheckStands DEF CheckedIsProcessed
<1>3. CASE OpenFrame(b)
  <2>1. /\ rxFrameOpen' = TRUE /\ rxIndex' = 0 /\ rxEscape' = FALSE
        /\ age' = 0 /\ origin' \in Origins
        /\ UNCHANGED <<rxBuffer, rxReadyToEvaluate, rxTimeoutCounter, unsettled>>
      BY <1>3 DEF OpenFrame, Origins
  <2>2. pc # "process"
      BY <1>3 DEF OpenFrame, Hunting, Guarded
  <2>3. rxIndex' \in 0..rxSize - 1 /\ age' \in 0..MaxAge
      BY <2>1 DEF ChecksumSize, MaxAge
  <2>4. TypeOK'
      BY <1>1, <2>1, <2>3 DEF TypeOK
  <2>5. age' <= rxTimeoutCounter' /\ age' <= rxTimeoutCounter' + rxTimeout + 1
      BY <2>1 DEF TypeOK
  <2>6. Guarded' /\ AgeBounded'
      BY <1>1, <2>1, <2>5 DEF Guarded, AgeBounded
  <2> QED BY <1>1, <2>2, <2>4, <2>6 DEF CheckedIsProcessed
<1>4. CASE StoreEscaped(b) \/ StorePlain(b)
  <2>1. Collecting /\ Store(b)
      BY <1>4 DEF StoreEscaped, StorePlain
  <2>2. pc # "process"
      BY <2>1 DEF Collecting, Guarded
  <2>3. TypeOK' /\ AgeBounded' /\ rxReadyToEvaluate' = rxReadyToEvaluate
      BY <1>1, <2>1, StoreOK
  <2> QED BY <1>1, <2>2, <2>3 DEF CheckedIsProcessed, Guarded
<1>5. CASE EscapeNext(b)
  <2>1. /\ rxEscape' = TRUE /\ Collecting
        /\ UNCHANGED <<rxBuffer, rxIndex, rxFrameOpen, rxReadyToEvaluate, rxTimeoutCounter,
                       age, origin, unsettled>>
      BY <1>5 DEF EscapeNext, history
  <2>2. pc # "process"
      BY <2>1 DEF Collecting, Guarded
  <2>3. TypeOK' /\ Guarded' /\ AgeBounded'
      BY <1>1, <2>1 DEF TypeOK, Guarded, AgeBounded, Pending
  <2> QED BY <1>1, <2>2, <2>3 DEF CheckedIsProcessed
<1>6. CASE CompleteFrame(b)
  <2>1. /\ rxReadyToEvaluate' = TRUE /\ Collecting /\ unsettled' = (unsettled + 1) % CountMod
        /\ UNCHANGED <<rxBuffer, rxIndex, rxFrameOpen, rxEscape, rxTimeoutCounter,
                       age, origin>>
      BY <1>6 DEF CompleteFrame
  <2>2. pc # "process" /\ ~Pending'
      BY <2>1 DEF Collecting, Guarded, Pending
  <2>3. unsettled' \in 0..CountMod - 1
      BY <2>1 DEF TypeOK
  <2>4. TypeOK' /\ Guarded' /\ AgeBounded'
      BY <1>1, <2>1, <2>2, <2>3 DEF TypeOK, Guarded, AgeBounded
  <2> QED BY <1>1, <2>2, <2>4 DEF CheckedIsProcessed
<1>7. CASE RestartFrame(b)
  <2>1. /\ rxIndex' = 0 /\ age' = 0 /\ origin' \in Origins /\ Collecting
        /\ UNCHANGED <<rxBuffer, rxFrameOpen, rxEscape, rxReadyToEvaluate,
                       rxTimeoutCounter, unsettled>>
      BY <1>7 DEF RestartFrame, Origins
  <2>2. pc # "process"
      BY <2>1 DEF Collecting, Guarded
  <2>3. /\ rxIndex' \in 0..rxSize - 1 /\ age' \in 0..MaxAge
        /\ age' <= rxTimeoutCounter' /\ age' <= rxTimeoutCounter' + rxTimeout + 1
      BY <2>1 DEF TypeOK, ChecksumSize, MaxAge
  <2>4. TypeOK' /\ Guarded' /\ AgeBounded'
      BY <1>1, <2>1, <2>3 DEF TypeOK, Guarded, AgeBounded
  <2> QED BY <1>1, <2>2, <2>4 DEF CheckedIsProcessed
<1> QED BY <1>2, <1>3, <1>4, <1>5, <1>6, <1>7 DEF Receive

LEMMA TimeoutCounterOK ==
    ASSUME ReceiverInv, TimeoutCounter
    PROVE  ReceiverInv'
<1> USE SizeAssumption DEF ReceiverInv
<1>1. /\ pc # "process" /\ Pending
      /\ UNCHANGED <<rxBuffer, rxReadyToEvaluate, rxRejectCount, pc, unsettled>>
    BY DEF TimeoutCounter, Pending, Guarded
<1>2. CASE Overdue
  <2>1. Terminate
      BY <1>2 DEF TimeoutCounter
  <2>2. ~Pending' /\ rxFrameOpen' \in BOOLEAN /\ rxEscape' \in BOOLEAN /\ origin' \in Origins
      BY <2>1 DEF Terminate, Pending, Origins
  <2>3. /\ rxIndex' \in 0..rxSize - 1 /\ rxTimeoutCounter' \in 0..rxTimeout + 1
        /\ age' \in 0..MaxAge
      BY <2>1 DEF Terminate, ChecksumSize, MaxAge
  <2>4. TypeOK' /\ Guarded' /\ AgeBounded'
      BY <1>1, <2>2, <2>3 DEF TypeOK, Guarded, AgeBounded
  <2> QED BY <1>1, <2>4 DEF CheckedIsProcessed
<1>3. CASE ~Overdue
  <2>1. /\ rxTimeoutCounter' = rxTimeoutCounter + 1 /\ age' = age + 1
        /\ UNCHANGED <<rxFrameOpen, rxEscape, rxIndex, origin>>
      BY <1>3 DEF TimeoutCounter
  <2>2. rxTimeoutCounter' \in 0..rxTimeout + 1
      BY <1>3, <2>1 DEF Overdue, TypeOK
  <2>3. IF pc = "clearTimer" THEN age' <= rxTimeoutCounter'
                             ELSE age' <= rxTimeoutCounter' + rxTimeout + 1
      BY <1>1, <2>1 DEF AgeBounded, TypeOK
  <2>4. age' \in 0..MaxAge
      BY <2>1, <2>2, <2>3 DEF MaxAge, TypeOK
  <2>5. TypeOK' /\ Guarded' /\ AgeBounded'
      BY <1>1, <2>1, <2>2, <2>3, <2>4 DEF TypeOK, Guarded, AgeBounded
  <2> QED BY <1>1, <2>5 DEF CheckedIsProcessed
<1> QED BY <1>2, <1>3

LEMMA EvaluateOK ==
    ASSUME ReceiverInv, Evaluate
    PROVE  ReceiverInv'
<1> USE SizeAssumption DEF ReceiverInv
<1>1. CASE EvaluateBegin
  <2>1. UNCHANGED <<rxBuffer, rxIndex, rxFrameOpen, rxEscape, rxReadyToEvaluate,
                    rxTimeoutCounter, age, origin, unsettled>>
      BY <1>1 DEF EvaluateBegin, shared, history
  <2>2. /\ pc' \in {"process", "clearIndex"} /\ (pc' = "process" => CheckPasses)
        /\ rxReadyToEvaluate
        /\ \/ rxRejectCount' = rxRejectCount
           \/ rxRejectCount' = (rxRejectCount + 1) % CountMod
      BY <1>1 DEF EvaluateBegin
  <2>3. rxRejectCount' \in 0..CountMod - 1
      BY <2>2 DEF TypeOK
  <2>4. pc' \in Labels /\ ~Pending'
      BY <2>1, <2>2 DEF Labels, Pending
  <2>5. TypeOK' /\ Guarded' /\ AgeBounded'
      BY <2>1, <2>2, <2>3, <2>4 DEF TypeOK, Guarded, AgeBounded
  <2>6. CheckPasses' <=> CheckPasses
      BY <2>1, CheckStands
  <2> QED BY <2>2, <2>5, <2>6 DEF CheckedIsProcessed
<1>2. CASE PacketProcess
  <2>1. /\ pc = "process" /\ pc' = "clearIndex" /\ unsettled' = (unsettled - 1) % CountMod
        /\ UNCHANGED <<rxBuffer, rxIndex, rxFrameOpen, rxEscape, rxReadyToEvaluate,
                       rxTimeoutCounter, rxRejectCount, age, origin>>
      BY <1>2 DEF PacketProcess, shared
  <2>2. unsettled' \in 0..CountMod - 1
      BY <2>1 DEF TypeOK
  <2>3. rxReadyToEvaluate' /\ ~Pending' /\ pc' \in Labels
      BY <2>1 DEF Guarded, Pending, Labels
  <2> QED BY <2>1, <2>2, <2>3 DEF TypeOK, Guarded, AgeBounded, CheckedIsProcessed
<1>3. CASE ClearIndex \/ ClearOpen \/ ClearEscape
  <2>1. /\ pc \in {"clearIndex", "clearOpen", "clearEscape"}
        /\ pc' \in {"clearOpen", "clearEscape", "clearReady"}
        /\ rxIndex' \in {0, rxIndex}
        /\ rxFrameOpen' \in {FALSE, rxFrameOpen} /\ rxEscape' \in {FALSE, rxEscape}
        /\ UNCHANGED <<rxBuffer, rxReadyToEvaluate, rxTimeoutCounter, rxRejectCount,
                       age, origin, unsettled>>
      BY <1>3 DEF ClearIndex, ClearOpen, ClearEscape, history
  <2>2. rxIndex' \in 0..rxSize - 1
      BY <2>1 DEF TypeOK, ChecksumSize
  <2>3. rxReadyToEvaluate' /\ ~Pending' /\ pc' \in Labels
      BY <2>1 DEF Guarded, Pending, Labels
  <2>4. TypeOK'
      BY <2>1, <2>2, <2>3 DEF TypeOK
  <2> QED BY <2>1, <2>3, <2>4 DEF Guarded, AgeBounded, CheckedIsProcessed
<1>4. CASE ClearReady
  <2>1. /\ pc' = "clearTimer" /\ rxReadyToEvaluate' = FALSE /\ age' = 0 /\ origin' \in Origins
        /\ UNCHANGED <<rxBuffer, rxIndex, rxFrameOpen, rxEscape, rxTimeoutCounter,
                       rxRejectCount, unsettled>>
      BY <1>4 DEF ClearReady, Origins
  <2>2. age' \in 0..MaxAge /\ age' <= rxTimeoutCounter' /\ pc' \in Labels
      BY <2>1 DEF TypeOK, MaxAge, Labels
  <2>3. TypeOK'
      BY <2>1, <2>2 DEF TypeOK
  <2> QED BY <2>1, <2>2, <2>3 DEF Guarded, AgeBounded, CheckedIsProcessed
<1>5. CASE ClearTimer
  <2>1. /\ pc = "clearTimer" /\ pc' = "idle" /\ rxTimeoutCounter' = 0
        /\ UNCHANGED <<rxBuffer, rxIndex, rxFrameOpen, rxEscape, rxReadyToEvaluate,
                       rxRejectCount, age, origin, unsettled>>
      BY <1>5 DEF ClearTimer, history
  <2>2. rxTimeoutCounter' \in 0..rxTimeout + 1 /\ pc' \in Labels
      BY <2>1 DEF Labels
  <2>3. Pending' => age' <= rxTimeoutCounter' + rxTimeout + 1
    <3>1. Pending' <=> Pending
        BY <2>1 DEF Pending
    <3> QED BY <2>1, <3>1 DEF AgeBounded, TypeOK
  <2>4. TypeOK'
      BY <2>1, <2>2 DEF TypeOK
  <2> QED BY <2>1, <2>3, <2>4 DEF Guarded, AgeBounded, CheckedIsProcessed
<1> QED BY <1>1, <1>2, <1>3, <1>4, <1>5 DEF Evaluate

LEMMA StutterOK ==
    ASSUME ReceiverInv, UNCHANGED vars
    PROVE  ReceiverInv'
<1>1. UNCHANGED <<rxBuffer, rxIndex, rxFrameOpen, rxEscape, rxReadyToEvaluate,
                  rxTimeoutCounter, rxRejectCount, pc, age, origin, unsettled>>
    BY DEF vars, shared, history
<1>2. CheckPasses' <=> CheckPasses
    BY <1>1, CheckStands
<1> QED
    BY <1>1, <1>2 DEF ReceiverInv, TypeOK, Guarded, AgeBounded, Pending, CheckedIsProcessed

(* The invariant the rest of this module builds on. *)
THEOREM ReceiverInvariant == Spec => []ReceiverInv
<1>1. ReceiverInv /\ [Next]_vars => ReceiverInv'
    BY ReceiveOK, TimeoutCounterOK, EvaluateOK, StutterOK DEF Next
<1> QED BY InitReceiver, <1>1, PTL DEF Spec

(* No store of comstxetxReceive lands outside rxBuffer, and the timeout      *)
(* counter never passes rxTimeout + 1, whatever bytes and ticks come.        *)
THEOREM TypeCorrect == Spec => []TypeOK
BY ReceiverInvariant, PTL DEF ReceiverInv

(* The bytes packetProcess is handed pass the check comstxetxEvaluate made,  *)
(* with every interrupt that came since.                                     *)
THEOREM CheckedIsHandedOver == Spec => []CheckedIsProcessed
BY ReceiverInvariant, PTL DEF ReceiverInv

-----------------------------------------------------------------------------
(* A completed frame is held. *)

(* From its ETX until Evaluate has dispatched it, neither a further byte nor *)
(* the tick changes a frame or takes it away.                                *)
THEOREM FrameIsHeld == Spec => FrameHeld
<1>1. ASSUME [Next]_vars, rxReadyToEvaluate, pc \in {"idle", "process"}
      PROVE  UNCHANGED <<rxBuffer, rxIndex, rxReadyToEvaluate>>
  <2>1. ASSUME NEW b \in Byte, Receive(b)
        PROVE  UNCHANGED <<rxBuffer, rxIndex, rxReadyToEvaluate>>
      BY <1>1, <2>1 DEF Receive, Ignore, OpenFrame, StoreEscaped, StorePlain, EscapeNext,
                        CompleteFrame, RestartFrame, Hunting, Collecting, shared
  <2>2. CASE TimeoutCounter
      BY <1>1, <2>2 DEF TimeoutCounter, Pending
  <2>3. CASE Evaluate
      BY <1>1, <2>3 DEF Evaluate, EvaluateBegin, PacketProcess, ClearIndex, ClearOpen,
                        ClearEscape, ClearReady, ClearTimer, shared
  <2>4. CASE UNCHANGED vars
      BY <2>4 DEF vars, shared
  <2> QED BY <1>1, <2>1, <2>2, <2>3, <2>4 DEF Next
<1> QED BY <1>1, PTL DEF Spec, FrameHeld

-----------------------------------------------------------------------------
(* Frames and rejections balance. *)

LEMMA CountUp ==
    ASSUME NEW x \in 0..CountMod - 1
    PROVE  /\ x % CountMod = x
           /\ (x + 1) % CountMod = IF x + 1 = CountMod THEN 0 ELSE x + 1
           /\ (x + 1) % CountMod \in 0..CountMod - 1
           /\ (((x + 1) % CountMod) - 1) % CountMod = x
BY SizeAssumption

(* A step neither loses a frame nor counts one twice. *)
LEMMA SettledStep ==
    ASSUME ReceiverInv, EveryFrameSettled, [Next]_vars
    PROVE  EveryFrameSettled'
<1> USE DEF ReceiverInv
<1>1. rxRejectCount \in 0..CountMod - 1
    BY DEF TypeOK
<1>2. CASE UNCHANGED vars
    BY <1>2 DEF vars, shared, history, EveryFrameSettled, FrameWaiting
<1>3. ASSUME NEW b \in Byte, Receive(b)
      PROVE  EveryFrameSettled'
  <2>1. UNCHANGED <<rxRejectCount, pc>>
      BY <1>3 DEF Receive
  <2>2. CASE CompleteFrame(b)
    <3>1. ~FrameWaiting /\ FrameWaiting' /\ unsettled' = (unsettled + 1) % CountMod
        BY <2>1, <2>2 DEF CompleteFrame, Collecting, FrameWaiting, Guarded, TypeOK, Labels
    <3>2. unsettled = rxRejectCount
        BY <1>1, <3>1, CountUp DEF EveryFrameSettled
    <3> QED BY <2>1, <3>1, <3>2 DEF EveryFrameSettled
  <2>3. CASE ~CompleteFrame(b)
    <3>1. UNCHANGED <<rxReadyToEvaluate, unsettled>>
        BY <1>3, <2>3 DEF Receive, Ignore, OpenFrame, StoreEscaped, StorePlain, Store,
                          EscapeNext, RestartFrame, shared, history
    <3> QED BY <2>1, <3>1 DEF EveryFrameSettled, FrameWaiting
  <2> QED BY <2>2, <2>3
<1>4. CASE TimeoutCounter
    BY <1>4 DEF TimeoutCounter, EveryFrameSettled, FrameWaiting
<1>5. CASE EvaluateBegin
  <2>1. UNCHANGED <<rxReadyToEvaluate, unsettled>> /\ FrameWaiting
      BY <1>5 DEF EvaluateBegin, shared, history, FrameWaiting
  <2>2. unsettled = (rxRejectCount + 1) % CountMod
      BY <2>1 DEF EveryFrameSettled
  <2>3. CASE CheckPasses
      BY <1>5, <2>1, <2>2, <2>3 DEF EvaluateBegin, EveryFrameSettled, FrameWaiting
  <2>4. CASE ~CheckPasses
    <3>1. ~FrameWaiting' /\ rxRejectCount' = (rxRejectCount + 1) % CountMod
        BY <1>5, <2>4 DEF EvaluateBegin, FrameWaiting
    <3>2. rxRejectCount' \in 0..CountMod - 1
        BY <1>1, <3>1, CountUp
    <3>3. (rxRejectCount' + 0) % CountMod = rxRejectCount'
        BY <3>2, CountUp
    <3> QED BY <2>1, <2>2, <3>1, <3>3 DEF EveryFrameSettled
  <2> QED BY <2>3, <2>4
<1>6. CASE PacketProcess
  <2>1. /\ FrameWaiting /\ ~FrameWaiting' /\ rxRejectCount' = rxRejectCount
        /\ unsettled' = (unsettled - 1) % CountMod
      BY <1>6 DEF PacketProcess, FrameWaiting, Guarded
  <2>2. unsettled = (rxRejectCount + 1) % CountMod
      BY <2>1 DEF EveryFrameSettled
  <2>3. unsettled' = rxRejectCount
      BY <1>1, <2>1, <2>2, CountUp
  <2>4. (rxRejectCount' + 0) % CountMod = rxRejectCount'
      BY <1>1, <2>1, CountUp
  <2> QED BY <2>1, <2>3, <2>4 DEF EveryFrameSettled
<1>7. CASE ClearIndex \/ ClearOpen \/ ClearEscape \/ ClearReady \/ ClearTimer
  <2>1. UNCHANGED <<rxRejectCount, unsettled>> /\ (FrameWaiting' <=> FrameWaiting)
      BY <1>7 DEF ClearIndex, ClearOpen, ClearEscape, ClearReady, ClearTimer, history,
                  FrameWaiting
  <2> QED BY <2>1 DEF EveryFrameSettled
<1> QED BY <1>2, <1>3, <1>4, <1>5, <1>6, <1>7 DEF Next, Evaluate

(* Every completed frame is handed over once or counted once in              *)
(* rxRejectCount, however the counter wraps.                                 *)
THEOREM FramesAreSettled == Spec => []EveryFrameSettled
<1>1. Init => EveryFrameSettled
  <2> SUFFICES ASSUME Init PROVE EveryFrameSettled
      OBVIOUS
  <2>1. ~FrameWaiting /\ unsettled = 0 /\ rxRejectCount = 0
      BY DEF Init, FrameWaiting
  <2>2. (0 + 0) % CountMod = 0
      BY SizeAssumption
  <2> QED BY <2>1, <2>2 DEF EveryFrameSettled
<1> QED BY ReceiverInvariant, <1>1, SettledStep, PTL DEF Spec

-----------------------------------------------------------------------------
(* The whole budget for every frame that opens on an idle receiver. *)

(* The counter stands at zero whenever the receiver hunts outside the window *)
(* before Evaluate's last store, so a frame that opens there is as old as    *)
(* the counter says; the frames that open inside the window are the late     *)
(* ones.                                                                     *)
TimerFollows ==
    /\ pc \in {"clearEscape", "clearReady"} => ~rxFrameOpen
    /\ pc = "clearTimer" /\ rxFrameOpen => origin = "late"
    /\ pc # "clearTimer" /\ Hunting => rxTimeoutCounter = 0
    /\ Pending /\ origin # "late" => age <= rxTimeoutCounter
    /\ Pending /\ origin = "fresh" => age = rxTimeoutCounter

LEMMA TimerFollowsReceive ==
    ASSUME TypeOK, Guarded, TimerFollows, NEW b \in Byte, Receive(b)
    PROVE  TimerFollows'
<1>1. pc' = pc
    BY DEF Receive
<1>2. CASE Ignore(b) \/ EscapeNext(b)
  <2>1. UNCHANGED <<rxFrameOpen, rxReadyToEvaluate, rxTimeoutCounter, age, origin>>
      BY <1>2 DEF Ignore, EscapeNext, shared, history
  <2> QED BY <1>1, <2>1 DEF TimerFollows, Pending, Hunting
<1>3. CASE OpenFrame(b)
  <2>1. /\ Hunting /\ age' = 0 /\ rxFrameOpen' = TRUE
        /\ origin' = IF pc = "clearTimer" THEN "late" ELSE "fresh"
        /\ UNCHANGED <<rxReadyToEvaluate, rxTimeoutCounter>>
      BY <1>3 DEF OpenFrame
  <2>2. pc \notin {"clearEscape", "clearReady"} /\ ~Hunting'
      BY <2>1 DEF Guarded, Hunting
  <2>3. CASE pc = "clearTimer"
      BY <1>1, <2>1, <2>2, <2>3 DEF TimerFollows
  <2>4. CASE pc # "clearTimer"
    <3>1. rxTimeoutCounter' = 0
        BY <2>1, <2>4 DEF TimerFollows
    <3> QED BY <1>1, <2>1, <2>2, <2>4, <3>1 DEF TimerFollows
  <2> QED BY <2>3, <2>4
<1>4. CASE StoreEscaped(b) \/ StorePlain(b)
  <2>1. Collecting /\ Store(b) /\ rxReadyToEvaluate' = rxReadyToEvaluate
      BY <1>4 DEF StoreEscaped, StorePlain, Store
  <2>2. CASE Fills(rxIndex)
      BY <1>1, <2>1, <2>2 DEF Store, Terminate, TimerFollows, Pending
  <2>3. CASE ~Fills(rxIndex)
      BY <1>1, <2>1, <2>3 DEF Store, TimerFollows, Pending, Hunting
  <2> QED BY <2>2, <2>3
<1>5. CASE CompleteFrame(b)
    BY <1>1, <1>5 DEF CompleteFrame, TimerFollows, Pending, Hunting
<1>6. CASE RestartFrame(b)
  <2>1. /\ age' = 0 /\ Collecting
        /\ origin' = IF origin = "late" THEN "late" ELSE "restarted"
        /\ UNCHANGED <<rxFrameOpen, rxReadyToEvaluate, rxTimeoutCounter>>
      BY <1>6 DEF RestartFrame
  <2>2. age' <= rxTimeoutCounter' /\ ~Hunting' /\ rxFrameOpen
      BY <2>1 DEF TypeOK, Hunting, Collecting
  <2> QED BY <1>1, <2>1, <2>2 DEF TimerFollows
<1> QED BY <1>2, <1>3, <1>4, <1>5, <1>6 DEF Receive

LEMMA TimerFollowsStep ==
    ASSUME TypeOK, Guarded, TimerFollows, [Next]_vars
    PROVE  TimerFollows'
<1>1. CASE UNCHANGED vars
    BY <1>1 DEF vars, shared, history, TimerFollows, Pending, Hunting
<1>2. ASSUME NEW b \in Byte, Receive(b)
      PROVE  TimerFollows'
    BY <1>2, TimerFollowsReceive
<1>3. CASE TimeoutCounter
  <2>1. pc' = pc /\ Pending /\ rxReadyToEvaluate' = rxReadyToEvaluate
      BY <1>3 DEF TimeoutCounter
  <2>2. CASE Overdue
      BY <1>3, <2>1, <2>2 DEF TimeoutCounter, Terminate, TimerFollows, Pending
  <2>3. CASE ~Overdue
    <3>1. /\ rxTimeoutCounter' = rxTimeoutCounter + 1 /\ age' = age + 1
          /\ UNCHANGED <<rxFrameOpen, origin>>
        BY <1>3, <2>3 DEF TimeoutCounter
    <3>2. origin # "late" => age' <= rxTimeoutCounter'
        BY <2>1, <3>1 DEF TimerFollows, TypeOK
    <3>3. origin = "fresh" => age' = rxTimeoutCounter'
        BY <2>1, <3>1 DEF TimerFollows, TypeOK
    <3>4. ~Hunting'
        BY <2>1, <3>1 DEF Pending, Hunting
    <3> QED BY <2>1, <3>1, <3>2, <3>3, <3>4 DEF TimerFollows
  <2> QED BY <2>2, <2>3
<1>4. CASE EvaluateBegin
  <2>1. /\ pc' \in {"process", "clearIndex"} /\ rxReadyToEvaluate
        /\ UNCHANGED rxReadyToEvaluate
      BY <1>4 DEF EvaluateBegin, shared
  <2> QED BY <2>1 DEF TimerFollows, Pending, Hunting
<1>5. CASE PacketProcess \/ ClearIndex
    BY <1>5 DEF PacketProcess, ClearIndex, shared, history, TimerFollows, Pending,
                Hunting
<1>6. CASE ClearOpen \/ ClearEscape \/ ClearReady
  <2>1. rxReadyToEvaluate /\ ~rxFrameOpen' /\ pc' # "idle"
      BY <1>6 DEF ClearOpen, ClearEscape, ClearReady, Guarded, TimerFollows
  <2>2. pc' = "clearTimer" \/ rxReadyToEvaluate'
      BY <1>6, <2>1 DEF ClearOpen, ClearEscape, ClearReady
  <2> QED BY <2>1, <2>2 DEF TimerFollows, Pending, Hunting
<1>7. CASE ClearTimer
  <2>1. /\ pc = "clearTimer" /\ pc' = "idle" /\ rxTimeoutCounter' = 0
        /\ UNCHANGED <<rxFrameOpen, rxReadyToEvaluate, age, origin>>
      BY <1>7 DEF ClearTimer, history
  <2>2. rxFrameOpen => origin = "late"
      BY <2>1 DEF TimerFollows
  <2> QED BY <2>1, <2>2 DEF TimerFollows, Pending
<1> QED BY <1>1, <1>2, <1>3, <1>4, <1>5, <1>6, <1>7 DEF Next, Evaluate

(* A frame that opened on an idle receiver is discarded after rxTimeout + 1  *)
(* ticks of its own and not before, and no frame is pending longer than that *)
(* unless it opened under Evaluate's last store.                             *)
THEOREM WholeBudget == Spec => []BudgetKept
<1>1. Init => TimerFollows
    BY DEF Init, TimerFollows, Pending
<1>2. ReceiverInv /\ TimerFollows /\ [Next]_vars => TimerFollows'
    BY TimerFollowsStep DEF ReceiverInv
<1>3. ReceiverInv /\ TimerFollows => BudgetKept
  <2> SUFFICES ASSUME TypeOK, TimerFollows PROVE BudgetKept
      BY DEF ReceiverInv
  <2>1. PromptDiscard
      BY SizeAssumption DEF TypeOK, TimerFollows, PromptDiscard
  <2>2. FreshFrameHasBudget
      BY DEF TimerFollows, FreshFrameHasBudget, Overdue
  <2> QED BY <2>1, <2>2 DEF BudgetKept
<1> QED BY ReceiverInvariant, <1>1, <1>2, <1>3, PTL DEF Spec

-----------------------------------------------------------------------------
(* commodbus. *)

ModbusValues == ModbusBytes \union {0}

ModbusTypes ==
    /\ modbus \in [rxBuffer : [0 .. ModbusSize - 1 -> ModbusValues], rxIndex : 0 .. ModbusSize,
                   silenceCounter : Nat, rxReadyToEvaluate : BOOLEAN, rxOverrun : BOOLEAN,
                   rxDropped : BOOLEAN, rxRejectCount : 0 .. ModbusCountMod - 1,
                   rxIgnoredCount : 0 .. ModbusCountMod - 1]
    /\ modbusPc \in M!Labels
    /\ modbusSeen \in [quiet : Nat, late : BOOLEAN, owed : 0 .. ModbusCountMod - 1]

(* The frame Evaluate is at work on is held until its fourth store, and is   *)
(* the one it judged.                                                        *)
ModbusHeld ==
    /\ modbusPc \in {"process", "testDropped", "clearDropped", "clearIndex", "clearOverrun",
                      "clearReady"} => modbus.rxReadyToEvaluate
    /\ modbusPc \in {"clearOverrun", "clearReady"} => modbus.rxIndex = 0
    /\ modbusPc = "clearDropped" => modbus.rxDropped
    /\ modbusPc = "process" => M!Sound /\ ~ M!ForAnother

(* A frame the tick counts under Evaluate's last store began under it.       *)
ModbusLate == modbusPc = "clearSilence" /\ M!Pending => modbusSeen.late

ModbusInv ==
    /\ ModbusTypes /\ ModbusHeld /\ ModbusLate
    /\ M!EveryFrameSettled /\ M!SilenceIsOfTheLine

LEMMA ModbusConstants ==
    /\ ModbusSize \in Nat /\ SilenceTicks \in Nat /\ ModbusCountMod \in Nat \ {0}
    /\ 0 \in 0 .. ModbusCountMod - 1
BY ModbusAssumption

LEMMA ModbusInitOK == M!Init => ModbusInv
<1> SUFFICES ASSUME M!Init PROVE ModbusInv
    OBVIOUS
<1> USE ModbusConstants
<1>1. ModbusTypes
    BY DEF M!Init, ModbusTypes, ModbusValues, M!Labels
<1>2. ModbusHeld /\ ModbusLate /\ M!SilenceIsOfTheLine
    BY DEF M!Init, ModbusHeld, ModbusLate, M!SilenceIsOfTheLine, M!Pending
<1>3. M!EveryFrameSettled
  <2>1. 0 % ModbusCountMod = 0
      OBVIOUS
  <2> QED BY <2>1 DEF M!Init, M!EveryFrameSettled
<1> QED BY <1>1, <1>2, <1>3 DEF ModbusInv

(* What one more and one less are, of a sum of counts. *)
LEMMA ModbusCounts ==
    ASSUME NEW a \in Nat
    PROVE  /\ M!More(a % ModbusCountMod) = (a + 1) % ModbusCountMod
           /\ M!Less((a + 1) % ModbusCountMod) = a % ModbusCountMod
           /\ a % ModbusCountMod \in 0 .. ModbusCountMod - 1
           /\ a \in 0 .. ModbusCountMod - 1 => a % ModbusCountMod = a
<1> USE ModbusConstants
<1>1. M!More(a % ModbusCountMod) = (a + 1) % ModbusCountMod
    BY ModAdd DEF M!More
<1>2. M!Less((a + 1) % ModbusCountMod) = a % ModbusCountMod
  <2>1. ModbusCountMod - 1 \in Nat /\ a + 1 \in Nat /\ a + 1 + (ModbusCountMod - 1) = a + ModbusCountMod
      OBVIOUS
  <2>2. (((a + 1) % ModbusCountMod) + (ModbusCountMod - 1)) % ModbusCountMod
          = (a + 1 + (ModbusCountMod - 1)) % ModbusCountMod
      BY <2>1, ModAdd
  <2>3. (a + 1) % ModbusCountMod \in Nat
      BY <2>1
  <2>4. M!Less((a + 1) % ModbusCountMod) = (a + ModbusCountMod) % ModbusCountMod
      BY <2>1, <2>2, <2>3 DEF M!Less
  <2> QED BY <2>4, ModTurn
<1> QED BY <1>1, <1>2

LEMMA ModbusTypesStep ==
    ASSUME ModbusTypes, M!Next
    PROVE  ModbusTypes'
<1> USE ModbusConstants DEF ModbusTypes
<1>1. \A n \in 0 .. ModbusCountMod - 1 : /\ M!More(n) \in 0 .. ModbusCountMod - 1
                                         /\ M!Less(n) \in 0 .. ModbusCountMod - 1
    BY DEF M!More, M!Less
<1>2. ASSUME NEW byte \in ModbusBytes, M!Store(byte), UNCHANGED modbusPc PROVE ModbusTypes'
  <2>1. /\ modbus.rxIndex + 1 \in 0 .. ModbusSize /\ byte \in ModbusValues
        /\ modbus.rxIndex \in 0 .. ModbusSize - 1
      BY <1>2 DEF M!Store, ModbusValues
  <2>2. [modbus.rxBuffer EXCEPT ![modbus.rxIndex] = byte] \in [0 .. ModbusSize - 1 -> ModbusValues]
      BY <2>1
  <2>3. modbus' = [modbus EXCEPT !.rxBuffer = [modbus.rxBuffer EXCEPT ![modbus.rxIndex] = byte],
                                 !.rxIndex = modbus.rxIndex + 1, !.silenceCounter = 0]
      BY <1>2 DEF M!Store
  <2>4. modbusSeen' \in [quiet : Nat, late : BOOLEAN, owed : 0 .. ModbusCountMod - 1]
      BY <1>2 DEF M!Store
  <2> QED BY <1>2, <2>1, <2>2, <2>3, <2>4
<1>3. CASE M!Overrun /\ UNCHANGED modbusPc
    BY <1>3 DEF M!Overrun
<1>4. CASE M!Drop /\ UNCHANGED modbusPc
    BY <1>1, <1>4 DEF M!Drop
<1>5. CASE M!TimeoutCounter
  <2>1. CASE M!EndFrame
      BY <1>1, <1>5, <2>1 DEF M!TimeoutCounter, M!EndFrame
  <2>2. CASE M!CountSilence
    <3>1. modbus.silenceCounter + 1 \in Nat /\ modbusSeen.quiet + 1 \in Nat
        OBVIOUS
    <3>2. modbusPc' = modbusPc
        BY <1>5 DEF M!TimeoutCounter
    <3>3. modbusSeen' \in [quiet : Nat, late : BOOLEAN, owed : 0 .. ModbusCountMod - 1]
        BY <2>2, <3>1 DEF M!CountSilence
    <3> QED BY <2>2, <3>1, <3>2, <3>3 DEF M!CountSilence
  <2> QED BY <1>5, <2>1, <2>2 DEF M!TimeoutCounter
<1>6. CASE M!RejectFrame \/ M!IgnoreFrame
    BY <1>1, <1>6 DEF M!RejectFrame, M!IgnoreFrame, M!Labels
<1>7. CASE M!TakeFrame \/ M!PacketProcess
    BY <1>1, <1>7 DEF M!TakeFrame, M!PacketProcess, M!Labels
<1>8. CASE M!CountDropped
    BY <1>1, <1>8 DEF M!CountDropped, M!Labels
<1>9. CASE M!ClearDropped \/ M!ClearIndex \/ M!ClearOverrun \/ M!ClearReady \/ M!ClearSilence
  <2>1. CASE M!ClearDropped
      BY <2>1 DEF M!ClearDropped, M!Clear, M!Labels
  <2>2. CASE M!ClearIndex
      BY <2>2 DEF M!ClearIndex, M!Clear, M!Labels
  <2>3. CASE M!ClearOverrun
      BY <2>3 DEF M!ClearOverrun, M!Clear, M!Labels
  <2>4. CASE M!ClearReady
      BY <2>4 DEF M!ClearReady, M!Clear, M!Labels
  <2>5. CASE M!ClearSilence
      BY <2>5 DEF M!ClearSilence, M!Clear, M!Labels
  <2> QED BY <1>9, <2>1, <2>2, <2>3, <2>4, <2>5
<1> QED BY <1>2, <1>3, <1>4, <1>5, <1>6, <1>7, <1>8, <1>9 DEF M!Next, M!Receive, M!Evaluate

(* The frame Evaluate has judged is judged again the same while it stands.   *)
LEMMA ModbusStands ==
    ASSUME modbus'.rxBuffer = modbus.rxBuffer, modbus'.rxIndex = modbus.rxIndex,
           modbus'.rxOverrun = modbus.rxOverrun
    PROVE  (M!Sound /\ ~ M!ForAnother)' <=> (M!Sound /\ ~ M!ForAnother)
BY DEF M!Sound, M!ForAnother, M!ReceivedCheck, M!Payload, M!Stored, M!PayloadLength

LEMMA ModbusReceives ==
    ASSUME ModbusInv, M!Receive
    PROVE  ModbusHeld' /\ ModbusLate' /\ M!SilenceIsOfTheLine'
<1> USE ModbusConstants DEF ModbusInv, ModbusTypes
<1>1. modbusPc' = modbusPc
    BY DEF M!Receive
<1>2. ASSUME NEW byte \in ModbusBytes, M!Store(byte)
      PROVE  ModbusHeld' /\ ModbusLate' /\ M!SilenceIsOfTheLine'
  <2>1. /\ ~ modbus.rxReadyToEvaluate /\ ~ modbus'.rxReadyToEvaluate
        /\ modbus'.rxIndex = modbus.rxIndex + 1
        /\ modbus'.silenceCounter = 0 /\ modbus'.rxDropped = modbus.rxDropped
        /\ modbusSeen'.quiet = 0
        /\ modbusSeen'.late = IF modbus.rxIndex = 0 THEN modbusPc = "clearSilence" ELSE modbusSeen.late
      BY <1>2 DEF M!Store
  <2>2. ModbusHeld'
      BY <1>1, <2>1 DEF ModbusHeld
  <2>3. ModbusLate'
    <3>1. modbus.rxIndex # 0 => M!Pending
        BY <2>1 DEF M!Pending
    <3> QED BY <1>1, <2>1, <3>1 DEF ModbusLate
  <2> QED BY <2>1, <2>2, <2>3 DEF M!SilenceIsOfTheLine, M!Pending
<1>3. CASE M!Overrun
  <2>1. /\ ~ modbus.rxReadyToEvaluate /\ ~ modbus'.rxReadyToEvaluate
        /\ modbus'.rxIndex = modbus.rxIndex
        /\ modbus'.silenceCounter = 0 /\ modbus'.rxDropped = modbus.rxDropped
        /\ modbusSeen'.quiet = 0 /\ modbusSeen'.late = modbusSeen.late
      BY <1>3 DEF M!Overrun
  <2>2. ModbusHeld'
      BY <1>1, <2>1 DEF ModbusHeld
  <2> QED BY <1>1, <2>1, <2>2 DEF M!SilenceIsOfTheLine, M!Pending, ModbusLate
<1>4. CASE M!Drop
  <2>1. /\ modbus.rxReadyToEvaluate /\ modbus'.rxReadyToEvaluate
        /\ modbus'.rxIndex = modbus.rxIndex /\ modbus'.rxDropped
        /\ modbus'.rxBuffer = modbus.rxBuffer /\ modbus'.rxOverrun = modbus.rxOverrun
        /\ modbusSeen'.quiet = modbusSeen.quiet
      BY <1>4 DEF M!Drop
  <2>2. ModbusHeld'
      BY <1>1, <2>1, ModbusStands DEF ModbusHeld
  <2> QED BY <1>1, <2>1, <2>2 DEF M!SilenceIsOfTheLine, M!Pending, ModbusLate
<1> QED BY <1>2, <1>3, <1>4 DEF M!Receive

LEMMA ModbusTicks ==
    ASSUME ModbusInv, M!TimeoutCounter
    PROVE  ModbusHeld' /\ ModbusLate' /\ M!SilenceIsOfTheLine'
<1> USE ModbusConstants DEF ModbusInv, ModbusTypes
<1>1. /\ modbusPc' = modbusPc /\ M!Pending /\ ~ modbus.rxReadyToEvaluate
      /\ modbus.silenceCounter <= modbusSeen.quiet
      /\ ~ modbusSeen.late => modbus.silenceCounter = modbusSeen.quiet
    BY DEF M!TimeoutCounter, M!EndFrame, M!CountSilence, M!Pending, M!SilenceIsOfTheLine
<1>2. CASE M!EndFrame
  <2>1. /\ modbus'.rxReadyToEvaluate /\ modbus'.rxIndex = modbus.rxIndex
        /\ modbus'.rxDropped = modbus.rxDropped
        /\ modbusSeen'.quiet = modbusSeen.quiet /\ modbus.silenceCounter >= SilenceTicks
      BY <1>2 DEF M!EndFrame, M!Silent
  <2>2. ModbusHeld'
      BY <1>1, <2>1 DEF ModbusHeld
  <2> QED BY <1>1, <2>1, <2>2 DEF M!SilenceIsOfTheLine, M!Pending, ModbusLate
<1>3. CASE M!CountSilence
  <2>1. /\ ~ modbus'.rxReadyToEvaluate /\ modbus'.rxIndex = modbus.rxIndex
        /\ modbus'.rxDropped = modbus.rxDropped /\ modbusSeen'.late = modbusSeen.late
        /\ modbusSeen'.quiet = modbusSeen.quiet + 1
        /\ modbus'.silenceCounter = modbus.silenceCounter + 1
      BY <1>1, <1>3 DEF M!CountSilence
  <2>2. ModbusHeld'
      BY <1>1, <2>1 DEF ModbusHeld
  <2>3. ModbusLate'
      BY <1>1, <2>1 DEF ModbusLate, M!Pending
  <2> QED BY <1>1, <2>1, <2>2, <2>3 DEF M!SilenceIsOfTheLine, M!Pending
<1> QED BY <1>2, <1>3 DEF M!TimeoutCounter

LEMMA ModbusEvaluates ==
    ASSUME ModbusInv, M!Evaluate
    PROVE  ModbusHeld' /\ ModbusLate' /\ M!SilenceIsOfTheLine'
<1> USE ModbusConstants DEF ModbusInv, ModbusTypes
<1>1. CASE M!RejectFrame \/ M!IgnoreFrame \/ M!TakeFrame \/ M!PacketProcess \/ M!CountDropped
  <2>1. /\ modbus.rxReadyToEvaluate /\ modbus'.rxReadyToEvaluate
        /\ modbus'.rxIndex = modbus.rxIndex /\ modbus'.rxDropped = modbus.rxDropped
        /\ modbus'.rxBuffer = modbus.rxBuffer /\ modbus'.rxOverrun = modbus.rxOverrun
        /\ modbusSeen'.quiet = modbusSeen.quiet
      BY <1>1 DEF M!RejectFrame, M!IgnoreFrame, M!TakeFrame, M!PacketProcess, M!CountDropped,
                  M!AtStart, ModbusHeld
  <2>2. /\ modbusPc' \notin {"clearOverrun", "clearReady", "clearSilence"}
        /\ modbusPc' = "clearDropped" => modbus.rxDropped
        /\ modbusPc' = "process" => M!Sound /\ ~ M!ForAnother
      BY <1>1 DEF M!RejectFrame, M!IgnoreFrame, M!TakeFrame, M!PacketProcess, M!CountDropped
  <2>3. ModbusHeld'
      BY <2>1, <2>2, ModbusStands DEF ModbusHeld
  <2> QED BY <2>1, <2>2, <2>3 DEF M!SilenceIsOfTheLine, M!Pending, ModbusLate
<1>2. CASE M!ClearDropped \/ M!ClearIndex \/ M!ClearOverrun
  <2>1. /\ modbus.rxReadyToEvaluate /\ modbus'.rxReadyToEvaluate
        /\ modbusPc' \in {"clearIndex", "clearOverrun", "clearReady"}
        /\ modbusPc' \in {"clearOverrun", "clearReady"} => modbus'.rxIndex = 0
        /\ modbusSeen'.quiet = modbusSeen.quiet
      BY <1>2 DEF M!ClearDropped, M!ClearIndex, M!ClearOverrun, M!Clear, ModbusHeld
  <2>2. ModbusHeld'
      BY <2>1 DEF ModbusHeld
  <2> QED BY <2>1, <2>2 DEF M!SilenceIsOfTheLine, M!Pending, ModbusLate
<1>3. CASE M!ClearReady
  <2>1. /\ ~ modbus'.rxReadyToEvaluate /\ modbus'.rxIndex = 0 /\ modbusPc' = "clearSilence"
      BY <1>3 DEF M!ClearReady, M!Clear, ModbusHeld
  <2> QED BY <2>1 DEF M!SilenceIsOfTheLine, M!Pending, ModbusLate, ModbusHeld
<1>4. CASE M!ClearSilence
  <2>1. /\ modbusPc = "clearSilence" /\ modbusPc' = "idle" /\ modbusSeen' = modbusSeen
        /\ modbus'.silenceCounter = 0 /\ modbus'.rxIndex = modbus.rxIndex
        /\ modbus'.rxReadyToEvaluate = modbus.rxReadyToEvaluate
      BY <1>4 DEF M!ClearSilence, M!Clear
  <2>2. M!Pending' => modbusSeen.late
      BY <2>1 DEF ModbusLate, M!Pending
  <2> QED BY <2>1, <2>2 DEF M!SilenceIsOfTheLine, M!Pending, ModbusLate, ModbusHeld
<1> QED BY <1>1, <1>2, <1>3, <1>4 DEF M!Evaluate

-----------------------------------------------------------------------------
(* commodbus settles every frame. *)

ModbusWaiting == modbus.rxReadyToEvaluate /\ modbusPc \in {"idle", "process", "clearSilence"}
ModbusDropping == modbus.rxDropped /\ modbusPc # "clearDropped"
ModbusUnsettled == (IF ModbusWaiting THEN 1 ELSE 0) + (IF ModbusDropping THEN 1 ELSE 0)

LEMMA ModbusSettledIs ==
    ASSUME ModbusTypes
    PROVE  /\ M!EveryFrameSettled
                <=> modbusSeen.owed = (modbus.rxRejectCount + ModbusUnsettled) % ModbusCountMod
           /\ modbus.rxRejectCount \in Nat /\ ModbusUnsettled \in 0 .. 2
<1>1. /\ modbus.rxRejectCount \in Nat /\ ModbusUnsettled \in 0 .. 2
      /\ modbus.rxRejectCount + (IF ModbusWaiting THEN 1 ELSE 0) + (IF ModbusDropping THEN 1 ELSE 0)
           = modbus.rxRejectCount + ModbusUnsettled
    BY ModbusConstants DEF ModbusTypes, ModbusUnsettled
<1> QED BY <1>1 DEF M!EveryFrameSettled, ModbusWaiting, ModbusDropping

(* A frame begins to wait, it is handed over, or it is counted.              *)
LEMMA ModbusBalance ==
    ASSUME NEW r \in Nat, NEW u \in Nat, NEW owed, owed = (r + u) % ModbusCountMod
    PROVE  /\ M!More(owed) = (r + (u + 1)) % ModbusCountMod
           /\ u > 0 => /\ M!Less(owed) = (r + (u - 1)) % ModbusCountMod
                       /\ owed = (M!More(r) + (u - 1)) % ModbusCountMod
<1> USE ModbusConstants
<1>1. M!More(owed) = (r + u + 1) % ModbusCountMod /\ r + u + 1 = r + (u + 1)
  <2>1. r + u \in Nat
      OBVIOUS
  <2>2. M!More((r + u) % ModbusCountMod) = (r + u + 1) % ModbusCountMod
      BY <2>1, ModbusCounts
  <2> QED BY <2>2
<1>2. ASSUME u > 0
      PROVE  /\ M!Less(owed) = (r + (u - 1)) % ModbusCountMod
             /\ owed = (M!More(r) + (u - 1)) % ModbusCountMod
  <2>1. r + (u - 1) \in Nat /\ r + (u - 1) + 1 = r + u /\ r + 1 \in Nat /\ u - 1 \in Nat
        /\ r + 1 + (u - 1) = r + u
      BY <1>2
  <2>2. M!Less(owed) = (r + (u - 1)) % ModbusCountMod
    <3>1. M!Less((r + (u - 1) + 1) % ModbusCountMod) = (r + (u - 1)) % ModbusCountMod
        BY <2>1, ModbusCounts
    <3> QED BY <3>1, <2>1
  <2>3. (((r + 1) % ModbusCountMod) + (u - 1)) % ModbusCountMod = (r + 1 + (u - 1)) % ModbusCountMod
      BY <2>1, ModAdd
  <2> QED BY <2>1, <2>2, <2>3 DEF M!More
<1> QED BY <1>1, <1>2

LEMMA ModbusSettles ==
    ASSUME ModbusInv, M!Next
    PROVE  M!EveryFrameSettled'
<1> DEFINE r == modbus.rxRejectCount
           u == ModbusUnsettled
           owed == modbusSeen.owed
<1>1. owed = (r + u) % ModbusCountMod /\ r \in Nat /\ u \in 0 .. 2
    BY ModbusSettledIs DEF ModbusInv
<1>2. M!EveryFrameSettled' <=> owed' = (r' + u') % ModbusCountMod
  <2>1. ModbusTypes'
      BY ModbusTypesStep DEF ModbusInv
  <2>2. modbus'.rxRejectCount + (IF ModbusWaiting' THEN 1 ELSE 0) + (IF ModbusDropping' THEN 1 ELSE 0)
          = r' + u'
      BY <2>1, ModbusConstants DEF ModbusTypes, ModbusUnsettled
  <2> QED BY <2>2 DEF M!EveryFrameSettled, ModbusWaiting, ModbusDropping
<1>3. \/ r' = r /\ u' = u /\ owed' = owed
      \/ r' = r /\ u' = u + 1 /\ owed' = M!More(owed)
      \/ r' = r /\ u' = u - 1 /\ u > 0 /\ owed' = M!Less(owed)
      \/ r' = M!More(r) /\ u' = u - 1 /\ u > 0 /\ owed' = owed
  <2> USE DEF ModbusInv, ModbusTypes, ModbusUnsettled, ModbusWaiting, ModbusDropping
  <2>1. CASE M!Receive /\ ~ M!Drop
    <3>1. /\ modbusPc' = modbusPc /\ owed' = owed /\ r' = r /\ ~ modbus.rxReadyToEvaluate
          /\ modbus'.rxReadyToEvaluate = modbus.rxReadyToEvaluate
          /\ modbus'.rxDropped = modbus.rxDropped
        BY <2>1 DEF M!Receive, M!Store, M!Overrun
    <3> QED BY <3>1
  <2>2. CASE M!Receive /\ M!Drop
    <3>1. /\ modbusPc' = modbusPc /\ r' = r /\ modbus'.rxDropped = TRUE
          /\ modbus'.rxReadyToEvaluate = modbus.rxReadyToEvaluate
          /\ owed' = IF modbus.rxDropped THEN owed ELSE M!More(owed)
        BY <2>2 DEF M!Receive, M!Drop
    <3>2. ~ modbus.rxDropped => modbusPc # "clearDropped"
        BY DEF ModbusHeld
    <3> QED BY <3>1, <3>2
  <2>3. CASE M!TimeoutCounter /\ M!EndFrame
    <3>1. /\ modbusPc' = modbusPc /\ r' = r /\ modbus'.rxDropped = modbus.rxDropped
          /\ modbus.rxReadyToEvaluate = FALSE /\ modbus'.rxReadyToEvaluate = TRUE
          /\ owed' = M!More(owed)
        BY <2>3 DEF M!TimeoutCounter, M!EndFrame, M!Pending
    <3>2. modbusPc \in {"idle", "process", "clearSilence"}
        BY <3>1 DEF ModbusHeld, M!Labels
    <3> QED BY <3>1, <3>2
  <2>4. CASE M!TimeoutCounter /\ ~ M!EndFrame
    <3>1. /\ modbusPc' = modbusPc /\ owed' = owed /\ r' = r
          /\ modbus'.rxReadyToEvaluate = modbus.rxReadyToEvaluate
          /\ modbus'.rxDropped = modbus.rxDropped
        BY <2>4 DEF M!TimeoutCounter, M!CountSilence
    <3> QED BY <3>1
  <2>5. CASE M!RejectFrame
    <3>1. /\ modbusPc = "idle" /\ modbusPc' = "testDropped" /\ owed' = owed /\ r' = M!More(r)
          /\ modbus.rxReadyToEvaluate /\ modbus'.rxDropped = modbus.rxDropped
        BY <2>5 DEF M!RejectFrame, M!AtStart
    <3> QED BY <3>1
  <2>6. CASE M!IgnoreFrame \/ M!PacketProcess
    <3>1. /\ modbusPc \in {"idle", "process"} /\ modbusPc' = "testDropped"
          /\ owed' = M!Less(owed) /\ r' = r
          /\ modbus.rxReadyToEvaluate /\ modbus'.rxDropped = modbus.rxDropped
        BY <2>6 DEF M!IgnoreFrame, M!PacketProcess, M!AtStart, ModbusHeld
    <3> QED BY <3>1
  <2>7. CASE M!TakeFrame
    <3>1. /\ modbusPc = "idle" /\ modbusPc' = "process" /\ UNCHANGED <<modbus, modbusSeen>>
        BY <2>7 DEF M!TakeFrame, M!AtStart
    <3> QED BY <3>1
  <2>8. CASE M!CountDropped
    <3>1. /\ modbusPc = "testDropped" /\ owed' = owed /\ modbus'.rxDropped = modbus.rxDropped
          /\ IF modbus.rxDropped THEN modbusPc' = "clearDropped" /\ r' = M!More(r)
             ELSE modbusPc' = "clearIndex" /\ r' = r
        BY <2>8 DEF M!CountDropped
    <3> QED BY <3>1
  <2>9. CASE M!ClearDropped \/ M!ClearIndex \/ M!ClearOverrun \/ M!ClearReady \/ M!ClearSilence
    <3>1. /\ owed' = owed /\ r' = r
          /\ modbusPc = "clearDropped" => ~ modbus'.rxDropped /\ modbusPc' = "clearIndex"
          /\ modbusPc # "clearDropped" => modbus'.rxDropped = modbus.rxDropped
          /\ modbusPc = "clearSilence" => /\ modbusPc' = "idle"
                                          /\ modbus'.rxReadyToEvaluate = modbus.rxReadyToEvaluate
          /\ modbusPc = "clearReady" => ~ modbus'.rxReadyToEvaluate
          /\ modbusPc \notin {"clearReady", "clearSilence"}
                => modbusPc' \in {"clearIndex", "clearOverrun", "clearReady"}
          /\ modbusPc \in {"clearDropped", "clearIndex", "clearOverrun", "clearReady", "clearSilence"}
          /\ modbusPc' # "clearDropped"
        BY <2>9 DEF M!ClearDropped, M!ClearIndex, M!ClearOverrun, M!ClearReady, M!ClearSilence,
                    M!Clear
    <3> QED BY <3>1
  <2> QED BY <2>1, <2>2, <2>3, <2>4, <2>5, <2>6, <2>7, <2>8, <2>9
          DEF M!Next, M!TimeoutCounter, M!Evaluate
<1>4. /\ M!More(owed) = (r + (u + 1)) % ModbusCountMod
      /\ u > 0 => /\ M!Less(owed) = (r + (u - 1)) % ModbusCountMod
                  /\ owed = (M!More(r) + (u - 1)) % ModbusCountMod
    BY <1>1, ModbusBalance
<1> HIDE DEF r, u, owed
<1>5. owed' = (r' + u') % ModbusCountMod
    BY <1>1, <1>3, <1>4
<1> QED BY <1>2, <1>5

(* What packetProcess is handed is what commodbusBuildFrame would make of    *)
(* it.                                                                       *)
LEMMA ModbusHandsBuilt == ModbusInv => M!HandedIsBuilt
<1> SUFFICES ASSUME ModbusTypes, M!Sound, ~ M!ForAnother
             PROVE  /\ ~ modbus.rxOverrun /\ Head(M!Stored) \in {ModbusAddress, M!Broadcast}
                    /\ M!Stored = M!BuildFrame(Head(M!Stored), Tail(M!Payload))
    BY DEF ModbusInv, ModbusHeld, M!HandedIsBuilt
<1> DEFINE n == modbus.rxIndex
           s == M!Stored
           p == M!Payload
           c == M!ReceivedCheck
<1>1. /\ n \in 4 .. ModbusSize /\ s \in Seq(ModbusValues) /\ Len(s) = n
  <2>1. n \in 4 .. ModbusSize /\ modbus.rxBuffer \in [0 .. ModbusSize - 1 -> ModbusValues]
      BY ModbusConstants DEF ModbusTypes, M!Sound, M!MinFrame
  <2>2. \A i \in 1 .. n : modbus.rxBuffer[i - 1] \in ModbusValues
      BY <2>1, ModbusConstants
  <2>3. s = [i \in 1 .. n |-> modbus.rxBuffer[i - 1]]
      BY DEF M!Stored
  <2> HIDE DEF n, s
  <2>4. s \in [1 .. n -> ModbusValues] /\ n \in Nat
      BY <2>1, <2>2, <2>3
  <2> QED BY <2>1, <2>4
<1>2. /\ p = SubSeq(s, 1, n - 2) /\ c = SubSeq(s, n - 1, n)
  <2>1. M!PayloadLength = n - 2 /\ M!PayloadLength + 1 = n - 1
      BY <1>1 DEF M!PayloadLength, M!CheckSize
  <2> QED BY <2>1 DEF M!Payload, M!ReceivedCheck
<1> HIDE DEF n, s, p, c
<1>3. p \in Seq(ModbusValues) /\ Len(p) = n - 2 /\ Head(p) = Head(s)
    BY <1>1, <1>2
<1>4. s = p \o c
    BY <1>1, <1>2
<1>5. p = <<Head(s)>> \o Tail(p) /\ Len(Tail(p)) = n - 3
    BY <1>1, <1>3
<1>6. c = ModbusChecksum(p)
    BY DEF M!Sound, c, p
<1>7. M!BuildFrame(Head(s), Tail(p)) = p \o ModbusChecksum(p)
  <2>1. Len(Tail(p)) > 0 /\ Len(Tail(p)) + 1 + M!CheckSize <= ModbusSize
      BY <1>1, <1>5, ModbusConstants DEF M!CheckSize
  <2>2. M!BuildFrame(Head(s), Tail(p))
          = <<Head(s)>> \o Tail(p) \o ModbusChecksum(<<Head(s)>> \o Tail(p))
      BY <2>1 DEF M!BuildFrame
  <2> QED BY <1>5, <2>2
<1> QED BY <1>4, <1>6, <1>7 DEF s, p, M!Sound, M!ForAnother

LEMMA ModbusStep == ModbusInv /\ [M!Next]_modbusVars => ModbusInv'
<1>1. CASE UNCHANGED modbusVars
    BY <1>1 DEF modbusVars, ModbusInv, ModbusTypes, ModbusHeld, ModbusLate, M!Sound,
                M!ForAnother, M!ReceivedCheck, M!Payload, M!Stored, M!PayloadLength,
                M!Pending, M!EveryFrameSettled, M!SilenceIsOfTheLine
<1>2. ASSUME ModbusInv, M!Next PROVE ModbusInv'
  <2>1. ModbusTypes' /\ M!EveryFrameSettled'
      BY <1>2, ModbusTypesStep, ModbusSettles DEF ModbusInv
  <2>2. ModbusHeld' /\ ModbusLate' /\ M!SilenceIsOfTheLine'
      BY <1>2, ModbusReceives, ModbusTicks, ModbusEvaluates DEF M!Next
  <2> QED BY <2>1, <2>2 DEF ModbusInv
<1> QED BY <1>1, <1>2

-----------------------------------------------------------------------------
(* comat. *)

AtFields ==
    [rxBuffer : [0 .. AtSize - 1 -> AtBytes \union {0}], rxIndex : 0 .. AtSize,
     txIndex : Replies \union {0}, rxTimeoutCounter : Nat, rxReadyToEvaluate : BOOLEAN]
AtHistory ==
    [age : Nat, late : BOOLEAN, sent : Replies \union {0}, reply : Replies \union {0}]

LineTypes == AtSize >= 3 /\ at \in AtFields /\ atPc \in L!Labels /\ atSeen \in AtHistory

(* The line being collected begins with AT and has no end yet; the one that  *)
(* waits has one, where it stands.                                           *)
LineShape ==
    /\ at.rxIndex >= 1 => at.rxBuffer[0] = 1
    /\ at.rxIndex >= 2 => at.rxBuffer[1] = 2
    /\ ~ at.rxReadyToEvaluate =>
         /\ at.rxIndex < AtSize
         /\ \A i \in 2 .. at.rxIndex - 1 : ~ (at.rxBuffer[i - 1] = 3 /\ at.rxBuffer[i] = 4)
    /\ at.rxReadyToEvaluate /\ at.rxIndex # 0 =>
         /\ at.rxIndex >= 3
         /\ at.rxBuffer[at.rxIndex - 2] = 3 /\ at.rxBuffer[at.rxIndex - 1] = 4
         /\ \A i \in 2 .. at.rxIndex - 2 : ~ (at.rxBuffer[i - 1] = 3 /\ at.rxBuffer[i] = 4)

(* Evaluate's line is held until it is done with; a line that begins before  *)
(* its last store is late, and otherwise the timer begins with the line.     *)
LineHeld ==
    /\ atPc \in {"process", "transmit", "clearIndex"} => at.rxReadyToEvaluate /\ at.rxIndex # 0
    /\ atPc = "clearReady" => at.rxReadyToEvaluate /\ at.rxIndex = 0
    /\ at.rxReadyToEvaluate /\ at.rxIndex = 0 => atPc = "clearReady"
    /\ atPc \in {"clearTx", "clearTimer"} /\ L!Pending => atSeen.late
    /\ atPc \notin {"clearTx", "clearTimer"} /\ L!Listening /\ at.rxIndex = 0
         => at.rxTimeoutCounter = 0
    /\ atPc \in {"idle", "process", "clearTimer"} => at.txIndex = 0
    /\ atPc = "transmit" => at.txIndex = atSeen.reply

LineInv == LineTypes /\ LineShape /\ LineHeld /\ L!LineHasBudget /\ L!ReplyIsOwn

LEMMA LineInitOK == L!Init => LineInv
<1> SUFFICES ASSUME L!Init PROVE LineInv
    OBVIOUS
<1>1. LineTypes
    BY AtAssumption DEF L!Init, LineTypes, AtFields, AtHistory, L!Labels
<1>2. LineShape /\ LineHeld /\ L!LineHasBudget /\ L!ReplyIsOwn
    BY AtAssumption DEF L!Init, LineShape, LineHeld, L!Pending, L!LineHasBudget, L!ReplyIsOwn
<1> QED BY <1>1, <1>2 DEF LineInv

(* comatReceive, on the fields: what a stored byte and a dropped line leave. *)
LEMMA LineStores ==
    ASSUME LineTypes, at.rxIndex < AtSize, NEW byte \in AtBytes
    PROVE  /\ L!Stored(byte).rxBuffer = [at.rxBuffer EXCEPT ![at.rxIndex] = byte]
           /\ L!Stored(byte).rxIndex = at.rxIndex + 1
           /\ L!Stored(byte).txIndex = at.txIndex
           /\ L!Stored(byte).rxTimeoutCounter = at.rxTimeoutCounter
           /\ L!Stored(byte).rxReadyToEvaluate = at.rxReadyToEvaluate
           /\ L!Stored(byte) \in AtFields
<1>1. /\ at.rxIndex \in 0 .. AtSize - 1 /\ at.rxIndex + 1 \in 0 .. AtSize
      /\ at.rxBuffer \in [0 .. AtSize - 1 -> AtBytes \union {0}]
    BY AtAssumption DEF LineTypes, AtFields
<1>2. [at.rxBuffer EXCEPT ![at.rxIndex] = byte] \in [0 .. AtSize - 1 -> AtBytes \union {0}]
    BY <1>1
<1>3. L!Stored(byte) = [at EXCEPT !.rxBuffer = [at.rxBuffer EXCEPT ![at.rxIndex] = byte],
                                  !.rxIndex = at.rxIndex + 1]
    BY DEF L!Stored
<1> QED BY <1>1, <1>2, <1>3 DEF LineTypes, AtFields

LEMMA LineDrops ==
    ASSUME NEW d \in AtFields
    PROVE  /\ L!Dropped(d) \in AtFields
           /\ L!Dropped(d).rxIndex = 0 /\ L!Dropped(d).rxTimeoutCounter = 0
           /\ L!Dropped(d).rxBuffer = d.rxBuffer /\ L!Dropped(d).txIndex = d.txIndex
           /\ L!Dropped(d).rxReadyToEvaluate = d.rxReadyToEvaluate
<1>1. 0 \in 0 .. AtSize /\ 0 \in Nat
    BY AtAssumption
<1>2. L!Dropped(d) = [d EXCEPT !.rxIndex = 0, !.rxTimeoutCounter = 0]
    BY DEF L!Dropped
<1> QED BY <1>1, <1>2 DEF AtFields

LEMMA LineEnds ==
    ASSUME NEW d \in AtFields
    PROVE  LET e == [d EXCEPT !.rxReadyToEvaluate = TRUE]
           IN  /\ e \in AtFields /\ e.rxReadyToEvaluate
               /\ e.rxIndex = d.rxIndex /\ e.rxTimeoutCounter = d.rxTimeoutCounter
               /\ e.rxBuffer = d.rxBuffer /\ e.txIndex = d.txIndex
BY DEF AtFields

LEMMA LineTypesStep ==
    ASSUME LineTypes, LineShape, L!Next
    PROVE  LineTypes'
<1> USE AtAssumption DEF LineTypes
<1>1. ASSUME NEW byte \in AtBytes, L!Ignore(byte), UNCHANGED atPc PROVE LineTypes'
    BY <1>1 DEF L!Ignore
<1>2. ASSUME NEW byte \in AtBytes, L!OpenLine(byte), UNCHANGED atPc PROVE LineTypes'
  <2>1. at.rxIndex < AtSize
      BY <1>2 DEF L!OpenLine, L!Listening, LineShape
  <2>2. atSeen' \in AtHistory
    <3>1. atSeen' = [atSeen EXCEPT !.age = 0, !.late = (atPc \in {"clearTx", "clearTimer"})]
        BY <1>2 DEF L!OpenLine
    <3>2. (atPc \in {"clearTx", "clearTimer"}) \in BOOLEAN
        OBVIOUS
    <3> QED BY <3>1, <3>2 DEF AtHistory
  <2> QED BY <1>2, <2>1, <2>2, LineStores DEF L!OpenLine
<1>3. ASSUME NEW byte \in AtBytes, L!SecondByte(byte), UNCHANGED atPc PROVE LineTypes'
  <2>1. at.rxIndex < AtSize
      BY <1>3 DEF L!SecondByte, L!Listening, LineShape
  <2>2. L!Stored(byte) \in AtFields /\ L!Dropped(at) \in AtFields
      BY <2>1, LineStores, LineDrops
  <2> QED BY <1>3, <2>2 DEF L!SecondByte
<1>4. ASSUME NEW byte \in AtBytes, L!LaterByte(byte), UNCHANGED atPc PROVE LineTypes'
  <2>1. at.rxIndex < AtSize
      BY <1>4 DEF L!LaterByte, L!Listening, LineShape
  <2>2. /\ L!Stored(byte) \in AtFields /\ L!Dropped(L!Stored(byte)) \in AtFields
        /\ [L!Stored(byte) EXCEPT !.rxReadyToEvaluate = TRUE] \in AtFields
      BY <2>1, LineStores, LineDrops, LineEnds
  <2> QED BY <1>4, <2>2 DEF L!LaterByte
<1>5. CASE L!TimeoutCounter
  <2>1. /\ [at EXCEPT !.rxTimeoutCounter = @ + 1] \in AtFields
        /\ [atSeen EXCEPT !.age = @ + 1] \in AtHistory
    <3>1. at.rxTimeoutCounter + 1 \in Nat /\ atSeen.age + 1 \in Nat
        BY DEF AtFields, AtHistory
    <3> QED BY <3>1 DEF AtFields, AtHistory
  <2> QED BY <1>5, <2>1, LineDrops DEF L!TimeoutCounter
<1>6. CASE L!Begin \/ L!PacketProcess \/ L!TransmissionTrigger
    BY <1>6 DEF L!Begin, L!PacketProcess, L!TransmissionTrigger, L!Labels, AtFields, AtHistory
<1>7. CASE L!ClearIndex \/ L!ClearReady \/ L!ClearTx \/ L!ClearTimer
  <2>1. 0 \in 0 .. AtSize /\ 0 \in Nat
      OBVIOUS
  <2>2. [at EXCEPT !.rxIndex = 0] \in AtFields
      BY <2>1 DEF AtFields
  <2>3. [at EXCEPT !.rxReadyToEvaluate = FALSE] \in AtFields
      BY DEF AtFields
  <2>4. [at EXCEPT !.txIndex = 0] \in AtFields
      BY DEF AtFields
  <2>5. [at EXCEPT !.rxTimeoutCounter = 0] \in AtFields
      BY <2>1 DEF AtFields
  <2> QED BY <1>7, <2>2, <2>3, <2>4, <2>5 DEF L!ClearIndex, L!ClearReady, L!ClearTx, L!ClearTimer, L!Clear, L!Labels
<1> QED BY <1>1, <1>2, <1>3, <1>4, <1>5, <1>6, <1>7 DEF L!Next, L!Receive, L!Evaluate

(* A line thrown away leaves the timer cleared for the next. *)
LEMMA LineDiscarded ==
    ASSUME LineInv, ~ at.rxReadyToEvaluate, atPc' = atPc, atSeen' = atSeen,
           at'.rxIndex = 0, at'.rxTimeoutCounter = 0, ~ at'.rxReadyToEvaluate,
           at'.txIndex = at.txIndex
    PROVE  LineShape' /\ LineHeld' /\ L!LineHasBudget' /\ L!ReplyIsOwn'
<1>1. LineShape'
    BY AtAssumption DEF LineInv, LineTypes, LineShape
<1>2. LineHeld'
    BY DEF LineInv, LineHeld, L!Pending, L!Listening
<1> QED BY <1>1, <1>2 DEF LineInv, L!LineHasBudget, L!Pending, L!ReplyIsOwn

LEMMA LineReceives ==
    ASSUME LineInv, L!Receive
    PROVE  LineShape' /\ LineHeld' /\ L!LineHasBudget' /\ L!ReplyIsOwn'
<1> USE AtAssumption DEF LineInv, LineTypes
<1>1. atPc' = atPc
    BY DEF L!Receive
<1>2. ASSUME NEW byte \in AtBytes, L!Ignore(byte)
      PROVE  LineShape' /\ LineHeld' /\ L!LineHasBudget' /\ L!ReplyIsOwn'
    BY <1>1, <1>2 DEF L!Ignore, LineShape, LineHeld, L!LineHasBudget, L!ReplyIsOwn, L!Pending,
                      L!Listening
<1>3. ASSUME NEW byte \in AtBytes, L!OpenLine(byte)
      PROVE  LineShape' /\ LineHeld' /\ L!LineHasBudget' /\ L!ReplyIsOwn'
  <2>1. /\ ~ at.rxReadyToEvaluate /\ at.rxIndex = 0 /\ at.rxIndex < AtSize /\ AtSize >= 3
        /\ byte = 1
      BY <1>3 DEF L!OpenLine, L!Listening, LineShape
  <2>2. /\ at'.rxBuffer = [at.rxBuffer EXCEPT ![0] = 1] /\ at'.rxIndex = 1
        /\ at'.txIndex = at.txIndex
        /\ at'.rxTimeoutCounter = at.rxTimeoutCounter /\ ~ at'.rxReadyToEvaluate
      BY <1>3, <2>1, LineStores DEF L!OpenLine
  <2>3. at'.rxBuffer[0] = 1
      BY <2>1, <2>2 DEF AtFields
  <2>4. /\ atSeen'.age = 0 /\ (atSeen'.late <=> atPc \in {"clearTx", "clearTimer"})
        /\ atSeen'.sent = atSeen.sent /\ atSeen'.reply = atSeen.reply
      BY <1>3 DEF L!OpenLine, AtHistory
  <2>5. LineShape'
      BY <2>1, <2>2, <2>3 DEF LineShape
  <2>6. LineHeld'
      BY <1>1, <2>1, <2>2, <2>4 DEF LineHeld, L!Pending, L!Listening
  <2>7. L!LineHasBudget'
      BY <1>1, <2>1, <2>2, <2>4 DEF LineHeld, L!Listening, L!LineHasBudget
  <2> QED BY <1>1, <2>4, <2>5, <2>6, <2>7 DEF L!ReplyIsOwn
<1>4. ASSUME NEW byte \in AtBytes, L!SecondByte(byte)
      PROVE  LineShape' /\ LineHeld' /\ L!LineHasBudget' /\ L!ReplyIsOwn'
  <2>1. /\ ~ at.rxReadyToEvaluate /\ at.rxIndex = 1 /\ at.rxIndex < AtSize /\ AtSize >= 3
        /\ at.rxBuffer[0] = 1 /\ L!Pending /\ atSeen' = atSeen /\ at \in AtFields
      BY <1>4 DEF L!SecondByte, L!Listening, LineShape, L!Pending
  <2>2. CASE byte = 2
    <3>1. /\ at'.rxBuffer = [at.rxBuffer EXCEPT ![1] = 2] /\ at'.rxIndex = 2
          /\ at'.txIndex = at.txIndex
          /\ at'.rxTimeoutCounter = at.rxTimeoutCounter /\ ~ at'.rxReadyToEvaluate
        BY <1>4, <2>1, <2>2, LineStores DEF L!SecondByte
    <3>2. at'.rxBuffer[0] = 1 /\ at'.rxBuffer[1] = 2
        BY <2>1, <3>1 DEF AtFields
    <3>3. LineShape'
        BY <2>1, <3>1, <3>2 DEF LineShape
    <3>4. LineHeld'
        BY <1>1, <2>1, <3>1 DEF LineHeld, L!Pending, L!Listening
    <3> QED BY <1>1, <2>1, <3>1, <3>3, <3>4 DEF L!LineHasBudget, L!Pending, L!ReplyIsOwn
  <2>3. CASE byte # 2
    <3>1. at' = L!Dropped(at)
        BY <1>4, <2>3 DEF L!SecondByte
    <3>2. /\ at'.rxIndex = 0 /\ at'.rxTimeoutCounter = 0 /\ ~ at'.rxReadyToEvaluate
          /\ at'.txIndex = at.txIndex
        BY <2>1, <3>1, LineDrops
    <3> QED BY <1>1, <2>1, <3>2, LineDiscarded
  <2> QED BY <2>2, <2>3
<1>5. ASSUME NEW byte \in AtBytes, L!LaterByte(byte)
      PROVE  LineShape' /\ LineHeld' /\ L!LineHasBudget' /\ L!ReplyIsOwn'
  <2> DEFINE d == L!Stored(byte)
             n == at.rxIndex
  <2>1. /\ ~ at.rxReadyToEvaluate /\ n \in Nat /\ n >= 2 /\ n < AtSize /\ AtSize >= 3
        /\ at.rxBuffer[0] = 1 /\ at.rxBuffer[1] = 2 /\ at \in AtFields
        /\ \A i \in 2 .. n - 1 : ~ (at.rxBuffer[i - 1] = 3 /\ at.rxBuffer[i] = 4)
        /\ L!Pending /\ atSeen' = atSeen
      BY <1>5 DEF L!LaterByte, L!Listening, LineShape, AtFields, L!Pending
  <2>2. /\ d.rxBuffer = [at.rxBuffer EXCEPT ![n] = byte] /\ d.rxIndex = n + 1
        /\ d.txIndex = at.txIndex /\ d.rxTimeoutCounter = at.rxTimeoutCounter
        /\ ~ d.rxReadyToEvaluate /\ d \in AtFields
      BY <2>1, LineStores
  <2>3. at' = IF L!EndsLine(d) THEN [d EXCEPT !.rxReadyToEvaluate = TRUE]
              ELSE IF L!Full(d) THEN L!Dropped(d) ELSE d
      BY <1>5 DEF L!LaterByte
  <2> HIDE DEF d
  <2>4. /\ \A i \in 0 .. AtSize - 1 : d.rxBuffer[i] = IF i = n THEN byte ELSE at.rxBuffer[i]
        /\ d.rxBuffer[0] = 1 /\ d.rxBuffer[1] = 2
        /\ \A i \in 2 .. n - 1 : ~ (d.rxBuffer[i - 1] = 3 /\ d.rxBuffer[i] = 4)
    <3>1. at.rxBuffer \in [0 .. AtSize - 1 -> AtBytes \union {0}]
        BY <2>1 DEF AtFields
    <3>2. \A i \in 0 .. AtSize - 1 : d.rxBuffer[i] = IF i = n THEN byte ELSE at.rxBuffer[i]
        BY <2>1, <2>2, <3>1
    <3> QED BY <2>1, <3>2
  <2>5. L!EndsLine(d) <=> (d.rxBuffer[n - 1] = 3 /\ d.rxBuffer[n] = 4)
      BY <2>1, <2>2 DEF L!EndsLine
  <2>6. CASE L!EndsLine(d)
    <3>1. /\ at'.rxReadyToEvaluate /\ at'.rxIndex = n + 1 /\ at'.rxBuffer = d.rxBuffer
          /\ at'.txIndex = at.txIndex
        BY <2>2, <2>3, <2>6, LineEnds
    <3>2. LineShape'
        BY <2>1, <2>4, <2>5, <2>6, <3>1 DEF LineShape
    <3>3. LineHeld'
        BY <1>1, <2>1, <3>1 DEF LineHeld, L!Pending, L!Listening
    <3> QED BY <1>1, <2>1, <3>1, <3>2, <3>3 DEF L!LineHasBudget, L!Pending, L!ReplyIsOwn
  <2>7. CASE ~ L!EndsLine(d) /\ L!Full(d)
    <3>1. /\ at'.rxIndex = 0 /\ at'.rxTimeoutCounter = 0 /\ ~ at'.rxReadyToEvaluate
          /\ at'.txIndex = at.txIndex
        BY <2>2, <2>3, <2>7, LineDrops
    <3> QED BY <1>1, <2>1, <3>1, LineDiscarded
  <2>8. CASE ~ L!EndsLine(d) /\ ~ L!Full(d)
    <3>1. at' = d /\ n + 1 < AtSize
        BY <2>1, <2>2, <2>3, <2>8 DEF L!Full
    <3>2. LineShape'
      <4>1. \A i \in 2 .. n : ~ (d.rxBuffer[i - 1] = 3 /\ d.rxBuffer[i] = 4)
          BY <2>1, <2>4, <2>5, <2>8
      <4>2. /\ at'.rxIndex = n + 1 /\ at'.rxIndex - 1 = n /\ at'.rxIndex < AtSize
            /\ ~ at'.rxReadyToEvaluate /\ at'.rxBuffer = d.rxBuffer
          BY <2>1, <2>2, <3>1
      <4> HIDE DEF n
      <4> QED BY <2>4, <4>1, <4>2 DEF LineShape
    <3>3. LineHeld'
        BY <1>1, <2>1, <2>2, <3>1 DEF LineHeld, L!Pending, L!Listening
    <3> QED BY <1>1, <2>1, <2>2, <3>1, <3>2, <3>3 DEF L!LineHasBudget, L!Pending, L!ReplyIsOwn
  <2> QED BY <2>6, <2>7, <2>8
<1> QED BY <1>2, <1>3, <1>4, <1>5 DEF L!Receive

LEMMA LineTicks ==
    ASSUME LineInv, L!TimeoutCounter
    PROVE  LineShape' /\ LineHeld' /\ L!LineHasBudget' /\ L!ReplyIsOwn'
<1> USE AtAssumption DEF LineInv, LineTypes
<1>1. atPc' = atPc /\ L!Pending /\ ~ at.rxReadyToEvaluate /\ at \in AtFields
    BY DEF L!TimeoutCounter, L!Pending
<1>2. CASE L!Overdue
  <2>1. /\ at'.rxIndex = 0 /\ at'.rxTimeoutCounter = 0 /\ ~ at'.rxReadyToEvaluate
        /\ at'.txIndex = at.txIndex /\ atSeen' = atSeen
      BY <1>1, <1>2, LineDrops DEF L!TimeoutCounter
  <2> QED BY <1>1, <2>1, LineDiscarded
<1>3. CASE ~ L!Overdue
  <2>1. /\ at'.rxBuffer = at.rxBuffer /\ at'.rxIndex = at.rxIndex /\ at'.txIndex = at.txIndex
        /\ at'.rxReadyToEvaluate = at.rxReadyToEvaluate
        /\ at'.rxTimeoutCounter = at.rxTimeoutCounter + 1
      BY <1>3 DEF L!TimeoutCounter, AtFields
  <2>2. /\ atSeen'.age = atSeen.age + 1 /\ atSeen'.late = atSeen.late
        /\ atSeen'.sent = atSeen.sent /\ atSeen'.reply = atSeen.reply
      BY <1>3 DEF L!TimeoutCounter, AtHistory
  <2>3. LineShape' /\ LineHeld'
      BY <1>1, <2>1, <2>2 DEF LineShape, LineHeld, L!Pending, L!Listening
  <2> QED BY <1>1, <2>1, <2>2, <2>3 DEF L!LineHasBudget, L!Pending, L!ReplyIsOwn
<1> QED BY <1>2, <1>3

LEMMA LineEvaluates ==
    ASSUME LineInv, L!Evaluate
    PROVE  LineShape' /\ LineHeld' /\ L!LineHasBudget' /\ L!ReplyIsOwn'
<1> USE AtAssumption DEF LineInv, LineTypes
<1>1. CASE L!Begin \/ L!PacketProcess \/ L!TransmissionTrigger
  <2>1. /\ at'.rxBuffer = at.rxBuffer /\ at'.rxIndex = at.rxIndex
        /\ at.rxReadyToEvaluate /\ at'.rxReadyToEvaluate /\ at.rxIndex # 0
      BY <1>1 DEF L!Begin, L!PacketProcess, L!TransmissionTrigger, LineHeld, AtFields
  <2>2. /\ atPc' \in {"process", "transmit", "clearIndex"}
        /\ atPc' = "process" => at'.txIndex = 0
        /\ atPc' = "transmit" => at'.txIndex = atSeen'.reply
        /\ atPc' = "clearIndex" => atSeen'.sent = atSeen'.reply
      BY <1>1 DEF L!Begin, L!PacketProcess, L!TransmissionTrigger, LineHeld, AtFields, AtHistory
  <2>3. LineShape'
      BY <2>1 DEF LineShape
  <2>4. LineHeld'
      BY <2>1, <2>2 DEF LineHeld, L!Pending, L!Listening
  <2> QED BY <2>1, <2>2, <2>3, <2>4 DEF L!LineHasBudget, L!Pending, L!ReplyIsOwn
<1>2. CASE L!ClearIndex
  <2>1. /\ at'.rxIndex = 0 /\ at'.rxReadyToEvaluate /\ atPc = "clearIndex" /\ atPc' = "clearReady"
        /\ atSeen' = atSeen
      BY <1>2 DEF L!ClearIndex, L!Clear, LineHeld, AtFields
  <2> QED BY <2>1 DEF LineShape, LineHeld, L!Pending, L!Listening, L!LineHasBudget, L!ReplyIsOwn
<1>3. CASE L!ClearReady
  <2>1. /\ at'.rxIndex = 0 /\ ~ at'.rxReadyToEvaluate /\ atPc' = "clearTx"
      BY <1>3 DEF L!ClearReady, L!Clear, LineHeld, AtFields
  <2> QED BY <2>1 DEF LineShape, LineHeld, L!Pending, L!Listening, L!LineHasBudget, L!ReplyIsOwn
<1>4. CASE L!ClearTx
  <2>1. /\ at'.rxIndex = at.rxIndex /\ at'.rxBuffer = at.rxBuffer /\ at'.txIndex = 0
        /\ at'.rxReadyToEvaluate = at.rxReadyToEvaluate /\ atSeen' = atSeen
        /\ atPc = "clearTx" /\ atPc' = "clearTimer" /\ at'.rxTimeoutCounter = at.rxTimeoutCounter
      BY <1>4 DEF L!ClearTx, L!Clear, AtFields
  <2>2. LineShape' /\ LineHeld'
      BY <2>1 DEF LineShape, LineHeld, L!Pending, L!Listening
  <2> QED BY <2>1, <2>2 DEF L!LineHasBudget, L!Pending, L!ReplyIsOwn
<1>5. CASE L!ClearTimer
  <2>1. /\ at'.rxIndex = at.rxIndex /\ at'.rxBuffer = at.rxBuffer /\ at'.txIndex = at.txIndex
        /\ at'.rxReadyToEvaluate = at.rxReadyToEvaluate /\ atSeen' = atSeen
        /\ atPc = "clearTimer" /\ atPc' = "idle" /\ at'.rxTimeoutCounter = 0
      BY <1>5 DEF L!ClearTimer, L!Clear, AtFields
  <2>2. LineShape' /\ LineHeld'
      BY <2>1 DEF LineShape, LineHeld, L!Pending, L!Listening
  <2>3. L!Pending' => atSeen'.late
      BY <2>1 DEF LineHeld, L!Pending
  <2> QED BY <2>1, <2>2, <2>3 DEF L!LineHasBudget, L!ReplyIsOwn
<1> QED BY <1>1, <1>2, <1>3, <1>4, <1>5 DEF L!Evaluate

LEMMA LineStep == LineInv /\ [L!Next]_atVars => LineInv'
<1>1. CASE UNCHANGED atVars
    BY <1>1 DEF atVars, LineInv, LineTypes, LineShape, LineHeld, L!LineHasBudget, L!ReplyIsOwn,
                L!Pending, L!Listening
<1>2. ASSUME LineInv, L!Next PROVE LineInv'
    BY <1>2, LineTypesStep, LineReceives, LineTicks, LineEvaluates DEF LineInv, L!Next
<1> QED BY <1>1, <1>2

LEMMA LineIsKept == LineInv => L!LinesKept
<1> SUFFICES ASSUME LineInv PROVE L!HandedIsLine /\ L!RoomForNext
    BY DEF LineInv, L!LinesKept
<1>1. L!RoomForNext
    BY DEF LineInv, LineShape, L!RoomForNext, L!Listening
<1>2. ASSUME atPc \in {"process", "transmit"}
      PROVE  /\ at.rxIndex <= AtSize /\ at.rxBuffer[0] = 1 /\ at.rxBuffer[1] = 2
             /\ {i \in 2 .. at.rxIndex - 1 : at.rxBuffer[i - 1] = 3 /\ at.rxBuffer[i] = 4}
                  = {at.rxIndex - 1}
  <2>1. at.rxReadyToEvaluate /\ at.rxIndex # 0 /\ at.rxIndex \in 0 .. AtSize
      BY <1>2 DEF LineInv, LineHeld, LineTypes, AtFields
  <2>2. /\ at.rxIndex >= 3 /\ at.rxBuffer[0] = 1 /\ at.rxBuffer[1] = 2
        /\ at.rxBuffer[at.rxIndex - 2] = 3 /\ at.rxBuffer[at.rxIndex - 1] = 4
        /\ \A i \in 2 .. at.rxIndex - 2 : ~ (at.rxBuffer[i - 1] = 3 /\ at.rxBuffer[i] = 4)
      BY <2>1 DEF LineInv, LineShape
  <2> QED BY <2>1, <2>2, AtAssumption
<1> QED BY <1>1, <1>2 DEF L!HandedIsLine

-----------------------------------------------------------------------------
(* The three in one run. *)

(* commodbus hands over only frames commodbusBuildFrame would make for this  *)
(* device, settles every frame it ended and every run of bytes it dropped,   *)
(* and ends none on less silence than it was given; comat hands over whole   *)
(* lines that fit its buffer, each with the ticks of its budget, and         *)
(* transmits the reply to the line it was handed.                            *)
THEOREM FramesAreKept == ReceiversSpec => []FramesKept
<1>1. ReceiversInit => ModbusInv /\ LineInv
    BY ModbusInitOK, LineInitOK DEF ReceiversInit
<1>2. ModbusInv /\ LineInv /\ [ReceiversNext]_receiverVars => (ModbusInv /\ LineInv)'
    BY ModbusStep, LineStep DEF ReceiversNext, StxEtx, Modbus, At, receiverVars
<1>3. ModbusInv /\ LineInv => FramesKept
    BY ModbusHandsBuilt, LineIsKept DEF FramesKept, M!FramesKept, ModbusInv
<1> QED BY <1>1, <1>2, <1>3, PTL DEF ReceiversSpec

(* The behaviours of the run are ones of comstxetx, which may stand still,   *)
(* so that the theorems about it speak of them too.                          *)
LEMMA StxEtxAtWork == ReceiversSpec => Spec
<1>1. ReceiversInit => Init
    BY DEF ReceiversInit
<1>2. [ReceiversNext]_receiverVars => [Next]_vars
    BY DEF ReceiversNext, StxEtx, Modbus, At, receiverVars
<1> QED BY <1>1, <1>2, PTL DEF ReceiversSpec, Spec

-----------------------------------------------------------------------------
(* comstxetx on the line (module StxEtxLink). *)

(* What a sequence of sequences comes to, piece by piece. *)
LEMMA Pieces ==
    ASSUME NEW B, NEW pieces \in Seq(Seq(B)), Len(pieces) # 0
    PROVE  \E upto \in [0 .. Len(pieces) -> Seq(B)] :
             /\ upto[0] = <<>> /\ upto[Len(pieces)] = FlattenSeq(pieces)
             /\ \A i \in 1 .. Len(pieces) : upto[i] = upto[i - 1] \o pieces[i]
<1> DEFINE n == Len(pieces)
           Joins(f, m) == f = [i \in 1 .. m |-> IF i = 1 THEN pieces[i] ELSE f[i - 1] \o pieces[i]]
           Joined == {m \in Nat : \E f : Joins(f, m)}
<1>1. n \in Nat \ {0} /\ \A i \in 1 .. n : pieces[i] \in Seq(B)
    OBVIOUS
<1>2. 0 \in Joined
  <2>1. Joins(<<>>, 0)
      OBVIOUS
  <2> QED BY <2>1
<1>3. ASSUME NEW m \in Nat, m \in Joined PROVE m + 1 \in Joined
  <2>1. PICK f : Joins(f, m)
      BY <1>3
  <2> DEFINE g == [i \in 1 .. m + 1 |-> IF i <= m THEN f[i]
                                        ELSE IF i = 1 THEN pieces[i] ELSE f[i - 1] \o pieces[i]]
  <2>2. ASSUME NEW i \in 1 .. m + 1
        PROVE  g[i] = IF i = 1 THEN pieces[i] ELSE g[i - 1] \o pieces[i]
    <3>1. CASE i <= m
      <4>1. i \in 1 .. m /\ g[i] = f[i]
          BY <3>1
      <4>2. f[i] = IF i = 1 THEN pieces[i] ELSE f[i - 1] \o pieces[i]
          BY <2>1, <4>1
      <4>3. i # 1 => g[i - 1] = f[i - 1]
          BY <4>1
      <4> QED BY <4>1, <4>2, <4>3
    <3>2. CASE i = m + 1
      <4>1. g[i] = IF i = 1 THEN pieces[i] ELSE f[i - 1] \o pieces[i]
          BY <3>2
      <4>2. i # 1 => g[i - 1] = f[i - 1]
          BY <3>2
      <4> QED BY <4>1, <4>2
    <3> QED BY <3>1, <3>2
  <2>3. Joins(g, m + 1)
    <3>1. g = [i \in 1 .. m + 1 |-> g[i]]
        OBVIOUS
    <3> HIDE DEF g
    <3>2. [i \in 1 .. m + 1 |-> g[i]]
            = [i \in 1 .. m + 1 |-> IF i = 1 THEN pieces[i] ELSE g[i - 1] \o pieces[i]]
        BY <2>2
    <3> QED BY <3>1, <3>2
  <2> HIDE DEF g, Joins
  <2>4. \E h : Joins(h, m + 1)
      BY <2>3
  <2> QED BY <2>4
<1>4. \E f : Joins(f, n)
  <2> HIDE DEF Joined
  <2>1. \A m \in Nat : m \in Joined
      BY <1>2, <1>3, CountingUp
  <2> QED BY <1>1, <2>1 DEF Joined
<1> DEFINE whole == CHOOSE f : Joins(f, n)
<1>5. Joins(whole, n)
    BY <1>4
<1>6. FlattenSeq(pieces) = whole[n]
    BY <1>1 DEF FlattenSeq
<1> HIDE DEF whole
<1> DEFINE upto == [i \in 0 .. n |-> IF i = 0 THEN <<>> ELSE whole[i]]
<1>7. /\ upto[0] = <<>> /\ upto[n] = FlattenSeq(pieces)
    BY <1>1, <1>6
<1>8. \A i \in 1 .. n : upto[i] = IF i = 1 THEN pieces[i] ELSE upto[i - 1] \o pieces[i]
  <2>1. ASSUME NEW i \in 1 .. n
        PROVE  upto[i] = IF i = 1 THEN pieces[i] ELSE upto[i - 1] \o pieces[i]
    <3>1. whole[i] = IF i = 1 THEN pieces[i] ELSE whole[i - 1] \o pieces[i]
        BY <1>5
    <3>2. upto[i] = whole[i] /\ (i # 1 => upto[i - 1] = whole[i - 1])
        BY <1>1
    <3> QED BY <3>1, <3>2
  <2> QED BY <2>1
<1>9. DOMAIN upto = 0 .. n /\ upto = [i \in 0 .. n |-> upto[i]]
    OBVIOUS
<1> HIDE DEF upto
<1>10. \A i \in 1 .. n : upto[i] = upto[i - 1] \o pieces[i]
  <2>1. <<>> \o pieces[1] = pieces[1]
      BY <1>1
  <2>2. ASSUME NEW i \in 1 .. n, i = 1 PROVE upto[i] = upto[i - 1] \o pieces[i]
    <3>1. upto[i] = pieces[1] /\ upto[i - 1] = <<>>
        BY <1>7, <1>8, <2>2
    <3> QED BY <2>1, <2>2, <3>1
  <2>3. ASSUME NEW i \in 1 .. n, i # 1 PROVE upto[i] = upto[i - 1] \o pieces[i]
      BY <1>8, <2>3
  <2> QED BY <2>2, <2>3
<1> DEFINE Sequences == {m \in Nat : m <= n => upto[m] \in Seq(B)}
<1>11. 0 \in Sequences
  <2>1. <<>> \in Seq(B)
      OBVIOUS
  <2>2. upto[0] \in Seq(B)
      BY <1>7, <2>1
  <2> QED BY <2>2
<1>12. ASSUME NEW m \in Nat, m \in Sequences PROVE m + 1 \in Sequences
  <2>1. SUFFICES ASSUME m + 1 <= n PROVE upto[m + 1] \in Seq(B)
      BY <1>12
  <2>2. m + 1 \in 1 .. n /\ upto[m] \in Seq(B) /\ (m + 1) - 1 = m
      BY <1>1, <1>12, <2>1
  <2>3. upto[m + 1] = upto[m] \o pieces[m + 1]
      BY <1>10, <2>2
  <2> QED BY <1>1, <2>2, <2>3
<1>13. \A m \in Nat : m \in Sequences
  <2> HIDE DEF Sequences
  <2> QED BY <1>11, <1>12, CountingUp
<1>14. upto \in [0 .. n -> Seq(B)]
    BY <1>1, <1>9, <1>13
<1> QED BY <1>7, <1>10, <1>14

(* Where the bytes of q begin in its escaped form. *)
ArePlaces(q, place) ==
    /\ place \in [0 .. Len(q) -> Nat] /\ place[0] = 0 /\ place[Len(q)] = Len(EscapeAll(q))
    /\ \A j \in 1 .. Len(q) :
         /\ place[j] = place[j - 1] + Len(Escape(q[j])) /\ place[j] <= Len(EscapeAll(q))
         /\ \A k \in 1 .. Len(Escape(q[j])) : EscapeAll(q)[place[j - 1] + k] = Escape(q[j])[k]

Places(q) == CHOOSE place : ArePlaces(q, place)

LEMMA EscapeIs ==
    ASSUME NEW b \in Byte
    PROVE  Escape(b) \in Seq(Byte) /\ Len(Escape(b)) \in 1 .. 2
BY FramingAssumption DEF Escape

LEMMA PlacesAre ==
    ASSUME NEW q \in Seq(Byte), Len(q) # 0
    PROVE  EscapeAll(q) \in Seq(Byte) /\ ArePlaces(q, Places(q))
<1> DEFINE n == Len(q)
           pieces == [i \in DOMAIN q |-> Escape(q[i])]
<1>1. n \in Nat \ {0} /\ DOMAIN q = 1 .. n /\ \A i \in 1 .. n : q[i] \in Byte
    OBVIOUS
<1>2. pieces \in Seq(Seq(Byte)) /\ Len(pieces) = n
  <2>1. \A i \in 1 .. n : Escape(q[i]) \in Seq(Byte)
      BY <1>1, EscapeIs
  <2> QED BY <1>1, <2>1
<1>3. PICK upto \in [0 .. n -> Seq(Byte)] :
        /\ upto[0] = <<>> /\ upto[n] = FlattenSeq(pieces)
        /\ \A i \in 1 .. n : upto[i] = upto[i - 1] \o pieces[i]
  <2> HIDE DEF pieces
  <2>1. Len(pieces) # 0
      BY <1>1, <1>2
  <2>2. \E upto \in [0 .. Len(pieces) -> Seq(Byte)] :
          /\ upto[0] = <<>> /\ upto[Len(pieces)] = FlattenSeq(pieces)
          /\ \A i \in 1 .. Len(pieces) : upto[i] = upto[i - 1] \o pieces[i]
      BY <1>2, <2>1, Pieces
  <2> QED BY <1>2, <2>2
<1>4. /\ upto[0] = <<>> /\ upto[n] = EscapeAll(q)
      /\ \A i \in 1 .. n : upto[i] = upto[i - 1] \o Escape(q[i])
    BY <1>1, <1>3 DEF EscapeAll
<1>5. \A i \in 0 .. n : upto[i] \in Seq(Byte) /\ Len(upto[i]) \in Nat
    BY <1>3
<1> HIDE DEF pieces
<1> DEFINE Begins(s, t) == Len(s) <= Len(t) /\ \A k \in 1 .. Len(s) : t[k] = s[k]
           Reached == {m \in Nat : \A j \in 0 .. n : j + m <= n => Begins(upto[j], upto[j + m])}
<1>6. 0 \in Reached
  <2>1. ASSUME NEW j \in 0 .. n PROVE Begins(upto[j], upto[j + 0])
      BY <1>5
  <2> QED BY <2>1
<1>7. ASSUME NEW m \in Nat, m \in Reached PROVE m + 1 \in Reached
  <2>1. ASSUME NEW j \in 0 .. n, j + (m + 1) <= n PROVE Begins(upto[j], upto[j + (m + 1)])
    <3>1. j + m \in 0 .. n /\ j + m <= n /\ j + (m + 1) \in 1 .. n /\ (j + (m + 1)) - 1 = j + m
        BY <1>1, <2>1
    <3>2. Begins(upto[j], upto[j + m])
        BY <1>7, <3>1
    <3>3. upto[j + (m + 1)] = upto[j + m] \o Escape(q[j + (m + 1)])
        BY <1>4, <3>1
    <3>4. /\ Escape(q[j + (m + 1)]) \in Seq(Byte) /\ upto[j] \in Seq(Byte)
          /\ upto[j + m] \in Seq(Byte)
        BY <1>1, <1>5, <3>1, EscapeIs
    <3>5. ASSUME NEW s \in Seq(Byte), NEW t \in Seq(Byte), NEW e \in Seq(Byte), Begins(s, t)
          PROVE  Begins(s, t \o e)
      <4>1. Len(s) \in Nat /\ Len(t) \in Nat /\ Len(e) \in Nat /\ Len(t \o e) = Len(t) + Len(e)
          OBVIOUS
      <4>2. ASSUME NEW k \in 1 .. Len(s) PROVE (t \o e)[k] = s[k]
        <5>1. k \in 1 .. Len(t) /\ t[k] = s[k]
            BY <3>5, <4>1
        <5> QED BY <4>1, <5>1
      <4> QED BY <3>5, <4>1, <4>2
    <3> HIDE DEF Begins
    <3> QED BY <3>2, <3>3, <3>4, <3>5
  <2> HIDE DEF Begins
  <2> QED BY <2>1
<1>8. ASSUME NEW j \in 0 .. n PROVE Begins(upto[j], upto[n])
  <2>1. n - j \in Nat /\ j + (n - j) = n
      BY <1>1
  <2>2. \A m \in Nat : m \in Reached
    <3> HIDE DEF Reached
    <3> QED BY <1>6, <1>7, CountingUp
  <2>3. n - j \in Reached
      BY <2>1, <2>2
  <2> HIDE DEF Begins
  <2> QED BY <1>1, <2>1, <2>3
<1> DEFINE place == [j \in 0 .. n |-> Len(upto[j])]
<1>9. ASSUME NEW j \in 1 .. n
      PROVE  /\ place[j] = place[j - 1] + Len(Escape(q[j])) /\ place[j] <= Len(EscapeAll(q))
             /\ \A k \in 1 .. Len(Escape(q[j])) : EscapeAll(q)[place[j - 1] + k] = Escape(q[j])[k]
  <2>1. /\ j \in 0 .. n /\ j - 1 \in 0 .. n /\ upto[j] = upto[j - 1] \o Escape(q[j])
        /\ Escape(q[j]) \in Seq(Byte) /\ upto[j - 1] \in Seq(Byte) /\ upto[j] \in Seq(Byte)
      BY <1>1, <1>4, <1>5, EscapeIs
  <2>2. place[j] = Len(upto[j]) /\ place[j - 1] = Len(upto[j - 1])
      BY <2>1
  <2>3. Begins(upto[j], EscapeAll(q))
      BY <1>4, <1>8, <2>1
  <2>4. Len(upto[j]) = Len(upto[j - 1]) + Len(Escape(q[j]))
      BY <2>1
  <2>5. ASSUME NEW k \in 1 .. Len(Escape(q[j]))
        PROVE  EscapeAll(q)[place[j - 1] + k] = Escape(q[j])[k]
    <3>1. Len(upto[j - 1]) + k \in 1 .. Len(upto[j])
        BY <2>1, <2>4
    <3>2. upto[j][Len(upto[j - 1]) + k] = Escape(q[j])[k]
        BY <2>1
    <3> QED BY <2>2, <2>3, <3>1, <3>2
  <2> QED BY <2>2, <2>3, <2>4, <2>5
<1>10. place \in [0 .. n -> Nat] /\ place[0] = 0 /\ place[n] = Len(EscapeAll(q))
    BY <1>1, <1>4, <1>5
<1>11. ArePlaces(q, place)
  <2> HIDE DEF place
  <2> QED BY <1>9, <1>10 DEF ArePlaces
<1>12. \E a : ArePlaces(q, a)
    BY <1>11
<1>13. EscapeAll(q) \in Seq(Byte)
    BY <1>1, <1>4, <1>5
<1> QED BY <1>12, <1>13 DEF Places

LEMMA FrameIs ==
    ASSUME NEW p \in Payloads
    PROVE  /\ Checked(p) \in Seq(Byte) /\ Len(Checked(p)) = Len(p) + ChecksumSize
           /\ Len(p) \in Nat /\ Len(Checked(p)) # 0
           /\ EscapeAll(Checked(p)) \in Seq(Byte) /\ Frame(p) \in Seq(Byte)
           /\ Len(Frame(p)) = Len(EscapeAll(Checked(p))) + 2
           /\ Frame(p)[1] = stx /\ Frame(p)[Len(Frame(p))] = etx
           /\ \A i \in 1 .. Len(EscapeAll(Checked(p))) : Frame(p)[i + 1] = EscapeAll(Checked(p))[i]
<1>1. /\ p \in Seq(Byte) /\ Checksum(p) \in Seq(Byte) /\ Len(Checksum(p)) = ChecksumSize
      /\ stx \in Byte /\ etx \in Byte
    BY LinkAssumption, FramingAssumption
<1>2. /\ Checked(p) \in Seq(Byte) /\ Len(Checked(p)) = Len(p) + ChecksumSize /\ Len(p) \in Nat
      /\ Len(Checked(p)) # 0
  <2>1. Len(p) \in Nat /\ p \o Checksum(p) \in Seq(Byte)
      BY <1>1
  <2>2. Len(p \o Checksum(p)) = Len(p) + Len(Checksum(p))
      BY <1>1, ConcatProperties
  <2> QED BY <1>1, <2>1, <2>2 DEF Checked, ChecksumSize
<1>3. EscapeAll(Checked(p)) \in Seq(Byte)
    BY <1>2, PlacesAre
<1> QED BY <1>1, <1>2, <1>3 DEF Frame

(* The bytes of a sequence from one on. *)
LEMMA FromOn ==
    ASSUME NEW s \in Seq(Byte), NEW k \in 1 .. Len(s)
    PROVE  LET from == SubSeq(s, k, Len(s))
           IN  from # <<>> /\ Head(from) = s[k] /\ Tail(from) = SubSeq(s, k + 1, Len(s))
<1>1. k \in Int /\ Len(s) \in Int /\ k <= Len(s) /\ \A i \in k .. Len(s) : s[i] \in Byte
    OBVIOUS
<1>2. /\ SubSeq(s, k, Len(s)) \in Seq(Byte) /\ Len(SubSeq(s, k, Len(s))) = Len(s) - k + 1
    BY <1>1, SubSeqProperties
<1>3. SubSeq(s, k, Len(s)) # <<>>
    BY <1>1, <1>2
<1> QED BY <1>1, <1>3, HeadTailOfSubSeq

-----------------------------------------------------------------------------
(* The receiver follows a clean frame byte by byte: what it has stored is    *)
(* the beginning of the packet and its check, what is on the wire the rest.  *)
Packet == sent[Len(sent)]
Whole == Checked(Packet)
OnWire(index, escape) ==
    SubSeq(Frame(Packet), Places(Whole)[index] + (IF escape THEN 3 ELSE 2), Len(Frame(Packet)))

LineOK ==
    /\ wire \in Seq(Byte) /\ sent \in Seq(Payloads)
    /\ sent = <<>> => wire = <<>> /\ ~ clean

FollowsFrame ==
    clean /\ FitsRx(Packet) =>
      /\ pc \notin {"clearOpen", "clearEscape", "clearReady"}
      /\ rxIndex \in 0 .. Len(Whole) /\ \A i \in 1 .. rxIndex : rxBuffer[i - 1] = Whole[i]
      /\ rxReadyToEvaluate => wire = <<>> /\ rxIndex = Len(Whole)
      /\ ~ rxReadyToEvaluate => rxFrameOpen /\ wire = OnWire(rxIndex, rxEscape)
      /\ ~ rxReadyToEvaluate /\ rxEscape
           => rxIndex < Len(Whole) /\ Whole[rxIndex + 1] \in {stx, etx, dle}

OnLineInv == ReceiverInv /\ LineOK /\ FollowsFrame

LEMMA PacketIs ==
    ASSUME LineOK, sent # <<>>
    PROVE  Packet \in Payloads
<1>1. sent \in Seq(Payloads) /\ Len(sent) \in 1 .. Len(sent)
    BY DEF LineOK
<1> QED BY <1>1 DEF Packet

(* Its STX. *)
LEMMA FollowsStart ==
    ASSUME ReceiverInv, LineOK, wire # <<>>, Receive(Head(wire)), wire' = Tail(wire),
           AtFrameStart, InStep, sent' = sent
    PROVE  FollowsFrame'
<1>1. Packet \in Payloads
    BY PacketIs DEF LineOK
<1> DEFINE F == Frame(Packet)
<1>2. /\ wire = F /\ F \in Seq(Byte) /\ Len(F) = Len(EscapeAll(Whole)) + 2 /\ F[1] = stx
      /\ Len(Whole) \in Nat /\ ArePlaces(Whole, Places(Whole)) /\ Len(EscapeAll(Whole)) \in Nat
    BY <1>1, FrameIs, PlacesAre DEF AtFrameStart, Packet, Whole
<1>3. Head(wire) = stx /\ Tail(wire) = SubSeq(F, 2, Len(F))
    BY <1>2
<1>4. /\ rxIndex' = 0 /\ rxFrameOpen' = TRUE /\ rxEscape' = FALSE
      /\ rxReadyToEvaluate' = FALSE /\ pc' = pc
    BY <1>3, FramingAssumption
       DEF InStep, Receive, Ignore, OpenFrame, StoreEscaped, StorePlain, EscapeNext,
           CompleteFrame, RestartFrame, Hunting, Collecting, ReceiverInv, TypeOK
<1>5. pc \notin {"clearOpen", "clearEscape", "clearReady"}
    BY DEF InStep, ReceiverInv, Guarded
<1>6. Places(Whole)[0] = 0
    BY <1>2 DEF ArePlaces
<1>7. Packet' = Packet /\ Whole' = Whole /\ OnWire(rxIndex, rxEscape)' = SubSeq(F, 2, Len(F))
    BY <1>4, <1>6 DEF Packet, Whole, OnWire
<1> QED BY <1>2, <1>3, <1>4, <1>5, <1>7 DEF FollowsFrame

(* What comstxetxReceive does of a byte inside a frame. *)
LEMMA Collects ==
    ASSUME ReceiverInv, Collecting, NEW b, Receive(b)
    PROVE  /\ pc' = pc
           /\ ~ rxEscape /\ b = dle =>
                /\ rxEscape' = TRUE /\ UNCHANGED <<rxBuffer, rxIndex, rxFrameOpen, rxReadyToEvaluate>>
           /\ ~ rxEscape /\ b = etx =>
                /\ rxReadyToEvaluate' = TRUE /\ UNCHANGED <<rxBuffer, rxIndex, rxFrameOpen, rxEscape>>
           /\ (rxEscape \/ b \notin {stx, etx, dle}) /\ ~ Fills(rxIndex) =>
                /\ rxBuffer' = [rxBuffer EXCEPT ![rxIndex] = b] /\ rxIndex' = rxIndex + 1
                /\ rxEscape' = FALSE /\ UNCHANGED <<rxFrameOpen, rxReadyToEvaluate>>
<1>1. pc' = pc
    BY DEF Receive
<1>2. ~ Ignore(b) /\ ~ OpenFrame(b)
    BY DEF Collecting, Ignore, OpenFrame, Hunting
<1>3. ASSUME ~ rxEscape, b = dle PROVE EscapeNext(b)
    BY <1>2, <1>3, FramingAssumption
       DEF Receive, StoreEscaped, StorePlain, CompleteFrame, RestartFrame
<1>4. ASSUME ~ rxEscape, b = etx PROVE CompleteFrame(b)
    BY <1>2, <1>4, FramingAssumption
       DEF Receive, StoreEscaped, StorePlain, EscapeNext, RestartFrame
<1>5. ASSUME rxEscape \/ b \notin {stx, etx, dle} PROVE Store(b)
    BY <1>2, <1>5
       DEF Receive, StoreEscaped, StorePlain, EscapeNext, CompleteFrame, RestartFrame
<1> QED BY <1>1, <1>3, <1>4, <1>5 DEF EscapeNext, CompleteFrame, Store

(* Where a byte of the frame stands on the wire: after the bytes before it,  *)
(* or after its own DLE.                                                     *)
AtByte(j, escape) ==
    /\ j \in 0 .. Len(Whole) /\ escape \in BOOLEAN
    /\ escape => j < Len(Whole) /\ Whole[j + 1] \in {stx, etx, dle}
    /\ wire = OnWire(j, escape)

(* What comes next on the wire, and what is left after it. *)
Advances(j, escape) ==
    /\ wire # <<>>
    /\ escape => Head(wire) = Whole[j + 1] /\ Tail(wire) = OnWire(j + 1, FALSE)
    /\ ~ escape /\ j < Len(Whole) /\ Whole[j + 1] \in {stx, etx, dle}
         => Head(wire) = dle /\ Tail(wire) = OnWire(j, TRUE)
    /\ ~ escape /\ j < Len(Whole) /\ Whole[j + 1] \notin {stx, etx, dle}
         => Head(wire) = Whole[j + 1] /\ Tail(wire) = OnWire(j + 1, FALSE)
    /\ ~ escape /\ j = Len(Whole) => Head(wire) = etx /\ Tail(wire) = <<>>

LEMMA WireAdvances ==
    ASSUME Packet \in Payloads, NEW j, NEW escape, AtByte(j, escape)
    PROVE  Advances(j, escape)
<1> DEFINE q == Whole
           F == Frame(Packet)
           n == Len(q)
           place == Places(q)
<1>2. /\ q \in Seq(Byte) /\ n \in Nat /\ n # 0 /\ ArePlaces(q, place)
      /\ EscapeAll(q) \in Seq(Byte) /\ F \in Seq(Byte) /\ Len(F) = Len(EscapeAll(q)) + 2
      /\ Len(EscapeAll(q)) \in Nat /\ F[Len(F)] = etx
      /\ \A i \in 1 .. Len(EscapeAll(q)) : F[i + 1] = EscapeAll(q)[i]
    BY FrameIs, PlacesAre DEF Whole
<1>3. /\ wire = OnWire(j, escape) /\ j \in 0 .. n /\ escape \in BOOLEAN
      /\ escape => j < n /\ q[j + 1] \in {stx, etx, dle}
    BY DEF AtByte
<1>7. ASSUME NEW k \in 1 .. Len(F), NEW m, m = k + 1, wire = SubSeq(F, k, Len(F))
      PROVE  wire # <<>> /\ Head(wire) = F[k] /\ Tail(wire) = SubSeq(F, m, Len(F))
    BY <1>2, <1>7, FromOn
<1>8. /\ place[j] \in Nat /\ place[n] = Len(EscapeAll(q))
      /\ j < n => /\ place[j + 1] = place[j] + Len(Escape(q[j + 1]))
                  /\ place[j + 1] <= Len(EscapeAll(q))
                  /\ \A k \in 1 .. Len(Escape(q[j + 1])) :
                       EscapeAll(q)[place[j] + k] = Escape(q[j + 1])[k]
  <2>1. place[j] \in Nat /\ place[n] = Len(EscapeAll(q))
      BY <1>2, <1>3 DEF ArePlaces
  <2>2. j < n => j + 1 \in 1 .. n /\ (j + 1) - 1 = j
      BY <1>2, <1>3
  <2> QED BY <1>2, <2>1, <2>2 DEF ArePlaces
<1>9. \A i \in 0 .. n : OnWire(i, TRUE) = SubSeq(F, place[i] + 3, Len(F))
                        /\ OnWire(i, FALSE) = SubSeq(F, place[i] + 2, Len(F))
    BY DEF OnWire
<1>a. /\ Len(F) \in Nat /\ Len(F) = place[n] + 2 /\ place[n] \in Nat /\ place[j] \in Nat
      /\ \A i \in 1 .. place[n] : F[i + 1] = EscapeAll(q)[i]
    BY <1>2, <1>8
<1>b. ASSUME j < n, NEW m, m = place[j + 1] + 2 PROVE SubSeq(F, m, Len(F)) = OnWire(j + 1, FALSE)
  <2>1. j + 1 \in 0 .. n
      BY <1>2, <1>3, <1>b
  <2> QED BY <1>9, <1>b, <2>1
<1>c. ASSUME wire # <<>>,
             escape => Head(wire) = q[j + 1] /\ Tail(wire) = OnWire(j + 1, FALSE),
             ~ escape /\ j < n /\ q[j + 1] \in {stx, etx, dle}
               => Head(wire) = dle /\ Tail(wire) = OnWire(j, TRUE),
             ~ escape /\ j < n /\ q[j + 1] \notin {stx, etx, dle}
               => Head(wire) = q[j + 1] /\ Tail(wire) = OnWire(j + 1, FALSE),
             ~ escape /\ j = n => Head(wire) = etx /\ Tail(wire) = <<>>
      PROVE  Advances(j, escape)
    BY <1>c DEF Advances
<1> HIDE DEF q, F, place, n
<1>12. CASE j < n /\ q[j + 1] \notin {stx, etx, dle}
  <2>2. Escape(q[j + 1]) = <<q[j + 1]>> /\ ~ escape
      BY <1>3, <1>12 DEF Escape
  <2>3. Len(Escape(q[j + 1])) = 1 /\ Escape(q[j + 1])[1] = q[j + 1]
      BY <2>2
  <2>4. /\ place[j + 1] = place[j] + 1 /\ place[j] + 1 <= place[n]
        /\ EscapeAll(q)[place[j] + 1] = q[j + 1]
      BY <1>8, <1>12, <2>3
  <2>5. place[j] + 2 \in 1 .. Len(F) /\ F[(place[j] + 1) + 1] = q[j + 1]
      BY <1>a, <2>4
  <2>6. (place[j] + 1) + 1 = place[j] + 2 /\ place[j] + 3 = (place[j] + 2) + 1
      BY <1>a
  <2>7. wire = SubSeq(F, place[j] + 2, Len(F))
      BY <1>3, <1>9, <2>2
  <2>8. wire # <<>> /\ Head(wire) = q[j + 1] /\ Tail(wire) = SubSeq(F, place[j] + 3, Len(F))
      BY <1>7, <2>5, <2>6, <2>7
  <2>9. place[j] + 3 = place[j + 1] + 2
      BY <1>a, <2>4
  <2>10. Tail(wire) = OnWire(j + 1, FALSE)
      BY <1>b, <1>12, <2>8, <2>9
  <2>11. j # n
      BY <1>2, <1>3, <1>12
  <2> QED BY <1>c, <1>12, <2>2, <2>8, <2>10, <2>11, Zenon
<1>13. CASE j < n /\ q[j + 1] \in {stx, etx, dle}
  <2>2. Escape(q[j + 1]) = <<dle, q[j + 1]>>
      BY <1>13 DEF Escape
  <2>3. /\ Len(Escape(q[j + 1])) = 2
        /\ Escape(q[j + 1])[1] = dle /\ Escape(q[j + 1])[2] = q[j + 1]
      BY <2>2
  <2>4. /\ place[j + 1] = place[j] + 2 /\ place[j] + 2 <= place[n]
        /\ EscapeAll(q)[place[j] + 1] = dle /\ EscapeAll(q)[place[j] + 2] = q[j + 1]
      BY <1>8, <1>13, <2>3
  <2>5. /\ place[j] + 2 \in 1 .. Len(F) /\ F[(place[j] + 1) + 1] = dle
        /\ place[j] + 3 \in 1 .. Len(F) /\ F[(place[j] + 2) + 1] = q[j + 1]
    <3>1. place[j] + 1 \in 1 .. place[n] /\ place[j] + 2 \in 1 .. place[n]
        BY <1>a, <2>4
    <3>2. F[(place[j] + 1) + 1] = dle /\ F[(place[j] + 2) + 1] = q[j + 1]
        BY <1>a, <2>4, <3>1
    <3> QED BY <1>a, <3>1, <3>2
  <2>6. /\ (place[j] + 1) + 1 = place[j] + 2 /\ place[j] + 3 = (place[j] + 2) + 1
        /\ place[j] + 4 = (place[j] + 3) + 1 /\ (place[j] + 2) + 1 = place[j] + 3
      BY <1>a
  <2>7. CASE escape
    <3>1. wire = SubSeq(F, place[j] + 3, Len(F))
        BY <1>3, <1>9, <2>7
    <3>2. wire # <<>> /\ Head(wire) = q[j + 1] /\ Tail(wire) = SubSeq(F, place[j] + 4, Len(F))
        BY <1>7, <2>5, <2>6, <3>1
    <3>3. place[j] + 4 = place[j + 1] + 2
        BY <1>a, <2>4
    <3>4. Tail(wire) = OnWire(j + 1, FALSE)
        BY <1>b, <1>13, <3>2, <3>3
    <3> QED BY <1>c, <2>7, <3>2, <3>4
  <2>8. CASE ~ escape
    <3>1. wire = SubSeq(F, place[j] + 2, Len(F))
        BY <1>3, <1>9, <2>8
    <3>2. wire # <<>> /\ Head(wire) = dle /\ Tail(wire) = SubSeq(F, place[j] + 3, Len(F))
        BY <1>7, <2>5, <2>6, <3>1
    <3>3. Tail(wire) = OnWire(j, TRUE)
        BY <1>3, <1>9, <3>2
    <3>4. j # n
        BY <1>2, <1>3, <1>13
    <3> QED BY <1>c, <1>13, <2>8, <3>2, <3>3, <3>4, Zenon
  <2> QED BY <2>7, <2>8, <1>3
<1>14. CASE j = n
  <2>1. ~ escape
      BY <1>2, <1>3, <1>14
  <2>2. wire = SubSeq(F, place[j] + 2, Len(F))
      BY <1>3, <1>9, <2>1
  <2>3. place[j] + 2 = Len(F) /\ Len(F) \in 1 .. Len(F)
      BY <1>a, <1>14
  <2>4. wire # <<>> /\ Head(wire) = etx /\ Tail(wire) = SubSeq(F, Len(F) + 1, Len(F))
      BY <1>2, <1>7, <2>2, <2>3
  <2>5. Tail(wire) = <<>>
      BY <1>a, <2>4, SubSeqEmpty
  <2>6. ~ j < n
      BY <1>2, <1>3, <1>14
  <2> QED BY <1>c, <1>14, <2>1, <2>4, <2>5, <2>6, Zenon
<1> QED BY <1>2, <1>3, <1>12, <1>13, <1>14

(* A byte of the frame, its ETX included. *)
LEMMA FollowsByte ==
    ASSUME ReceiverInv, LineOK, FollowsFrame, wire # <<>>, Receive(Head(wire)),
           wire' = Tail(wire), clean, FitsRx(Packet), sent' = sent
    PROVE  FollowsFrame'
<1> DEFINE q == Whole
           n == Len(q)
           j == rxIndex
<1>1. Packet \in Payloads
    BY PacketIs DEF LineOK
<1>2. /\ q \in Seq(Byte) /\ n \in Nat /\ n < rxSize /\ rxSize \in Nat
    BY <1>1, FrameIs, SizeAssumption DEF Whole, FitsRx
<1>3. /\ ~ rxReadyToEvaluate /\ rxFrameOpen /\ wire = OnWire(j, rxEscape)
      /\ j \in 0 .. n /\ \A i \in 1 .. j : rxBuffer[i - 1] = q[i]
      /\ rxEscape => j < n /\ q[j + 1] \in {stx, etx, dle}
      /\ pc \notin {"clearOpen", "clearEscape", "clearReady"}
      /\ rxBuffer \in [0 .. rxSize - 1 -> Byte] /\ rxEscape \in BOOLEAN
    BY DEF FollowsFrame, ReceiverInv, TypeOK
<1>4. Collecting
    BY <1>3 DEF Collecting
<1>5. Packet' = Packet /\ Whole' = Whole
    BY DEF Packet, Whole
<1>6. Advances(j, rxEscape)
  <2>1. AtByte(j, rxEscape)
      BY <1>3 DEF AtByte
  <2> QED BY <1>1, <2>1, WireAdvances
<1>10. OnWire(rxIndex, rxEscape)' = OnWire(rxIndex', rxEscape')
    BY <1>5 DEF OnWire
<1> HIDE DEF q
<1>11. CASE j < n /\ (rxEscape \/ q[j + 1] \notin {stx, etx, dle})
  <2> DEFINE b == q[j + 1]
  <2>0. b \in Byte /\ Head(wire) = b /\ wire' = OnWire(j + 1, FALSE)
      BY <1>2, <1>3, <1>6, <1>11 DEF Advances, q
  <2>1. ~ Fills(rxIndex)
      BY <1>2, <1>3, <1>11 DEF Fills
  <2>2. /\ rxBuffer' = [rxBuffer EXCEPT ![j] = b] /\ rxIndex' = j + 1 /\ rxEscape' = FALSE
        /\ rxFrameOpen' /\ ~ rxReadyToEvaluate' /\ pc' = pc
      BY <1>3, <1>4, <1>11, <2>0, <2>1, Collects
  <2>3. ASSUME NEW i \in 1 .. j + 1 PROVE rxBuffer'[i - 1] = q[i]
    <3>1. j \in 0 .. rxSize - 1 /\ i - 1 \in 0 .. rxSize - 1
        BY <1>2, <1>3, <1>11
    <3>2. CASE i = j + 1
      <4>1. i - 1 = j
          BY <1>2, <1>3, <3>2
      <4> QED BY <1>3, <2>2, <3>1, <3>2, <4>1
    <3>3. CASE i # j + 1
      <4>1. i \in 1 .. j /\ i - 1 # j
          BY <1>2, <1>3, <3>3
      <4> QED BY <1>3, <2>2, <3>1, <4>1
    <3> QED BY <3>2, <3>3
  <2>4. rxIndex' \in 0 .. n /\ \A i \in 1 .. rxIndex' : rxBuffer'[i - 1] = q[i]
      BY <1>2, <1>3, <1>11, <2>2, <2>3
  <2> QED BY <1>3, <1>5, <1>10, <2>0, <2>2, <2>4 DEF FollowsFrame, q
<1>13. CASE j < n /\ ~ rxEscape /\ q[j + 1] \in {stx, etx, dle}
  <2>1. Head(wire) = dle /\ wire' = OnWire(j, TRUE)
      BY <1>6, <1>13 DEF Advances, q
  <2>2. /\ rxEscape' = TRUE /\ pc' = pc
        /\ UNCHANGED <<rxBuffer, rxIndex, rxFrameOpen, rxReadyToEvaluate>>
      BY <1>4, <1>13, <2>1, Collects
  <2> QED BY <1>3, <1>5, <1>10, <1>13, <2>1, <2>2 DEF FollowsFrame, q
<1>14. CASE j = n
  <2>1. ~ rxEscape
      BY <1>2, <1>3, <1>14
  <2>2. Head(wire) = etx /\ wire' = <<>>
      BY <1>6, <1>14, <2>1 DEF Advances, q
  <2>3. /\ rxReadyToEvaluate' = TRUE /\ pc' = pc
        /\ UNCHANGED <<rxBuffer, rxIndex, rxFrameOpen, rxEscape>>
      BY <1>4, <2>1, <2>2, Collects
  <2> QED BY <1>3, <1>5, <1>14, <2>2, <2>3 DEF FollowsFrame, q
<1> QED BY <1>2, <1>3, <1>11, <1>13, <1>14

(* The steps that leave the frame as it stands. *)
LEMMA FollowsOn ==
    ASSUME FollowsFrame, clean' => clean, sent' = sent, wire' = wire,
           clean => /\ pc' \notin {"clearOpen", "clearEscape", "clearReady"}
                    /\ UNCHANGED <<rxBuffer, rxIndex, rxFrameOpen, rxEscape, rxReadyToEvaluate>>
    PROVE  FollowsFrame'
<1>1. Packet' = Packet /\ Whole' = Whole
    BY DEF Packet, Whole
<1>2. ASSUME clean PROVE OnWire(rxIndex, rxEscape)' = OnWire(rxIndex, rxEscape)
  <2>1. rxIndex' = rxIndex /\ rxEscape' = rxEscape /\ sent' = sent
      BY <1>2
  <2> QED BY <2>1, Zenon DEF OnWire, Packet, Whole
<1> QED BY <1>1, <1>2 DEF FollowsFrame, FitsRx

LEMMA OnLineStep ==
    ASSUME OnLineInv, [LinkNext]_linkVars
    PROVE  OnLineInv'
<1> USE DEF OnLineInv
<1>1. wire # <<>> => Head(wire) \in Byte /\ Tail(wire) \in Seq(Byte)
    BY DEF LineOK
<1>2. ReceiverInv'
  <2>1. [Next]_vars
    BY <1>1 DEF LinkNext, linkVars, BuildFrame, Arrive, Lose, Garble, Insert, Tick, HandOver,
                EvaluateOther, Next, Evaluate
  <2> QED BY <2>1, ReceiveOK, TimeoutCounterOK, EvaluateOK, StutterOK DEF Next
<1>3. CASE \E p \in Payloads : BuildFrame(p)
  <2>1. PICK p \in Payloads : BuildFrame(p)
      BY <1>3
  <2>2. wire' = Frame(p) /\ sent' = Append(sent, p) /\ ~ clean'
      BY <2>1 DEF BuildFrame
  <2>3. Frame(p) \in Seq(Byte)
      BY FrameIs
  <2>4. sent' \in Seq(Payloads) /\ sent' # <<>>
      BY <2>2 DEF LineOK
  <2> QED BY <1>2, <2>2, <2>3, <2>4 DEF LineOK, FollowsFrame
<1>4. CASE Lose \/ Garble \/ Insert
  <2>1. sent' = sent /\ ~ clean' /\ wire' \in {wire, Tail(wire)} /\ (wire' = wire \/ wire # <<>>)
      BY <1>4 DEF Lose, Garble, Insert, Note
  <2> QED BY <1>1, <1>2, <2>1 DEF LineOK, FollowsFrame
<1>5. CASE Arrive
  <2>1. /\ wire # <<>> /\ Receive(Head(wire)) /\ wire' = Tail(wire) /\ sent' = sent
        /\ clean' = (IF AtFrameStart THEN InStep ELSE clean)
      BY <1>5 DEF Arrive, Note
  <2>2. LineOK'
      BY <1>1, <2>1 DEF LineOK
  <2>3. CASE AtFrameStart /\ InStep
      BY <1>2, <2>1, <2>2, <2>3, FollowsStart
  <2>4. CASE clean /\ FitsRx(Packet)
      BY <1>2, <2>1, <2>2, <2>4, FollowsByte
  <2>5. CASE ~ clean' \/ ~ FitsRx(Packet)
    <3>1. FitsRx(Packet)' = FitsRx(Packet)
        BY <2>1 DEF FitsRx, Packet
    <3> QED BY <1>2, <2>2, <2>5, <3>1 DEF FollowsFrame
  <2> QED BY <2>1, <2>3, <2>4, <2>5
<1>6. CASE Tick
  <2>1. /\ TimeoutCounter /\ sent' = sent /\ wire' = wire /\ clean' = (clean /\ ~ Overdue)
      BY <1>6 DEF Tick, Note
  <2>2. CASE Overdue
      BY <1>2, <2>1, <2>2 DEF LineOK, FollowsFrame
  <2>3. CASE ~ Overdue
    <3>1. UNCHANGED <<pc, rxBuffer, rxIndex, rxFrameOpen, rxEscape, rxReadyToEvaluate>>
        BY <2>1, <2>3 DEF TimeoutCounter
    <3>2. ~ (clean /\ FitsRx(Packet)) \/ pc \notin {"clearOpen", "clearEscape", "clearReady"}
        BY DEF FollowsFrame
    <3>3. FollowsFrame'
        BY <2>1, <2>3, <3>1, <3>2 DEF FollowsFrame, OnWire, Packet, Whole, FitsRx
    <3> QED BY <1>2, <2>1, <3>3 DEF LineOK
  <2> QED BY <2>2, <2>3
<1>7. CASE HandOver \/ EvaluateOther
  <2>1. /\ sent' = sent /\ wire' = wire
        /\ clean' => clean
        /\ PacketProcess \/ (Evaluate /\ pc # "process" /\ (clean' => pc # "clearIndex"))
    <3>1. CASE HandOver
      <4>1. PacketProcess /\ UNCHANGED <<wire, sent, clean>>
          BY <3>1 DEF HandOver
      <4> QED BY <4>1, Zenon
    <3>2. CASE EvaluateOther
      <4>1. Evaluate /\ pc # "process" /\ UNCHANGED <<wire, sent>>
          BY <3>2 DEF EvaluateOther
      <4>2. clean' = (clean /\ pc # "clearIndex")
          BY <3>2 DEF EvaluateOther
      <4> QED BY <4>1, <4>2, Zenon
    <3> QED BY <1>7, <3>1, <3>2
  <2>2. LineOK'
      BY <2>1 DEF LineOK
  <2>3. CASE PacketProcess \/ EvaluateBegin \/ ClearTimer
    <3>1. /\ pc' \notin {"clearOpen", "clearEscape", "clearReady"}
          /\ UNCHANGED <<rxBuffer, rxIndex, rxFrameOpen, rxEscape, rxReadyToEvaluate>>
        BY <2>3 DEF PacketProcess, EvaluateBegin, ClearTimer, shared
    <3> QED BY <1>2, <2>1, <2>2, <3>1, FollowsOn
  <2>4. CASE pc \in {"clearIndex", "clearOpen", "clearEscape", "clearReady"}
    <3>1. clean' => (clean /\ pc # "clearIndex")
        BY <2>1, <2>4 DEF PacketProcess
    <3>2. FitsRx(Packet)' = FitsRx(Packet)
        BY <2>1 DEF FitsRx, Packet
    <3> QED BY <1>2, <2>2, <2>4, <3>1, <3>2 DEF FollowsFrame
  <2> QED BY <2>1, <2>3, <2>4
        DEF Evaluate, ClearIndex, ClearOpen, ClearEscape, ClearReady
<1>8. CASE UNCHANGED linkVars
  <2>1. UNCHANGED <<vars, wire, sent, clean>>
      BY <1>8 DEF linkVars
  <2>2. UNCHANGED <<pc, rxBuffer, rxIndex, rxFrameOpen, rxEscape, rxReadyToEvaluate>>
      BY <2>1 DEF vars, shared
  <2>3. FollowsFrame'
      BY <2>1, <2>2 DEF FollowsFrame, OnWire, Packet, Whole, FitsRx
  <2> QED BY <1>2, <2>1, <2>3 DEF LineOK
<1> QED BY <1>3, <1>4, <1>5, <1>6, <1>7, <1>8 DEF LinkNext

(* A packet that starts on a receiver in step, for every alphabet, buffer    *)
(* size and check, whatever bytes it is made of and whatever noise, time-out *)
(* or overflow came before it, stands whole in rxBuffer with its check when  *)
(* its ETX has arrived.                                                      *)
THEOREM CleanFramesArrive == LinkSpec => []CleanFrameArrives
<1>1. LinkInit => OnLineInv
  <2> SUFFICES ASSUME LinkInit PROVE OnLineInv
      OBVIOUS
  <2>1. ReceiverInv
      BY InitReceiver DEF LinkInit
  <2>2. LineOK /\ FollowsFrame
      BY DEF LinkInit, LineOK, FollowsFrame
  <2> QED BY <2>1, <2>2 DEF OnLineInv
<1>2. OnLineInv => CleanFrameArrives
  <2> SUFFICES ASSUME OnLineInv, clean, wire = <<>>, FitsRx(Packet)
               PROVE  rxReadyToEvaluate /\ Stored = Whole
      BY DEF CleanFrameArrives, Packet, Whole
  <2>1. Packet \in Payloads
      BY PacketIs DEF OnLineInv, LineOK
  <2>2. /\ Whole \in Seq(Byte) /\ Len(Whole) \in Nat /\ ArePlaces(Whole, Places(Whole))
        /\ Frame(Packet) \in Seq(Byte) /\ Len(Frame(Packet)) = Len(EscapeAll(Whole)) + 2
        /\ Len(EscapeAll(Whole)) \in Nat
      BY <2>1, FrameIs, PlacesAre DEF Whole
  <2>3. rxReadyToEvaluate
    <3>1. SUFFICES ASSUME ~ rxReadyToEvaluate PROVE FALSE
        OBVIOUS
    <3>2. /\ rxIndex \in 0 .. Len(Whole) /\ wire = OnWire(rxIndex, rxEscape)
          /\ rxEscape => rxIndex < Len(Whole) /\ Whole[rxIndex + 1] \in {stx, etx, dle}
        BY <3>1 DEF OnLineInv, FollowsFrame
    <3>3. PICK k \in 1 .. Len(Frame(Packet)) :
            OnWire(rxIndex, rxEscape) = SubSeq(Frame(Packet), k, Len(Frame(Packet)))
      <4>1. CASE rxEscape
        <5>1. Len(Escape(Whole[rxIndex + 1])) = 2
            BY <3>2, <4>1 DEF Escape
        <5>2. rxIndex + 1 \in 1 .. Len(Whole) /\ (rxIndex + 1) - 1 = rxIndex
            BY <2>2, <3>2, <4>1
        <5>3. /\ Places(Whole)[rxIndex] \in Nat
              /\ Places(Whole)[rxIndex] + 2 <= Len(EscapeAll(Whole))
            BY <2>2, <3>2, <5>1, <5>2 DEF ArePlaces
        <5>4. Places(Whole)[rxIndex] + 3 \in 1 .. Len(Frame(Packet))
            BY <2>2, <5>3
        <5> QED BY <4>1, <5>4 DEF OnWire
      <4>2. CASE ~ rxEscape
        <5>1. /\ Places(Whole)[rxIndex] \in Nat
              /\ Places(Whole)[rxIndex] <= Len(EscapeAll(Whole))
          <6>1. CASE rxIndex = 0
              BY <2>2, <6>1 DEF ArePlaces
          <6>2. CASE rxIndex # 0
            <7>1. rxIndex \in 1 .. Len(Whole) /\ rxIndex \in 0 .. Len(Whole)
                BY <2>2, <3>2, <6>2
            <7> QED BY <2>2, <7>1 DEF ArePlaces
          <6> QED BY <6>1, <6>2
        <5>2. Places(Whole)[rxIndex] + 2 \in 1 .. Len(Frame(Packet))
            BY <2>2, <5>1
        <5> QED BY <4>2, <5>2 DEF OnWire
      <4> QED BY <4>1, <4>2
    <3> QED BY <2>2, <3>2, <3>3, FromOn
  <2>4. rxIndex = Len(Whole) /\ \A i \in 1 .. rxIndex : rxBuffer[i - 1] = Whole[i]
      BY <2>3 DEF OnLineInv, FollowsFrame
  <2>5. Stored = Whole
      BY <2>2, <2>4 DEF Stored
  <2> QED BY <2>3, <2>5
<1> QED BY <1>1, <1>2, OnLineStep, PTL DEF LinkSpec

-----------------------------------------------------------------------------
(* While the line makes no fault.  Whatever the receiver was doing when the  *)
(* frame began, the wire carries the stuffing of the rest of it, and an open *)
(* receiver has stored what came after the STX it opened at: the one of the  *)
(* frame, or one among its data, which travels behind a DLE like the rest.   *)
MayBegin(p, start) ==
    start \in 0 .. Len(Checked(p)) /\ (start = 0 \/ Checked(p)[start] = stx)
Joined(p, start) ==
    MayBegin(p, start) /\ \A i \in 1 .. rxIndex : rxBuffer[i - 1] = Checked(p)[start + i]

WireOK ==
    wire # <<>> =>
      /\ sent # <<>>
      /\ wire = Frame(Packet) \/ \E j \in Nat, escape \in BOOLEAN : AtByte(j, escape)
InSync ==
    Collecting =>
      /\ sent # <<>>
      /\ \E start \in Nat : Joined(Packet, start) /\ AtByte(start + rxIndex, rxEscape)
Holding ==
    rxReadyToEvaluate /\ pc \in {"idle", "process", "clearTimer"} =>
      /\ last < held
      /\ \E start \in Nat : /\ Joined(sent[held], start)
                            /\ rxIndex = Len(Checked(sent[held])) - start
Numbered ==
    held \in 0 .. Len(sent) /\ last \in 0 .. held /\ (wire # <<>> => held < Len(sent))
Closed == pc \in {"clearEscape", "clearReady"} => ~ rxFrameOpen

NoFaultInv == WireOK /\ InSync /\ Holding /\ Numbered
ChannelInv ==
    ReceiverInv /\ LineOK /\ Closed /\ faults \in Nat /\ (faults = 0 => NoFaultInv)

LEMMA ClosedStep ==
    ASSUME ReceiverInv, Closed, [Next]_vars
    PROVE  Closed'
<1>1. CASE \E b \in Byte : Receive(b)
  <2>1. PICK b \in Byte : Receive(b)
      BY <1>1
  <2>2. pc' = pc /\ (rxReadyToEvaluate => UNCHANGED shared)
      BY <2>1 DEF Receive, Ignore, OpenFrame, StoreEscaped, StorePlain, EscapeNext,
                  CompleteFrame, RestartFrame, Hunting, Collecting
  <2> QED BY <2>2 DEF Closed, ReceiverInv, Guarded, shared
<1>2. CASE TimeoutCounter
    BY <1>2 DEF TimeoutCounter, Terminate, Closed, Pending
<1>3. CASE Evaluate
    BY <1>3 DEF Evaluate, EvaluateBegin, PacketProcess, ClearIndex, ClearOpen, ClearEscape,
                ClearReady, ClearTimer, Closed
<1>4. CASE UNCHANGED vars
    BY <1>4 DEF vars, shared, Closed
<1> QED BY <1>1, <1>2, <1>3, <1>4 DEF Next

(* A byte leaves the wire.  If it is an STX, what is left is the stuffing of *)
(* a tail that a receiver may begin with.                                    *)
LEMMA WireOn ==
    ASSUME LineOK, WireOK, wire # <<>>, wire' = Tail(wire), sent' = sent
    PROVE  /\ WireOK'
           /\ Head(wire) = stx =>
                \E start \in Nat : MayBegin(Packet, start) /\ AtByte(start, FALSE)'
<1>1. sent # <<>> /\ Packet \in Payloads
    BY PacketIs DEF LineOK
<1>2. Packet' = Packet /\ Whole' = Whole /\ Whole = Checked(Packet)
    BY DEF Packet, Whole
<1>3. /\ Whole \in Seq(Byte) /\ Len(Whole) \in Nat /\ Len(Whole) # 0
      /\ ArePlaces(Whole, Places(Whole)) /\ Len(EscapeAll(Whole)) \in Nat
      /\ Frame(Packet) \in Seq(Byte) /\ Len(Frame(Packet)) = Len(EscapeAll(Whole)) + 2
      /\ Frame(Packet)[1] = stx
    BY <1>1, FrameIs, PlacesAre DEF Whole
<1>4. ASSUME NEW j \in Nat, NEW e \in BOOLEAN, j <= Len(Whole),
             e => j < Len(Whole) /\ Whole[j + 1] \in {stx, etx, dle}, Tail(wire) = OnWire(j, e)
      PROVE  AtByte(j, e)'
  <2>1. OnWire(j, e)' = OnWire(j, e)
      BY <1>2 DEF OnWire
  <2>2. j \in 0 .. Len(Whole)
      BY <1>3, <1>4
  <2> QED BY <1>2, <1>4, <2>1, <2>2 DEF AtByte
<1>5. ASSUME NEW j \in Nat, NEW e \in BOOLEAN, AtByte(j, e)' PROVE WireOK'
    BY <1>1, <1>5 DEF WireOK
<1>6. CASE wire = Frame(Packet)
  <2>1. Places(Whole)[0] = 0
      BY <1>3 DEF ArePlaces
  <2>2. Head(wire) = stx /\ Tail(wire) = SubSeq(Frame(Packet), 2, Len(Frame(Packet)))
      BY <1>3, <1>6
  <2>3. Tail(wire) = OnWire(0, FALSE)
      BY <2>1, <2>2 DEF OnWire
  <2>a. 0 \in Nat /\ 0 <= Len(Whole)
      BY <1>3
  <2>4. AtByte(0, FALSE)'
      BY <1>4, <2>3, <2>a, Zenon
  <2>5. MayBegin(Packet, 0)
      BY <1>2, <1>3 DEF MayBegin
  <2> QED BY <1>5, <2>4, <2>5
<1>7. CASE \E j \in Nat, e \in BOOLEAN : AtByte(j, e)
  <2>1. PICK j \in Nat, e \in BOOLEAN : AtByte(j, e)
      BY <1>7
  <2>2. Advances(j, e) /\ j \in 0 .. Len(Whole)
        /\ (e => j < Len(Whole) /\ Whole[j + 1] \in {stx, etx, dle})
      BY <1>1, <2>1, WireAdvances DEF AtByte
  <2>3. CASE e \/ (j < Len(Whole) /\ Whole[j + 1] \notin {stx, etx, dle})
    <3>1. j < Len(Whole) /\ Head(wire) = Whole[j + 1] /\ Tail(wire) = OnWire(j + 1, FALSE)
        BY <2>2, <2>3 DEF Advances
    <3>2. j + 1 \in Nat /\ j + 1 <= Len(Whole)
        BY <1>3, <3>1
    <3>3. AtByte(j + 1, FALSE)'
        BY <1>4, <3>1, <3>2
    <3>4. Head(wire) = stx => MayBegin(Packet, j + 1)
        BY <1>2, <1>3, <3>1, <3>2 DEF MayBegin
    <3> QED BY <1>5, <3>2, <3>3, <3>4
  <2>4. CASE ~ e /\ j < Len(Whole) /\ Whole[j + 1] \in {stx, etx, dle}
    <3>1. Head(wire) = dle /\ Tail(wire) = OnWire(j, TRUE)
        BY <2>2, <2>4 DEF Advances
    <3>a. j <= Len(Whole)
        BY <1>3, <2>4
    <3>2. AtByte(j, TRUE)'
        BY <1>4, <2>4, <3>1, <3>a, Zenon
    <3> QED BY <1>5, <3>1, <3>2, FramingAssumption
  <2>5. CASE ~ e /\ j = Len(Whole)
    <3>1. Head(wire) = etx /\ Tail(wire) = <<>>
        BY <2>2, <2>5 DEF Advances
    <3> QED BY <3>1, FramingAssumption DEF WireOK
  <2>6. j < Len(Whole) \/ j = Len(Whole)
      BY <1>3, <2>2
  <2> QED BY <2>2, <2>3, <2>4, <2>5, <2>6, Zenon
<1> QED BY <1>1, <1>6, <1>7 DEF WireOK

(* A byte at a receiver that has a frame open. *)
LEMMA CollectsByte ==
    ASSUME ReceiverInv, LineOK, WireOK, InSync, Numbered, Collecting, wire # <<>>,
           Receive(Head(wire)), wire' = Tail(wire), sent' = sent, last' = last,
           held' = IF rxReadyToEvaluate' /\ ~ rxReadyToEvaluate THEN Len(sent) ELSE held
    PROVE  NoFaultInv'
<1>1. sent # <<>> /\ Packet \in Payloads /\ Len(sent) \in Nat
    BY PacketIs DEF LineOK, InSync
<1>2. Packet' = Packet /\ Whole' = Whole /\ Whole = Checked(Packet)
    BY DEF Packet, Whole
<1>3. Whole \in Seq(Byte) /\ Len(Whole) \in Nat
    BY <1>1, FrameIs DEF Whole
<1>4. PICK start \in Nat : Joined(Packet, start) /\ AtByte(start + rxIndex, rxEscape)
    BY DEF InSync
<1>j. PICK j : j = start + rxIndex
    OBVIOUS
<1>5. /\ rxIndex \in 0 .. rxSize - 1 /\ rxSize \in Nat /\ j \in 0 .. Len(Whole)
      /\ rxBuffer \in [0 .. rxSize - 1 -> Byte] /\ rxEscape \in BOOLEAN
      /\ ~ rxReadyToEvaluate /\ rxFrameOpen
      /\ rxEscape => j < Len(Whole) /\ Whole[j + 1] \in {stx, etx, dle}
    BY <1>4, <1>j, SizeAssumption DEF ReceiverInv, TypeOK, AtByte, Collecting
<1>6. Advances(j, rxEscape)
    BY <1>1, <1>4, <1>j, WireAdvances
<1>7. WireOK'
    BY WireOn
<1>8. ASSUME NEW i, NEW e, OnWire(i, e) = Tail(wire) PROVE OnWire(i, e)' = wire'
    BY <1>2, <1>8 DEF OnWire
<1>9. MayBegin(Packet', start) /\ \A i \in 1 .. rxIndex : rxBuffer[i - 1] = Whole[start + i]
    BY <1>2, <1>4 DEF Joined
<1>10. Numbered /\ held \in 0 .. Len(sent) /\ last \in 0 .. held /\ held < Len(sent)
    BY DEF Numbered
<1>11. CASE j < Len(Whole) /\ (rxEscape \/ Whole[j + 1] \notin {stx, etx, dle})
  <2> DEFINE b == Whole[j + 1]
  <2>1. b \in Byte /\ Head(wire) = b /\ wire' = OnWire(j + 1, FALSE) /\ j + 1 \in 0 .. Len(Whole)
      BY <1>3, <1>5, <1>6, <1>11 DEF Advances
  <2>2. Store(b)
      BY <1>5, <1>11, <2>1 DEF Receive, Ignore, OpenFrame, StoreEscaped, StorePlain, EscapeNext,
                               CompleteFrame, RestartFrame, Hunting, Collecting
  <2>3. rxReadyToEvaluate' = FALSE /\ held' = held
      BY <1>5, <2>2 DEF Store
  <2>4. Numbered' /\ Holding'
      BY <1>10, <2>3 DEF Numbered, Holding
  <2>5. CASE Fills(rxIndex)
    <3>1. rxFrameOpen' = FALSE
        BY <2>2, <2>5 DEF Store, Terminate
    <3> QED BY <1>7, <2>4, <3>1 DEF NoFaultInv, InSync, Collecting
  <2>6. CASE ~ Fills(rxIndex)
    <3>1. /\ rxBuffer' = [rxBuffer EXCEPT ![rxIndex] = b] /\ rxIndex' = rxIndex + 1
          /\ rxEscape' = FALSE
        BY <2>2, <2>6 DEF Store
    <3>2. ASSUME NEW i \in 1 .. rxIndex + 1 PROVE rxBuffer'[i - 1] = Whole[start + i]
      <4>1. CASE i = rxIndex + 1
        <5>1. i - 1 = rxIndex /\ start + i = j + 1
            BY <1>5, <1>j, <4>1
        <5> QED BY <1>5, <3>1, <5>1
      <4>2. CASE i # rxIndex + 1
        <5>1. i \in 1 .. rxIndex /\ i - 1 # rxIndex /\ i - 1 \in 0 .. rxSize - 1
            BY <1>5, <4>2
        <5> QED BY <1>5, <1>9, <3>1, <5>1
      <4> QED BY <4>1, <4>2
    <3>3. Joined(Packet, start)'
        BY <1>2, <1>5, <1>9, <3>1, <3>2 DEF Joined
    <3>4. start + rxIndex' = j + 1
        BY <1>5, <1>j, <3>1
    <3>5. AtByte(start + rxIndex, rxEscape)'
      <4>1. OnWire(j + 1, FALSE)' = wire'
          BY <1>8, <2>1
      <4> QED BY <1>2, <2>1, <3>1, <3>4, <4>1 DEF AtByte
    <3>6. InSync'
        BY <1>1, <3>3, <3>5 DEF InSync
    <3> QED BY <1>7, <2>4, <3>6 DEF NoFaultInv
  <2> QED BY <2>5, <2>6
<1>12. CASE j < Len(Whole) /\ ~ rxEscape /\ Whole[j + 1] \in {stx, etx, dle}
  <2>1. Head(wire) = dle /\ wire' = OnWire(j, TRUE)
      BY <1>6, <1>12 DEF Advances
  <2>2. /\ rxEscape' = TRUE
        /\ UNCHANGED <<rxBuffer, rxIndex, rxFrameOpen, rxReadyToEvaluate>>
      BY <1>12, <2>1, Collects
  <2>3. held' = held /\ rxReadyToEvaluate' = FALSE
      BY <1>5, <2>2
  <2>4. Numbered' /\ Holding'
      BY <1>10, <2>3 DEF Numbered, Holding
  <2>5. Joined(Packet, start)'
      BY <1>2, <1>9, <2>2 DEF Joined
  <2>6. AtByte(start + rxIndex, rxEscape)'
    <3>1. OnWire(j, TRUE)' = wire'
        BY <1>8, <2>1
    <3> QED BY <1>2, <1>5, <1>12, <1>j, <2>2, <3>1 DEF AtByte
  <2>7. InSync'
      BY <1>1, <2>5, <2>6 DEF InSync
  <2> QED BY <1>7, <2>4, <2>7 DEF NoFaultInv
<1>13. CASE j = Len(Whole)
  <2>1. ~ rxEscape
      BY <1>3, <1>5, <1>13
  <2>2. Head(wire) = etx /\ wire' = <<>>
      BY <1>6, <1>13, <2>1 DEF Advances
  <2>3. rxReadyToEvaluate' = TRUE /\ UNCHANGED <<rxBuffer, rxIndex>>
      BY <2>1, <2>2, Collects
  <2>4. held' = Len(sent) /\ sent'[held'] = Packet
      BY <1>5, <2>3 DEF Packet
  <2>5. Numbered' /\ last' < held'
      BY <1>1, <1>10, <2>2, <2>4 DEF Numbered
  <2>6. Joined(sent[held], start)'
      BY <1>2, <1>9, <2>3, <2>4 DEF Joined
  <2>7. rxIndex' = Len(Checked(sent'[held'])) - start
    <3>1. Checked(sent'[held']) = Whole
        BY <1>2, <2>4
    <3>2. rxIndex' = Len(Whole) - start
        BY <1>3, <1>5, <1>13, <1>j, <2>3
    <3> QED BY <3>1, <3>2
  <2>8. Holding' /\ InSync'
      BY <2>3, <2>5, <2>6, <2>7 DEF Holding, InSync, Collecting
  <2> QED BY <1>7, <2>5, <2>8 DEF NoFaultInv
<1>14. j < Len(Whole) \/ j = Len(Whole)
    BY <1>3, <1>5
<1> QED BY <1>11, <1>12, <1>13, <1>14, Zenon

(* A byte at one that has none, or that holds a complete one. *)
LEMMA OpensByte ==
    ASSUME ReceiverInv, LineOK, NoFaultInv, ~ Collecting, wire # <<>>,
           Receive(Head(wire)), wire' = Tail(wire), sent' = sent, last' = last,
           held' = IF rxReadyToEvaluate' /\ ~ rxReadyToEvaluate THEN Len(sent) ELSE held
    PROVE  NoFaultInv'
<1> USE DEF NoFaultInv
<1>1. sent # <<>> /\ Packet \in Payloads /\ Len(sent) \in Nat
    BY PacketIs DEF LineOK, WireOK
<1>2. Packet' = Packet
    BY DEF Packet
<1>3. /\ WireOK'
      /\ Head(wire) = stx =>
           \E start \in Nat : MayBegin(Packet, start) /\ AtByte(start, FALSE)'
    BY WireOn
<1>4. held \in 0 .. Len(sent) /\ last \in 0 .. held /\ held < Len(sent)
    BY DEF Numbered
<1>5. CASE Ignore(Head(wire))
  <2>1. /\ UNCHANGED <<rxBuffer, rxIndex, rxFrameOpen, rxReadyToEvaluate>> /\ pc' = pc
        /\ held' = held
      BY <1>5 DEF Ignore, Receive, shared
  <2>2. InSync'
      BY <2>1 DEF InSync, Collecting
  <2>3. Holding'
      BY <2>1 DEF Holding, Joined
  <2> QED BY <1>3, <1>4, <2>1, <2>2, <2>3 DEF Numbered
<1>6. CASE OpenFrame(Head(wire))
  <2>1. /\ Head(wire) = stx /\ rxIndex' = 0 /\ rxEscape' = FALSE
        /\ rxReadyToEvaluate' = FALSE /\ held' = held
      BY <1>6 DEF OpenFrame, Hunting, ReceiverInv, TypeOK
  <2>2. PICK start \in Nat : MayBegin(Packet, start) /\ AtByte(start, FALSE)'
      BY <1>3, <2>1
  <2>3. start + rxIndex' = start
      BY <2>1
  <2>4. AtByte(start + rxIndex, rxEscape)'
      BY <2>1, <2>2, <2>3 DEF AtByte
  <2>5. Joined(Packet, start)'
      BY <1>2, <2>1, <2>2 DEF Joined
  <2>6. InSync'
      BY <1>1, <2>4, <2>5 DEF InSync
  <2> QED BY <1>3, <1>4, <2>1, <2>6 DEF Numbered, Holding
<1> QED BY <1>5, <1>6 DEF Receive, StoreEscaped, StorePlain, EscapeNext, CompleteFrame, RestartFrame

(* Steps of the tick and of Evaluate leave the wire alone. *)
LEMMA MainLoopHolds ==
    ASSUME ReceiverInv, LineOK, Closed, NoFaultInv, sent' = sent, wire' = wire,
           held' = (IF rxReadyToEvaluate' /\ ~ rxReadyToEvaluate THEN Len(sent) ELSE held),
           \/ TimeoutCounter /\ last' = last
           \/ PacketProcess /\ last' = held
           \/ Evaluate /\ pc # "process" /\ last' = last
    PROVE  NoFaultInv'
<1> USE DEF NoFaultInv
<1>1. Packet' = Packet /\ Whole' = Whole
    BY DEF Packet, Whole
<1>2. \A j, e : AtByte(j, e)' <=> AtByte(j, e)
  <2>1. \A j, e : OnWire(j, e)' = OnWire(j, e)
      BY <1>1 DEF OnWire
  <2> QED BY <1>1, <2>1 DEF AtByte
<1>3. WireOK'
    BY <1>1, <1>2 DEF WireOK
<1>4. Numbered /\ held \in Nat /\ last \in Nat /\ Len(sent) \in Nat
    BY DEF Numbered, LineOK
<1>5. ASSUME UNCHANGED <<rxBuffer, rxIndex, rxFrameOpen, rxEscape, rxReadyToEvaluate>>
      PROVE  InSync'
    BY <1>1, <1>2, <1>5 DEF InSync, Collecting, Joined
<1>6. ASSUME ~ Collecting' PROVE InSync'
    BY <1>6 DEF InSync
<1>7. ASSUME UNCHANGED <<rxBuffer, rxIndex, rxReadyToEvaluate>>, last' = last,
             pc' \in {"idle", "process", "clearTimer"}
                => pc \in {"idle", "process", "clearTimer"}
      PROVE  Holding'
    BY <1>7 DEF Holding, Joined
<1>8. ASSUME rxReadyToEvaluate' => rxReadyToEvaluate, last' = last PROVE Numbered'
    BY <1>4, <1>8 DEF Numbered
<1>9. CASE TimeoutCounter /\ last' = last
  <2>1. ~ rxReadyToEvaluate /\ UNCHANGED <<rxReadyToEvaluate, rxBuffer, pc>>
      BY <1>9 DEF TimeoutCounter, Pending
  <2>2. CASE Overdue
    <3>1. ~ rxFrameOpen'
        BY <1>9, <2>2 DEF TimeoutCounter, Terminate
    <3> QED BY <1>3, <1>6, <1>8, <1>9, <2>1, <3>1 DEF Collecting, Holding
  <2>3. CASE ~ Overdue
    <3>1. UNCHANGED <<rxFrameOpen, rxEscape, rxIndex>>
        BY <1>9, <2>3 DEF TimeoutCounter
    <3> QED BY <1>3, <1>5, <1>7, <1>8, <1>9, <2>1, <3>1
  <2> QED BY <2>2, <2>3
<1>10. CASE PacketProcess /\ last' = held
  <2>1. rxReadyToEvaluate /\ rxReadyToEvaluate' = rxReadyToEvaluate /\ pc' = "clearIndex"
      BY <1>10 DEF PacketProcess, shared, ReceiverInv, Guarded
  <2>2. Numbered'
      BY <1>4, <1>10, <2>1 DEF Numbered
  <2> QED BY <1>3, <1>6, <2>1, <2>2 DEF Collecting, Holding
<1>11. CASE Evaluate /\ pc # "process" /\ last' = last
  <2>1. CASE EvaluateBegin
    <3>1. UNCHANGED <<rxBuffer, rxIndex, rxFrameOpen, rxEscape, rxReadyToEvaluate>> /\ pc = "idle"
        BY <2>1 DEF EvaluateBegin, shared
    <3> QED BY <1>3, <1>5, <1>7, <1>8, <1>11, <3>1
  <2>2. CASE ClearIndex \/ ClearOpen \/ ClearEscape
    <3>1. /\ rxReadyToEvaluate /\ rxReadyToEvaluate' = rxReadyToEvaluate
          /\ pc' \in {"clearOpen", "clearEscape", "clearReady"}
        BY <2>2 DEF ClearIndex, ClearOpen, ClearEscape, ReceiverInv, Guarded
    <3> QED BY <1>3, <1>6, <1>8, <1>11, <3>1 DEF Collecting, Holding
  <2>3. CASE ClearReady
    <3>1. ~ rxReadyToEvaluate' /\ ~ rxFrameOpen'
        BY <2>3 DEF ClearReady, Closed
    <3> QED BY <1>3, <1>6, <1>8, <1>11, <3>1 DEF Collecting, Holding
  <2>4. CASE ClearTimer
    <3>1. /\ UNCHANGED <<rxBuffer, rxIndex, rxFrameOpen, rxEscape, rxReadyToEvaluate>>
          /\ pc = "clearTimer"
        BY <2>4 DEF ClearTimer
    <3> QED BY <1>3, <1>5, <1>7, <1>8, <1>11, <3>1
  <2> QED BY <1>11, <2>1, <2>2, <2>3, <2>4 DEF Evaluate, PacketProcess
<1> QED BY <1>9, <1>10, <1>11

LEMMA ChannelStep ==
    ASSUME ChannelInv, [LinkNext]_linkVars
    PROVE  ChannelInv'
<1> USE DEF ChannelInv
<1>1. wire # <<>> => Head(wire) \in Byte /\ Tail(wire) \in Seq(Byte)
    BY DEF LineOK
<1>2. [Next]_vars
    BY <1>1 DEF LinkNext, linkVars, BuildFrame, Arrive, Lose, Garble, Insert, Tick, HandOver,
                EvaluateOther, Next, Evaluate
<1>3. ReceiverInv' /\ Closed'
    BY <1>2, ReceiveOK, TimeoutCounterOK, EvaluateOK, StutterOK, ClosedStep DEF Next
<1>4. ASSUME sent' = sent, wire' = wire \/ (wire # <<>> /\ wire' = Tail(wire)),
             clean' => clean \/ wire # <<>>
      PROVE  LineOK'
    BY <1>1, <1>4 DEF LineOK
<1>5. CASE \E p \in Payloads : BuildFrame(p)
  <2>1. PICK p \in Payloads : BuildFrame(p)
      BY <1>5
  <2>2. /\ wire = <<>> /\ wire' = Frame(p) /\ sent' = Append(sent, p) /\ ~ clean'
        /\ faults' = faults /\ held' = held /\ last' = last
        /\ UNCHANGED <<rxBuffer, rxIndex, rxFrameOpen, rxEscape, rxReadyToEvaluate, pc>>
      BY <2>1 DEF BuildFrame, vars, shared
  <2>3. Frame(p) \in Seq(Byte) /\ sent \in Seq(Payloads) /\ Len(sent) \in Nat
      BY FrameIs DEF LineOK
  <2>4. /\ sent' \in Seq(Payloads) /\ sent' # <<>> /\ Len(sent') = Len(sent) + 1
        /\ Packet' = p /\ \A i \in 1 .. Len(sent) : sent'[i] = sent[i]
      BY <2>2, <2>3 DEF Packet
  <2>5. LineOK'
      BY <2>2, <2>3, <2>4 DEF LineOK
  <2>6. ASSUME faults = 0 PROVE NoFaultInv'
    <3> USE <2>6 DEF NoFaultInv
    <3>1. ~ Collecting
      <4>1. SUFFICES ASSUME Collecting PROVE FALSE
          OBVIOUS
      <4>2. PICK start \in Nat : AtByte(start + rxIndex, rxEscape)
          BY <4>1 DEF InSync
      <4>3. Packet \in Payloads
          BY <4>1, PacketIs DEF InSync
      <4> QED BY <2>2, <4>2, <4>3, WireAdvances DEF Advances
    <3>2. InSync'
        BY <2>2, <3>1 DEF InSync, Collecting
    <3>3. WireOK'
        BY <2>2, <2>4 DEF WireOK
    <3>4. Numbered'
        BY <2>2, <2>3, <2>4 DEF Numbered
    <3>5. rxReadyToEvaluate /\ pc \in {"idle", "process", "clearTimer"}
            => held \in 1 .. Len(sent) /\ sent'[held'] = sent[held]
        BY <2>2, <2>3, <2>4 DEF Numbered, Holding
    <3>6. Holding'
        BY <2>2, <3>5 DEF Holding, Joined
    <3> QED BY <3>2, <3>3, <3>4, <3>6
  <2> QED BY <1>3, <2>2, <2>5, <2>6
<1>6. CASE Lose \/ Garble \/ Insert
  <2>1. /\ sent' = sent /\ ~ clean' /\ faults' = faults + 1
        /\ wire' = wire \/ (wire # <<>> /\ wire' = Tail(wire))
      BY <1>6 DEF Lose, Garble, Insert, Note, Fault
  <2>2. faults' \in Nat /\ faults' # 0
      BY <2>1
  <2> QED BY <1>3, <1>4, <2>1, <2>2
<1>7. CASE Arrive
  <2>1. /\ wire # <<>> /\ Receive(Head(wire)) /\ wire' = Tail(wire) /\ sent' = sent
        /\ last' = last /\ faults' = faults
        /\ held' = IF rxReadyToEvaluate' /\ ~ rxReadyToEvaluate THEN Len(sent) ELSE held
      BY <1>7 DEF Arrive, Note
  <2>2. LineOK'
      BY <1>4, <2>1
  <2>3. faults = 0 => NoFaultInv'
      BY <2>1, CollectsByte, OpensByte DEF NoFaultInv
  <2> QED BY <1>3, <2>1, <2>2, <2>3
<1>8. CASE Tick \/ HandOver \/ EvaluateOther
  <2>1. /\ sent' = sent /\ wire' = wire /\ faults' = faults
        /\ clean' => clean
        /\ held' = IF rxReadyToEvaluate' /\ ~ rxReadyToEvaluate THEN Len(sent) ELSE held
        /\ \/ TimeoutCounter /\ last' = last
           \/ PacketProcess /\ last' = held
           \/ Evaluate /\ pc # "process" /\ last' = last
    <3>1. CASE Tick
        BY <3>1 DEF Tick, Note
    <3>2. CASE HandOver
      <4>1. PacketProcess /\ UNCHANGED <<wire, faults, sent, clean, held>> /\ last' = held
          BY <3>2 DEF HandOver
      <4>2. rxReadyToEvaluate' = rxReadyToEvaluate
          BY <4>1 DEF PacketProcess, shared
      <4> QED BY <4>1, <4>2
    <3>3. CASE EvaluateOther
      <4>1. /\ Evaluate /\ pc # "process" /\ UNCHANGED <<wire, faults, sent, held, last>>
            /\ clean' => clean
          BY <3>3 DEF EvaluateOther
      <4>2. rxReadyToEvaluate' => rxReadyToEvaluate
          BY <4>1 DEF Evaluate, EvaluateBegin, PacketProcess, ClearIndex, ClearOpen, ClearEscape,
                      ClearReady, ClearTimer, shared
      <4> QED BY <4>1, <4>2
    <3> QED BY <1>8, <3>1, <3>2, <3>3
  <2>2. LineOK'
      BY <1>4, <2>1
  <2>3. faults = 0 => NoFaultInv'
      BY <2>1, MainLoopHolds
  <2> QED BY <1>3, <2>1, <2>2, <2>3
<1>9. CASE UNCHANGED linkVars
  <2>1. UNCHANGED <<vars, wire, faults, sent, clean, held, last>>
      BY <1>9 DEF linkVars
  <2>2. UNCHANGED <<pc, rxBuffer, rxIndex, rxFrameOpen, rxEscape, rxReadyToEvaluate>>
      BY <2>1 DEF vars, shared
  <2>3. LineOK'
      BY <1>4, <2>1
  <2>4. \A j, e : AtByte(j, e)' <=> AtByte(j, e)
      BY <2>1 DEF AtByte, OnWire, Packet, Whole
  <2>5. WireOK' <=> WireOK
      BY <2>1, <2>4 DEF WireOK, Packet
  <2>6. InSync' <=> InSync
      BY <2>1, <2>2, <2>4 DEF InSync, Collecting, Joined, Packet
  <2>7. (Holding' <=> Holding) /\ (Numbered' <=> Numbered)
      BY <2>1, <2>2 DEF Holding, Joined, Numbered
  <2> QED BY <1>3, <2>1, <2>3, <2>5, <2>6, <2>7 DEF NoFaultInv
<1> QED BY <1>5, <1>6, <1>7, <1>8, <1>9 DEF LinkNext

(* What is handed over passed the check, so it is no tail. *)
LEMMA HoldsWhole ==
    ASSUME NEW p \in Payloads, NEW start \in Nat, Joined(p, start), rxIndex \in Nat,
           rxIndex = Len(Checked(p)) - start, CheckPasses, TailsFail
    PROVE  Payload = p
<1> DEFINE q == Checked(p)
           n == Len(q)
<1>1. q \in Seq(Byte) /\ n \in Nat /\ n = Len(p) + 2 /\ Len(p) \in Nat
    BY FrameIs DEF ChecksumSize
<1>2. p \in Seq(Byte) /\ Checksum(p) \in Seq(Byte) /\ q = p \o Checksum(p)
    BY LinkAssumption DEF Checked
<1>3. start \in 0 .. n /\ (start = 0 \/ q[start] = stx)
    BY DEF Joined, MayBegin
<1>4. \A i \in 1 .. rxIndex : rxBuffer[i - 1] = q[start + i]
    BY DEF Joined
<1>5. Stored = SubSeq(q, start + 1, n)
  <2> HIDE DEF q
  <2>1. SubSeq(q, start + 1, n)
          = [i \in 1 .. 1 + n - (start + 1) |-> q[i + (start + 1) - 1]]
      BY <1>1, <1>3 DEF SubSeq
  <2>2. 1 + n - (start + 1) = rxIndex /\ \A i \in Nat : i + (start + 1) - 1 = start + i
      BY <1>1, <1>3 DEF q
  <2>3. SubSeq(q, start + 1, n) = [i \in 1 .. rxIndex |-> q[start + i]]
      BY <2>1, <2>2
  <2> QED BY <1>4, <2>3 DEF Stored
<1>6. Passes(Stored)
  <2>1. Len(Stored) = rxIndex
      BY DEF Stored
  <2> QED BY <2>1 DEF Passes, CheckPasses, ReceivedCheck, Payload, PayloadLength, ChecksumSize
<1>7. start = 0
  <2>1. SUFFICES ASSUME start # 0 PROVE FALSE
      OBVIOUS
  <2>2. start \in 1 .. n /\ q[start] = stx
    <3> HIDE DEF q, n
    <3>1. n \in Nat
        BY <1>1
    <3> QED BY <1>3, <2>1, <3>1
  <2>3. ~ Passes(SubSeq(q, start + 1, n))
      BY <2>2 DEF TailsFail
  <2> QED BY <1>5, <1>6, <2>3
<1>8. Stored = q /\ rxIndex = n
  <2>1. SubSeq(q, 1, n) = q
    <3> HIDE DEF q
    <3> QED BY <1>1
  <2>2. rxIndex = n
      BY <1>1, <1>7
  <2> QED BY <1>5, <1>7, <2>1, <2>2
<1>9. PayloadLength = Len(p)
  <2> HIDE DEF n
  <2> QED BY <1>1, <1>8 DEF PayloadLength, ChecksumSize
<1>10. SubSeq(q, 1, Len(p)) = p
  <2> HIDE DEF q
  <2> QED BY <1>1, <1>2
<1> QED BY <1>8, <1>9, <1>10 DEF Payload

LEMMA HandsSent ==
    ASSUME ChannelInv, faults = 0, TailsFail, pc = "process"
    PROVE  held \in last + 1 .. Len(sent) /\ Payload = sent[held]
<1>1. NoFaultInv /\ rxReadyToEvaluate /\ CheckPasses /\ rxIndex \in Nat
    BY DEF ChannelInv, ReceiverInv, Guarded, CheckedIsProcessed, TypeOK
<1>2. held \in last + 1 .. Len(sent) /\ held \in 1 .. Len(sent)
    BY <1>1 DEF NoFaultInv, Holding, Numbered, ChannelInv, LineOK
<1>3. sent[held] \in Payloads
    BY <1>2 DEF ChannelInv, LineOK
<1>4. PICK start \in Nat : Joined(sent[held], start) /\ rxIndex = Len(Checked(sent[held])) - start
    BY <1>1 DEF NoFaultInv, Holding
<1> QED BY <1>1, <1>2, <1>3, <1>4, HoldsWhole

(* While the line has made no fault, sender, line and receiver implement the *)
(* channel of whole packets, for every alphabet, buffer, budget, check and   *)
(* set of packets such that no tail of a packet with its check, as a         *)
(* receiver that joins it among its data stores one, passes the check:       *)
(* whatever the ticks, the overflows and the main loop's delays are.         *)
THEOREM LinkIsChannel ==
    ASSUME TailsFail
    PROVE  LinkSpec => ImplementsChannel
<1>1. ASSUME LinkInit PROVE ChannelInv
  <2>1. ReceiverInv
      BY <1>1, InitReceiver DEF LinkInit
  <2>2. LineOK /\ Closed /\ faults \in Nat
      BY <1>1 DEF LinkInit, LineOK, Init, Closed
  <2>3. WireOK /\ InSync /\ Holding /\ Numbered
      BY <1>1 DEF LinkInit, Init, WireOK, InSync, Holding, Numbered, Collecting
  <2> QED BY <2>1, <2>2, <2>3 DEF ChannelInv, NoFaultInv
<1>2. LinkInit => Channel!Init
    BY DEF LinkInit, Channel!Init
<1>3. ASSUME ChannelInv, [LinkNext]_linkVars
      PROVE  [Channel!Next \/ faults # 0]_<<sent, handed, last>>
  <2>1. CASE \E p \in Payloads : BuildFrame(p)
      BY <2>1 DEF BuildFrame, Channel!Next, Channel!Send
  <2>2. CASE HandOver /\ faults = 0
    <3>1. pc = "process" /\ handed' = Append(handed, Payload) /\ last' = held /\ sent' = sent
        BY <2>2 DEF HandOver, PacketProcess
    <3>2. held \in last + 1 .. Len(sent) /\ Payload = sent[held]
        BY <1>3, <2>2, <3>1, HandsSent
    <3>3. Channel!Hand
        BY <3>1, <3>2 DEF Channel!Hand
    <3> QED BY <3>3 DEF Channel!Next
  <2>3. CASE Arrive \/ Lose \/ Garble \/ Insert \/ Tick \/ EvaluateOther
      BY <2>3 DEF Arrive, Lose, Garble, Insert, Tick, EvaluateOther, Note
  <2>4. CASE UNCHANGED linkVars
      BY <2>4 DEF linkVars
  <2> QED BY <1>3, <2>1, <2>2, <2>3, <2>4 DEF LinkNext
<1> QED BY <1>1, <1>2, <1>3, ChannelStep, PTL DEF LinkSpec, ImplementsChannel
=============================================================================
