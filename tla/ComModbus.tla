------------------------------ MODULE ComModbus ------------------------------
(***************************************************************************)
(* commodbus: a Modbus RTU receiver, whose frames are ended by silence.    *)
(* The receive interrupt calls commodbusReceive for every byte and a fixed *)
(* rate interrupt commodbusTimeoutCounter; each runs to completion.  The   *)
(* main loop's commodbusEvaluate is a sequence of steps, one per access to *)
(* a shared field, that the two may come between.  Those fields are        *)
(* volatile, so the accesses happen in program order.                      *)
(***************************************************************************)
EXTENDS Integers, Sequences

CONSTANTS
    Byte,           \* the values a byte can have
    Address,        \* the device's own
    Checksum(_),    \* the caller's callback: check bytes of a frame, low first
    RxSize, TxSize,
    SilenceTicks,   \* ticks of silence that end a frame
    CountMod        \* the counts are uint32_t: 2^32 in the code

VARIABLES
    driver,     \* the fields of commodbus_t that change
    pc,         \* where the main loop stands in Evaluate
    seen        \* history, read by the properties only:
                \*   quiet  ticks since the last byte of the frame being received
                \*   late   whether its first byte came under Evaluate's last store
                \*   owed   frames ended and runs of dropped bytes begun, less the
                \*          frames handed over or ignored, modulo CountMod

vars == <<driver, pc, seen>>

CheckSize == 2
MinFrame == 4
Broadcast == 0
Labels == {"idle", "process", "testDropped", "clearDropped", "clearIndex",
           "clearOverrun", "clearReady", "clearSilence"}

Init ==
    /\ driver = [rxBuffer |-> [i \in 0 .. RxSize - 1 |-> 0], rxIndex |-> 0,
                 silenceCounter |-> 0, rxReadyToEvaluate |-> FALSE, rxOverrun |-> FALSE,
                 rxDropped |-> FALSE, rxRejectCount |-> 0, rxIgnoredCount |-> 0]
    /\ pc = "idle"
    /\ seen = [quiet |-> 0, late |-> FALSE, owed |-> 0]

More(count) == (count + 1) % CountMod
Less(count) == (count + CountMod - 1) % CountMod

-----------------------------------------------------------------------------
(* commodbusReceive. *)

Store(byte) ==
    /\ ~ driver.rxReadyToEvaluate /\ driver.rxIndex < RxSize
    /\ driver' = [driver EXCEPT !.rxBuffer[driver.rxIndex] = byte, !.rxIndex = @ + 1,
                                !.silenceCounter = 0]
    /\ seen' = [seen EXCEPT !.quiet = 0,
                            !.late = IF driver.rxIndex = 0 THEN pc = "clearSilence" ELSE @]

OverrunQuietly ==  \* mutant: a byte past the end does not restart the silence
    /\ ~ driver.rxReadyToEvaluate /\ driver.rxIndex >= RxSize
    /\ driver' = [driver EXCEPT !.rxOverrun = TRUE]
    /\ seen' = [seen EXCEPT !.quiet = 0]
Overrun ==
    /\ ~ driver.rxReadyToEvaluate /\ driver.rxIndex >= RxSize
    /\ driver' = [driver EXCEPT !.rxOverrun = TRUE, !.silenceCounter = 0]
    /\ seen' = [seen EXCEPT !.quiet = 0]

Drop ==
    /\ driver.rxReadyToEvaluate
    /\ driver' = [driver EXCEPT !.rxDropped = TRUE]
    /\ seen' = [seen EXCEPT !.owed = IF driver.rxDropped THEN @ ELSE More(@)]

Receive == ((\E byte \in Byte : Store(byte)) \/ Overrun \/ Drop) /\ UNCHANGED pc

-----------------------------------------------------------------------------
(* commodbusTimeoutCounter. *)

PendingAlways == driver.rxIndex > 0  \* mutant: the tick runs under a waiting frame
PendingFrame == ~ driver.rxReadyToEvaluate /\ driver.rxIndex >= MinFrame \* mutant: a fragment is no frame
Pending == ~ driver.rxReadyToEvaluate /\ driver.rxIndex > 0

SilentEarly == driver.silenceCounter + 1 >= SilenceTicks  \* mutant: compared after the increment
Silent == driver.silenceCounter >= SilenceTicks

EndFrame ==
    /\ Pending /\ Silent
    /\ driver' = [driver EXCEPT !.rxReadyToEvaluate = TRUE]
    /\ seen' = [seen EXCEPT !.owed = More(@)]

CountSilence ==
    /\ Pending /\ ~ Silent
    /\ driver' = [driver EXCEPT !.silenceCounter = @ + 1]
    /\ seen' = [seen EXCEPT !.quiet = @ + 1]

TimeoutCounter == (EndFrame \/ CountSilence) /\ UNCHANGED pc

-----------------------------------------------------------------------------
(* commodbusEvaluate. *)

Stored == [i \in 1 .. driver.rxIndex |-> driver.rxBuffer[i - 1]]
PayloadLength == driver.rxIndex - CheckSize
Payload == SubSeq(Stored, 1, PayloadLength)
ReceivedCheck == SubSeq(Stored, PayloadLength + 1, driver.rxIndex)

SoundAsKept ==  \* mutant: an overrun frame is judged by what was kept
    driver.rxIndex >= MinFrame /\ ReceivedCheck = Checksum(Payload)
Sound ==
    /\ ~ driver.rxOverrun
    /\ driver.rxIndex >= MinFrame
    /\ ReceivedCheck = Checksum(Payload)
ForAnother == Head(Stored) \notin {Address, Broadcast}

AtStart == pc = "idle" /\ driver.rxReadyToEvaluate

RejectFrame ==
    /\ AtStart /\ ~ Sound
    /\ pc' = "testDropped"
    /\ driver' = [driver EXCEPT !.rxRejectCount = More(@)]
    /\ UNCHANGED seen

IgnoreFrame ==
    /\ AtStart /\ Sound /\ ForAnother
    /\ pc' = "testDropped"
    /\ driver' = [driver EXCEPT !.rxIgnoredCount = More(@)]
    /\ seen' = [seen EXCEPT !.owed = Less(@)]

TakeFrame ==
    /\ AtStart /\ Sound /\ ~ ForAnother
    /\ pc' = "process"
    /\ UNCHANGED <<driver, seen>>

(* The callback is handed rxBuffer itself, not a copy. *)
PacketProcess ==
    /\ pc = "process" /\ pc' = "testDropped"
    /\ seen' = [seen EXCEPT !.owed = Less(@)]
    /\ UNCHANGED driver

CountDropped ==
    /\ pc = "testDropped"
    /\ IF driver.rxDropped
       THEN pc' = "clearDropped" /\ driver' = [driver EXCEPT !.rxRejectCount = More(@)]
       ELSE pc' = "clearIndex" /\ UNCHANGED driver
    /\ UNCHANGED seen

(* Evaluate's stores to the shared fields, each followed by the next.        *)
Clear(label, next, cleared) == pc = label /\ pc' = next /\ driver' = cleared /\ UNCHANGED seen
ClearDropped == Clear("clearDropped", "clearIndex", [driver EXCEPT !.rxDropped = FALSE])
ClearIndex == Clear("clearIndex", "clearOverrun", [driver EXCEPT !.rxIndex = 0])
ClearOverrun == Clear("clearOverrun", "clearReady", [driver EXCEPT !.rxOverrun = FALSE])
ClearReady == Clear("clearReady", "clearSilence", [driver EXCEPT !.rxReadyToEvaluate = FALSE])
ClearSilence == Clear("clearSilence", "idle", [driver EXCEPT !.silenceCounter = 0])

Evaluate ==
    \/ RejectFrame \/ IgnoreFrame \/ TakeFrame \/ PacketProcess \/ CountDropped
    \/ ClearDropped \/ ClearIndex \/ ClearOverrun \/ ClearReady \/ ClearSilence

Next == Receive \/ TimeoutCounter \/ Evaluate

Spec == Init /\ [][Next]_vars

-----------------------------------------------------------------------------
(* commodbusBuildFrame: the frame, or nothing when it does not fit. *)
BuildFrame(address, pdu) ==
    IF Len(pdu) > 0 /\ Len(pdu) + 1 + CheckSize <= TxSize
    THEN <<address>> \o pdu \o Checksum(<<address>> \o pdu) ELSE <<>>

(* What packetProcess is handed is, while it is handed it, a frame that      *)
(* commodbusBuildFrame makes, for this device or for all, all of it.         *)
HandedIsBuilt ==
    pc = "process" =>
      /\ ~ driver.rxOverrun /\ Head(Stored) \in {Address, Broadcast}
      /\ Stored = BuildFrame(Head(Stored), Tail(Payload))

(* Every frame the silence ended and every run of dropped bytes is handed    *)
(* over, ignored or counted, once; at most one of each still waits for it.   *)
EveryFrameSettled ==
    LET waiting == driver.rxReadyToEvaluate /\ pc \in {"idle", "process", "clearSilence"}
        dropping == driver.rxDropped /\ pc # "clearDropped"
    IN  seen.owed = (driver.rxRejectCount + (IF waiting THEN 1 ELSE 0)
                       + (IF dropping THEN 1 ELSE 0)) % CountMod

(* The silence that ends a frame is one of the line: never shorter, and      *)
(* longer only for a frame that began under Evaluate's last store.           *)
SilenceIsOfTheLine ==
    /\ driver.rxReadyToEvaluate => seen.quiet >= SilenceTicks
    /\ Pending => /\ driver.silenceCounter <= seen.quiet
                  /\ ~ seen.late => driver.silenceCounter = seen.quiet

FramesKept == HandedIsBuilt /\ EveryFrameSettled /\ SilenceIsOfTheLine

(* Once the line is quiet every frame ends and the receiver is free again.   *)
QuietLineFrees == <>[][~ Receive]_vars => []<>(driver.rxIndex = 0)
=============================================================================
