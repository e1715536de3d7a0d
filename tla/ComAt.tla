-------------------------------- MODULE ComAt --------------------------------
(***************************************************************************)
(* comat: lines that begin with 'A' 'T' and end with CR LF.  The receive   *)
(* interrupt calls comatReceive, a periodic tick comatTimeoutCounter, each *)
(* to completion; the main loop's comatEvaluate is a sequence of steps the *)
(* two may come between.  comat_t has no volatile field: the model takes   *)
(* the stores in source order, which the callbacks before them force and a *)
(* compiler need not keep among the four at the end.                       *)
(***************************************************************************)
EXTENDS Integers, Sequences

CONSTANTS
    Byte, A, T, CR, LF, \* the characters the receiver tells apart, and others
    RxSize,
    RxTimeout,          \* ticks of the whole-frame timeout
    Replies             \* lengths of a reply packetProcess may write

VARIABLES
    driver,     \* the fields of comat_t that change
    pc,         \* where the main loop stands in Evaluate
    seen        \* history, read by the properties only:
                \*   age   ticks since the 'A' of the line being received
                \*   late  whether it arrived before Evaluate's last store
                \*   sent  the length handed to txTransmissionTrigger last
                \*   reply the length packetProcess wrote for that line

vars == <<driver, pc, seen>>

Labels == {"idle", "process", "transmit", "clearIndex", "clearReady", "clearTx", "clearTimer"}

Init ==
    /\ RxSize >= 3
    /\ driver = [rxBuffer |-> [i \in 0 .. RxSize - 1 |-> 0], rxIndex |-> 0, txIndex |-> 0,
                 rxTimeoutCounter |-> 0, rxReadyToEvaluate |-> FALSE]
    /\ pc = "idle"
    /\ seen = [age |-> 0, late |-> FALSE, sent |-> 0, reply |-> 0]

-----------------------------------------------------------------------------
(* comatReceive, one action per way through it. *)

Listening == ~ driver.rxReadyToEvaluate
Stored(byte) == [driver EXCEPT !.rxBuffer[driver.rxIndex] = byte, !.rxIndex = @ + 1]
DroppedKeepingTime(d) == [d EXCEPT !.rxIndex = 0]  \* mutant: the 01/08/2026 bug
Dropped(d) == [d EXCEPT !.rxIndex = 0, !.rxTimeoutCounter = 0]

(* Bytes while a line waits, and before an 'A', leave no trace. *)
Ignore(byte) ==
    /\ ~ Listening \/ (driver.rxIndex = 0 /\ byte # A)
    /\ UNCHANGED <<driver, seen>>

OpenLine(byte) ==
    /\ Listening /\ driver.rxIndex = 0 /\ byte = A
    /\ driver' = Stored(byte)
    /\ seen' = [seen EXCEPT !.age = 0, !.late = pc \in {"clearTx", "clearTimer"}]

(* An 'A' after the first is no start of a line either. *)
SecondByte(byte) ==
    /\ Listening /\ driver.rxIndex = 1
    /\ driver' = IF byte = T THEN Stored(byte) ELSE Dropped(driver)
    /\ UNCHANGED seen

FullLate(d) == d.rxIndex > RxSize  \* mutant: one cell too many
Full(d) == d.rxIndex >= RxSize

EndsLineAnyCr(d) == d.rxBuffer[d.rxIndex - 1] = LF  \* mutant: LF alone ends a line
EndsLine(d) == d.rxBuffer[d.rxIndex - 1] = LF /\ d.rxBuffer[d.rxIndex - 2] = CR

LaterByte(byte) ==
    LET d == Stored(byte)
    IN  /\ Listening /\ driver.rxIndex >= 2
        /\ driver' = IF EndsLine(d) THEN [d EXCEPT !.rxReadyToEvaluate = TRUE]
                     ELSE IF Full(d) THEN Dropped(d) ELSE d
        /\ UNCHANGED seen

Receive ==
    /\ \E byte \in Byte :
         Ignore(byte) \/ OpenLine(byte) \/ SecondByte(byte) \/ LaterByte(byte)
    /\ UNCHANGED pc

-----------------------------------------------------------------------------
(* comatTimeoutCounter. *)

PendingAlways == driver.rxIndex # 0  \* mutant: a line that waits is discarded too
PendingPrefix == driver.rxIndex > 1 /\ ~ driver.rxReadyToEvaluate  \* mutant: an 'A' alone is no line
Pending == driver.rxIndex # 0 /\ ~ driver.rxReadyToEvaluate

Overdue == driver.rxTimeoutCounter > RxTimeout

TimeoutCounter ==
    /\ Pending
    /\ IF Overdue
       THEN driver' = Dropped(driver) /\ UNCHANGED seen
       ELSE /\ driver' = [driver EXCEPT !.rxTimeoutCounter = @ + 1]
            /\ seen' = [seen EXCEPT !.age = @ + 1]
    /\ UNCHANGED pc

-----------------------------------------------------------------------------
(* comatEvaluate. *)

Begin ==
    /\ pc = "idle" /\ driver.rxReadyToEvaluate
    /\ pc' = "process"
    /\ UNCHANGED <<driver, seen>>

(* The callback writes the length of a reply, or leaves txIndex alone.       *)
PacketProcess ==
    /\ pc = "process" /\ pc' = "transmit"
    /\ \/ \E length \in Replies :
            /\ driver' = [driver EXCEPT !.txIndex = length]
            /\ seen' = [seen EXCEPT !.reply = length]
       \/ UNCHANGED driver /\ seen' = [seen EXCEPT !.reply = 0]

TransmissionTrigger ==
    /\ pc = "transmit" /\ pc' = "clearIndex"
    /\ seen' = [seen EXCEPT !.sent = driver.txIndex]
    /\ UNCHANGED driver

Clear(label, next, cleared) == pc = label /\ pc' = next /\ driver' = cleared /\ UNCHANGED seen
ClearIndex == Clear("clearIndex", "clearReady", [driver EXCEPT !.rxIndex = 0])
ClearReady == Clear("clearReady", "clearTx", [driver EXCEPT !.rxReadyToEvaluate = FALSE])
ClearTxForgotten == Clear("clearTx", "clearTimer", driver)  \* mutant: the reply's length stays
ClearTx == Clear("clearTx", "clearTimer", [driver EXCEPT !.txIndex = 0])
ClearTimer == Clear("clearTimer", "idle", [driver EXCEPT !.rxTimeoutCounter = 0])

Evaluate ==
    \/ Begin \/ PacketProcess \/ TransmissionTrigger
    \/ ClearIndex \/ ClearReady \/ ClearTx \/ ClearTimer

Next == Receive \/ TimeoutCounter \/ Evaluate

Spec == Init /\ [][Next]_vars

-----------------------------------------------------------------------------
(* A line handed to packetProcess begins with AT and ends with its first CR  *)
(* LF, however many were discarded before it, and fits the buffer.           *)
HandedIsLine ==
    pc \in {"process", "transmit"} =>
      LET n == driver.rxIndex
          EndsAt(i) == driver.rxBuffer[i - 1] = CR /\ driver.rxBuffer[i] = LF
      IN  /\ n <= RxSize
          /\ driver.rxBuffer[0] = A /\ driver.rxBuffer[1] = T
          /\ {i \in 2 .. n - 1 : EndsAt(i)} = {n - 1}

(* No byte is stored past the buffer.                                        *)
RoomForNext == Listening => driver.rxIndex < RxSize

(* A line has the ticks of its budget, to the tick, unless it began before   *)
(* Evaluate cleared the timer of the one before.                             *)
LineHasBudget ==
    Pending /\ ~ seen.late => driver.rxTimeoutCounter = seen.age

(* What is transmitted is the reply to that line and not to an earlier one.  *)
ReplyIsOwn == pc \in {"clearIndex", "clearReady"} => seen.sent = seen.reply

LinesKept == HandedIsLine /\ RoomForNext /\ LineHasBudget /\ ReplyIsOwn

(* The receiver never wedges: a line begun is completed, outgrows the buffer *)
(* or is timed out.                                                          *)
NeverWedged == driver.rxIndex # 0 ~> driver.rxIndex = 0
=============================================================================
