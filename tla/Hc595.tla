-------------------------------- MODULE Hc595 --------------------------------
(***************************************************************************)
(* The 74HC595 driver and the chain of shift registers on its three pins.  *)
(* hc595Interrupt steps an armed transfer from a fixed rate interrupt;     *)
(* hc595OneShot runs a whole one from the main loop and blocks.  Both move *)
(* the same pins, and the state field is all that keeps them apart.        *)
(* hc595Start is called from the main loop and from another interrupt.     *)
(***************************************************************************)
EXTENDS Integers, Sequences

CONSTANTS
    size,       \* bytes in the caller's array
    ByteBits,   \* bits in a byte: 8 in the code
    IrqNests    \* whether that interrupt comes inside the main loop's calls

ASSUME Hc595Assumption ==
    /\ size \in Nat \ {0} /\ ByteBits \in Nat \ {0}
    /\ IrqNests \in BOOLEAN

Width == size * ByteBits
Bits == [1..Width -> {0, 1}]

VARIABLES
    data,       \* the caller's array, as the bits in the order they go out
    state, phase, byteIndex, bitIndex, stepIndex,
    pc, i, j,   \* where the main loop stands, and hc595OneShot's loop counters
    dat, sck, rck,  \* the pins
    chain,      \* the shift registers: the last Width bits, the oldest first
    outputs,    \* the latched outputs
    calls       \* History: hc595Interrupt calls since the transfer was armed

transfer == <<state, phase, byteIndex, bitIndex, stepIndex>>
pins == <<dat, sck, rck>>
wires == <<pins, chain, outputs>>
vars == <<data, transfer, pc, i, j, wires, calls>>

Labels == {"idle", "startPhase", "startIndex", "startState",
           "claim", "dat", "sckUp", "sckDown", "rckUp", "rckDown", "release"}

TransferCalls == 3 * Width + 2

(* hc595Init drives the pins low; what the chain holds is not known. *)
Init ==
    /\ data \in Bits
    /\ state = "IDLE" /\ phase = "SHIFT"
    /\ byteIndex = 0 /\ bitIndex = 0 /\ stepIndex = 0
    /\ pc = "idle" /\ i = 0 /\ j = 0
    /\ dat = 0 /\ sck = FALSE /\ rck = FALSE
    /\ chain \in Bits /\ outputs = chain
    /\ calls = 0

-----------------------------------------------------------------------------
(* The pins.  A rising sck shifts dat in, a rising rck copies the chain to   *)
(* the outputs; a level that is written again is no edge.                    *)

DriveDat(b) == dat' = b /\ UNCHANGED <<sck, rck, chain, outputs>>

DriveSck(level) ==
    /\ sck' = level
    /\ chain' = IF level /\ ~sck THEN Append(Tail(chain), dat) ELSE chain
    /\ UNCHANGED <<dat, rck, outputs>>

DriveRck(level) ==
    /\ rck' = level
    /\ outputs' = IF level /\ ~rck THEN chain ELSE outputs
    /\ UNCHANGED <<dat, sck, chain>>

(* The bit an index names; past the array the read may give either.          *)
DataBit(byte, bit) ==
    IF byte < size THEN {data[(byte * ByteBits) + bit + 1]} ELSE {0, 1}

-----------------------------------------------------------------------------
(* hc595Interrupt. *)

Stepping == state = "BUSY"

LastBit == bitIndex + 1 >= ByteBits

LastByteLate == byteIndex + 1 > size  \* mutant: a byte past the array
LastByte == byteIndex + 1 >= size

ShiftStep ==
    \/ /\ stepIndex = 0 /\ stepIndex' = 1
       /\ \E b \in DataBit(byteIndex, bitIndex) : DriveDat(b)
       /\ UNCHANGED <<phase, byteIndex, bitIndex>>
    \/ /\ stepIndex = 1 /\ stepIndex' = 2
       /\ DriveSck(TRUE)
       /\ UNCHANGED <<phase, byteIndex, bitIndex>>
    \/ /\ stepIndex = 2 /\ stepIndex' = 0
       /\ DriveSck(FALSE)
       /\ bitIndex' = IF LastBit THEN 0 ELSE bitIndex + 1
       /\ byteIndex' = IF LastBit THEN byteIndex + 1 ELSE byteIndex
       /\ phase' = IF LastBit /\ LastByte THEN "LATCH" ELSE phase

LatchStepOnce ==  \* mutant: the latch pulse is one call, and no pulse
    /\ stepIndex' = 0
    /\ DriveRck(TRUE) /\ state' = "DONE"

LatchStepStuck ==  \* mutant: the second half of the pulse never comes
    /\ DriveRck(TRUE) /\ stepIndex' = 0 /\ UNCHANGED state

LatchStep ==
    \/ /\ stepIndex = 0 /\ stepIndex' = 1
       /\ DriveRck(TRUE) /\ UNCHANGED state
    \/ /\ stepIndex # 0 /\ stepIndex' = 0
       /\ DriveRck(FALSE) /\ state' = "DONE"

Interrupt ==
    /\ Stepping
    /\ calls' = IF calls <= TransferCalls THEN calls + 1 ELSE calls
    /\ \/ phase = "SHIFT" /\ ShiftStep /\ UNCHANGED state
       \/ phase = "LATCH" /\ LatchStep /\ UNCHANGED <<phase, byteIndex, bitIndex>>
    /\ UNCHANGED <<data, pc, i, j>>

-----------------------------------------------------------------------------
(* hc595Start, from the main loop: the test, the stores, the state last.     *)

Free == state \notin {"BUSY", "BLOCKING"}

StartClaimingFirst ==  \* mutant: the state is written before the indices
    /\ pc = "idle" /\ Free
    /\ pc' = "startPhase" /\ state' = "BUSY" /\ calls' = 0
    /\ UNCHANGED <<data, phase, byteIndex, bitIndex, stepIndex, i, j, wires>>

Start ==
    /\ pc = "idle" /\ Free
    /\ pc' = "startPhase"
    /\ UNCHANGED <<data, transfer, i, j, wires, calls>>

StartPhase ==
    /\ pc = "startPhase" /\ pc' = "startIndex"
    /\ phase' = "SHIFT"
    /\ UNCHANGED <<data, state, byteIndex, bitIndex, stepIndex, i, j, wires, calls>>

StartIndex ==
    /\ pc = "startIndex" /\ pc' = "startState"
    /\ byteIndex' = 0 /\ bitIndex' = 0 /\ stepIndex' = 0
    /\ UNCHANGED <<data, state, phase, i, j, wires, calls>>

StartState ==
    /\ pc = "startState" /\ pc' = "idle"
    /\ state' = "BUSY" /\ calls' = 0
    /\ UNCHANGED <<data, phase, byteIndex, bitIndex, stepIndex, i, j, wires>>

(* The same function called from an interrupt: the main loop sees it whole.  *)
StartFromIrq ==
    /\ IrqNests \/ pc = "idle"
    /\ Free
    /\ phase' = "SHIFT" /\ byteIndex' = 0 /\ bitIndex' = 0 /\ stepIndex' = 0
    /\ state' = "BUSY" /\ calls' = 0
    /\ UNCHANGED <<data, pc, i, j, wires>>

-----------------------------------------------------------------------------
(* hc595OneShot: the test, the claim, then the pins with delays between.     *)

OneShot ==
    /\ pc = "idle" /\ Free
    /\ pc' = "claim"
    /\ UNCHANGED <<data, transfer, i, j, wires, calls>>

Claim ==
    /\ pc = "claim" /\ pc' = "dat"
    /\ state' = "BLOCKING" /\ i' = 0 /\ j' = 0
    /\ UNCHANGED <<data, phase, byteIndex, bitIndex, stepIndex, wires, calls>>

OneShotDat ==
    /\ pc = "dat" /\ pc' = "sckUp"
    /\ \E b \in DataBit(i, j) : DriveDat(b)
    /\ UNCHANGED <<data, transfer, i, j, calls>>

OneShotSckUp ==
    /\ pc = "sckUp" /\ pc' = "sckDown"
    /\ DriveSck(TRUE)
    /\ UNCHANGED <<data, transfer, i, j, calls>>

OneShotSckDown ==
    /\ pc = "sckDown"
    /\ DriveSck(FALSE)
    /\ \/ j + 1 < ByteBits /\ j' = j + 1 /\ i' = i /\ pc' = "dat"
       \/ j + 1 >= ByteBits /\ i + 1 < size /\ j' = 0 /\ i' = i + 1 /\ pc' = "dat"
       \/ j + 1 >= ByteBits /\ i + 1 >= size /\ j' = 0 /\ i' = 0 /\ pc' = "rckUp"
    /\ UNCHANGED <<data, transfer, calls>>

ReleaseBeforeLatch ==  \* mutant: the driver is released, then the latch pulsed
    /\ pc = "rckUp" /\ pc' = "idle"
    /\ state' = "DONE" /\ DriveRck(TRUE)
    /\ UNCHANGED <<data, phase, byteIndex, bitIndex, stepIndex, i, j, calls>>

OneShotRck ==
    /\ \/ pc = "rckUp" /\ pc' = "rckDown" /\ DriveRck(TRUE)
       \/ pc = "rckDown" /\ pc' = "release" /\ DriveRck(FALSE)
    /\ UNCHANGED <<data, transfer, i, j, calls>>

Release ==
    /\ pc = "release" /\ pc' = "idle"
    /\ state' = "DONE"
    /\ UNCHANGED <<data, phase, byteIndex, bitIndex, stepIndex, i, j, wires, calls>>

(* The main loop rewrites its array while nothing is sent from it: the array *)
(* is the caller's to protect.                                               *)
Rewrite(d) ==
    /\ pc = "idle" /\ Free
    /\ data' = d
    /\ UNCHANGED <<transfer, pc, i, j, wires, calls>>

-----------------------------------------------------------------------------
Continue ==
    \/ StartPhase \/ StartIndex \/ StartState
    \/ Claim \/ OneShotDat \/ OneShotSckUp \/ OneShotSckDown \/ OneShotRck \/ Release

Next ==
    \/ Interrupt
    \/ Start \/ OneShot \/ StartFromIrq \/ Continue
    \/ \E d \in Bits : Rewrite(d)

Spec == Init /\ [][Next]_vars

(* The interrupt is periodic, the main loop goes on with its call. *)
FairSpec == Spec /\ WF_vars(Interrupt) /\ WF_vars(Continue)

-----------------------------------------------------------------------------
(* Every field keeps its type; a step never reads past the array.            *)
TypeOK ==
    /\ data \in Bits /\ chain \in Bits /\ outputs \in Bits
    /\ state \in {"IDLE", "BUSY", "DONE", "BLOCKING"} /\ phase \in {"SHIFT", "LATCH"}
    /\ byteIndex \in 0..size /\ bitIndex \in 0..ByteBits - 1 /\ stepIndex \in 0..2
    /\ state = "BUSY" /\ phase = "SHIFT" => byteIndex < size
    /\ pc \in Labels /\ i \in 0..size - 1 /\ j \in 0..ByteBits - 1
    /\ dat \in {0, 1} /\ sck \in BOOLEAN /\ rck \in BOOLEAN
    /\ calls \in 0..TransferCalls

(* hc595Start's comment: until its last store lands hc595Interrupt sees a    *)
(* state other than BUSY and reads none of the indices being set.            *)
ArmingUnseen == [][Interrupt => pc \notin {"startPhase", "startIndex", "startState"}]_vars

(* hc595Interrupt's promise and what a caller takes DONE for: the outputs    *)
(* move only when the chain holds the caller's array, whole, whichever of    *)
(* the two modes moves them; done, they show it and both clocks are low for  *)
(* the next transfer; and a stepped one takes ( 24 * size ) + 2 calls.       *)
DoneIsDone ==
    [][/\ outputs' # outputs => outputs' = data
       /\ state' = "DONE" /\ state # "DONE" => outputs = data /\ ~sck' /\ ~rck'
       /\ state' = "DONE" /\ state = "BUSY" => calls' = TransferCalls]_vars

(* A transfer that was armed is done in the end. *)
ArmedIsDone == state = "BUSY" ~> state = "DONE"
=============================================================================
