-------------------------------- MODULE Hc597 --------------------------------
(***************************************************************************)
(* The 74HC597 driver and the chain of shift registers on its three pins.  *)
(* A rising clk takes the inputs of the chain into its latches and shifts; *)
(* lod low copies the latches into the shift registers.  hc597Interrupt    *)
(* steps an armed transfer from a fixed rate interrupt, hc597OneShot runs  *)
(* a whole one from the main loop, and hc597Start arms one from either.    *)
(* The inputs are the world's: every edge may find others.                 *)
(***************************************************************************)
EXTENDS Integers, Sequences

CONSTANTS
    size,       \* bytes in the caller's array
    ByteBits,   \* bits in a byte: 8 in the code
    IrqNests    \* whether hc597Start comes inside the main loop's calls

VARIABLES
    data,       \* the caller's array, as the bits in the order they come in
    state, phase, byteIndex, bitIndex,
    pc, i, j,   \* where the main loop stands, and hc597OneShot's loop counters
    clk, lod,   \* the pins that are driven
    latch,      \* the input latches of the chain
    chain,      \* its shift registers, the bit on dat first
    (* History, read by the properties only. *)
    taken,      \* the inputs at the first rising clk of the transfer
    calls       \* hc597Interrupt calls since the transfer was armed

transfer == <<state, phase, byteIndex, bitIndex>>
wires == <<clk, lod, latch, chain>>
vars == <<data, transfer, pc, i, j, wires, taken, calls>>

Bits == [1 .. size * ByteBits -> {0, 1}]
TransferCalls == (ByteBits * size) + 1

(* hc597Init, before which nobody knows what the array and the chain hold.   *)
Init ==
    /\ data = [k \in 1 .. size * ByteBits |-> 1]
    /\ state = "IDLE" /\ phase = "PROLOGUE" /\ byteIndex = 0 /\ bitIndex = 0
    /\ pc = "idle" /\ i = 0 /\ j = 0
    /\ clk = FALSE /\ lod = TRUE
    /\ latch \in Bits /\ chain = latch /\ taken = latch /\ calls = 0

-----------------------------------------------------------------------------
(* The chain, and the bits of the array. *)

ClkRises(inputs) ==
    /\ clk' = TRUE /\ lod' = lod
    /\ latch' = inputs /\ chain' = Append(Tail(chain), 0)

ClkFalls == clk' = FALSE /\ UNCHANGED <<lod, latch, chain>>

DriveLod(level) ==
    /\ lod' = level /\ chain' = IF level THEN chain ELSE latch
    /\ UNCHANGED <<clk, latch>>

Dat == Head(chain)

Zeroed(byte) ==
    [k \in DOMAIN data |-> IF (k - 1) \div ByteBits = byte THEN 0 ELSE data[k]]

(* data[ byte ] |= 1u << bit, of the byte as it is in the array given.       *)
WithBit(array, byte, bit) ==
    [array EXCEPT ![(byte * ByteBits) + bit + 1] = IF Dat # 0 THEN 1 ELSE @]

-----------------------------------------------------------------------------
(* hc597Interrupt.  A step ends with clk low again. *)

PrologueShiftingFirst == \* mutant: the registers are loaded before the inputs are taken
    /\ \E inputs \in Bits : latch' = inputs /\ taken' = inputs
    /\ chain' = latch
    /\ phase' = "SHIFT"
    /\ UNCHANGED <<data, state, byteIndex, bitIndex>>

PrologueStep ==
    /\ \E inputs \in Bits : latch' = inputs /\ taken' = inputs /\ chain' = inputs
    /\ phase' = "SHIFT"
    /\ UNCHANGED <<data, state, byteIndex, bitIndex>>

(* The array a read of dat leaves; a byte is zeroed before its first bit.    *)
ReadBitOver ==  \* mutant: a byte keeps the ones of the transfer before
    WithBit(data, byteIndex, bitIndex)
ReadBit ==
    WithBit(IF bitIndex = 0 THEN Zeroed(byteIndex) ELSE data, byteIndex, bitIndex)

LastByteEarly == byteIndex + 2 >= size  \* mutant: the last byte is not read
LastByte == byteIndex + 1 >= size

ShiftStep ==
    LET lastBit == bitIndex + 1 >= ByteBits
    IN  /\ data' = ReadBit
        /\ latch' \in Bits /\ chain' = Append(Tail(chain), 0)
        /\ bitIndex' = IF lastBit THEN 0 ELSE bitIndex + 1
        /\ byteIndex' = IF lastBit THEN byteIndex + 1 ELSE byteIndex
        /\ state' = IF lastBit /\ LastByte THEN "DONE" ELSE state
        /\ UNCHANGED <<phase, taken>>

Interrupt ==
    /\ state = "BUSY"
    /\ calls' = IF calls <= TransferCalls THEN calls + 1 ELSE calls
    /\ \/ phase = "PROLOGUE" /\ PrologueStep
       \/ phase = "SHIFT" /\ ShiftStep
    /\ UNCHANGED <<pc, i, j, clk, lod>>

-----------------------------------------------------------------------------
(* hc597Start, from the main loop: the test, the stores, the state last.     *)

Free == state \notin {"BUSY", "BLOCKING"}

Start ==
    /\ pc = "idle" /\ Free /\ pc' = "startPhase"
    /\ UNCHANGED <<data, transfer, i, j, wires, taken, calls>>

StartPhase ==
    /\ pc = "startPhase" /\ pc' = "startIndex"
    /\ phase' = "PROLOGUE"
    /\ UNCHANGED <<data, state, byteIndex, bitIndex, i, j, wires, taken, calls>>

StartIndexKeeping ==  \* mutant: the indices of the last transfer stay
    /\ pc = "startIndex" /\ pc' = "startState"
    /\ UNCHANGED <<data, transfer, i, j, wires, taken, calls>>

StartIndex ==
    /\ pc = "startIndex" /\ pc' = "startState"
    /\ byteIndex' = 0 /\ bitIndex' = 0
    /\ UNCHANGED <<data, state, phase, i, j, wires, taken, calls>>

StartState ==
    /\ pc = "startState" /\ pc' = "idle"
    /\ state' = "BUSY" /\ calls' = 0
    /\ UNCHANGED <<data, phase, byteIndex, bitIndex, i, j, wires, taken>>

(* The same function called from an interrupt: the main loop sees it whole.  *)
StartFromIrq ==
    /\ IrqNests \/ pc = "idle"
    /\ Free
    /\ phase' = "PROLOGUE" /\ byteIndex' = 0 /\ bitIndex' = 0
    /\ state' = "BUSY" /\ calls' = 0
    /\ UNCHANGED <<data, pc, i, j, wires, taken>>

-----------------------------------------------------------------------------
(* hc597OneShot: the test, the claim, then a pin or a bit at a time.         *)

loop == <<phase, byteIndex, bitIndex, calls>>

OneShot ==
    /\ pc = "idle" /\ Free /\ pc' = "claim"
    /\ UNCHANGED <<data, transfer, i, j, wires, taken, calls>>

Claim ==
    /\ pc = "claim" /\ pc' = "clkUp"
    /\ state' = "BLOCKING" /\ i' = 0 /\ j' = 0
    /\ UNCHANGED <<data, loop, wires, taken>>

OneShotPrologue ==
    /\ \/ /\ pc = "clkUp" /\ pc' = "clkDown"
          /\ \E inputs \in Bits : ClkRises(inputs) /\ taken' = inputs
       \/ pc = "clkDown" /\ pc' = "lodDown" /\ ClkFalls /\ UNCHANGED taken
       \/ pc = "lodDown" /\ pc' = "lodUp" /\ DriveLod(FALSE) /\ UNCHANGED taken
       \/ pc = "lodUp" /\ pc' = "read" /\ DriveLod(TRUE) /\ UNCHANGED taken
    /\ UNCHANGED <<data, state, i, j, loop>>

OneShotRead ==
    /\ pc = "read" /\ pc' = "bitUp"
    /\ data' = WithBit(IF j = 0 THEN Zeroed(i) ELSE data, i, j)
    /\ UNCHANGED <<state, i, j, loop, wires, taken>>

OneShotClkUp ==
    /\ pc = "bitUp" /\ pc' = "bitDown"
    /\ \E inputs \in Bits : ClkRises(inputs)
    /\ UNCHANGED <<data, state, i, j, loop, taken>>

OneShotClkDown ==
    /\ pc = "bitDown" /\ ClkFalls
    /\ \/ j + 1 < ByteBits /\ j' = j + 1 /\ i' = i /\ pc' = "read"
       \/ j + 1 >= ByteBits /\ i + 1 < size /\ j' = 0 /\ i' = i + 1 /\ pc' = "read"
       \/ j + 1 >= ByteBits /\ i + 1 >= size /\ j' = 0 /\ i' = 0 /\ pc' = "release"
    /\ UNCHANGED <<data, state, loop, taken>>

Release ==
    /\ pc = "release" /\ pc' = "idle"
    /\ state' = "DONE"
    /\ UNCHANGED <<data, i, j, loop, wires, taken>>

-----------------------------------------------------------------------------
Continue ==
    \/ StartPhase \/ StartIndex \/ StartState
    \/ Claim \/ OneShotPrologue \/ OneShotRead \/ OneShotClkUp \/ OneShotClkDown \/ Release

Next == Interrupt \/ Start \/ OneShot \/ StartFromIrq \/ Continue

Spec == Init /\ [][Next]_vars

-----------------------------------------------------------------------------
(* hc597GetState's promise: done, the array holds the values read from the   *)
(* chain, all of them as they were at one moment of this transfer, and the   *)
(* pins idle.  hc597Start's and hc597Interrupt's: an index that is being set *)
(* is not used, and a transfer takes ( 8 * size ) + 1 calls.                 *)
DoneIsWhole ==
    [][/\ state' = "DONE" => data' = taken' /\ ~clk' /\ lod'
       /\ Interrupt => pc \notin {"startPhase", "startIndex", "startState"}
       /\ state = "BUSY" /\ state' = "DONE" => calls' = TransferCalls]_vars

(* A transfer that was begun is done in the end, in either mode. *)
BegunIsDone == state \in {"BUSY", "BLOCKING"} ~> state = "DONE"
=============================================================================
