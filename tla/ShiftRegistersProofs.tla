------------------------ MODULE ShiftRegistersProofs ------------------------
(***************************************************************************)
(* The two shift register drivers, for an array and bytes of any size.     *)
(* The invariants tie what the chain and the array hold to the indices of  *)
(* a transfer, in either of its two modes, and to the calls it has had.    *)
(* They need the interrupt that calls hc595Start or hc597Start to stay out *)
(* of the main loop's calls: where it does not, ArmingUnseen fails.        *)
(***************************************************************************)
EXTENDS ShiftRegisters, Counting

(* How many bits come before bit b of byte a. *)
Before(a, b) == (a * ByteBits) + b

(* The chain ends in the first n bits of the array. *)
Carries(n) == \A m \in 1 .. n : chain[Width - n + m] = data[m]

(* Both clocks rest but while a transfer drives them. *)
Resting == ~sck /\ ~rck

(* A stepped transfer, by what its next call does. *)
Stepped ==
    LET n == Before(byteIndex, bitIndex)
    IN  \/ /\ phase = "SHIFT" /\ byteIndex < size /\ ~rck
           /\ \/ stepIndex = 0 /\ ~sck /\ Carries(n) /\ calls = 3 * n
              \/ stepIndex = 1 /\ ~sck /\ Carries(n) /\ calls = 3 * n + 1 /\ dat = data[n + 1]
              \/ stepIndex = 2 /\ sck /\ Carries(n + 1) /\ calls = 3 * n + 2
        \/ /\ phase = "LATCH" /\ ~sck /\ Carries(Width)
           /\ \/ stepIndex = 0 /\ ~rck /\ calls = 3 * Width
              \/ stepIndex = 1 /\ rck /\ calls = 3 * Width + 1 /\ outputs = data

(* A blocking one, by where the main loop stands. *)
Blocking ==
    LET n == Before(i, j)
    IN  \/ pc = "dat" /\ Resting /\ Carries(n)
        \/ pc = "sckUp" /\ Resting /\ Carries(n) /\ dat = data[n + 1]
        \/ pc = "sckDown" /\ sck /\ ~rck /\ Carries(n + 1)
        \/ pc = "rckUp" /\ Resting /\ Carries(Width)
        \/ pc = "rckDown" /\ ~sck /\ rck /\ outputs = data
        \/ pc = "release" /\ Resting /\ outputs = data

Owner ==
    /\ pc \in {"startPhase", "startIndex", "startState", "claim"} => state \in {"IDLE", "DONE"}
    /\ pc = "idle" => state # "BLOCKING"
    /\ pc \in {"dat", "sckUp", "sckDown", "rckUp", "rckDown", "release"} => state = "BLOCKING"
    /\ pc = "startIndex" => phase = "SHIFT"
    /\ pc = "startState" => phase = "SHIFT" /\ byteIndex = 0 /\ bitIndex = 0 /\ stepIndex = 0

OutputInv ==
    /\ TypeOK /\ Owner
    /\ state = "BUSY" => Stepped
    /\ state = "BLOCKING" => Blocking
    /\ state \in {"IDLE", "DONE"} => Resting

-----------------------------------------------------------------------------
LEMMA Sizes ==
    /\ size \in Nat \ {0} /\ ByteBits \in Nat \ {0} /\ Width \in Nat \ {0}
    /\ TransferCalls = 3 * Width + 2
<1>1. size \in Nat \ {0} /\ ByteBits \in Nat \ {0}
    BY Hc595Assumption
<1>2. size * ByteBits \in Nat \ {0}
    BY <1>1, Z3
<1> QED BY <1>1, <1>2 DEF Width, TransferCalls

(* The bits are taken byte after byte. *)
LEMMA Place ==
    ASSUME NEW a \in 0 .. size - 1, NEW b \in 0 .. ByteBits - 1
    PROVE  /\ Before(a, b) \in 0 .. Width - 1
           /\ Before(a, b + 1) = Before(a, b) + 1
           /\ b + 1 >= ByteBits => /\ Before(a + 1, 0) = Before(a, b) + 1
                                   /\ a + 1 >= size => Before(a, b) + 1 = Width
<1>0. size \in Nat \ {0} /\ ByteBits \in Nat \ {0}
    BY Sizes
<1>1. a * ByteBits \in Nat /\ (a + 1) * ByteBits = a * ByteBits + ByteBits
    BY <1>0, Z3
<1>2. PICK c \in Nat : size = a + 1 + c
  <2>1. size - a - 1 \in Nat /\ size = a + 1 + (size - a - 1)
    BY <1>0
  <2> QED BY <2>1
<1>3. c * ByteBits \in Nat /\ Width = a * ByteBits + ByteBits + c * ByteBits
    BY <1>0, <1>2, Z3 DEF Width
<1>4. c = 0 => c * ByteBits = 0
    BY <1>0
<1> QED BY <1>0, <1>1, <1>2, <1>3, <1>4 DEF Before

LEMMA Beginning == Before(0, 0) = 0
BY Sizes DEF Before

LEMMA BitOfArray ==
    ASSUME NEW a \in 0 .. size - 1, NEW b, NEW bit \in DataBit(a, b)
    PROVE  bit = data[Before(a, b) + 1]
BY Sizes DEF DataBit, Before

LEMMA SeqIsFunction ==
    ASSUME NEW S, NEW s \in Seq(S)
    PROVE  s \in [1 .. Len(s) -> S]
OBVIOUS

(* A shift register of the length of the chain drops its first bit.          *)
LEMMA Shifted ==
    ASSUME NEW c \in Bits, NEW b \in {0, 1}
    PROVE  /\ Append(Tail(c), b) \in Bits
           /\ \A m \in 1 .. Width - 1 : Append(Tail(c), b)[m] = c[m + 1]
           /\ Append(Tail(c), b)[Width] = b
<1>1. c \in Seq({0, 1}) /\ Len(c) = Width
    BY Sizes DEF Bits
<1>2. Tail(c) \in Seq({0, 1}) /\ Len(Tail(c)) = Width - 1
    BY <1>1, Sizes
<1>3. Append(Tail(c), b) \in Seq({0, 1}) /\ Len(Append(Tail(c), b)) = Width
    BY <1>2, Sizes
<1>4. Append(Tail(c), b) \in Bits
    BY <1>3, SeqIsFunction DEF Bits
<1> QED BY <1>1, <1>2, <1>4, Sizes

LEMMA ClockedIn ==
    ASSUME TypeOK, ~sck, DriveSck(TRUE), data' = data,
           NEW n \in 0 .. Width - 1, Carries(n), dat = data[n + 1]
    PROVE  chain' \in Bits /\ Carries(n + 1)'
<1>1. chain' = Append(Tail(chain), dat)
    BY DEF DriveSck
<1>2. /\ chain' \in Bits /\ chain'[Width] = dat
      /\ \A m \in 1 .. Width - 1 : chain'[m] = chain[m + 1]
    BY <1>1, Shifted DEF TypeOK
<1>3. ASSUME NEW m \in 1 .. n + 1 PROVE chain'[Width - (n + 1) + m] = data[m]
  <2>1. CASE m = n + 1
    BY <1>2, <2>1, Sizes
  <2>2. CASE m \in 1 .. n
    <3>1. Width - (n + 1) + m \in 1 .. Width - 1 /\ Width - (n + 1) + m + 1 = Width - n + m
      BY <2>2, Sizes
    <3> QED BY <1>2, <2>2, <3>1 DEF Carries
  <2> QED BY <2>1, <2>2
<1> QED BY <1>2, <1>3 DEF Carries

LEMMA SameBits ==
    ASSUME NEW f \in Bits, NEW g \in Bits, \A m \in 1 .. Width : f[m] = g[m]
    PROVE  f = g
<1>1. f = [m \in 1 .. Width |-> f[m]] /\ g = [m \in 1 .. Width |-> g[m]]
    BY DEF Bits
<1> QED BY <1>1

LEMMA WholeChain ==
    ASSUME TypeOK, Carries(Width) PROVE chain = data
<1>1. \A m \in 1 .. Width : chain[m] = data[m]
    BY Sizes DEF Carries
<1> QED BY <1>1, SameBits DEF TypeOK

-----------------------------------------------------------------------------
LEMMA InitOutput == Init => OutputInv
<1> SUFFICES ASSUME Init PROVE OutputInv
    OBVIOUS
<1>1. 0 \in 0 .. size /\ 0 \in 0 .. size - 1 /\ 0 \in 0 .. ByteBits - 1 /\ 0 \in 0 .. TransferCalls
    BY Sizes
<1>2. TypeOK
  <2>1. data \in Bits /\ chain \in Bits /\ outputs \in Bits
    BY DEF Init
  <2>2. sck \in BOOLEAN /\ rck \in BOOLEAN /\ dat \in {0, 1}
    BY DEF Init
  <2>3. pc \in Labels /\ state \in {"IDLE", "BUSY", "DONE", "BLOCKING"} /\ phase \in {"SHIFT", "LATCH"}
    BY DEF Init, Labels
  <2>4. state # "BUSY"
    BY DEF Init
  <2>5. /\ byteIndex \in 0 .. size /\ bitIndex \in 0 .. ByteBits - 1 /\ stepIndex \in 0 .. 2
        /\ i \in 0 .. size - 1 /\ j \in 0 .. ByteBits - 1 /\ calls \in 0 .. TransferCalls
    BY <1>1 DEF Init
  <2> QED BY <2>1, <2>2, <2>3, <2>4, <2>5, Zenon DEF TypeOK
<1> QED BY <1>2 DEF Init, OutputInv, Owner, Resting

LEMMA ShiftStepKeeps ==
    ASSUME OutputInv, Interrupt, phase = "SHIFT", ShiftStep, UNCHANGED state
    PROVE  OutputInv'
<1>1. /\ TypeOK /\ Owner /\ Stepped /\ state = "BUSY" /\ state' = "BUSY"
      /\ UNCHANGED <<data, pc, i, j>> /\ pc = "idle" /\ pc' = "idle"
    BY DEF OutputInv, Interrupt, Stepping, Owner, TypeOK, Labels
<1>2. /\ byteIndex \in 0 .. size - 1 /\ bitIndex \in 0 .. ByteBits - 1
      /\ ~rck /\ calls \in 0 .. TransferCalls
      /\ calls' = IF calls <= TransferCalls THEN calls + 1 ELSE calls
    BY <1>1, Sizes DEF TypeOK, Interrupt, Stepped
<1>n. PICK n \in 0 .. Width - 1 : n = Before(byteIndex, bitIndex)
    BY <1>2, Place
<1>3. CASE stepIndex = 0
  <2>0. stepIndex # 1 /\ stepIndex # 2
    BY <1>3
  <2>1. PICK b \in DataBit(byteIndex, bitIndex) :
          stepIndex' = 1 /\ DriveDat(b) /\ UNCHANGED <<phase, byteIndex, bitIndex>>
    BY <2>0, Zenon DEF ShiftStep
  <2>2. b = data[n + 1] /\ b \in {0, 1}
    <3>1. b = data[n + 1]
      BY <1>2, <1>n, BitOfArray
    <3> QED BY <1>1, <3>1, Sizes DEF TypeOK, Bits
  <2>3. ~sck /\ Carries(n) /\ calls = 3 * n
    BY <1>1, <1>3, <1>n DEF Stepped
  <2>4. calls' = 3 * n + 1 /\ calls' \in 0 .. TransferCalls
    BY <1>2, <2>3, Sizes
  <2>5. Carries(n)' /\ n = Before(byteIndex', bitIndex')
    BY <1>1, <1>n, <2>1, <2>3 DEF Carries, DriveDat
  <2>6. TypeOK'
    BY <1>1, <2>1, <2>2, <2>4 DEF TypeOK, DriveDat
  <2>7. Stepped'
    BY <1>1, <1>2, <2>1, <2>2, <2>3, <2>4, <2>5 DEF Stepped, DriveDat
  <2> QED BY <1>1, <2>6, <2>7 DEF OutputInv, Owner
<1>4. CASE stepIndex = 1
  <2>0. stepIndex # 0 /\ stepIndex # 2
    BY <1>4
  <2>1. stepIndex' = 2 /\ DriveSck(TRUE) /\ UNCHANGED <<phase, byteIndex, bitIndex>>
    BY <2>0, Zenon DEF ShiftStep
  <2>2. sck' = TRUE /\ UNCHANGED <<dat, rck, outputs>>
    BY <2>1 DEF DriveSck
  <2>3. ~sck /\ Carries(n) /\ calls = 3 * n + 1 /\ dat = data[n + 1]
    BY <1>1, <1>4, <1>n DEF Stepped
  <2>4. calls' = 3 * n + 2 /\ calls' \in 0 .. TransferCalls
    BY <1>2, <2>3, Sizes
  <2>5. chain' \in Bits /\ Carries(n + 1)' /\ n = Before(byteIndex', bitIndex')
    BY <1>1, <1>n, <2>1, <2>3, ClockedIn
  <2>6. TypeOK'
    BY <1>1, <2>1, <2>2, <2>4, <2>5 DEF TypeOK
  <2>7. Stepped'
    BY <1>1, <1>2, <2>1, <2>2, <2>4, <2>5 DEF Stepped
  <2> QED BY <1>1, <2>6, <2>7 DEF OutputInv, Owner
<1>5. CASE stepIndex = 2
  <2>0. stepIndex # 0 /\ stepIndex # 1
    BY <1>5
  <2>1. /\ stepIndex' = 0 /\ DriveSck(FALSE)
        /\ bitIndex' = IF LastBit THEN 0 ELSE bitIndex + 1
        /\ byteIndex' = IF LastBit THEN byteIndex + 1 ELSE byteIndex
        /\ phase' = IF LastBit /\ LastByte THEN "LATCH" ELSE phase
    BY <2>0, Zenon DEF ShiftStep
  <2>2. UNCHANGED <<chain, dat, rck, outputs>> /\ sck' = FALSE /\ stepIndex' = 0
    BY <2>1 DEF DriveSck
  <2>3. Carries(n + 1) /\ calls = 3 * n + 2
    BY <1>1, <1>5, <1>n DEF Stepped
  <2>4. calls' = 3 * (n + 1) /\ calls' \in 0 .. TransferCalls
    BY <1>2, <2>3, Sizes
  <2>5. Carries(n + 1)'
    BY <1>1, <2>2, <2>3 DEF Carries
  <2>6. /\ bitIndex' \in 0 .. ByteBits - 1 /\ byteIndex' \in 0 .. size
        /\ \/ phase' = "SHIFT" /\ byteIndex' < size /\ n + 1 = Before(byteIndex', bitIndex')
           \/ phase' = "LATCH" /\ n + 1 = Width
    <3>1. CASE ~LastBit
      <4>1. byteIndex' = byteIndex /\ bitIndex' = bitIndex + 1 /\ phase' = "SHIFT"
        BY <2>1, <3>1
      <4> QED BY <1>2, <1>n, <3>1, <4>1, Place, Sizes DEF LastBit
    <3>2. CASE LastBit /\ ~LastByte
      <4>1. byteIndex' = byteIndex + 1 /\ bitIndex' = 0 /\ phase' = "SHIFT"
        BY <2>1, <3>2
      <4> QED BY <1>2, <1>n, <3>2, <4>1, Place, Sizes DEF LastBit, LastByte
    <3>3. CASE LastBit /\ LastByte
      <4>1. byteIndex' = byteIndex + 1 /\ bitIndex' = 0 /\ phase' = "LATCH"
        BY <2>1, <3>3
      <4> QED BY <1>2, <1>n, <3>3, <4>1, Place, Sizes DEF LastBit, LastByte
    <3> QED BY <3>1, <3>2, <3>3
  <2>7. TypeOK'
    <3>1. data' \in Bits /\ chain' \in Bits /\ outputs' \in Bits
      BY <1>1, <2>2 DEF TypeOK
    <3>2. sck' \in BOOLEAN /\ rck' \in BOOLEAN /\ dat' \in {0, 1}
      BY <1>1, <2>2 DEF TypeOK
    <3>3. pc' \in Labels /\ i' \in 0 .. size - 1 /\ j' \in 0 .. ByteBits - 1
      BY <1>1 DEF TypeOK
    <3>4. /\ state' \in {"IDLE", "BUSY", "DONE", "BLOCKING"} /\ phase' \in {"SHIFT", "LATCH"}
          /\ phase' = "SHIFT" => byteIndex' < size /\ stepIndex' \in 0 .. 2
      BY <1>1, <2>2, <2>6
    <3>5. stepIndex' \in 0 .. 2
      BY <2>2
    <3> QED BY <2>4, <2>6, <3>1, <3>2, <3>3, <3>4, <3>5, Zenon DEF TypeOK
  <2>8. CASE phase' = "SHIFT"
    <3>1. Stepped'
      BY <1>2, <2>2, <2>4, <2>5, <2>6, <2>8 DEF Stepped
    <3> QED BY <1>1, <2>7, <3>1 DEF OutputInv, Owner
  <2>9. CASE phase' = "LATCH"
    <3>1. Stepped'
      BY <1>2, <2>2, <2>4, <2>5, <2>6, <2>9 DEF Stepped
    <3> QED BY <1>1, <2>7, <3>1 DEF OutputInv, Owner
  <2> QED BY <2>6, <2>8, <2>9
<1> QED BY <1>1, <1>3, <1>4, <1>5 DEF TypeOK

LEMMA LatchStepKeeps ==
    ASSUME OutputInv, Interrupt, phase = "LATCH", LatchStep, UNCHANGED <<phase, byteIndex, bitIndex>>
    PROVE  /\ OutputInv'
           /\ outputs' # outputs => outputs' = data
           /\ state' = "DONE" => outputs = data /\ ~sck' /\ ~rck' /\ calls' = TransferCalls
<1>1. /\ TypeOK /\ Owner /\ Stepped /\ state = "BUSY"
      /\ UNCHANGED <<data, pc, i, j>> /\ pc = "idle"
      /\ calls' = IF calls <= TransferCalls THEN calls + 1 ELSE calls
    BY DEF OutputInv, Interrupt, Stepping, Owner, TypeOK, Labels
<1>2. ~sck /\ Carries(Width) /\ chain = data
    BY <1>1, WholeChain DEF Stepped
<1>3. CASE stepIndex = 0
  <2>1. /\ stepIndex' = 1 /\ rck' = TRUE /\ UNCHANGED <<dat, sck, chain, state>>
        /\ ~rck /\ calls = 3 * Width /\ outputs' = chain
    BY <1>1, <1>3 DEF LatchStep, DriveRck, Stepped
  <2>2. calls' = 3 * Width + 1 /\ calls' \in 0 .. TransferCalls
    BY <1>1, <2>1, Sizes
  <2>3. TypeOK'
    BY <1>1, <2>1, <2>2 DEF TypeOK
  <2>4. Carries(Width)'
    BY <1>1, <1>2, <2>1 DEF Carries
  <2>5. Stepped'
    BY <1>1, <1>2, <2>1, <2>2, <2>4 DEF Stepped
  <2> QED BY <1>1, <1>2, <2>1, <2>3, <2>5 DEF OutputInv, Owner
<1>4. CASE stepIndex # 0
  <2>1. /\ stepIndex' = 0 /\ rck' = FALSE /\ UNCHANGED <<dat, sck, chain, outputs>> /\ state' = "DONE"
        /\ calls = 3 * Width + 1 /\ outputs = data
    BY <1>1, <1>4 DEF LatchStep, DriveRck, Stepped
  <2>2. calls' = TransferCalls
    BY <1>1, <2>1, Sizes
  <2>3. TypeOK'
    <3>1. sck' \in BOOLEAN /\ rck' \in BOOLEAN /\ dat' \in {0, 1} /\ chain' \in Bits /\ outputs' \in Bits
      BY <1>1, <2>1 DEF TypeOK
    <3>2. calls' \in 0 .. TransferCalls /\ stepIndex' \in 0 .. 2
      BY <2>1, <2>2, Sizes
    <3> QED BY <1>1, <2>1, <3>1, <3>2 DEF TypeOK
  <2> QED BY <1>1, <1>2, <2>1, <2>2, <2>3 DEF OutputInv, Owner, Resting
<1> QED BY <1>3, <1>4

(* The calls of the main loop, and of an interrupt that waits for them. *)
LEMMA StartKeeps ==
    ASSUME OutputInv, ~IrqNests,
           Start \/ StartPhase \/ StartIndex \/ StartState \/ StartFromIrq
    PROVE  /\ OutputInv' /\ UNCHANGED outputs
           /\ state' = "DONE" => state = "DONE"
<1>0. /\ TypeOK /\ Owner /\ 0 \in 0 .. size /\ 0 \in 0 .. ByteBits - 1 /\ 0 \in 0 .. TransferCalls
      /\ 0 \in 0 .. 2 /\ 0 < size
    BY Sizes DEF OutputInv
<1>1. CASE Start
  <2>1. state \in {"IDLE", "DONE"} /\ UNCHANGED <<data, transfer, i, j, wires, calls>> /\ pc' = "startPhase"
    BY <1>0, <1>1 DEF Start, Free, TypeOK
  <2>2. TypeOK'
    BY <1>0, <2>1 DEF TypeOK, transfer, wires, pins, Labels
  <2> QED BY <1>0, <2>1, <2>2 DEF OutputInv, Owner, Resting, transfer, wires, pins
<1>2. CASE StartPhase
  <2>1. state \in {"IDLE", "DONE"} /\ pc' = "startIndex" /\ phase' = "SHIFT"
        /\ UNCHANGED <<data, state, byteIndex, bitIndex, stepIndex, i, j, wires, calls>>
    BY <1>0, <1>2 DEF StartPhase, Owner
  <2>2. TypeOK'
    BY <1>0, <2>1 DEF TypeOK, wires, pins, Labels
  <2> QED BY <1>0, <2>1, <2>2 DEF OutputInv, Owner, Resting, wires, pins
<1>3. CASE StartIndex
  <2>1. state \in {"IDLE", "DONE"} /\ pc' = "startState" /\ phase = "SHIFT"
        /\ byteIndex' = 0 /\ bitIndex' = 0 /\ stepIndex' = 0
        /\ UNCHANGED <<data, state, phase, i, j, wires, calls>>
    BY <1>0, <1>3 DEF StartIndex, Owner
  <2>2. TypeOK'
    BY <1>0, <2>1 DEF TypeOK, wires, pins, Labels
  <2> QED BY <1>0, <2>1, <2>2 DEF OutputInv, Owner, Resting, wires, pins
<1>4. ASSUME /\ phase' = "SHIFT" /\ byteIndex' = 0 /\ bitIndex' = 0 /\ stepIndex' = 0
             /\ pc' = "idle" /\ state' = "BUSY" /\ calls' = 0
             /\ UNCHANGED <<data, i, j, wires>>
             /\ state \in {"IDLE", "DONE"}
      PROVE  OutputInv' /\ UNCHANGED outputs
  <2>1. TypeOK'
    BY <1>0, <1>4 DEF TypeOK, wires, pins, Labels
  <2>2. Resting
    BY <1>4 DEF OutputInv
  <2>3. Stepped'
    <3>1. Before(byteIndex', bitIndex') = 0
      BY <1>4, Beginning
    <3>2. \A m \in 1 .. 0 : FALSE
      OBVIOUS
    <3> QED BY <1>0, <1>4, <2>2, <3>1, <3>2 DEF Stepped, Carries, Resting, wires, pins
  <2> QED BY <1>4, <2>1, <2>3 DEF OutputInv, Owner, wires
<1>5. CASE StartState
  <2>1. state \in {"IDLE", "DONE"} /\ phase = "SHIFT" /\ byteIndex = 0 /\ bitIndex = 0 /\ stepIndex = 0
    BY <1>0, <1>5 DEF StartState, Owner
  <2> QED BY <1>4, <1>5, <2>1 DEF StartState
<1>6. CASE StartFromIrq
  <2>1. pc = "idle" /\ state \in {"IDLE", "DONE"}
    BY <1>0, <1>6 DEF StartFromIrq, Free, TypeOK
  <2> QED BY <1>4, <1>6, <2>1 DEF StartFromIrq
<1> QED BY <1>1, <1>2, <1>3, <1>5, <1>6

LEMMA RewriteKeeps ==
    ASSUME OutputInv, NEW d \in Bits, Rewrite(d)
    PROVE  OutputInv' /\ UNCHANGED <<outputs, state>>
<1>1. /\ TypeOK /\ Owner /\ state \in {"IDLE", "DONE"} /\ data' = d
      /\ UNCHANGED <<transfer, pc, i, j, wires, calls>>
    BY DEF OutputInv, Rewrite, Free, TypeOK
<1>2. TypeOK'
    BY <1>1 DEF TypeOK, transfer, wires, pins
<1> QED BY <1>1, <1>2 DEF OutputInv, Owner, Resting, transfer, wires, pins

LEMMA OneShotKeeps ==
    ASSUME OutputInv,
           \/ OneShot \/ Claim \/ OneShotDat \/ OneShotSckUp \/ OneShotSckDown \/ OneShotRck \/ Release
    PROVE  /\ OutputInv'
           /\ outputs' # outputs => outputs' = data
           /\ state' = "DONE" /\ state # "DONE" => outputs = data /\ ~sck' /\ ~rck' /\ state = "BLOCKING"
<1>0. /\ TypeOK /\ Owner /\ 0 \in 0 .. size - 1 /\ 0 \in 0 .. ByteBits - 1
    BY Sizes DEF OutputInv
<1>1. CASE OneShot
  <2>1. state \in {"IDLE", "DONE"} /\ UNCHANGED <<data, transfer, i, j, wires, calls>> /\ pc' = "claim"
    BY <1>0, <1>1 DEF OneShot, Free, TypeOK
  <2>2. TypeOK'
    BY <1>0, <2>1 DEF TypeOK, transfer, wires, pins, Labels
  <2> QED BY <1>0, <2>1, <2>2 DEF OutputInv, Owner, Resting, transfer, wires, pins
<1>2. CASE Claim
  <2>1. /\ state \in {"IDLE", "DONE"} /\ pc' = "dat" /\ state' = "BLOCKING" /\ i' = 0 /\ j' = 0
        /\ UNCHANGED <<data, phase, byteIndex, bitIndex, stepIndex, wires, calls>>
    BY <1>0, <1>2 DEF Claim, Owner
  <2>2. TypeOK'
    BY <1>0, <2>1 DEF TypeOK, wires, pins, Labels
  <2>3. Before(i', j') = 0 /\ Resting
    BY <2>1, Beginning DEF OutputInv
  <2>4. Blocking'
    <3>2. \A m \in 1 .. 0 : FALSE
      OBVIOUS
    <3> QED BY <2>1, <2>3, <3>2 DEF Blocking, Carries, Resting, wires, pins
  <2> QED BY <2>1, <2>2, <2>4 DEF OutputInv, Owner, wires
<1>n. PICK n \in 0 .. Width - 1 : n = Before(i, j)
    BY <1>0, Place DEF TypeOK
<1>3. CASE OneShotDat
  <2>1. PICK b \in DataBit(i, j) : DriveDat(b)
    BY <1>3 DEF OneShotDat
  <2>2. /\ pc = "dat" /\ pc' = "sckUp" /\ UNCHANGED <<data, transfer, i, j, calls>>
        /\ dat' = b /\ UNCHANGED <<sck, rck, chain, outputs>> /\ state = "BLOCKING"
    BY <1>0, <1>3, <2>1 DEF OneShotDat, DriveDat, Owner
  <2>3. b = data[n + 1] /\ b \in {0, 1}
    <3>1. b = data[n + 1]
      BY <1>0, <1>n, <2>1, BitOfArray DEF TypeOK
    <3> QED BY <1>0, <3>1, Sizes DEF TypeOK, Bits
  <2>4. TypeOK'
    BY <1>0, <2>2, <2>3 DEF TypeOK, transfer, Labels
  <2>5. Resting /\ Carries(n)
    BY <1>n, <2>2 DEF OutputInv, Blocking
  <2>6. Blocking'
    BY <1>n, <2>2, <2>3, <2>5 DEF Blocking, Carries, Resting
  <2> QED BY <2>2, <2>4, <2>6 DEF OutputInv, Owner, transfer
<1>4. CASE OneShotSckUp
  <2>1. /\ pc = "sckUp" /\ pc' = "sckDown" /\ UNCHANGED <<data, transfer, i, j, calls>>
        /\ DriveSck(TRUE) /\ sck' = TRUE /\ UNCHANGED <<dat, rck, outputs>> /\ state = "BLOCKING"
    BY <1>0, <1>4 DEF OneShotSckUp, DriveSck, Owner
  <2>2. ~sck /\ ~rck /\ Carries(n) /\ dat = data[n + 1]
    BY <1>n, <2>1 DEF OutputInv, Blocking, Resting
  <2>3. chain' \in Bits /\ Carries(n + 1)'
    BY <1>0, <2>1, <2>2, ClockedIn
  <2>4. TypeOK'
    BY <1>0, <2>1, <2>3 DEF TypeOK, transfer, Labels
  <2>5. Blocking'
    BY <1>n, <2>1, <2>2, <2>3 DEF Blocking
  <2> QED BY <2>1, <2>4, <2>5 DEF OutputInv, Owner, transfer
<1>5. CASE OneShotSckDown
  <2>1. /\ pc = "sckDown" /\ UNCHANGED <<data, transfer, calls>>
        /\ sck' = FALSE /\ UNCHANGED <<chain, dat, rck, outputs>> /\ state = "BLOCKING"
    BY <1>0, <1>5 DEF OneShotSckDown, DriveSck, Owner
  <2>2. ~rck /\ Carries(n + 1)
    BY <1>n, <2>1 DEF OutputInv, Blocking
  <2>3. i \in 0 .. size - 1 /\ j \in 0 .. ByteBits - 1
    BY <1>0 DEF TypeOK
  <2>4. /\ i' \in 0 .. size - 1 /\ j' \in 0 .. ByteBits - 1
        /\ \/ pc' = "dat" /\ n + 1 = Before(i', j')
           \/ pc' = "rckUp" /\ n + 1 = Width
    BY <1>5, <1>n, <2>3, Place, Sizes DEF OneShotSckDown
  <2>5. Carries(n + 1)'
    BY <2>1, <2>2 DEF Carries
  <2>6. TypeOK'
    BY <1>0, <2>1, <2>4 DEF TypeOK, transfer, Labels
  <2>7. Blocking'
    BY <2>1, <2>2, <2>4, <2>5 DEF Blocking, Resting
  <2> QED BY <2>1, <2>4, <2>6, <2>7 DEF OutputInv, Owner, transfer
<1>6. CASE OneShotRck
  <2>1. UNCHANGED <<data, transfer, i, j, calls, dat, sck, chain>> /\ state = "BLOCKING"
    BY <1>0, <1>6 DEF OneShotRck, DriveRck, Owner
  <2>2. CASE pc = "rckUp"
    <3>1. pc' = "rckDown" /\ rck' = TRUE /\ outputs' = chain /\ ~sck /\ chain = data
      BY <1>0, <1>6, <2>1, <2>2, WholeChain DEF OneShotRck, DriveRck, OutputInv, Blocking, Resting
    <3>2. TypeOK'
      BY <1>0, <2>1, <3>1 DEF TypeOK, transfer, Labels
    <3>3. Blocking'
      BY <2>1, <3>1 DEF Blocking
    <3> QED BY <2>1, <3>1, <3>2, <3>3 DEF OutputInv, Owner, transfer
  <2>3. CASE pc = "rckDown"
    <3>1. pc' = "release" /\ rck' = FALSE /\ outputs' = outputs /\ ~sck /\ outputs = data
      BY <1>6, <2>1, <2>3 DEF OneShotRck, DriveRck, OutputInv, Blocking
    <3>2. TypeOK'
      BY <1>0, <2>1, <3>1 DEF TypeOK, transfer, Labels
    <3>3. Blocking'
      BY <2>1, <3>1 DEF Blocking, Resting
    <3> QED BY <2>1, <3>1, <3>2, <3>3 DEF OutputInv, Owner, transfer
  <2> QED BY <1>6, <2>2, <2>3 DEF OneShotRck
<1>7. CASE Release
  <2>1. /\ pc = "release" /\ pc' = "idle" /\ state' = "DONE" /\ state = "BLOCKING"
        /\ UNCHANGED <<data, phase, byteIndex, bitIndex, stepIndex, i, j, wires, calls>>
    BY <1>0, <1>7 DEF Release, Owner
  <2>2. Resting /\ outputs = data
    BY <2>1 DEF OutputInv, Blocking
  <2>3. TypeOK'
    BY <1>0, <2>1 DEF TypeOK, wires, pins, Labels
  <2> QED BY <2>1, <2>2, <2>3 DEF OutputInv, Owner, Resting, wires, pins
<1> QED BY <1>1, <1>2, <1>3, <1>4, <1>5, <1>6, <1>7

LEMMA InterruptKeeps ==
    ASSUME OutputInv, Interrupt
    PROVE  /\ OutputInv' /\ pc = "idle"
           /\ outputs' # outputs => outputs' = data
           /\ state' = "DONE" => outputs = data /\ ~sck' /\ ~rck' /\ calls' = TransferCalls
<1>1. pc = "idle" /\ state = "BUSY"
    BY DEF OutputInv, Owner, Interrupt, Stepping, TypeOK, Labels
<1>2. CASE phase = "SHIFT" /\ ShiftStep /\ UNCHANGED state
  <2>1. UNCHANGED outputs
    BY <1>2 DEF ShiftStep, DriveDat, DriveSck
  <2> QED BY <1>1, <1>2, <2>1, ShiftStepKeeps
<1>3. CASE phase = "LATCH" /\ LatchStep /\ UNCHANGED <<phase, byteIndex, bitIndex>>
    BY <1>1, <1>3, LatchStepKeeps
<1> QED BY <1>2, <1>3, Zenon DEF Interrupt

LEMMA NextOutput ==
    ASSUME ~IrqNests, OutputInv, [Next]_vars
    PROVE  /\ OutputInv'
           /\ Interrupt => pc \notin {"startPhase", "startIndex", "startState"}
           /\ vars' # vars =>
                /\ outputs' # outputs => outputs' = data
                /\ state' = "DONE" /\ state # "DONE" => outputs = data /\ ~sck' /\ ~rck'
                /\ state' = "DONE" /\ state = "BUSY" => calls' = TransferCalls
<1>1. Interrupt => pc \notin {"startPhase", "startIndex", "startState"}
    BY InterruptKeeps
<1>2. CASE Interrupt
    BY <1>2, InterruptKeeps
<1>3. CASE Start \/ StartPhase \/ StartIndex \/ StartState \/ StartFromIrq
    BY <1>1, <1>3, StartKeeps
<1>4. CASE \/ OneShot \/ Claim \/ OneShotDat \/ OneShotSckUp \/ OneShotSckDown \/ OneShotRck \/ Release
    BY <1>1, <1>4, OneShotKeeps
<1>5. ASSUME NEW d \in Bits, Rewrite(d) PROVE OutputInv' /\ UNCHANGED <<outputs, state>>
    BY <1>5, RewriteKeeps
<1>6. CASE UNCHANGED vars
  <2>1. OutputInv'
    BY <1>6 DEF vars, transfer, wires, pins, OutputInv, TypeOK, Owner, Stepped, Blocking, Resting,
                Carries, Before
  <2> QED BY <1>1, <1>6, <2>1
<1> QED BY <1>1, <1>2, <1>3, <1>4, <1>5, <1>6 DEF Next, Continue

LEMMA OutputInvariant == ASSUME ~IrqNests PROVE Spec => []OutputInv
<1>1. OutputInv /\ [Next]_vars => OutputInv'
    BY NextOutput
<1> QED BY <1>1, InitOutput, PTL DEF Spec

(* Every field keeps its type, and a step never reads past the array, where  *)
(* no interrupt that calls hc595Start comes inside the main loop's calls.    *)
THEOREM OutputTypes == ASSUME ~IrqNests PROVE Spec => []TypeOK
<1>1. OutputInv => TypeOK
    BY DEF OutputInv
<1> QED BY <1>1, OutputInvariant, PTL

(* Then no interrupt steps a transfer whose indices are being set.           *)
THEOREM ArmingIsUnseen == ASSUME ~IrqNests PROVE Spec => ArmingUnseen
<1>1. OutputInv /\ [Next]_vars => [Interrupt => pc \notin {"startPhase", "startIndex", "startState"}]_vars
    BY NextOutput
<1> QED BY <1>1, OutputInvariant, PTL DEF Spec, ArmingUnseen

(* And of an array and bytes of any size: the outputs move only to the whole *)
(* array, a transfer that is done left it there with both clocks low, and a  *)
(* stepped one took three calls a bit and two for the latch pulse.           *)
THEOREM DoneIsWhatItSays == ASSUME ~IrqNests PROVE Spec => DoneIsDone
<1>1. OutputInv /\ [Next]_vars =>
        [/\ outputs' # outputs => outputs' = data
         /\ state' = "DONE" /\ state # "DONE" => outputs = data /\ ~sck' /\ ~rck'
         /\ state' = "DONE" /\ state = "BUSY" => calls' = TransferCalls]_vars
    BY NextOutput
<1> QED BY <1>1, OutputInvariant, PTL DEF Spec, DoneIsDone

-----------------------------------------------------------------------------
(* The inputs.  The first n bits are read, the chain holds the others, and   *)
(* the rest of a byte that was begun is zero.                                *)
ReadTo(n) == \A m \in 1 .. n : inData[m] = taken[m]
LeftFrom(n) == \A m \in 1 .. Width - n : inChain[m] = taken[n + m]
ZeroFrom(n, a) == \A m \in n + 1 .. Before(a + 1, 0) : inData[m] = 0

(* Where a transfer stands that reads bit b of byte a next. *)
Reading(a, b) ==
    LET n == Before(a, b) IN ReadTo(n) /\ LeftFrom(n) /\ (b # 0 => ZeroFrom(n, a))

InTypes ==
    /\ inData \in Bits /\ latch \in Bits /\ inChain \in Bits /\ taken \in Bits
    /\ inState \in {"IDLE", "BUSY", "DONE", "BLOCKING"} /\ inPhase \in {"PROLOGUE", "SHIFT"}
    /\ inPc \in {"idle", "startPhase", "startIndex", "startState", "claim",
                 "clkUp", "clkDown", "lodDown", "lodUp", "read", "bitUp", "bitDown", "release"}
    /\ inI \in 0 .. size - 1 /\ inJ \in 0 .. ByteBits - 1
    /\ inByteIndex \in Nat /\ inBitIndex \in 0 .. ByteBits - 1 /\ inCalls \in 0 .. In!TransferCalls

InOwner ==
    /\ inPc \in {"startPhase", "startIndex", "startState", "claim"} => inState \in {"IDLE", "DONE"}
    /\ inPc = "idle" => inState # "BLOCKING"
    /\ inPc \in {"clkUp", "clkDown", "lodDown", "lodUp", "read", "bitUp", "bitDown", "release"}
         => inState = "BLOCKING"
    /\ inPc = "startIndex" => inPhase = "PROLOGUE"
    /\ inPc = "startState" => inPhase = "PROLOGUE" /\ inByteIndex = 0 /\ inBitIndex = 0
    /\ inPc \notin {"clkDown", "bitDown"} => ~clk
    /\ inPc # "lodUp" => lod

InStepped ==
    \/ inPhase = "PROLOGUE" /\ inByteIndex = 0 /\ inBitIndex = 0 /\ inCalls = 0
    \/ /\ inPhase = "SHIFT" /\ inByteIndex < size /\ Reading(inByteIndex, inBitIndex)
       /\ inCalls = 1 + Before(inByteIndex, inBitIndex)

InBlocking ==
    LET n == Before(inI, inJ)
    IN  /\ inPc \in {"clkUp", "clkDown", "lodDown", "lodUp"} => inI = 0 /\ inJ = 0
        /\ inPc \in {"clkDown", "lodDown"} => latch = taken
        /\ inPc = "lodUp" => inChain = taken
        /\ inPc = "read" => Reading(inI, inJ)
        /\ inPc \in {"bitUp", "bitDown"} => ReadTo(n + 1) /\ ZeroFrom(n + 1, inI)
        /\ inPc = "bitUp" => LeftFrom(n)
        /\ inPc = "bitDown" => LeftFrom(n + 1)
        /\ inPc = "release" => inData = taken

InputInv ==
    /\ InTypes /\ InOwner
    /\ inState = "BUSY" => InStepped
    /\ inState = "BLOCKING" => InBlocking
    /\ inState = "DONE" => inData = taken

-----------------------------------------------------------------------------
LEMMA InSizes == In!TransferCalls = Width + 1 /\ In!Bits = Bits
BY Sizes DEF In!TransferCalls, In!Bits, Width, Bits

(* The byte of a bit. *)
LEMMA ByteOf ==
    ASSUME NEW m \in 1 .. Width, NEW a \in 0 .. size - 1
    PROVE  (m - 1) \div ByteBits = a <=> Before(a, 0) < m /\ m <= Before(a + 1, 0)
<1> DEFINE q == (m - 1) \div ByteBits
           r == (m - 1) % ByteBits
<1>0. ByteBits \in Nat \ {0} /\ m - 1 \in Nat /\ a \in Int
    BY Sizes
<1>1. q \in Int /\ r \in 0 .. ByteBits - 1 /\ m - 1 = ByteBits * q + r
    BY <1>0
<1>2. /\ Before(a, 0) = ByteBits * a /\ Before(a + 1, 0) = ByteBits * a + ByteBits
      /\ ByteBits * a \in Int /\ ByteBits * q \in Int
    BY <1>0, <1>1, Z3 DEF Before
<1> HIDE DEF q, r
<1>3. CASE q = a
    BY <1>0, <1>1, <1>2, <1>3
<1>4. CASE q < a
  <2>1. ByteBits * q + ByteBits <= ByteBits * a
    BY <1>0, <1>1, <1>4, Below
  <2> QED BY <1>0, <1>1, <1>2, <1>4, <2>1
<1>5. CASE a < q
  <2>1. ByteBits * a + ByteBits <= ByteBits * q
    BY <1>0, <1>1, <1>5, Below
  <2> QED BY <1>0, <1>1, <1>2, <1>5, <2>1
<1> QED BY <1>0, <1>1, <1>3, <1>4, <1>5 DEF q

(* A bit that is read is the one the chain had taken, and the rest of its    *)
(* byte is zero.                                                             *)
LEMMA BitRead ==
    ASSUME InTypes, NEW a \in 0 .. size - 1, NEW b \in 0 .. ByteBits - 1, Reading(a, b),
           NEW n \in 0 .. Width - 1, n = Before(a, b),
           NEW read, read = In!WithBit(IF b = 0 THEN In!Zeroed(a) ELSE inData, a, b)
    PROVE  /\ read \in Bits
           /\ \A m \in 1 .. n + 1 : read[m] = taken[m]
           /\ \A m \in n + 2 .. Before(a + 1, 0) : read[m] = 0
<1> DEFINE array == IF b = 0 THEN In!Zeroed(a) ELSE inData
<1>0. /\ inData \in [1 .. Width -> {0, 1}] /\ taken \in [1 .. Width -> {0, 1}]
      /\ inChain \in [1 .. Width -> {0, 1}] /\ Width \in Nat \ {0} /\ DOMAIN inData = 1 .. Width
      /\ ByteBits \in Nat \ {0}
    BY Sizes DEF InTypes, Bits
<1>1. Before(a, 0) <= n /\ n < Before(a + 1, 0) /\ Before(a + 1, 0) \in 0 .. Width
  <2>1. Before(a, 0) \in Int /\ n = Before(a, 0) + b /\ Before(a + 1, 0) = Before(a, 0) + ByteBits
    BY <1>0, Z3 DEF Before
  <2>2. ByteBits - 1 \in 0 .. ByteBits - 1
    BY <1>0
  <2>3. Before(a, ByteBits - 1) \in 0 .. Width - 1 /\ Before(a + 1, 0) = Before(a, ByteBits - 1) + 1
    BY <1>0, <2>2, Place
  <2> QED BY <1>0, <2>1, <2>3
<1>2. /\ array \in [1 .. Width -> {0, 1}]
      /\ \A m \in 1 .. n : array[m] = taken[m]
      /\ \A m \in n + 1 .. Before(a + 1, 0) : array[m] = 0
  <2>1. CASE b = 0
    <3>1. array = [k \in 1 .. Width |-> IF (k - 1) \div ByteBits = a THEN 0 ELSE inData[k]]
      BY <1>0, <2>1 DEF In!Zeroed
    <3>2. n = Before(a, 0)
      BY <2>1
    <3>3. array \in [1 .. Width -> {0, 1}]
      BY <1>0, <3>1
    <3>4. ASSUME NEW m \in 1 .. n PROVE array[m] = taken[m]
      <4>1. m \in 1 .. Width /\ ~((m - 1) \div ByteBits = a)
        BY <1>0, <1>1, <3>2, ByteOf
      <4> QED BY <3>1, <4>1 DEF Reading, ReadTo
    <3>5. ASSUME NEW m \in n + 1 .. Before(a + 1, 0) PROVE array[m] = 0
      <4>1. m \in 1 .. Width /\ (m - 1) \div ByteBits = a
        <5>1. m \in 1 .. Width
          BY <1>0, <1>1
        <5>2. Before(a, 0) < m /\ m <= Before(a + 1, 0)
          BY <1>0, <1>1, <3>2
        <5> QED BY <5>1, <5>2, ByteOf
      <4> QED BY <3>1, <4>1
    <3> QED BY <3>3, <3>4, <3>5
  <2>2. CASE b # 0
    <3>1. array = inData
      BY <2>2
    <3> QED BY <1>0, <2>2, <3>1 DEF Reading, ReadTo, ZeroFrom
  <2> QED BY <2>1, <2>2
<1>3. Head(inChain) = taken[n + 1]
  <2>1. inChain[1] = taken[n + 1]
    BY <1>0 DEF Reading, LeftFrom
  <2>2. inChain \in Seq({0, 1}) /\ Len(inChain) = Width
    BY <1>0
  <2> QED BY <1>0, <2>1, <2>2
<1>4. n + 1 \in 1 .. Width /\ n + 1 \in n + 1 .. Before(a + 1, 0) /\ taken[n + 1] \in {0, 1}
    BY <1>0, <1>1
<1> HIDE DEF array
<1>5. read = [array EXCEPT ![n + 1] = IF taken[n + 1] # 0 THEN 1 ELSE @]
    BY <1>3 DEF In!WithBit, In!Dat, Before, array
<1>6. read \in [1 .. Width -> {0, 1}] /\ read[n + 1] = taken[n + 1]
  <2>1. array[n + 1] = 0
    BY <1>2, <1>4
  <2> QED BY <1>2, <1>4, <1>5, <2>1
<1>7. \A m \in 1 .. Width : m # n + 1 => read[m] = array[m]
    BY <1>2, <1>5
<1>8. ASSUME NEW m \in 1 .. n + 1 PROVE read[m] = taken[m]
    BY <1>2, <1>6, <1>7, <1>0
<1>9. ASSUME NEW m \in n + 2 .. Before(a + 1, 0) PROVE read[m] = 0
    BY <1>0, <1>1, <1>2, <1>7
<1> QED BY <1>6, <1>8, <1>9 DEF Bits

(* A shift moves the bits that are left up by one. *)
LEMMA ShiftedOut ==
    ASSUME InTypes, NEW n \in 0 .. Width - 1, LeftFrom(n),
           inChain' = Append(Tail(inChain), 0), taken' = taken
    PROVE  inChain' \in Bits /\ LeftFrom(n + 1)'
<1>1. /\ inChain' \in Bits
      /\ \A m \in 1 .. Width - 1 : inChain'[m] = inChain[m + 1]
    BY Shifted DEF InTypes
<1>2. ASSUME NEW m \in 1 .. Width - (n + 1) PROVE inChain'[m] = taken[n + 1 + m]
  <2>1. m \in 1 .. Width - 1 /\ m + 1 \in 1 .. Width - n /\ n + (m + 1) = n + 1 + m
    BY Sizes
  <2> QED BY <1>1, <2>1 DEF LeftFrom
<1> QED BY <1>1, <1>2 DEF LeftFrom

(* The bit after bit b of byte a, in numbers. *)
LEMMA NextBit ==
    ASSUME NEW a \in 0 .. size - 1, NEW b \in 0 .. ByteBits - 1,
           NEW n \in 0 .. Width - 1, n = Before(a, b),
           ReadTo(n + 1)', LeftFrom(n + 1)', ZeroFrom(n + 1, a)'
    PROVE  /\ b + 1 < ByteBits => Reading(a, b + 1)' /\ Before(a, b + 1) = n + 1
           /\ b + 1 >= ByteBits /\ a + 1 < size => Reading(a + 1, 0)' /\ Before(a + 1, 0) = n + 1
           /\ b + 1 >= ByteBits /\ a + 1 >= size => n + 1 = Width
<1>1. CASE b + 1 < ByteBits
  <2>1. Before(a, b + 1) = n + 1
    BY Place
  <2> QED BY <1>1, <2>1, Sizes DEF Reading
<1>2. CASE b + 1 >= ByteBits
  <2>1. Before(a + 1, 0) = n + 1 /\ (a + 1 >= size => n + 1 = Width)
    BY <1>2, Place
  <2> QED BY <1>2, <2>1, Sizes DEF Reading
<1> QED BY <1>1, <1>2, Sizes


-----------------------------------------------------------------------------
LEMMA InitInput == In!Init => InputInv
<1> SUFFICES ASSUME In!Init PROVE InputInv
    OBVIOUS
<1>1. /\ 0 \in 0 .. size - 1 /\ 0 \in 0 .. ByteBits - 1 /\ 0 \in 0 .. In!TransferCalls
      /\ [k \in 1 .. Width |-> 1] \in [1 .. Width -> {0, 1}]
    BY Sizes, InSizes
<1>2. inData \in Bits
    BY <1>1 DEF In!Init, Bits, Width
<1>3. InTypes
    BY <1>1, <1>2, InSizes DEF In!Init, InTypes
<1> QED BY <1>3 DEF In!Init, InputInv, InOwner

LEMMA InInterruptKeeps ==
    ASSUME InputInv, In!Interrupt
    PROVE  /\ InputInv' /\ inPc = "idle"
           /\ inState' = "DONE" => /\ inData' = taken' /\ ~clk' /\ lod'
                                   /\ inCalls' = In!TransferCalls
<1>1. /\ InTypes /\ InOwner /\ InStepped /\ inState = "BUSY" /\ inPc = "idle"
      /\ UNCHANGED <<inPc, inI, inJ, clk, lod>> /\ ~clk /\ lod
      /\ inCalls' = IF inCalls <= In!TransferCalls THEN inCalls + 1 ELSE inCalls
    BY DEF InputInv, In!Interrupt, InOwner, InTypes
<1>2. CASE inPhase = "PROLOGUE" /\ In!PrologueStep
  <2>1. PICK now \in Bits : latch' = now /\ taken' = now /\ inChain' = now
    BY <1>2, InSizes DEF In!PrologueStep
  <2>2. inPhase' = "SHIFT" /\ UNCHANGED <<inData, inState, inByteIndex, inBitIndex>>
    BY <1>2 DEF In!PrologueStep
  <2>3. inByteIndex = 0 /\ inBitIndex = 0 /\ inCalls = 0
    BY <1>1, <1>2 DEF InStepped
  <2>4. inCalls' = 1 /\ inCalls' \in 0 .. In!TransferCalls
    BY <1>1, <2>3, Sizes, InSizes
  <2>5. InTypes'
    BY <1>1, <2>1, <2>2, <2>4 DEF InTypes
  <2>6. Reading(0, 0)'
    <3>1. \A m \in 1 .. 0 : FALSE
      OBVIOUS
    <3>2. \A m \in 1 .. Width : inChain'[m] = taken'[0 + m]
      BY <2>1
    <3>3. Width - 0 = Width
      BY Sizes
    <3> QED BY <3>1, <3>2, <3>3, Beginning DEF Reading, ReadTo, LeftFrom
  <2>7. InStepped'
    BY <2>2, <2>3, <2>4, <2>6, Beginning, Sizes DEF InStepped
  <2> QED BY <1>1, <2>2, <2>5, <2>7 DEF InputInv, InOwner
<1>3. CASE inPhase = "SHIFT" /\ In!ShiftStep
  <2>1. /\ inData' = In!ReadBit /\ latch' \in Bits /\ inChain' = Append(Tail(inChain), 0)
        /\ inBitIndex' = IF inBitIndex + 1 >= ByteBits THEN 0 ELSE inBitIndex + 1
        /\ inByteIndex' = IF inBitIndex + 1 >= ByteBits THEN inByteIndex + 1 ELSE inByteIndex
        /\ inState' = IF inBitIndex + 1 >= ByteBits /\ inByteIndex + 1 >= size
                      THEN "DONE" ELSE inState
        /\ UNCHANGED <<inPhase, taken>>
    BY <1>3, InSizes DEF In!ShiftStep, In!LastByte
  <2>2. PICK a \in 0 .. size - 1, b \in 0 .. ByteBits - 1 : a = inByteIndex /\ b = inBitIndex
    BY <1>1, <1>3, Sizes DEF InStepped, InTypes
  <2>3. PICK n \in 0 .. Width - 1 : n = Before(a, b)
    BY <2>2, Place
  <2>4. Reading(a, b) /\ inCalls = 1 + n
    BY <1>1, <1>3, <2>2, <2>3 DEF InStepped
  <2>5. /\ inData' \in Bits
        /\ \A m \in 1 .. n + 1 : inData'[m] = taken[m]
        /\ \A m \in n + 2 .. Before(a + 1, 0) : inData'[m] = 0
    <3>1. inData' = In!WithBit(IF b = 0 THEN In!Zeroed(a) ELSE inData, a, b)
      BY <2>1, <2>2 DEF In!ReadBit
    <3> QED BY <1>1, <2>3, <2>4, <3>1, BitRead
  <2>6. inChain' \in Bits /\ LeftFrom(n + 1)'
    BY <1>1, <2>1, <2>3, <2>4, ShiftedOut DEF Reading
  <2>7. ReadTo(n + 1)' /\ ZeroFrom(n + 1, a)'
    <3>1. n + 1 + 1 = n + 2
      OBVIOUS
    <3> QED BY <2>1, <2>5, <3>1 DEF ReadTo, ZeroFrom
  <2>8. inCalls' = 2 + n /\ inCalls' \in 0 .. In!TransferCalls
    BY <1>1, <2>4, Sizes, InSizes
  <2>9. InTypes'
    <3>1. inBitIndex' \in 0 .. ByteBits - 1 /\ inByteIndex' \in Nat
      BY <2>1, <2>2, Sizes
    <3>2. inState' \in {"IDLE", "BUSY", "DONE", "BLOCKING"} /\ inPhase' = "SHIFT"
      BY <1>1, <1>3, <2>1
    <3>3. taken' \in Bits /\ latch' \in Bits
      BY <1>1, <2>1 DEF InTypes
    <3> QED BY <1>1, <2>5, <2>6, <2>8, <3>1, <3>2, <3>3 DEF InTypes
  <2>10. CASE ~(b + 1 >= ByteBits /\ a + 1 >= size)
    <3>1. inState' = "BUSY"
      BY <1>1, <2>1, <2>2, <2>10
    <3>2. Reading(inByteIndex, inBitIndex)' /\ Before(inByteIndex', inBitIndex') = n + 1
          /\ inByteIndex' < size
      BY <2>1, <2>2, <2>3, <2>6, <2>7, <2>10, NextBit, Sizes DEF Reading
    <3>3. InStepped'
      BY <1>3, <2>1, <2>8, <3>2 DEF InStepped
    <3> QED BY <1>1, <2>9, <3>1, <3>3 DEF InputInv, InOwner
  <2>11. CASE b + 1 >= ByteBits /\ a + 1 >= size
    <3>1. inState' = "DONE" /\ n + 1 = Width
      BY <2>1, <2>2, <2>3, <2>6, <2>7, <2>11, NextBit
    <3>2. inData' = taken'
      BY <2>7, <2>9, <3>1, SameBits DEF InTypes, ReadTo
    <3> QED BY <1>1, <2>8, <2>9, <3>1, <3>2, InSizes DEF InputInv, InOwner
  <2> QED BY <2>10, <2>11
<1> QED BY <1>2, <1>3 DEF In!Interrupt

LEMMA InStartKeeps ==
    ASSUME InputInv, ~IrqNests,
           \/ In!Start \/ In!StartPhase \/ In!StartIndex \/ In!StartState \/ In!StartFromIrq
    PROVE  InputInv' /\ ~(inState = "BUSY" /\ inState' = "DONE")
<1> USE DEF In!transfer, In!wires
<1>0. /\ InTypes /\ InOwner /\ 0 \in 0 .. ByteBits - 1 /\ 0 \in 0 .. In!TransferCalls
    BY Sizes, InSizes DEF InputInv
<1>1. CASE In!Start
  <2>1. inState \in {"IDLE", "DONE"} /\ UNCHANGED <<inData, In!transfer, inI, inJ, In!wires, taken, inCalls>>
        /\ inPc' = "startPhase" /\ inPc = "idle"
    BY <1>0, <1>1 DEF In!Start, In!Free, InTypes
  <2>2. InTypes'
    BY <1>0, <2>1 DEF InTypes
  <2> QED BY <1>0, <2>1, <2>2 DEF InputInv, InOwner
<1>2. CASE In!StartPhase
  <2>1. inState \in {"IDLE", "DONE"} /\ inPc' = "startIndex" /\ inPhase' = "PROLOGUE" /\ inPc = "startPhase"
        /\ UNCHANGED <<inData, inState, inByteIndex, inBitIndex, inI, inJ, In!wires, taken, inCalls>>
    BY <1>0, <1>2 DEF In!StartPhase, InOwner
  <2>2. InTypes'
    BY <1>0, <2>1 DEF InTypes
  <2> QED BY <1>0, <2>1, <2>2 DEF InputInv, InOwner
<1>3. CASE In!StartIndex
  <2>1. inState \in {"IDLE", "DONE"} /\ inPc' = "startState" /\ inPhase = "PROLOGUE" /\ inPc = "startIndex"
        /\ inByteIndex' = 0 /\ inBitIndex' = 0
        /\ UNCHANGED <<inData, inState, inPhase, inI, inJ, In!wires, taken, inCalls>>
    BY <1>0, <1>3 DEF In!StartIndex, InOwner
  <2>2. InTypes'
    BY <1>0, <2>1 DEF InTypes
  <2> QED BY <1>0, <2>1, <2>2 DEF InputInv, InOwner
<1>4. ASSUME /\ inPhase' = "PROLOGUE" /\ inByteIndex' = 0 /\ inBitIndex' = 0
             /\ inPc \in {"idle", "startState"}
             /\ inPc' = "idle" /\ inState' = "BUSY" /\ inCalls' = 0
             /\ UNCHANGED <<inData, inI, inJ, In!wires, taken>>
      PROVE  InputInv'
  <2>1. InTypes'
    BY <1>0, <1>4 DEF InTypes
  <2> QED BY <1>0, <1>4, <2>1 DEF InputInv, InOwner, InStepped
<1>5. CASE In!StartState
  <2>1. /\ inPc = "startState" /\ inPhase = "PROLOGUE" /\ inByteIndex = 0 /\ inBitIndex = 0
        /\ UNCHANGED <<inData, inPhase, inByteIndex, inBitIndex, inI, inJ, In!wires, taken>>
        /\ inPc' = "idle" /\ inState' = "BUSY" /\ inCalls' = 0
    BY <1>0, <1>5 DEF In!StartState, InOwner
  <2>2. InputInv'
    BY <1>4, <2>1
  <2> QED BY <2>1, <2>2
<1>6. CASE In!StartFromIrq
  <2>1. /\ inPc = "idle" /\ inPc' = "idle" /\ inPhase' = "PROLOGUE" /\ inByteIndex' = 0 /\ inBitIndex' = 0
        /\ UNCHANGED <<inData, inI, inJ, In!wires, taken>>
        /\ inState' = "BUSY" /\ inCalls' = 0
    BY <1>0, <1>6 DEF In!StartFromIrq
  <2>2. InputInv'
    BY <1>4, <2>1
  <2> QED BY <2>1, <2>2
<1> QED BY <1>1, <1>2, <1>3, <1>5, <1>6

LEMMA InOneShotKeeps ==
    ASSUME InputInv,
           \/ In!OneShot \/ In!Claim \/ In!OneShotPrologue \/ In!OneShotRead
           \/ In!OneShotClkUp \/ In!OneShotClkDown \/ In!Release
    PROVE  /\ InputInv'
           /\ inState' = "DONE" /\ inState # "DONE" =>
                inData' = taken' /\ ~clk' /\ lod' /\ inState = "BLOCKING"
<1> USE DEF In!transfer, In!wires, In!loop
<1>0. /\ InTypes /\ InOwner /\ 0 \in 0 .. size - 1 /\ 0 \in 0 .. ByteBits - 1
    BY Sizes DEF InputInv
<1>1. CASE In!OneShot
  <2>1. inState \in {"IDLE", "DONE"} /\ UNCHANGED <<inData, In!transfer, inI, inJ, In!wires, taken, inCalls>>
        /\ inPc' = "claim" /\ inPc = "idle"
    BY <1>0, <1>1 DEF In!OneShot, In!Free, InTypes
  <2>2. InTypes'
    BY <1>0, <2>1 DEF InTypes
  <2> QED BY <1>0, <2>1, <2>2 DEF InputInv, InOwner
<1>2. CASE In!Claim
  <2>1. /\ inState \in {"IDLE", "DONE"} /\ inPc' = "clkUp" /\ inPc = "claim"
        /\ inState' = "BLOCKING" /\ inI' = 0 /\ inJ' = 0
        /\ UNCHANGED <<inData, inPhase, inByteIndex, inBitIndex, inCalls, In!wires, taken>>
    BY <1>0, <1>2 DEF In!Claim, InOwner
  <2>2. InTypes'
    BY <1>0, <2>1 DEF InTypes
  <2>3. InBlocking'
    BY <2>1 DEF InBlocking
  <2> QED BY <1>0, <2>1, <2>2, <2>3 DEF InputInv, InOwner
<1>3. CASE In!OneShotPrologue
  <2>0. /\ UNCHANGED <<inData, inState, inI, inJ, inPhase, inByteIndex, inBitIndex, inCalls>>
        /\ inState = "BLOCKING" /\ InBlocking
    BY <1>0, <1>3 DEF In!OneShotPrologue, InOwner, InputInv
  <2>1. CASE inPc = "clkUp"
    <3>1. PICK now \in Bits : In!ClkRises(now) /\ taken' = now
      BY <1>3, <2>1, InSizes DEF In!OneShotPrologue
    <3>2. /\ inPc' = "clkDown" /\ clk' = TRUE /\ lod' = lod /\ latch' = now
          /\ inChain' = Append(Tail(inChain), 0)
      BY <1>3, <2>1, <3>1 DEF In!OneShotPrologue, In!ClkRises
    <3>3. inChain' \in Bits
      BY <1>0, <3>2, Shifted DEF InTypes
    <3>4. InTypes'
      BY <1>0, <2>0, <3>1, <3>2, <3>3 DEF InTypes
    <3>5. InBlocking'
      BY <2>0, <2>1, <3>1, <3>2 DEF InBlocking
    <3> QED BY <1>0, <2>0, <2>1, <3>2, <3>4, <3>5 DEF InputInv, InOwner
  <2>2. CASE inPc = "clkDown"
    <3>2. inPc' = "lodDown" /\ clk' = FALSE /\ UNCHANGED <<lod, latch, inChain, taken>>
      BY <1>3, <2>2 DEF In!OneShotPrologue, In!ClkFalls
    <3>4. InTypes'
      BY <1>0, <2>0, <3>2 DEF InTypes
    <3>5. InBlocking'
      BY <2>0, <2>2, <3>2 DEF InBlocking
    <3> QED BY <1>0, <2>0, <2>2, <3>2, <3>4, <3>5 DEF InputInv, InOwner
  <2>3. CASE inPc = "lodDown"
    <3>2. inPc' = "lodUp" /\ lod' = FALSE /\ inChain' = latch /\ UNCHANGED <<clk, latch, taken>>
      BY <1>3, <2>3 DEF In!OneShotPrologue, In!DriveLod
    <3>4. InTypes'
      BY <1>0, <2>0, <3>2 DEF InTypes
    <3>5. InBlocking'
      BY <2>0, <2>3, <3>2 DEF InBlocking
    <3> QED BY <1>0, <2>0, <2>3, <3>2, <3>4, <3>5 DEF InputInv, InOwner
  <2>4. CASE inPc = "lodUp"
    <3>2. inPc' = "read" /\ lod' = TRUE /\ UNCHANGED <<inChain, clk, latch, taken>>
      BY <1>3, <2>4 DEF In!OneShotPrologue, In!DriveLod
    <3>4. InTypes'
      BY <1>0, <2>0, <3>2 DEF InTypes
    <3>5. Reading(inI, inJ)'
      <4>1. inI' = 0 /\ inJ' = 0 /\ inChain' = taken'
        BY <2>0, <2>4, <3>2 DEF InBlocking
      <4>2. Reading(0, 0)'
        <5>1. \A m \in 1 .. 0 : FALSE
          OBVIOUS
        <5>2. Width - 0 = Width /\ \A m \in 1 .. Width : 0 + m = m
          BY Sizes
        <5> QED BY <4>1, <5>1, <5>2, Beginning DEF Reading, ReadTo, LeftFrom
      <4> QED BY <4>1, <4>2 DEF Reading
    <3>6. InBlocking'
      BY <2>0, <2>4, <3>2, <3>5 DEF InBlocking
    <3> QED BY <1>0, <2>0, <2>4, <3>2, <3>4, <3>6 DEF InputInv, InOwner
  <2> QED BY <1>3, <2>1, <2>2, <2>3, <2>4 DEF In!OneShotPrologue
<1>a. PICK a \in 0 .. size - 1, b \in 0 .. ByteBits - 1 : a = inI /\ b = inJ
    BY <1>0 DEF InTypes
<1>n. PICK n \in 0 .. Width - 1 : n = Before(a, b)
    BY Place
<1>4. CASE In!OneShotRead
  <2>1. /\ inPc = "read" /\ inPc' = "bitUp" /\ inState = "BLOCKING" /\ InBlocking
        /\ inData' = In!WithBit(IF b = 0 THEN In!Zeroed(a) ELSE inData, a, b)
        /\ UNCHANGED <<inState, inI, inJ, In!loop, In!wires, taken>>
    BY <1>0, <1>4, <1>a DEF In!OneShotRead, InOwner, InputInv
  <2>2. Reading(a, b)
    BY <1>a, <2>1 DEF InBlocking
  <2>3. /\ inData' \in Bits
        /\ \A m \in 1 .. n + 1 : inData'[m] = taken[m]
        /\ \A m \in n + 2 .. Before(a + 1, 0) : inData'[m] = 0
    BY <1>0, <1>n, <2>1, <2>2, BitRead
  <2>4. ReadTo(n + 1)' /\ ZeroFrom(n + 1, a)' /\ LeftFrom(n)'
    <3>1. n + 1 + 1 = n + 2 /\ LeftFrom(n)
      BY <1>n, <2>2 DEF Reading
    <3> QED BY <2>1, <2>3, <3>1 DEF ReadTo, ZeroFrom, LeftFrom
  <2>5. InTypes'
    BY <1>0, <2>1, <2>3 DEF InTypes
  <2>6. InBlocking'
    BY <1>a, <1>n, <2>1, <2>4 DEF InBlocking
  <2> QED BY <1>0, <2>1, <2>5, <2>6 DEF InputInv, InOwner
<1>5. CASE In!OneShotClkUp
  <2>0. PICK now \in Bits : In!ClkRises(now)
    BY <1>5, InSizes DEF In!OneShotClkUp
  <2>1. /\ inPc = "bitUp" /\ inPc' = "bitDown" /\ inState = "BLOCKING" /\ InBlocking
        /\ clk' = TRUE /\ lod' = lod /\ latch' \in Bits /\ inChain' = Append(Tail(inChain), 0)
        /\ UNCHANGED <<inData, inState, inI, inJ, In!loop, taken>>
    BY <1>0, <1>5, <2>0 DEF In!OneShotClkUp, In!ClkRises, InOwner, InputInv
  <2>2. ReadTo(n + 1) /\ ZeroFrom(n + 1, a) /\ LeftFrom(n)
    BY <1>a, <1>n, <2>1 DEF InBlocking
  <2>3. inChain' \in Bits /\ LeftFrom(n + 1)'
    BY <1>0, <2>1, <2>2, ShiftedOut
  <2>4. ReadTo(n + 1)' /\ ZeroFrom(n + 1, a)'
    BY <2>1, <2>2 DEF ReadTo, ZeroFrom
  <2>5. InTypes'
    BY <1>0, <2>1, <2>3 DEF InTypes
  <2>6. InBlocking'
    BY <1>a, <1>n, <2>1, <2>3, <2>4 DEF InBlocking
  <2> QED BY <1>0, <2>1, <2>5, <2>6 DEF InputInv, InOwner
<1>6. CASE In!OneShotClkDown
  <2>1. /\ inPc = "bitDown" /\ inState = "BLOCKING" /\ InBlocking
        /\ clk' = FALSE /\ UNCHANGED <<lod, latch, inChain>>
        /\ UNCHANGED <<inData, inState, In!loop, taken>>
    BY <1>0, <1>6 DEF In!OneShotClkDown, In!ClkFalls, InOwner, InputInv
  <2>2. ReadTo(n + 1) /\ ZeroFrom(n + 1, a) /\ LeftFrom(n + 1)
    BY <1>a, <1>n, <2>1 DEF InBlocking
  <2>3. ReadTo(n + 1)' /\ ZeroFrom(n + 1, a)' /\ LeftFrom(n + 1)'
    BY <2>1, <2>2 DEF ReadTo, ZeroFrom, LeftFrom
  <2>4. \/ inPc' = "read" /\ inI' = a /\ inJ' = b + 1 /\ b + 1 < ByteBits
        \/ inPc' = "read" /\ inI' = a + 1 /\ inJ' = 0 /\ b + 1 >= ByteBits /\ a + 1 < size
        \/ inPc' = "release" /\ inI' = 0 /\ inJ' = 0 /\ b + 1 >= ByteBits /\ a + 1 >= size
    BY <1>6, <1>a DEF In!OneShotClkDown
  <2>5. InTypes'
    <3>1. inI' \in 0 .. size - 1 /\ inJ' \in 0 .. ByteBits - 1
      BY <1>0, <2>4, Sizes
    <3>2. inPc' \in {"read", "release"}
      BY <2>4
    <3> QED BY <1>0, <2>1, <3>1, <3>2 DEF InTypes
  <2>6. CASE inPc' = "read"
    <3>1. Reading(inI, inJ)'
      BY <1>n, <2>3, <2>4, <2>6, NextBit DEF Reading
    <3>2. InBlocking'
      BY <2>6, <3>1 DEF InBlocking
    <3> QED BY <1>0, <2>1, <2>5, <2>6, <3>2 DEF InputInv, InOwner
  <2>7. CASE inPc' = "release"
    <3>1. n + 1 = Width
      BY <1>n, <2>3, <2>4, <2>7, NextBit
    <3>2. inData' = taken'
      BY <2>3, <2>5, <3>1, SameBits DEF InTypes, ReadTo
    <3>3. InBlocking'
      BY <2>7, <3>2 DEF InBlocking
    <3> QED BY <1>0, <2>1, <2>5, <2>7, <3>3 DEF InputInv, InOwner
  <2> QED BY <2>4, <2>6, <2>7
<1>7. CASE In!Release
  <2>1. /\ inPc = "release" /\ inPc' = "idle" /\ inState' = "DONE" /\ inState = "BLOCKING" /\ InBlocking
        /\ UNCHANGED <<inData, inI, inJ, In!loop, In!wires, taken>>
    BY <1>0, <1>7 DEF In!Release, InOwner, InputInv
  <2>2. inData = taken /\ ~clk /\ lod
    BY <1>0, <2>1 DEF InBlocking, InOwner
  <2>3. InTypes'
    BY <1>0, <2>1 DEF InTypes
  <2> QED BY <1>0, <2>1, <2>2, <2>3 DEF InputInv, InOwner
<1> QED BY <1>1, <1>2, <1>3, <1>4, <1>5, <1>6, <1>7

LEMMA NextInput ==
    ASSUME ~IrqNests, InputInv, [In!Next]_(In!vars)
    PROVE  /\ InputInv'
           /\ In!Interrupt => inPc \notin {"startPhase", "startIndex", "startState"}
           /\ In!vars' # In!vars /\ inState = "BUSY" /\ inState' = "DONE" => inCalls' = In!TransferCalls
<1>0. In!Interrupt => inPc \notin {"startPhase", "startIndex", "startState"}
    BY InInterruptKeeps
<1>1. CASE In!Interrupt
    BY <1>0, <1>1, InInterruptKeeps
<1>2. CASE \/ In!Start \/ In!StartPhase \/ In!StartIndex \/ In!StartState \/ In!StartFromIrq
    BY <1>0, <1>2, InStartKeeps
<1>3. CASE \/ In!OneShot \/ In!Claim \/ In!OneShotPrologue \/ In!OneShotRead
           \/ In!OneShotClkUp \/ In!OneShotClkDown \/ In!Release
    BY <1>0, <1>3, InOneShotKeeps
<1>4. CASE UNCHANGED In!vars
  <2>1. InputInv'
    BY <1>4 DEF In!vars, In!transfer, In!wires, InputInv, InTypes, InOwner, InStepped, InBlocking,
                Reading, ReadTo, LeftFrom, ZeroFrom
  <2> QED BY <1>0, <1>4, <2>1
<1> QED BY <1>1, <1>2, <1>3, <1>4 DEF In!Next, In!Continue

(* Of an array and bytes of any size: done, the array holds the inputs of    *)
(* the chain as they were at one moment of the transfer and the pins are     *)
(* idle, in either mode; an index that is being set is not used; and a       *)
(* stepped transfer takes one call a bit and one before them.                *)
THEOREM ReadIsWhole == ASSUME ~IrqNests PROVE RegistersSpec => ReadsWhole
<1>1. InputInv /\ [In!Next]_(In!vars) => InputInv'
    BY NextInput
<1>2. InputInv /\ InputInv' /\ [In!Next]_(In!vars) =>
        [/\ inState' = "DONE" => inData' = taken' /\ ~clk' /\ lod'
         /\ In!Interrupt => inPc \notin {"startPhase", "startIndex", "startState"}
         /\ inState = "BUSY" /\ inState' = "DONE" => inCalls' = In!TransferCalls]_(In!vars)
  <2> SUFFICES ASSUME InputInv, InputInv', [In!Next]_(In!vars)
               PROVE  [/\ inState' = "DONE" => inData' = taken' /\ ~clk' /\ lod'
                       /\ In!Interrupt => inPc \notin {"startPhase", "startIndex", "startState"}
                       /\ inState = "BUSY" /\ inState' = "DONE" => inCalls' = In!TransferCalls]_(In!vars)
      OBVIOUS
  <2>1. inState' = "DONE" => inData' = taken' /\ ~clk' /\ lod'
      BY DEF InputInv, InOwner, InTypes
  <2> QED BY <2>1, NextInput
<1>3. RegistersInit => In!Init
    BY DEF RegistersInit
<1>4. [RegistersNext]_registersVars => [In!Next]_(In!vars)
    BY DEF RegistersNext, registersVars, Output, Input, inputs, In!vars, In!transfer, In!wires
<1> QED BY <1>1, <1>2, <1>3, <1>4, InitInput, PTL DEF RegistersSpec, In!DoneIsWhole, ReadsWhole

(* What is shown of each driver alone holds where both are at work.          *)
LEMMA EachRuns == RegistersSpec => Spec /\ In!Spec
<1>1. RegistersInit => Init /\ In!Init
    BY DEF RegistersInit
<1>2. [RegistersNext]_registersVars => [Next]_vars /\ [In!Next]_(In!vars)
    BY DEF RegistersNext, Output, Input, registersVars, vars, inputs, transfer, wires, pins,
           In!vars, In!transfer, In!wires
<1> QED BY <1>1, <1>2, PTL DEF RegistersSpec, Spec, In!Spec
=============================================================================
