-------------------------------- MODULE Basics --------------------------------
(***************************************************************************)
(* The arithmetic of basicmath.c, interp.c and basicarray.c.  Indices      *)
(* count from one.  An integer has the width of module Q16.  A signed sum  *)
(* that leaves its word is undefined, so a function that takes one gives   *)
(* the set of the words that may come of it.  A float copy is taken over   *)
(* exact numbers, and where it divides its result is the pair of numerator *)
(* and denominator.                                                        *)
(***************************************************************************)
LOCAL INSTANCE Integers
LOCAL INSTANCE Sequences
LOCAL INSTANCE SequencesExt

CONSTANTS WordBits, FracBits

Q == INSTANCE Q16

WrapUnsigned(x) == x % 2^WordBits

(* What a signed sum or difference may give, by its exact result. *)
Signed(exact) == IF exact \in Q!Words THEN {exact} ELSE Q!Words

-----------------------------------------------------------------------------
(* basicmath.c over an array.  Every one gives zero for no elements.       *)

FindMax(array) ==
    IF array = <<>> THEN 0
    ELSE FoldLeft(LAMBDA m, x : IF m < x THEN x ELSE m, Head(array), Tail(array))
FindMin(array) ==
    IF array = <<>> THEN 0
    ELSE FoldLeft(LAMBDA m, x : IF m > x THEN x ELSE m, Head(array), Tail(array))
FindMinMax(array) ==
    LET Wider(m, x) == [min |-> IF m.min > x THEN x ELSE m.min,
                        max |-> IF m.max < x THEN x ELSE m.max]
    IN  IF array = <<>> THEN [min |-> 0, max |-> 0]
        ELSE FoldLeft(Wider, [min |-> Head(array), max |-> Head(array)], Tail(array))
FindMinMaxi32(array) == FindMinMax(array)

CalculateSumu32(array) == FoldLeft(LAMBDA sum, x : WrapUnsigned(sum + x), 0, array)
CalculateSumi32(array) ==
    FoldLeft(LAMBDA sums, x : UNION {Signed(sum + x) : sum \in sums}, {0}, array)

CalculateMeanu32(array) ==
    IF array = <<>> THEN 0 ELSE CalculateSumu32(array) \div Len(array)
CalculateMeani32(array) ==
    IF array = <<>> THEN {0} ELSE {Q!Quotient(sum, Len(array)) : sum \in CalculateSumi32(array)}

(* The array is sorted by the caller. *)
MedianOf(array, Only(_), Between(_, _)) ==
    LET half == Len(array) \div 2
    IN  IF array = <<>> THEN Only(0)
        ELSE IF Len(array) % 2 = 0 THEN Between(array[half], array[half + 1])
        ELSE Only(array[half + 1])
CalculateMedianu32(array) ==
    MedianOf(array, LAMBDA m : m, LAMBDA low, high : low + WrapUnsigned(high - low) \div 2)
CalculateMediani32(array) ==
    MedianOf(array, LAMBDA m : {m},
             LAMBDA low, high : UNION {Signed(low + Q!Quotient(gap, 2)) : gap \in Signed(high - low)})

CalculateRangeu32(array) == WrapUnsigned(FindMinMax(array).max - FindMinMax(array).min)
CalculateRangei32(array) == Signed(FindMinMaxi32(array).max - FindMinMaxi32(array).min)

-----------------------------------------------------------------------------
(* basicmath.c over numbers, and basicarray.c, which clamps an array.      *)

Absolute(x) == IF x < 0 THEN - x ELSE x

Clamp(value, low, high) ==
    IF value < low THEN low ELSE IF value > high THEN high ELSE value

ArrayLimitUpDw1D(array, upValue, dwValue) ==
    [i \in DOMAIN array |->
        IF array[i] > upValue THEN upValue
        ELSE IF array[i] < dwValue THEN dwValue ELSE array[i]]

(* The quotient, a half away from zero, cast to a word.                    *)
RoundedSigned(num, den) ==  \* mutant: the half keeps the sign of the denominator
    LET half == Q!Quotient(den, 2)
    IN  Q!Narrow(Q!Quotient(IF num >= 0 THEN num + half ELSE num - half, den))
Rounded(num, den) ==
    LET half == Absolute(Q!Quotient(den, 2))
    IN  Q!Narrow(Q!Quotient(IF num >= 0 THEN num + half ELSE num - half, den))

Map(value, inLow, inHigh, outLow, outHigh) ==
    IF inHigh = inLow THEN <<outLow, 1>>
    ELSE <<outLow * (inHigh - inLow) + (value - inLow) * (outHigh - outLow), inHigh - inLow>>
Mapi32(value, inLow, inHigh, outLow, outHigh) ==
    IF inHigh = inLow THEN {outLow}
    ELSE Signed(outLow + Rounded((value - inLow) * (outHigh - outLow), inHigh - inLow))

Lerpi32(from, to, t) == Signed(from + Rounded(t * (to - from), Q!One))

-----------------------------------------------------------------------------
(* interp.c: a table of strictly ascending x. *)

TableSound(xTable) ==
    Len(xTable) >= 2 /\ \A i \in 2 .. Len(xTable) : xTable[i] > xTable[i - 1]

(* The last node that is not above x, by halving the rest of the table.    *)
NotAbove(node, x) == node <= x
Bracket(xTable, x) ==
    LET from[p \in (1 .. Len(xTable) + 1) \X (1 .. Len(xTable) + 1)] ==
            LET low == p[1]  high == p[2]  mid == low + (high - low) \div 2
            IN  IF low >= high THEN low - 1
                ELSE IF NotAbove(xTable[mid], x) THEN from[<<mid + 1, high>>]
                ELSE from[<<low, mid>>]
    IN  from[<<1, Len(xTable) + 1>>]

InRange(xTable, x) == x >= Head(xTable) /\ x <= Last(xTable)

InterpCalculate(xTable, yTable, x) ==
    LET i == Bracket(xTable, x)
    IN  IF x <= Head(xTable) THEN <<Head(yTable), 1>>
        ELSE IF x >= Last(xTable) THEN <<yTable[Len(xTable)], 1>>
        ELSE Map(x, xTable[i], xTable[i + 1], yTable[i], yTable[i + 1])
InterpCalculatei32(xTable, yTable, x) ==
    LET i == Bracket(xTable, x)
    IN  IF x <= Head(xTable) THEN {Head(yTable)}
        ELSE IF x >= Last(xTable) THEN {yTable[Len(xTable)]}
        ELSE Signed(yTable[i] + Rounded((x - xTable[i]) * (yTable[i + 1] - yTable[i]),
                                        xTable[i + 1] - xTable[i]))
=============================================================================
