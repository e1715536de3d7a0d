--------------------------------- MODULE Q16 ---------------------------------
(***************************************************************************)
(* q16.c: fixed point numbers with saturation.  A number is a signed word  *)
(* of WordBits bits, 32 in the code, FracBits of them, 16 in the code,     *)
(* behind the point.  The intermediates are 64 bits wide and hold every    *)
(* product and every shifted word.                                         *)
(***************************************************************************)
LOCAL INSTANCE Integers

CONSTANTS WordBits, FracBits

IntMax == 2^(WordBits - 1) - 1
IntMin == - 2^(WordBits - 1)
Words == IntMin .. IntMax

(* The cast of a wider integer to a word keeps its low bits. *)
Narrow(value) == ((value - IntMin) % 2^WordBits) + IntMin

One == 2^FracBits
Half == 2^(FracBits - 1)

Saturate(value) ==
    IF value > IntMax THEN IntMax ELSE IF value < IntMin THEN IntMin ELSE value

(* One scale down, a half away from zero; the shift is of a magnitude.     *)
ShiftFloor(value) == (value + Half) \div One  \* mutant: shifted without the magnitude
ShiftRound(value) ==
    IF value >= 0 THEN (value + Half) \div One ELSE - ((- value + Half) \div One)

(* The division of C, towards zero. *)
Quotient(n, d) ==
    LET magnitude == (IF n < 0 THEN - n ELSE n) \div (IF d < 0 THEN - d ELSE d)
    IN  IF (n < 0) = (d < 0) THEN magnitude ELSE - magnitude

(* The bit by bit root; "bit" falls by powers of four from the highest one *)
(* that is not above the value.                                            *)
HighestBit(value) ==
    LET from[bit \in Nat] == IF bit > value THEN from[bit \div 4] ELSE bit
    IN  from[4^(WordBits - 1)]

RootFrom(value, highest) ==
    LET from[s \in [root : Nat, rest : Nat, bit : Nat]] ==
            LET half == s.root \div 2
                take == s.rest >= s.root + s.bit
            IN  IF s.bit = 0 THEN s.root
                ELSE from[[root |-> IF take THEN half + s.bit ELSE half,
                           rest |-> IF take THEN s.rest - (s.root + s.bit) ELSE s.rest,
                           bit  |-> s.bit \div 4]]
    IN  from[[root |-> 0, rest |-> value, bit |-> highest]]

SquareRoot(value) == RootFrom(value, HighestBit(value))

-----------------------------------------------------------------------------
FromInt(value) == Saturate(value * One)

ToIntFloor(value) == value \div One  \* mutant: a plain shift
ToInt(value) == ShiftRound(value)

Mul(x, y) == Saturate(ShiftRound(x * y))

DivByZero(dividend) ==
    IF dividend > 0 THEN IntMax ELSE IF dividend < 0 THEN IntMin ELSE 0

Div(dividend, divisor) ==
    LET numerator == dividend * One
        half == LET h == Quotient(divisor, 2) IN IF h < 0 THEN - h ELSE h
    IN  IF divisor = 0 THEN DivByZero(dividend)
        ELSE Saturate(Quotient(IF numerator >= 0 THEN numerator + half ELSE numerator - half,
                               divisor))

Sqrt(value) == IF value <= 0 THEN 0 ELSE SquareRoot(value * One)
=============================================================================
