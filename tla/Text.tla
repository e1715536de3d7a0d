-------------------------------- MODULE Text --------------------------------
(***************************************************************************)
(* text.c: bytes as hex and base64 characters, numbers as decimal          *)
(* characters, and back.  Characters are their ASCII codes, bytes have     *)
(* eight bits.  A number has TextBits bits, 32 in the code, a fixed point  *)
(* one TextFrac of them behind the point, 16 in the code.                  *)
(***************************************************************************)
LOCAL INSTANCE Integers
LOCAL INSTANCE Sequences
LOCAL INSTANCE SequencesExt

CONSTANTS TextBits, TextFrac,
          DecimalsMax,  \* TEXT_Q16_DECIMALS_MAX, 9 in the code
          ReadDigits    \* TEXT_Q16_READ_DIGITS, 9 in the code

Zero == 48
Nine == 57
UpperA == 65
UpperF == 70
UpperZ == 90
LowerA == 97
LowerF == 102
LowerZ == 122
Plus == 43
Minus == 45
Point == 46
Slash == 47
Equals == 61

UnsignedLimit == 2^TextBits - 1
PositiveLimit == 2^(TextBits - 1) - 1
NegativeLimit == 2^(TextBits - 1)
One == 2^TextFrac
IntegerLimit == NegativeLimit \div One

(* What a call returns: TRUE and what it wrote, or FALSE and nothing.      *)
Refused == [ok |-> FALSE, out |-> <<>>]
Gave(out) == [ok |-> TRUE, out |-> out]
GaveWithin(out, capacity) == IF Len(out) <= capacity THEN Gave(out) ELSE Refused

-----------------------------------------------------------------------------
(* Hex. *)

HexDigit(nibble) == IF nibble < 10 THEN Zero + nibble ELSE UpperA + nibble - 10

None == -1
HexValue(c) ==
    IF c \in Zero .. Nine THEN c - Zero
    ELSE IF c \in UpperA .. UpperF THEN c - UpperA + 10
    ELSE IF c \in LowerA .. LowerF THEN c - LowerA + 10
    ELSE None

HexEncode(source, capacity) ==
    GaveWithin(FlattenSeq([i \in DOMAIN source |->
                 <<HexDigit(source[i] \div 16), HexDigit(source[i] % 16)>>]), capacity)

HexDecode(source, capacity) ==
    IF Len(source) % 2 = 0 /\ Len(source) \div 2 <= capacity
       /\ \A i \in DOMAIN source : HexValue(source[i]) # None
    THEN Gave([i \in 1 .. Len(source) \div 2 |->
                 HexValue(source[2 * i - 1]) * 16 + HexValue(source[2 * i])])
    ELSE Refused

-----------------------------------------------------------------------------
(* Base64, of three bytes in four characters. *)

Base64Character(index) ==
    CASE index < 26 -> UpperA + index
      [] index \in 26 .. 51 -> LowerA + index - 26
      [] index \in 52 .. 61 -> Zero + index - 52
      [] index = 62 -> Plus
      [] OTHER -> Slash

Base64Value(c) ==
    CASE c \in UpperA .. UpperZ -> c - UpperA
      [] c \in LowerA .. LowerZ -> c - LowerA + 26
      [] c \in Zero .. Nine -> c - Zero + 52
      [] c = Plus -> 62
      [] c = Slash -> 63
      [] OTHER -> None

Base64EncodedSize(length) == 4 * (length \div 3 + IF length % 3 # 0 THEN 1 ELSE 0)

(* The characters of a group, the bytes that are missing taken as zero and *)
(* padded out.                                                             *)
Group(bytes) ==
    LET At(i) == IF i <= Len(bytes) THEN bytes[i] ELSE 0
        triple == At(1) * 2^16 + At(2) * 2^8 + At(3)
    IN  [k \in 1 .. 4 |-> IF k <= Len(bytes) + 1
                          THEN Base64Character((triple \div 64^(4 - k)) % 64)
                          ELSE Equals]

Base64Encode(source, capacity) ==
    LET groups == Base64EncodedSize(Len(source)) \div 4
        Bytes(g) == SubSeq(source, 3 * g - 2, IF 3 * g < Len(source) THEN 3 * g ELSE Len(source))
    IN  IF groups <= capacity \div 4
        THEN Gave(FlattenSeq([g \in 1 .. groups |-> Group(Bytes(g))]))
        ELSE Refused

Padding(source) ==
    IF source = <<>> \/ Last(source) # Equals THEN 0
    ELSE IF source[Len(source) - 1] # Equals THEN 1 ELSE 2

(* The bits of the last character that no byte takes must be zero, so that *)
(* one byte array has one encoding.                                        *)
SpareBitsAny(source) == TRUE  \* mutant: they are thrown away
SpareBitsZero(source) ==
    LET padding == Padding(source)
    IN  padding # 0 =>
          Base64Value(source[Len(source) - padding]) % (IF padding = 2 THEN 16 ELSE 4) = 0

(* An equals sign counts as a zero here: the bytes it stands for are cut.  *)
Triple(quad) ==
    LET Value(c) == IF Base64Value(c) = None THEN 0 ELSE Base64Value(c)
        all == FoldLeft(LAMBDA bits, c : bits * 64 + Value(c), 0, quad)
    IN  <<all \div 2^16, (all \div 2^8) % 256, all % 256>>

Base64Decode(source, capacity) ==
    LET groups == Len(source) \div 4
        padding == Padding(source)
        decoded == 3 * groups - padding
    IN  IF /\ Len(source) % 4 = 0
           /\ \A i \in 1 .. Len(source) - padding : Base64Value(source[i]) # None
           /\ SpareBitsZero(source)
           /\ decoded <= capacity
        THEN Gave(SubSeq(FlattenSeq([g \in 1 .. groups |->
                           Triple(SubSeq(source, 4 * g - 3, 4 * g))]), 1, decoded))
        ELSE Refused

-----------------------------------------------------------------------------
(* Decimal numbers. *)

Digits(value) == CHOOSE n \in 1 .. 10 : value < 10^n /\ (n = 1 \/ value >= 10^(n - 1))
WriteDigits(value, digits) ==
    [i \in 1 .. digits |-> Zero + ((value \div 10^(digits - i)) % 10)]

(* Digits up to a limit, tested before the product could exceed the word.  *)
TooLargeByTens(accumulated, digit, limit) ==  \* mutant: the digit is not counted
    accumulated > limit \div 10
TooLarge(accumulated, digit, limit) == accumulated > (limit - digit) \div 10

ParseDigits(source, limit) ==
    LET Accumulate(read, c) ==
          IF ~ read.ok \/ c \notin Zero .. Nine \/ TooLarge(read.out, c - Zero, limit)
          THEN Refused
          ELSE Gave(read.out * 10 + c - Zero)
    IN  IF source = <<>> THEN Refused ELSE FoldLeft(Accumulate, Gave(0), source)

Magnitude(value) == IF value < 0 THEN - value ELSE value
Signed(magnitude, negative) == IF negative THEN - magnitude ELSE magnitude

FromU32(value, capacity) == GaveWithin(WriteDigits(value, Digits(value)), capacity)

FromI32(value, capacity) ==
    LET magnitude == Magnitude(value)
        sign == IF value < 0 THEN <<Minus>> ELSE <<>>
    IN  GaveWithin(sign \o WriteDigits(magnitude, Digits(magnitude)), capacity)

ToU32(source) == ParseDigits(source, UnsignedLimit)

(* A leading minus raises the limit by one. *)
Negative(source) == source # <<>> /\ Head(source) = Minus
Unsigned(source) == IF Negative(source) THEN Tail(source) ELSE source
Limit(source) == IF Negative(source) THEN NegativeLimit ELSE PositiveLimit

ToI32(source) ==
    LET read == ParseDigits(Unsigned(source), Limit(source))
    IN  IF read.ok THEN Gave(Signed(read.out, Negative(source))) ELSE Refused

-----------------------------------------------------------------------------
(* Fixed point. *)

(* The integer and the decimals of a magnitude, a half rounded up; the     *)
(* decimals may round into the next integer.                               *)
RoundedUncarried(magnitude, scale) ==  \* mutant: the carry is lost
    [integer |-> magnitude \div One,
     fraction |-> (((magnitude % One) * scale + One \div 2) \div One) % scale]
Rounded(magnitude, scale) ==
    LET fraction == ((magnitude % One) * scale + One \div 2) \div One
        carry == IF fraction >= scale THEN 1 ELSE 0
    IN  [integer |-> magnitude \div One + carry, fraction |-> fraction - carry * scale]

FromQ16(value, decimals, capacity) ==
    LET r == Rounded(Magnitude(value), 10^decimals)
        sign == IF value < 0 /\ (r.integer # 0 \/ r.fraction # 0) THEN <<Minus>> ELSE <<>>
        behind == IF decimals > 0 THEN <<Point>> \o WriteDigits(r.fraction, decimals) ELSE <<>>
    IN  IF decimals <= DecimalsMax
        THEN GaveWithin(sign \o WriteDigits(r.integer, Digits(r.integer)) \o behind, capacity)
        ELSE Refused

(* The digits behind the first point; past ReadDigits they are checked and *)
(* thrown away.                                                            *)
BeforePoint(s) == SelectInSeq(s, LAMBDA c : c = Point) - 1

Fraction(digits) ==
    LET kept == SubSeq(digits, 1, IF Len(digits) < ReadDigits THEN Len(digits) ELSE ReadDigits)
        scale == 10^Len(kept)
        number == FoldLeft(LAMBDA n, c : n * 10 + c - Zero, 0, kept)
    IN  (number * One + scale \div 2) \div scale

ToQ16(source) ==
    LET s == Unsigned(source)
        pointed == BeforePoint(s) >= 0
        integer == ParseDigits(IF pointed THEN SubSeq(s, 1, BeforePoint(s)) ELSE s, IntegerLimit)
        digits == IF pointed THEN SubSeq(s, BeforePoint(s) + 2, Len(s)) ELSE <<Zero>>
        magnitude == integer.out * One + Fraction(digits)
    IN  IF /\ integer.ok
           /\ digits # <<>> /\ \A i \in DOMAIN digits : digits[i] \in Zero .. Nine
           /\ magnitude <= Limit(source)
        THEN Gave(Signed(magnitude, Negative(source)))
        ELSE Refused
=============================================================================
