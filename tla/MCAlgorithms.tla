---------------------------- MODULE MCAlgorithms -----------------------------
(***************************************************************************)
(* Calls of the stateless modules, on every argument up to a length.  The  *)
(* argument of one family of calls grows an element at a time, so that a   *)
(* violation is reported on a shortest one.                                *)
(*   frame   bytes of a small base: cobs.c and pack.c                      *)
(*   octets  bytes of eight bits: crc8.c, crc16.c, crc32.c, checksum.c     *)
(*   values  signed words: sort.c, search.c, basicmath.c, interp.c         *)
(*   fixed   two operands: q16.c                                           *)
(*   words   a number to be written: text.c                                *)
(*   samples the inputs of a filter, one after another: filter/            *)
(*   digits, codes  characters to be read: text.c                          *)
(***************************************************************************)
EXTENDS Integers, Sequences, FiniteSets, SequencesExt, FiniteSetsExt

CONSTANTS
    Base,                   \* values of a byte of a frame
    WordBits, FracBits,     \* widths of a signed word and of its fraction
    TextBits, TextFrac, DecimalsMax, ReadDigits, \* the same of a text's number, its decimals
    AdlerBase, AdlerHalf,   \* the modulus of Adler32 and the size of its halves
    Elements,               \* the elements of each family
    MaxLen,                 \* and how many of them a call is given
    RootLimit,              \* the magnitude rms scales a number up to before its root
    MaxBurst                \* longest run of bits an error changes

ASSUME AlgorithmsAssumption ==
    /\ Base \in Nat /\ Base > 2
    /\ {WordBits, FracBits, AdlerBase} \subseteq Nat \ {0} /\ FracBits < WordBits
    /\ {TextBits, TextFrac, DecimalsMax, ReadDigits} \subseteq Nat \ {0}
    /\ TextFrac < TextBits /\ 2^(TextBits - TextFrac) >= 18  \* a digit fits the integer
    /\ AdlerHalf \in Nat /\ AdlerBase <= AdlerHalf
    /\ \E k \in 0 .. 15 : RootLimit = 4^k
    /\ MaxBurst \in 1 .. 8

VARIABLES family, data
vars == <<family, data>>

C == INSTANCE Cobs
R == INSTANCE Crc
S == INSTANCE Sort
Q == INSTANCE Q16
T == INSTANCE Text
F == INSTANCE Filters
B == INSTANCE Basics

(* The bytes of a frame are bytes.                                         *)
ASSUME BytesAssumption == Elements["frame"] \subseteq 0 .. Base - 1

(* What sort.c and search.c are given are words; and the powers of two a   *)
(* word's range is made of are as in arithmetic, which a proof cannot see  *)
(* of an exponent that is a constant.                                      *)
ASSUME ValuesAssumption == Elements["values"] \subseteq Q!Words
ASSUME PowersAssumption ==
    2^(WordBits - 1) \in Nat \ {0} /\ 2^WordBits = 2 * 2^(WordBits - 1)

Families == {"frame", "octets", "values", "fixed", "words", "digits", "codes", "samples"}

Init == family \in Families /\ data = <<>>

Grow(f) ==
    /\ family = f /\ Len(data) < MaxLen[f]
    /\ \E e \in Elements[f] : data' = Append(data, e)
    /\ UNCHANGED family

Next == \E f \in Families : Grow(f)

Spec == Init /\ [][Next]_vars

-----------------------------------------------------------------------------
(* Frames. *)

Free(bytes) == \A i \in DOMAIN bytes : bytes[i] # C!Delimiter

(* cobsEncode never produces a delimiter, never more than cobsEncodedSize, *)
(* and cobsDecode gives the payload back into a buffer just large enough.  *)
CobsRoundTrip ==
    family = "frame" =>
      LET e == C!Encode(data, C!EncodedSize(Len(data)))
      IN  /\ e.ok /\ Free(e.bytes)
          /\ Len(e.bytes) <= C!EncodedSize(Len(data))
          /\ C!Decode(e.bytes, Len(data)) = C!Written(data)

(* The pass of cobsDecode that writes never writes more than the pass that *)
(* validates has counted against the capacity, whatever the frame.         *)
CobsWritesWithinCapacity ==
    family = "frame" =>
      \A capacity \in 0 .. Len(data) :
        Len(C!Decode(data, capacity).bytes) <= capacity

(* A frame cobsDecode takes is the one cobsEncode makes of that payload,   *)
(* save for the last code byte after a full run, which may be missing.     *)
CobsOneFrame ==
    family = "frame" /\ Free(data) =>
      LET d == C!Decode(data, Len(data))
          e == C!Encode(d.bytes, C!EncodedSize(Len(d.bytes))).bytes
      IN  d.ok => \/ e = data
                  \/ e = Append(data, 1) /\ C!Decode(e, Len(data)) = d

(* A value put at an index of a buffer is got back from there, the bytes   *)
(* around it stay, and the signed forms give the two's complement.         *)
PackRoundTrip ==
    family = "frame" =>
      \A i \in 1 .. Len(data) - 1 :
        /\ C!PutU16be(data, i, C!GetU16be(data, i)) = data
        /\ C!PutU16le(data, i, C!GetU16le(data, i)) = data
        /\ C!GetU16le(data, i) = C!GetU16be(<<data[i + 1], data[i]>>, 1)
        /\ \A v \in {C!GetI16be(data, i), C!GetI16le(data, i)} :
              v \in - (Base^2 \div 2) .. (Base^2 - 1) \div 2
        /\ C!GetU16be(data, i) = C!GetI16be(data, i) % Base^2
        /\ C!GetU16le(data, i) = C!GetI16le(data, i) % Base^2
        /\ i + 2 <= Len(data) =>
             /\ C!GetU24be(data, i) = C!GetU16be(data, i) * Base + data[i + 2]
             /\ C!GetU24le(data, i) = C!GetU16le(data, i) + data[i + 2] * Base^2
             /\ C!GetU24be(data, i) = C!GetI24be(data, i) % Base^3
             /\ C!GetU24le(data, i) = C!GetI24le(data, i) % Base^3
        /\ i + 3 <= Len(data) =>
             /\ C!PutU32be(data, i, C!GetU32be(data, i)) = data
             /\ C!PutU32le(data, i, C!GetU32le(data, i)) = data
             /\ C!GetU32be(data, i) = C!GetI32be(data, i) % Base^4
             /\ C!GetU32le(data, i) = C!GetI32le(data, i) % Base^4

-----------------------------------------------------------------------------
(* Checks over octets. *)

Octets == [i \in DOMAIN data |-> R!Bits(data[i])]

(* The literal tables of crc16.c and crc32.c are the eight steps of the    *)
(* polynomial, so that the table form and the bitwise form of each check   *)
(* give the same value, whatever octet comes next.                         *)
TablesAgree ==
    family = "octets" =>
      LET crc16 == R!Crc16(Octets)
          crc32 == R!Crc32(Octets)
      IN  /\ crc16 = R!Crc16Alt(Octets)
          /\ crc32 = R!Crc32Alt(Octets)
          /\ \A next \in SUBSET (0 .. 7) :
               /\ R!Crc16Update(crc16, next) = R!Crc16AltUpdate(crc16, next)
               /\ R!Crc32Update(crc32, next) = R!Crc32AltUpdate(crc32, next)

(* A receiver may check a message by running the CRC over it and the CRC   *)
(* that follows it, in the byte order of the shift: the result is zero.    *)
(* crc8.c says so of a 1-Wire ROM code.                                    *)
ChecksToZero ==
    family = "octets" =>
      LET Octet(reg, k) == {i \in 0 .. 7 : i + 8 * k \in reg}
          crc8  == R!Crc8(Octets)
          rom   == R!Crc8Dallas(Octets)
          crc16 == R!Crc16Alt(Octets)
          crc32 == R!Crc32Alt(Octets)
      IN  /\ R!Crc8(Append(Octets, crc8)) = {}
          /\ R!Crc8Dallas(Append(Octets, rom)) = {}
          /\ R!Crc16Alt(Octets \o <<Octet(crc16, 0), Octet(crc16, 1)>>) = {}
          /\ R!Crc32Alt(Octets \o [k \in 1 .. 4 |-> Octet(crc32, 4 - k)]) = {}

(* The errors: any two bits of the message, or any burst of up to MaxBurst *)
(* bits.  Bit 8 * i + j is bit j of octet i + 1.                           *)
MessageBits == 0 .. 8 * Len(data) - 1
Bursts(Place(_)) ==
    {{Place(first + k) : k \in shape} :
        first \in 0 .. 8 * Len(data) - MaxBurst,
        shape \in (SUBSET (0 .. MaxBurst - 1)) \ {{}}}
Garbled(error) ==
    [i \in DOMAIN data |-> SymDiff(Octets[i], {j \in 0 .. 7 : 8 * (i - 1) + j \in error})]

(* No CRC misses an error of two bits or a burst shorter than itself; a    *)
(* burst is taken in the order in which the CRC shifts the bits, lowest    *)
(* bit of a byte first for crc16 and the Dallas CRC, highest first for     *)
(* crc8 and crc32.                                                         *)
ErrorsDetected ==
    family = "octets" =>
      LET lowFirst  == Bursts(LAMBDA b : b)
          highFirst == Bursts(LAMBDA b : 8 * (b \div 8) + 7 - (b % 8))
          pairs == kSubset(2, MessageBits)
      IN  /\ \A error \in pairs \cup lowFirst :
                /\ R!Crc8Dallas(Garbled(error)) # R!Crc8Dallas(Octets)
                /\ R!Crc16(Garbled(error)) # R!Crc16(Octets)
          /\ \A error \in pairs \cup highFirst :
                /\ R!Crc8(Garbled(error)) # R!Crc8(Octets)
                /\ R!Crc32(Garbled(error)) # R!Crc32(Octets)

(* The streaming forms of Fletcher and Adler carry nothing but their last  *)
(* result, and give what the whole array gives.                            *)
StreamedIsWhole ==
    family = "octets" =>
      /\ FoldLeft(R!Fletcher16Update, 0, data) = R!Fletcher16(data)
      /\ FoldLeft(R!Adler32Update, 1, data) = R!Adler32(data)

(* The sums and the exclusive or are blind to two octets that change       *)
(* places; Fletcher and Adler see it, unless the two are congruent.        *)
ReorderingSeen ==
    family = "octets" =>
      \A i \in 1 .. Len(data) - 1 :
        LET swapped == [data EXCEPT ![i] = data[i + 1], ![i + 1] = data[i]]
            Differ(base) == data[i] % base # data[i + 1] % base
        IN  /\ R!ChecksumXor(swapped) = R!ChecksumXor(data)
            /\ R!ChecksumSum8(swapped) = R!ChecksumSum8(data)
            /\ R!ChecksumSum16(swapped) = R!ChecksumSum16(data)
            /\ (R!Fletcher16(swapped) # R!Fletcher16(data)) = Differ(R!FletcherBase)
            /\ (R!Adler32(swapped) # R!Adler32(data)) = Differ(AdlerBase)

-----------------------------------------------------------------------------
(* Sorting and searching. *)

Tagged == [i \in DOMAIN data |-> <<data[i], i>>]
Ordered(a) == \A i, j \in DOMAIN a : i < j => a[i][1] <= a[j][1]
Stable(a) == \A i, j \in DOMAIN a : i < j /\ a[i][1] = a[j][1] => a[i][2] < a[j][2]

(* Each of the four sorts puts the same elements in ascending order,       *)
(* sortIsSorted agrees, and sortReverse makes it descending.               *)
SortsOrder ==
    family = "values" =>
      /\ \A a \in {S!SortSelection(Tagged), S!SortBubble(Tagged),
                   S!SortInsertion(Tagged), S!SortHeap(Tagged)} :
            /\ Ordered(a) /\ ToSet(a) = ToSet(Tagged) /\ Len(a) = Len(data)
            /\ S!SortReverse(a) = Reverse(a)
      /\ S!SortIsSorted(Tagged) = Ordered(Tagged)

(* sortInsertion and sortBubble leave equal elements in their order.       *)
SortsStable ==
    family = "values" =>
      Stable(S!SortInsertion(Tagged)) /\ Stable(S!SortBubble(Tagged))

Sorted == LET a == S!SortInsertion(Tagged) IN [i \in DOMAIN a |-> a[i][1]]
Gap(x, y) == IF x > y THEN x - y ELSE y - x

(* searchBinary finds an element within epsilon exactly when searchLinear  *)
(* finds one, and the two bounds enclose the elements equal to the item.   *)
SearchesAgree ==
    family = "values" =>
      LET a == Sorted
      IN  \A item \in Q!Words :
            /\ \A epsilon \in 0 .. 2 :
                 LET found == S!SearchBinary(a, item, epsilon)
                 IN  /\ (found = S!NotFound) = (S!SearchLinear(a, item, epsilon) = S!NotFound)
                     /\ found # S!NotFound => Gap(a[found], item) <= epsilon
            /\ {i \in DOMAIN a : a[i] = item}
                 = S!SearchLowerBound(a, item) .. S!SearchUpperBound(a, item) - 1
            /\ \A i \in DOMAIN a : i < S!SearchLowerBound(a, item) <=> a[i] < item

(* searchClosest reports the first of the elements nearest to the item,    *)
(* also where the difference of two words does not fit a signed word.      *)
ClosestIsFirstNearest ==
    family = "values" /\ data # <<>> =>
      LET a == Sorted
      IN  \A item \in Q!Words :
            S!SearchClosest(a, item)
              = Min({i \in DOMAIN a : \A j \in DOMAIN a : Gap(a[i], item) <= Gap(a[j], item)})

-----------------------------------------------------------------------------
(* Fixed point. *)

Magnitude(x) == IF x < 0 THEN - x ELSE x

(* A word is the nearest to numerator / denominator, saturation included.  *)
Nearest(word, numerator, denominator) ==
    \A w \in Q!Words : Magnitude(word * denominator - numerator)
                         <= Magnitude(w * denominator - numerator)

(* q16Mul and q16Div give the word nearest to the exact result, and the    *)
(* end of the range on its side when that is outside; negating an operand  *)
(* negates the result, so that a half is rounded alike on both sides.      *)
ProductsNearest ==
    family = "fixed" /\ Len(data) = 2 =>
      LET x == data[1]
          y == data[2]
          quotient == Q!Div(x, y)
      IN  /\ Nearest(Q!Mul(x, y), x * y, Q!One)
          /\ y # 0 => Nearest(quotient, x * Q!One, y)
          /\ y = 0 => \/ x = 0 /\ quotient = 0
                      \/ x > 0 /\ quotient = Q!IntMax
                      \/ x < 0 /\ quotient = Q!IntMin
          /\ {x, Q!Mul(x, y)} \cap {Q!IntMin, Q!IntMax} = {} => Q!Mul(- x, y) = - Q!Mul(x, y)
          /\ {x, quotient} \cap {Q!IntMin, Q!IntMax} = {} => Q!Div(- x, y) = - quotient

(* q16Sqrt gives the largest root whose square does not exceed the value,  *)
(* and a plain integer that fits comes back from q16FromInt unchanged.     *)
RootsAndIntegers ==
    family = "fixed" /\ Len(data) = 1 =>
      LET x == data[1]
          root == Q!Sqrt(x)
      IN  /\ x > 0 => root \in Q!Words /\ root^2 <= x * Q!One /\ (root + 1)^2 > x * Q!One
          /\ x <= 0 => root = 0
          /\ Nearest(Q!FromInt(x), x * Q!One, 1)
          /\ x * Q!One \in Q!Words => Q!ToInt(Q!FromInt(x)) = x
          /\ 2 * Magnitude(Q!ToInt(x) * Q!One - x) <= Q!One

-----------------------------------------------------------------------------
(* Text. *)

Longest == 16

(* A call succeeds exactly from the capacity its result needs, and what it *)
(* gives does not depend on the capacity beyond that.                      *)
NeedsExactly(Call(_), size) ==
    \A capacity \in 0 .. Longest :
        Call(capacity) = (IF capacity >= size THEN Call(Longest) ELSE T!Refused)

(* Bytes come back from their hex and their base64 characters.             *)
EncodedBack ==
    family = "octets" =>
      \A bytes \in {data, data \o data} :
        LET hex    == T!HexEncode(bytes, Longest)
            base64 == T!Base64Encode(bytes, Longest)
        IN  /\ T!HexDecode(hex.out, Len(bytes)) = T!Gave(bytes)
            /\ T!Base64Decode(base64.out, Len(bytes)) = T!Gave(bytes)
            /\ NeedsExactly(LAMBDA c : T!HexEncode(bytes, c), 2 * Len(bytes))
            /\ NeedsExactly(LAMBDA c : T!Base64Encode(bytes, c), Len(base64.out))
            /\ NeedsExactly(LAMBDA c : T!Base64Decode(base64.out, c), Len(bytes))
            /\ Len(base64.out) = T!Base64EncodedSize(Len(bytes))

(* Characters are taken only if they are what the encoder makes of some    *)
(* bytes, the case of a hex digit aside: padding inside, characters of     *)
(* neither alphabet and spare bits that are not zero are all refused.      *)
OneEncoding ==
    family = "codes" =>
      LET Upper(c) == IF c \in T!LowerA .. T!LowerF THEN c - 32 ELSE c
          hex == T!HexDecode(data, Longest)
      IN  /\ hex.ok => T!HexEncode(hex.out, Longest) = T!Gave([i \in DOMAIN data |-> Upper(data[i])])
          /\ \A lead \in {<<>>, <<65, 65, 65, 65>>, <<65, 65, 65, 61>>} :
                LET base64 == T!Base64Decode(lead \o data, Longest)
                IN  base64.ok => T!Base64Encode(base64.out, Longest) = T!Gave(lead \o data)

AllDigits(s) == s # <<>> /\ \A i \in DOMAIN s : s[i] \in T!Zero .. T!Nine
ValueOf(s) == FoldLeft(LAMBDA n, c : n * 10 + c - T!Zero, 0, s)
Distance(x, y) == IF x > y THEN x - y ELSE y - x

(* A number written out is read back, its sign and the ends of the range   *)
(* included; a fixed point one is written as the nearest decimal of its    *)
(* length, never as minus zero, and read back once the decimals are finer  *)
(* than the word.                                                          *)
NumbersReadBack ==
    family = "words" /\ Len(data) = 1 =>
      LET v == data[1]
          i32 == T!FromI32(v, Longest).out
          unsigned == v + T!NegativeLimit
          u32 == T!FromU32(unsigned, Longest).out
      IN  /\ T!ToI32(i32) = T!Gave(v) /\ NeedsExactly(LAMBDA c : T!FromI32(v, c), Len(i32))
          /\ T!ToU32(u32) = T!Gave(unsigned) /\ NeedsExactly(LAMBDA c : T!FromU32(unsigned, c), Len(u32))
          /\ \A decimals \in 0 .. DecimalsMax :
                LET q16 == T!FromQ16(v, decimals, Longest).out
                    number == ValueOf(SelectSeq(q16, LAMBDA c : c \notin {T!Minus, T!Point}))
                    magnitude == T!Magnitude(v)
                IN  /\ 2 * Distance(number * T!One, magnitude * 10^decimals) <= T!One
                    /\ (Head(q16) = T!Minus) = (v < 0 /\ number # 0)
                    /\ 10^decimals > T!One => T!ToQ16(q16) = T!Gave(v)
                    /\ NeedsExactly(LAMBDA c : T!FromQ16(v, decimals, c), Len(q16))

(* Characters are read as a number exactly when they spell one the word    *)
(* has; as a fixed point one they are read as the nearest word, of as many *)
(* decimals as the code looks at.                                          *)
NumbersRead ==
    family = "digits" =>
      LET s == T!Unsigned(data)
          limit == T!Limit(data)
          places == {i \in DOMAIN s : s[i] = T!Point}
          point == IF places = {} THEN Len(s) + 1 ELSE Min(places)
          behind == SubSeq(s, point + 1, Min({Len(s), point + ReadDigits}))
          scale == 10^Len(behind)
          exact == (ValueOf(SubSeq(s, 1, point - 1)) * scale + ValueOf(behind)) * T!One
          q16 == T!ToQ16(data)
          nearest == (2 * exact + scale) \div (2 * scale)
          wellFormed == /\ AllDigits(SubSeq(s, 1, point - 1))
                        /\ places # {} => AllDigits(SubSeq(s, point + 1, Len(s)))
          Read(ok, magnitude) ==
            IF ok /\ magnitude <= limit
            THEN T!Gave(IF T!Negative(data) THEN - magnitude ELSE magnitude) ELSE T!Refused
      IN  /\ T!ToI32(data) = Read(AllDigits(s), ValueOf(s))
          /\ T!ToU32(data) = (IF AllDigits(data) /\ ValueOf(data) <= T!UnsignedLimit
                              THEN T!Gave(ValueOf(data)) ELSE T!Refused)
          /\ q16 = Read(wellFormed, nearest)

-----------------------------------------------------------------------------
(* Arrays and tables of words. *)

(* The summaries of an array are those of its elements, wherever the       *)
(* sums and differences they are taken from fit the type.                  *)
ArraySummed ==
    family = "values" /\ data # <<>> =>
      LET unsigned == [i \in DOMAIN data |-> data[i] % 2^WordBits]
          sum == F!Sum(data)
          sumsFit == \A n \in DOMAIN data : F!Sum(SubSeq(data, 1, n)) \in Q!Words
          span == Max(ToSet(data)) - Min(ToSet(data))
          usum == F!Sum(unsigned)
          Sorted2(s) == SortSeq(s, LAMBDA x, y : x < y)
          low == Sorted2(data)[(Len(data) + 1) \div 2]
          high == Sorted2(data)[Len(data) \div 2 + 1]
      IN  /\ B!FindMax(data) = Max(ToSet(data)) /\ B!FindMin(data) = Min(ToSet(data))
          /\ B!FindMinMax(data) = [min |-> B!FindMin(data), max |-> B!FindMax(data)]
          /\ sumsFit => /\ B!CalculateSumi32(data) = {sum}
                        /\ B!CalculateMeani32(data) = {Q!Quotient(sum, Len(data))}
          /\ usum <= F!UnsignedMax => B!CalculateMeanu32(unsigned) = usum \div Len(data)
          /\ span <= Q!IntMax => B!CalculateRangei32(data) = {span}
          /\ high - low <= Q!IntMax =>
               B!CalculateMediani32(Sorted2(data)) = {low + (high - low) \div 2}
          /\ B!CalculateMedianu32(Sorted2(unsigned))
               \in Sorted2(unsigned)[(Len(data) + 1) \div 2] .. Sorted2(unsigned)[Len(data) \div 2 + 1]
          /\ B!CalculateRangeu32(unsigned) = Max(ToSet(unsigned)) - Min(ToSet(unsigned))
          /\ \A dw, up \in {-1, 0, 2} :
               dw <= up => /\ ToSet(B!ArrayLimitUpDw1D(data, up, dw)) \subseteq dw .. up
                           /\ B!ArrayLimitUpDw1D(data, up, dw)
                                = [i \in DOMAIN data |-> B!Clamp(data[i], dw, up)]

(* The step from a value to an exact one, rounded, is a word. *)
StepFits(from, exact) ==
    2 * Magnitude(exact[1] - from * exact[2]) < (2 * Q!IntMax + 1) * Magnitude(exact[2])

(* A table looked up at any word gives the node itself at a node and the   *)
(* ends held flat outside; between two nodes, the word nearest to the      *)
(* straight line, as long as the step from the lower node fits a word: a   *)
(* longer one overflows as it is added, and nothing is claimed of it.      *)
TableIsNearest ==
    family = "values" =>
      LET xs == SetToSortSeq(ToSet(data), LAMBDA x, y : x < y)
          ys == Reverse(data)
      IN  B!TableSound(xs) =>
            \A x \in Q!Words :
              LET exact == B!InterpCalculate(xs, ys, x)
                  lower == Max({1} \cup {i \in DOMAIN xs : xs[i] <= x})
              IN  \A y \in B!InterpCalculatei32(xs, ys, x) :
                    /\ StepFits(ys[lower], exact) => 2 * Magnitude(y * exact[2] - exact[1]) <= exact[2]
                    /\ \A i \in DOMAIN xs : x = xs[i] => y = ys[i]
                    /\ ~ B!InRange(xs, x) => y \in {ys[1], ys[Len(xs)]}

(* A value scaled from one range to another, either of which may descend,  *)
(* and a point between two values are the nearest words, wherever they and *)
(* the step to them from the low end fit one, and the two functions agree  *)
(* on a range of one.                                                      *)
ScaledIsNearest ==
    family = "fixed" /\ Len(data) = 2 =>
      \A value \in {Q!IntMin, -1, 3}, outLow \in {-7, 0, Q!IntMax}, outHigh \in {Q!IntMin, 5} :
        LET exact == B!Map(value, data[1], data[2], outLow, outHigh)
            fits == /\ Magnitude(exact[1]) <= (Q!IntMax - 1) * Magnitude(exact[2])
                    /\ StepFits(outLow, exact)
            t == data[1]
            between == <<outLow * (Q!One - t) + data[2] * t, Q!One>>
        IN  /\ fits => \A word \in B!Mapi32(value, data[1], data[2], outLow, outHigh) :
                        2 * Magnitude(word * exact[2] - exact[1]) <= Magnitude(exact[2])
            /\ t \in 0 .. Q!One =>
                 /\ B!Lerpi32(outLow, data[2], t) = B!Mapi32(t, 0, Q!One, outLow, data[2])
                 /\ StepFits(outLow, between) =>
                      \A word \in B!Lerpi32(outLow, data[2], t) :
                        2 * Magnitude(word * between[2] - between[1]) <= between[2]

-----------------------------------------------------------------------------
(* Filters. *)

(* The samples as the unsigned words of the same bits, and the last ones   *)
(* of a history that begins with the value a filter was initialised with.  *)
AsUnsigned == [i \in DOMAIN data |-> data[i] % 2^WordBits]
LastOf(samples, length, value) ==
    LET all == [i \in 1 .. length |-> value] \o samples
    IN  SubSeq(all, Len(all) - length + 1, Len(all))
Started == family = "samples"
Windows == {1, 3}

(* The output of a median filter is the middle one of its window, in every *)
(* order of arrival, with equal samples and the start value still in it.   *)
MedianIsMiddle ==
    Started =>
      \A length \in Windows, value \in {-4, 0} :
        LET window == LastOf(data, length, value)
            middle == F!Mediani32(data, length, value).output
        IN  /\ middle \in ToSet(window)
            /\ 2 * Cardinality({i \in DOMAIN window : window[i] < middle}) < length
            /\ 2 * Cardinality({i \in DOMAIN window : window[i] > middle}) < length
            /\ F!Median(data, length, value) = F!Mediani32(data, length, value)
            /\ F!Medianu32(AsUnsigned, length, 0).output =
                 SortSeq(LastOf(AsUnsigned, length, 0), LAMBDA x, y : x < y)[length \div 2 + 1]

(* A moving average is that of its window, however long it has run: the    *)
(* unsigned sum is right again as soon as the samples that did not fit     *)
(* have left, and the float sum is never off by more than one window of    *)
(* additions and subtractions can make it.                                 *)
AverageOfWindow ==
    Started =>
      \A length \in {1, 2, 3} :
        LET u32 == LastOf(AsUnsigned, length, 3)
            i32 == [i \in DOMAIN data |-> Q!Quotient(data[i], length)]
            float == LastOf(data, length, 3)
        IN  /\ F!Sum(u32) <= F!UnsignedMax =>
                 F!Mafu32(AsUnsigned, length, 3).output = F!Sum(u32) \div length
            /\ F!SumFits(length, 3, Q!IntMax)
            /\ F!Mafi32(i32, length, 3).output = Q!Quotient(F!Sum(LastOf(i32, length, 3)), length)
            /\ F!Mafi32(i32, length, 3).sumOfArray \in Q!Words
            /\ data # <<>> =>
                 \A error \in {-1, 0, 1} :
                    Magnitude(F!Maf(data, length, 3, error).output - F!Sum(float))
                      <= 3 * length * Magnitude(error)

(* A slew limiter is as near to the sample as one step takes it, also      *)
(* where the step leaves the type, and is there once it is within a step.  *)
SlewIsNearest ==
    Started /\ data # <<>> =>
      \A maxStep \in {1, 5, Q!IntMax} :
        LET before == SubSeq(data, 1, Len(data) - 1)
            beforeUnsigned == SubSeq(AsUnsigned, 1, Len(data) - 1)
            Within(old, new, sample) ==
              /\ Magnitude(new - old) <= maxStep
              /\ \/ new = sample
                 \/ Magnitude(new - old) = maxStep /\ Magnitude(sample - old) = maxStep + Magnitude(sample - new)
        IN  /\ Within(F!Slewi32(before, maxStep, 0), F!Slewi32(data, maxStep, 0), Last(data))
            /\ Within(F!Slewu32(beforeUnsigned, maxStep, 0), F!Slewu32(AsUnsigned, maxStep, 0), Last(AsUnsigned))
            /\ F!Slew(data, maxStep, 0) = F!Slewi32(data, maxStep, 0)

(* After a sample the output of a deadband is within its threshold of it;  *)
(* it has moved only if it was not, and then to the sample or to the edge  *)
(* of the band around it.                                                  *)
DeadbandHolds ==
    Started /\ data # <<>> =>
      \A threshold \in {0, 5, Q!IntMax}, mode \in F!Modes :
        LET before == SubSeq(data, 1, Len(data) - 1)
            beforeUnsigned == SubSeq(AsUnsigned, 1, Len(data) - 1)
            Holds(old, new, sample) ==
              IF Magnitude(sample - old) <= threshold THEN new = old
              ELSE Magnitude(sample - new) = (IF mode = "DRAG" THEN threshold ELSE 0)
                   /\ Magnitude(new - old) <= Magnitude(sample - old)
        IN  /\ Holds(F!Deadbandi32(before, threshold, mode, 0), F!Deadbandi32(data, threshold, mode, 0), Last(data))
            /\ Holds(F!Deadbandu32(beforeUnsigned, threshold, mode, 0), F!Deadbandu32(AsUnsigned, threshold, mode, 0),
                     Last(AsUnsigned))
            /\ F!Deadband(data, threshold, mode, 0) = F!Deadbandi32(data, threshold, mode, 0)

(* The integer average never leaves the range of its inputs, nor its       *)
(* accumulator the word, and it arrives at an input that stays, from       *)
(* either side and with nothing left over.                                 *)
EmafArrives ==
    Started =>
      \A shift \in {1, 2, 3} :
        LET bound == F!EmafBound(shift)
            inputs == SelectSeq(data, LAMBDA x : Magnitude(x) <= bound)
            seen == ToSet(inputs) \cup {0}
            d == F!Emafi32(inputs, shift, 0)
            held == [i \in 1 .. 5 * 2^shift |-> Last(inputs)]
        IN  /\ d.accumulator \in Q!Words
            /\ d.output \in Min(seen) .. Max(seen)
            /\ inputs # <<>> => F!Emafi32(inputs \o held, shift, 0).output = Last(inputs)

(* A fir output is the sum of the products of the taps with the samples,   *)
(* newest first, whatever the place of the ring's index; the integer one   *)
(* rounded alike on both sides of zero wherever it fits a word, and what   *)
(* its low bits are, a whole turn away, where it does not.                 *)
FirIsConvolution ==
    Started =>
      \A taps \in {<<5>>, <<8, -3, 1>>}, value \in {0, 2} :
        LET window == Reverse(LastOf(data, Len(taps), value))
            sum == F!Sum([i \in DOMAIN taps |-> taps[i] * window[i]])
            negated == [i \in DOMAIN data |-> - data[i]]
            i32 == F!Firi32(data, taps, value)
            fits == Magnitude(sum) <= Q!IntMax * Q!One
            Rounds(word) == 2 * Magnitude(word * Q!One - sum) <= Q!One
        IN  /\ F!Fir(data, taps, value).output = sum
            /\ i32 \in Q!Words
            /\ \E turns \in -1 .. 1 : Rounds(i32 + turns * 2^WordBits) /\ (fits => turns = 0)
            /\ fits /\ Q!IntMin \notin ToSet(data) => F!Firi32(negated, taps, - value) = - i32

(* The block results of rms are those of the last full block: the mean the *)
(* nearest word, the two roots within one, and the float copy's variance   *)
(* the same whichever offset was taken off.  A flag that was read comes    *)
(* back with the next full block and no sooner.                            *)
RmsOfBlock ==
    Started =>
      \A n \in {1, 3} :
        LET blocks == Len(data) \div n
            block == SubSeq(data, (blocks - 1) * n + 1, blocks * n)
            sum == F!Sum(block)
            squares == F!Sum([i \in DOMAIN block |-> block[i] * block[i]])
            i16 == F!Rmsi16(SubSeq(data, 1, blocks * n), n)
            float == F!Rms(data, n)
            After(d, k) ==
              F!Run(LAMBDA e, x : F!RmsIterationi16(e, x, n), F!RmsIsReady(d), SubSeq(block, 1, k))
            RootWithinOne(root, square) ==
              /\ ((root + 1) * n)^2 >= square * Q!One^2
              /\ root > 0 => ((root - 1) * n)^2 <= square * Q!One^2
        IN  IF blocks = 0 THEN ~ i16.ready /\ ~ float.ready
            ELSE /\ i16.ready /\ 2 * Magnitude(i16.mean * n - sum * Q!One) <= n
                 /\ RootWithinOne(i16.rms, n * squares)
                 /\ RootWithinOne(i16.acRms, n * squares - sum^2)
                 /\ float.ready /\ float.mean = sum
                 /\ float.variance = n * squares - sum^2
                 /\ \A k \in 0 .. n : After(i16, k).ready = (k = n)

-----------------------------------------------------------------------------
(* What the run checks of each family. *)

(* cobs: a payload is read back from its frame, byte for byte; a frame     *)
(* nobody wrote is refused, or read within the capacity.                   *)
FramesInvert == CobsRoundTrip /\ CobsWritesWithinCapacity /\ CobsOneFrame

(* pack, hex and base64, crc and checksum: octets put into a buffer or a   *)
(* text are got back from it, a text nobody wrote is refused, the forms of *)
(* one check agree, and it sees the errors it is there for.                *)
OctetsKept ==
    /\ PackRoundTrip /\ EncodedBack /\ OneEncoding
    /\ TablesAgree /\ ChecksToZero /\ ErrorsDetected /\ StreamedIsWhole /\ ReorderingSeen

(* sort and search: sorted, stable where promised, and every search right  *)
(* at the ends, in ties and across the range of a word.                    *)
OrderedAndFound ==
    SortsOrder /\ SortsStable /\ SearchesAgree /\ ClosestIsFirstNearest

(* q16, basicmath, interp, the numbers of text and the filters: every      *)
(* result is the representable one nearest to the exact one, of two        *)
(* operands, a table, a text or a whole history of samples.                *)
ResultsNearest ==
    /\ ProductsNearest /\ RootsAndIntegers /\ NumbersReadBack /\ NumbersRead
    /\ ArraySummed /\ TableIsNearest /\ ScaledIsNearest
    /\ MedianIsMiddle /\ AverageOfWindow /\ SlewIsNearest /\ DeadbandHolds
    /\ EmafArrives /\ FirIsConvolution /\ RmsOfBlock

-----------------------------------------------------------------------------
(* The arguments of each family. *)
MCElements ==
    [frame  |-> 0 .. Base - 1,
     octets |-> {0, 1, 255},
     values |-> {Q!IntMin, -1, 0, 2, Q!IntMax},
     fixed  |-> Q!Words,
     samples |-> {Q!IntMin, -4, 0, 3, Q!IntMax},
     words  |-> - T!NegativeLimit .. T!PositiveLimit,
     digits |-> {T!Minus, T!Point, T!Zero, 49, 50, 53, 54},   \* - . 0 1 2 5 6
     codes  |-> {65, 81, 102, 71, T!Zero, T!Plus, T!Slash, T!Equals, T!Minus}] \* A Q f G 0 + / = -

MCMaxLen == [frame |-> 6, octets |-> 3, values |-> 5, fixed |-> 2,
             words |-> 1, samples |-> 6, digits |-> 5, codes |-> 4]
=============================================================================
