-------------------------------- MODULE Cobs --------------------------------
(***************************************************************************)
(* Consistent overhead byte stuffing and the fixed width integers of pack. *)
(* A byte takes Base values, 256 in the code; the longest run of COBS is   *)
(* two less, so that its code byte is the largest byte.                    *)
(***************************************************************************)
LOCAL INSTANCE Integers
LOCAL INSTANCE Sequences
LOCAL INSTANCE SequencesExt

CONSTANT Base   \* more than 2

Delimiter == 0
RunMax == Base - 2

(* What a call returns: TRUE and the bytes it wrote, or FALSE and none.    *)
Refused == [ok |-> FALSE, bytes |-> <<>>]
Written(bytes) == [ok |-> TRUE, bytes |-> bytes]

-----------------------------------------------------------------------------
(* cobs.c.  The encoder holds the finished runs and the open one, whose    *)
(* code byte it goes back to write when the run closes.                    *)

EncodedSize(length) == length + 1 + length \div RunMax

CloseRun(e) == [done |-> e.done \o <<Len(e.run) + 1>> \o e.run, run |-> <<>>]

EncodeByteLate(e, byte) ==  \* mutant: a run closes one byte late
    IF byte = Delimiter THEN CloseRun(e)
    ELSE LET grown == [e EXCEPT !.run = Append(@, byte)]
         IN  IF Len(grown.run) > RunMax THEN CloseRun(grown) ELSE grown
EncodeByte(e, byte) ==
    IF byte = Delimiter THEN CloseRun(e)
    ELSE LET grown == [e EXCEPT !.run = Append(@, byte)]
         IN  IF Len(grown.run) = RunMax THEN CloseRun(grown) ELSE grown

Encode(source, capacity) ==
    LET after[i \in 0 .. Len(source)] ==
            IF i = 0 THEN [done |-> <<>>, run |-> <<>>] ELSE EncodeByte(after[i - 1], source[i])
    IN  IF EncodedSize(Len(source)) <= capacity
        THEN Written(CloseRun(after[Len(source)]).done) ELSE Refused

(* A run stands for a delimiter after it unless it is full or the last.    *)
DelimiterAlways(frame, code, next) == code # RunMax + 1  \* mutant: after the last run too
DelimiterAfter(frame, code, next) == code # RunMax + 1 /\ next <= Len(frame)

(* The validating pass: the length of the payload, or -1 for a frame that  *)
(* is malformed.  The pair p holds the place of a code byte and the length *)
(* so far; "next" is the place after its run.                              *)
Validate(frame) ==
    LET from[p \in (1 .. Len(frame) + 1) \X Nat] ==
            LET code == frame[p[1]]
                next == p[1] + code
                delimiters == IF DelimiterAfter(frame, code, next) THEN 1 ELSE 0
            IN  IF p[1] > Len(frame) THEN p[2]
                ELSE IF code = 0 \/ next - 1 > Len(frame) THEN -1
                ELSE from[<<next, p[2] + code - 1 + delimiters>>]
    IN  from[<<1, 0>>]

(* The writing pass, which tests nothing but the end: a frame known to be  *)
(* sound does not run over it, nor has a code byte that is zero.           *)
Fill(frame) ==
    LET from[read \in 1 .. Len(frame) + Base] ==
            LET code == frame[read]
                next == read + (IF code = 0 THEN 1 ELSE code)
            IN  IF read > Len(frame) THEN <<>>
                ELSE SubSeq(frame, read + 1, next - 1)
                     \o (IF DelimiterAfter(frame, code, next) THEN <<Delimiter>> ELSE <<>>)
                     \o from[next]
    IN  from[1]

DecodeOneMore(frame, capacity) ==  \* mutant: one byte more than the capacity
    LET length == IF frame = <<>> THEN -1 ELSE Validate(frame)
    IN  IF length >= 0 /\ length <= capacity + 1
        THEN Written(Fill(frame))
        ELSE Refused
Decode(frame, capacity) ==
    LET length == IF frame = <<>> THEN -1 ELSE Validate(frame)
    IN  IF length >= 0 /\ length <= capacity
        THEN Written(Fill(frame))
        ELSE Refused

-----------------------------------------------------------------------------
(* pack.c: a value of n bytes at an index of a buffer, most significant    *)
(* byte first or last.                                                     *)

Digit(value, k) == (value \div Base^k) % Base

PutBe(n, buffer, index, value) ==
    [i \in DOMAIN buffer |-> IF i \in index .. index + n - 1
                             THEN Digit(value, index + n - 1 - i) ELSE buffer[i]]
PutLe(n, buffer, index, value) ==
    [i \in DOMAIN buffer |-> IF i \in index .. index + n - 1
                             THEN Digit(value, i - index) ELSE buffer[i]]

GetBe(n, buffer, index) ==
    FoldLeft(LAMBDA value, byte : value * Base + byte, 0, SubSeq(buffer, index, index + n - 1))
GetLe(n, buffer, index) ==
    FoldRight(LAMBDA byte, value : value * Base + byte, SubSeq(buffer, index, index + n - 1), 0)

(* The signed forms: two's complement written out by a comparison.         *)
SignedLate(n, raw) ==  \* mutant: <= for <
    IF raw <= Base^n \div 2 THEN raw ELSE raw - Base^n
Signed(n, raw) == IF raw < Base^n \div 2 THEN raw ELSE raw - Base^n

PutU16be(b, i, v) == PutBe(2, b, i, v)
PutU16le(b, i, v) == PutLe(2, b, i, v)
PutU32be(b, i, v) == PutBe(4, b, i, v)
PutU32le(b, i, v) == PutLe(4, b, i, v)
GetU16be(b, i) == GetBe(2, b, i)
GetU16le(b, i) == GetLe(2, b, i)
GetU24be(b, i) == GetBe(3, b, i)
GetU24le(b, i) == GetLe(3, b, i)
GetU32be(b, i) == GetBe(4, b, i)
GetU32le(b, i) == GetLe(4, b, i)
GetI16be(b, i) == Signed(2, GetU16be(b, i))
GetI16le(b, i) == Signed(2, GetU16le(b, i))
GetI24be(b, i) == Signed(3, GetU24be(b, i))
GetI24le(b, i) == Signed(3, GetU24le(b, i))
GetI32be(b, i) == Signed(4, GetU32be(b, i))
GetI32le(b, i) == Signed(4, GetU32le(b, i))
=============================================================================
