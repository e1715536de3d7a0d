------------------------------- MODULE Filters -------------------------------
(***************************************************************************)
(* The filters that take a sample a call: median, maf, slew, deadband,     *)
(* emaf, fir and rms.  A filter is the record of its fields, an iteration  *)
(* a function of the record and the sample, and a run of the filter a fold *)
(* over the samples.  An integer has the width of module Q16; the float    *)
(* copies are taken over exact numbers, and maf, whose sum is there to     *)
(* bound a rounding error, with the error of each addition as a parameter. *)
(***************************************************************************)
LOCAL INSTANCE Integers
LOCAL INSTANCE Sequences
LOCAL INSTANCE SequencesExt

CONSTANTS WordBits, FracBits,
          RootLimit     \* RMS_NORMAL_LIMIT, 4^30 in the code: a power of four

Q == INSTANCE Q16
UnsignedMax == 2^WordBits - 1

Run(Iteration(_, _), init, samples) == FoldLeft(Iteration, init, samples)

(* The index of the oldest sample, and the window with that sample gone.   *)
NextIndex(d) == IF d.index + 1 > Len(d.buffer) THEN 1 ELSE d.index + 1
Window(length, value) == [i \in 1 .. length |-> value]
Overwrite(d, sample) == [d EXCEPT !.buffer[d.index] = sample, !.index = NextIndex(d)]

-----------------------------------------------------------------------------
(* median.c: the window in time order and a copy of it in value order.     *)

MedianInit(length, value) ==
    [buffer |-> Window(length, value), sorted |-> Window(length, value),
     index |-> 1, output |-> value]

FirstWhere(s, Test(_), otherwise) ==
    LET at == SelectInSeq(s, Test) IN IF at = 0 THEN otherwise ELSE at

InsertSortedLast(kept, sample) ==  \* mutant: the place is not looked for
    Append(kept, sample)
InsertSorted(kept, sample) ==
    InsertAt(kept, FirstWhere(kept, LAMBDA x : x > sample, Len(kept) + 1), sample)

MedianIteration(d, sample) ==
    LET oldest == d.buffer[d.index]
        kept == RemoveAt(d.sorted, FirstWhere(d.sorted, LAMBDA x : x = oldest, 1))
        sorted == InsertSorted(kept, sample)
    IN  [Overwrite(d, sample) EXCEPT !.sorted = sorted, !.output = sorted[Len(sorted) \div 2 + 1]]

Median(samples, length, value) == Run(MedianIteration, MedianInit(length, value), samples)
Medianu32(samples, length, value) == Median(samples, length, value)
Mediani32(samples, length, value) == Median(samples, length, value)

-----------------------------------------------------------------------------
(* maf.c: the window and its running sum.  The u32 sum wraps.              *)

MafInit(length, value) ==
    [buffer |-> Window(length, value), sumOfArray |-> length * value, index |-> 1,
     output |-> value]

Sum(s) == FoldLeft(LAMBDA x, y : x + y, 0, s)
WrapWord(x) == x % 2^WordBits

SumFits(length, value, limit) ==
    LET magnitude == IF value < 0 THEN - value ELSE value
    IN  magnitude = 0 \/ length <= limit \div magnitude

MafIterationu32(d, sample) ==
    LET sum == WrapWord(WrapWord(d.sumOfArray - d.buffer[d.index]) + sample)
    IN  [Overwrite(d, sample) EXCEPT !.sumOfArray = sum, !.output = sum \div Len(d.buffer)]
Mafu32(samples, length, value) == Run(MafIterationu32, MafInit(length, value), samples)

MafIterationi32(d, sample) ==
    LET sum == d.sumOfArray - d.buffer[d.index] + sample
    IN  [Overwrite(d, sample) EXCEPT !.sumOfArray = sum,
                                     !.output = Q!Quotient(sum, Len(d.buffer))]
Mafi32(samples, length, value) == Run(MafIterationi32, MafInit(length, value), samples)

(* The float sum gathers an error in each addition and subtraction, and is *)
(* made anew from the window each time the index wraps.  Its output is the *)
(* sum, undivided.                                                         *)
SumAtWrapKept(d, sum, error) == sum  \* mutant: the sum is carried on for ever
SumAtWrap(d, sum, error) ==
    IF d.index = 1 THEN Sum(d.buffer) + Len(d.buffer) * error ELSE sum

MafIteration(d, sample, error) ==
    LET sum == d.sumOfArray - d.buffer[d.index] + sample + 2 * error
        after == Overwrite(d, sample)
    IN  [after EXCEPT !.sumOfArray = SumAtWrap(after, sum, error), !.output = sum]
Maf(samples, length, value, error) ==
    Run(LAMBDA d, sample : MafIteration(d, sample, error), MafInit(length, value), samples)

-----------------------------------------------------------------------------
(* slew.c: the output follows a sample by a step at most.  The integer     *)
(* copies keep each limit inside the range of their type.                  *)

SlewIteration(output, sample, maxStep, low, high) ==
    LET up   == IF output > high - maxStep THEN high ELSE output + maxStep
        down == IF output < low + maxStep THEN low ELSE output - maxStep
    IN  IF sample > output THEN (IF sample < up THEN sample ELSE up)
        ELSE IF sample < output THEN (IF sample > down THEN sample ELSE down)
        ELSE output

Slewi32(samples, maxStep, value) ==
    Run(LAMBDA o, s : SlewIteration(o, s, maxStep, Q!IntMin, Q!IntMax), value, samples)
Slewu32(samples, maxStep, value) ==
    Run(LAMBDA o, s : SlewIteration(o, s, maxStep, 0, UnsignedMax), value, samples)

SlewFloat(output, sample, maxStep) ==
    LET difference == sample - output
    IN  IF difference > maxStep THEN output + maxStep
        ELSE IF difference < - maxStep THEN output - maxStep
        ELSE sample
Slew(samples, maxStep, value) ==
    Run(LAMBDA o, s : SlewFloat(o, s, maxStep), value, samples)

-----------------------------------------------------------------------------
(* deadband.c: a sample inside the band leaves the output; outside it the  *)
(* output snaps to the sample or is dragged behind it.                     *)

Modes == {"SNAP", "DRAG"}

Drag(output, sample, upper, lower, mode, above, below) ==
    IF sample > upper THEN (IF mode = "DRAG" THEN above ELSE sample)
    ELSE IF sample < lower THEN (IF mode = "DRAG" THEN below ELSE sample)
    ELSE output

(* The edges of the band, inside the range of the type. *)
UpperWrapping(output, threshold, high) == (output + threshold) % (high + 1)  \* mutant
Upper(output, threshold, high) ==
    IF output > high - threshold THEN high ELSE output + threshold
Lower(output, threshold, low) ==
    IF output < low + threshold THEN low ELSE output - threshold

DeadbandIterationi32(output, sample, threshold, mode) ==
    Drag(output, sample, Upper(output, threshold, Q!IntMax), Lower(output, threshold, Q!IntMin),
         mode, sample - threshold, sample + threshold)
Deadbandi32(samples, threshold, mode, value) ==
    Run(LAMBDA o, s : DeadbandIterationi32(o, s, threshold, mode), value, samples)

DeadbandIterationu32(output, sample, threshold, mode) ==
    Drag(output, sample, Upper(output, threshold, UnsignedMax), Lower(output, threshold, 0),
         mode, sample - threshold, Upper(sample, threshold, UnsignedMax))
Deadbandu32(samples, threshold, mode, value) ==
    Run(LAMBDA o, s : DeadbandIterationu32(o, s, threshold, mode), value, samples)

DeadbandIteration(output, sample, threshold, mode) ==
    Drag(output, sample, output + threshold, output - threshold, mode,
         sample - threshold, sample + threshold)
Deadband(samples, threshold, mode, value) ==
    Run(LAMBDA o, s : DeadbandIteration(o, s, threshold, mode), value, samples)

-----------------------------------------------------------------------------
(* emaf.c, the i32 copy: the output scaled up in an accumulator.           *)

EmafBound(shift) == Q!IntMax \div 2^shift
EmafIniti32(shift, value) == [accumulator |-> value * 2^shift, output |-> value]

EmafScaled(accumulator, shift) == accumulator \div 2^shift

EmafUnscaled(d, sample, shift) ==  \* mutant: the part below one is dropped
    LET output == d.output + (sample - d.output) \div 2^shift
    IN  [accumulator |-> output * 2^shift, output |-> output]
EmafIterationi32(d, sample, shift) ==
    LET accumulator == d.accumulator + sample - EmafScaled(d.accumulator, shift)
    IN  [accumulator |-> accumulator, output |-> EmafScaled(accumulator, shift)]
Emafi32(samples, shift, value) ==
    Run(LAMBDA d, s : EmafIterationi32(d, s, shift), EmafIniti32(shift, value), samples)

-----------------------------------------------------------------------------
(* fir.c: the newest sample meets the first tap.                           *)

FirShift(value) ==
    IF value >= 0 THEN (value + Q!Half) \div Q!One ELSE - ((- value + Q!Half) \div Q!One)

(* The loop walks the ring backwards from the newest sample.               *)
FirAccumulate(d, taps) ==
    LET Before(i) == IF d.index > i THEN d.index - i ELSE d.index - i + Len(taps)
    IN  Sum([i \in DOMAIN taps |-> taps[i] * d.buffer[Before(i - 1)]])

FirInit(taps, value) ==
    [buffer |-> Window(Len(taps), value), index |-> 1, output |-> value * Sum(taps)]
FirIteration(d, sample, taps) ==
    LET stored == [d EXCEPT !.buffer[d.index] = sample]
    IN  [stored EXCEPT !.output = FirAccumulate(stored, taps), !.index = NextIndex(d)]
Fir(samples, taps, value) ==
    Run(LAMBDA d, s : FirIteration(d, s, taps), FirInit(taps, value), samples)

(* The i32 copy is that one with taps in Q16 and the sum shifted down and  *)
(* cast to a word.                                                         *)
FirIniti32(taps, value) == Q!Narrow(FirShift(FirInit(taps, value).output))
Firi32(samples, taps, value) ==
    IF samples = <<>> THEN FirIniti32(taps, value)
    ELSE Q!Narrow(FirShift(Fir(samples, taps, value).output))

-----------------------------------------------------------------------------
(* rms.c: sums over a block, and the results when it is full.              *)

(* The flag is read once; one operator for the two copies. *)
RmsFlagKept(d) == d  \* mutant: the flag is not cleared
RmsIsReady(d) == [d EXCEPT !.ready = FALSE]

RootStep(r, bit) ==
    IF r.rest >= r.root + bit
    THEN [root |-> r.root \div 2 + bit, rest |-> r.rest - (r.root + bit)]
    ELSE [root |-> r.root \div 2, rest |-> r.rest]
SquareRoot(value) ==
    LET places == {k \in 0 .. 15 : 4^k <= RootLimit}
        top == CHOOSE k \in places : 4^k = RootLimit
    IN  FoldLeft(RootStep, [root |-> 0, rest |-> value], [k \in 1 .. top + 1 |-> 4^(top + 1 - k)]).root

(* The numerator is scaled up by fours, and its root by twos, so that the  *)
(* root keeps as many digits as it can.                                    *)
ShiftNone(numerator) == 0  \* mutant: a root of a small number is coarse
ShiftOf(numerator) == CHOOSE k \in 0 .. 15 :
    numerator * 4^k >= RootLimit /\ (k = 0 \/ numerator * 4^(k - 1) < RootLimit)
RootOver(numerator, count) ==
    LET shift == ShiftOf(numerator)
        divisor == count * 2^shift
    IN  IF numerator = 0 THEN 0
        ELSE (SquareRoot(numerator * 4^shift) * Q!One + divisor \div 2) \div divisor

RmsIniti16 == [count |-> 0, sum |-> 0, sumSquares |-> 0, mean |-> 0, rms |-> 0, acRms |-> 0,
               ready |-> FALSE]

RmsFinishi16(d, n) ==
    LET numerator == d.sum * Q!One
        half == n \div 2
        total == n * d.sumSquares
    IN  [RmsIniti16 EXCEPT
           !.mean = Q!Quotient(IF numerator >= 0 THEN numerator + half ELSE numerator - half, n),
           !.rms = RootOver(total, n), !.acRms = RootOver(total - d.sum * d.sum, n),
           !.ready = TRUE]

RmsIterationi16(d, sample, n) ==
    LET summed == [d EXCEPT !.sum = @ + sample, !.sumSquares = @ + sample * sample, !.count = @ + 1]
    IN  IF summed.count >= n THEN RmsFinishi16(summed, n) ELSE summed
Rmsi16(samples, n) == Run(LAMBDA d, s : RmsIterationi16(d, s, n), RmsIniti16, samples)

(* The float copy sums what is left of a sample when the first one of the  *)
(* block is taken off.  Its mean is n times and its variance n * n times   *)
(* the field, before the roots.                                            *)
RmsInit == [count |-> 0, offset |-> 0, sum |-> 0, sumSquares |-> 0, mean |-> 0, variance |-> 0,
            ready |-> FALSE]
RmsIteration(d, sample, n) ==
    LET offset == IF d.count = 0 THEN sample ELSE d.offset
        sum == d.sum + (sample - offset)
        sumSquares == d.sumSquares + (sample - offset) * (sample - offset)
        variance == n * sumSquares - sum * sum
    IN  IF d.count + 1 >= n
        THEN [d EXCEPT !.count = 0, !.offset = offset, !.sum = 0, !.sumSquares = 0, !.ready = TRUE,
                       !.mean = n * offset + sum,
                       !.variance = IF variance < 0 THEN 0 ELSE variance]
        ELSE [d EXCEPT !.count = @ + 1, !.offset = offset, !.sum = sum, !.sumSquares = sumSquares]
Rms(samples, n) == Run(LAMBDA d, s : RmsIteration(d, s, n), RmsInit, samples)
=============================================================================
