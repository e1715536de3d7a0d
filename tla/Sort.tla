-------------------------------- MODULE Sort --------------------------------
(***************************************************************************)
(* sort.c and search.c.  An array is a sequence, so its first index is 1;  *)
(* the position a search reports is one more than the code's.  To sort, an *)
(* element is a pair of its value and a tag no comparison looks at; the    *)
(* code's three copies of every function differ in the type of the value.  *)
(***************************************************************************)
LOCAL INSTANCE Integers
LOCAL INSTANCE Sequences

CONSTANT WordBits   \* width of a signed integer, 32 in the code

(* An array after the turns 1 to n of a loop. *)
Turns(Body(_, _), array, n) ==
    LET after[i \in 0 .. n] == IF i = 0 THEN array ELSE Body(after[i - 1], i)
    IN  IF n < 1 THEN array ELSE after[n]

AboveOrEqual(x, y) == x[1] >= y[1]  \* mutant: equal elements change places
Above(x, y) == x[1] > y[1]

SwapElements(a, i, j) == [a EXCEPT ![i] = a[j], ![j] = a[i]]

(* The first of the smallest elements from i on. *)
SmallestFrom(a, i) ==
    CHOOSE m \in i .. Len(a) :
        /\ \A j \in i .. Len(a) : ~ Above(a[m], a[j])
        /\ \A j \in i .. m - 1 : Above(a[j], a[m])

SortSelection(a) ==
    Turns(LAMBDA b, i : SwapElements(b, i, SmallestFrom(b, i)), a, Len(a) - 1)

OrderPair(b, j) == IF Above(b[j], b[j + 1]) THEN SwapElements(b, j, j + 1) ELSE b
BubblePassShort(a, last) == Turns(OrderPair, a, last - 1)  \* mutant: the last pair is left out
BubblePass(a, last) == Turns(OrderPair, a, last)

SortBubble(a) == Turns(LAMBDA b, i : BubblePass(b, Len(a) - i), a, Len(a) - 1)

(* Element i moves down past the elements above it, until the first that   *)
(* is not.                                                                 *)
InsertElement(a, i) ==
    LET j == CHOOSE p \in 1 .. i :
               /\ p = 1 \/ ~ Above(a[p - 1], a[i])
               /\ \A q \in p .. i - 1 : Above(a[q], a[i])
    IN  [k \in DOMAIN a |-> IF k = j THEN a[i] ELSE IF k \in j + 1 .. i THEN a[k - 1] ELSE a[k]]

SortInsertion(a) == Turns(LAMBDA b, i : InsertElement(b, i + 1), a, Len(a) - 1)

(* The element at the root trades places with the larger of its children   *)
(* up to "end", for as long as that one is above it.                       *)
LargestOf(b, r, end) ==
    LET larger == IF Above(b[2 * r], b[r]) THEN 2 * r ELSE r
    IN  IF 2 * r + 1 <= end /\ Above(b[2 * r + 1], b[larger]) THEN 2 * r + 1 ELSE larger
SiftDown(a, root, end) ==
    LET down[p \in [DOMAIN a -> Int \X Int] \X DOMAIN a] ==
            LET b == p[1]  r == p[2]  largest == LargestOf(b, r, end)
            IN  IF 2 * r > end \/ largest = r THEN b
                ELSE down[<<SwapElements(b, r, largest), largest>>]
    IN  down[<<a, root>>]

Heapify(a) ==
    Turns(LAMBDA b, k : SiftDown(b, Len(a) \div 2 + 1 - k, Len(a)), a, Len(a) \div 2)

SortHeap(a) ==
    Turns(LAMBDA b, k : SiftDown(SwapElements(b, 1, Len(a) + 1 - k), 1, Len(a) - k),
          Heapify(a), Len(a) - 1)

SortReverse(a) ==
    Turns(LAMBDA b, i : SwapElements(b, i, Len(a) + 1 - i), a, Len(a) \div 2)

SortIsSorted(a) == \A i \in 2 .. Len(a) : ~ Above(a[i - 1], a[i])

-----------------------------------------------------------------------------
(* Searches of an array of integers.  0 stands for FALSE, where the code   *)
(* leaves the found index alone.                                           *)

NotFound == 0

IsEqualf(x, y, epsilon) == IF x > y THEN x - y <= epsilon ELSE y - x <= epsilon

SearchLinear(a, item, epsilon) ==
    IF \E i \in DOMAIN a : IsEqualf(a[i], item, epsilon)
    THEN CHOOSE i \in DOMAIN a :
            /\ IsEqualf(a[i], item, epsilon)
            /\ \A j \in 1 .. i - 1 : ~ IsEqualf(a[j], item, epsilon)
    ELSE NotFound

(* The bounds of a search are the pair p, and m the element between them.  *)
BinaryWithin(a, item, epsilon) ==
    LET within[p \in (1 .. Len(a) + 1) \X (0 .. Len(a))] ==
            LET l == p[1]  r == p[2]  m == l + (r - l) \div 2
            IN  IF l > r THEN NotFound
                ELSE IF IsEqualf(a[m], item, epsilon) THEN m
                ELSE IF a[m] < item \/ m = 1 THEN within[<<m + 1, r>>]
                ELSE within[<<l, m - 1>>]
    IN  within[<<1, Len(a)>>]

SearchBinary(a, item, epsilon) ==
    IF a = <<>> THEN NotFound ELSE BinaryWithin(a, item, epsilon)

(* The first element not below the item, and the first above it; one past  *)
(* the end when there is none.                                             *)
LowerWithin(a, item, last) ==
    LET within[p \in (1 .. last) \X (1 .. last)] ==
            LET low == p[1]  high == p[2]  mid == low + (high - low) \div 2
            IN  IF low >= high THEN low
                ELSE IF a[mid] < item THEN within[<<mid + 1, high>>]
                ELSE within[<<low, mid>>]
    IN  within[<<1, last>>]

SearchLowerBound(a, item) == LowerWithin(a, item, Len(a) + 1)

UpperWithin(a, item, last) ==
    LET within[p \in (1 .. last) \X (1 .. last)] ==
            LET low == p[1]  high == p[2]  mid == low + (high - low) \div 2
            IN  IF low >= high THEN low
                ELSE IF a[mid] > item THEN within[<<low, mid>>]
                ELSE within[<<mid + 1, high>>]
    IN  within[<<1, last>>]

SearchUpperBoundShort(a, item) ==  \* mutant: never one past the end
    UpperWithin(a, item, IF a = <<>> THEN 1 ELSE Len(a))
SearchUpperBound(a, item) == UpperWithin(a, item, Len(a) + 1)

(* searchClosesti32: the difference of two signed words, taken after both  *)
(* were cast to unsigned.                                                  *)
DistanceSigned(from, to) ==  \* mutant: the difference of the signed words
    ((to - from + 2^(WordBits - 1)) % 2^WordBits) - 2^(WordBits - 1)
Distance(from, to) == (to - from) % 2^WordBits

SearchClosest(a, item) ==
    LET pos == SearchLowerBound(a, item)
    IN  IF a = <<>> THEN NotFound
        ELSE IF pos = 1 THEN 1
        ELSE IF pos = Len(a) + 1 THEN SearchLowerBound(a, a[Len(a)])
        ELSE IF Distance(item, a[pos]) < Distance(a[pos - 1], item) THEN pos
        ELSE SearchLowerBound(a, a[pos - 1])
=============================================================================
