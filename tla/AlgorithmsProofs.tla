-------------------------- MODULE AlgorithmsProofs --------------------------
(***************************************************************************)
(* sort.c and search.c, for arrays of every length and words of every      *)
(* width; cobs.c, for payloads and frames of every length.                 *)
(***************************************************************************)
EXTENDS MCAlgorithms, Counting, SequenceTheorems

Pairs == Int \X Int
Arrays(n) == [1 .. n -> Pairs]

(* What is true before a loop and kept by each of its turns is true after.  *)
LoopHasResult(a, f, n, I) ==
    \E g : /\ g = [i \in 0 .. n |-> g[i]] /\ g[0] = a
           /\ \A i \in 1 .. n : g[i] = f[i][g[i - 1]]
           /\ \A i \in 0 .. n : g[i] \in I[i]
LEMMA LoopKeeps ==
    ASSUME NEW n \in Nat, NEW I, NEW a \in I[0], NEW f,
           \A i \in 1 .. n : \A b \in I[i - 1] : f[i][b] \in I[i]
    PROVE  LoopHasResult(a, f, n, I)
<1> DEFINE D == 0 .. n
           size == [i \in D |-> i]
           res == [i \in D |-> a]
           next == [i \in D |-> i - 1]
           base == {0}
<1>1. PICK g : /\ g = [x \in D |-> g[x]]
               /\ \A x \in D : g[x] = IF x \in base THEN res[x] ELSE f[x][g[next[x]]]
  <2>1. size \in [D -> 0 .. n] /\ \A x \in D : x \notin base => next[x] \in D /\ size[next[x]] < size[x]
      OBVIOUS
  <2> HIDE DEF D, size, res, next, base
  <2>2. RecursionHasResult(D, base, res, {}, next, f)
      BY <2>1, Recursion
  <2> QED BY <2>2 DEF RecursionHasResult
<1>2. g[0] = a /\ \A i \in 1 .. n : g[i] = f[i][g[i - 1]]
    BY <1>1
<1> DEFINE Holds == {i \in D : g[i] \in I[i]}
<1>3. 0 \in Holds
    BY <1>2
<1>4. \A i \in 1 .. n : i - 1 \in Holds => i \in Holds
    BY <1>2
<1>5. \A i \in 0 .. n : i \in Holds
  <2> HIDE DEF Holds
  <2> QED BY <1>3, <1>4, AllAlong
<1> QED BY <1>1, <1>2, <1>5 DEF LoopHasResult

(* The rule for the loop of sortSelection. *)
LEMMA SelectionLoop ==
    ASSUME NEW a, NEW n \in Nat, Len(a) = n + 1, NEW I, a \in I[0],
           \A i \in 1 .. n : \A b \in I[i - 1] : S!SwapElements(b, i, S!SmallestFrom(b, i)) \in I[i]
    PROVE  S!SortSelection(a) \in I[n]
<1> DEFINE Body(b, i) == S!SwapElements(b, i, S!SmallestFrom(b, i))
           f == [i \in 1 .. n |-> [b \in I[i - 1] |-> Body(b, i)]]
           Is(g) == g = [i \in 0 .. Len(a) - 1 |-> IF i = 0 THEN a ELSE Body(g[i - 1], i)]
           h == CHOOSE g : Is(g)
<1>1. \A i \in 1 .. n : \A b \in I[i - 1] : Body(b, i) \in I[i] /\ f[i][b] = Body(b, i)
    OBVIOUS
<1>2. S!SortSelection(a) = IF Len(a) - 1 < 1 THEN a ELSE h[Len(a) - 1]
    BY Zenon DEF S!SortSelection, S!Turns
<1> HIDE DEF Body, f
<1>3. PICK g : /\ g = [i \in 0 .. n |-> g[i]] /\ g[0] = a
               /\ \A i \in 1 .. n : g[i] = f[i][g[i - 1]]
               /\ \A i \in 0 .. n : g[i] \in I[i]
  <2>1. LoopHasResult(a, f, n, I)
      BY <1>1, LoopKeeps
  <2> QED BY <2>1 DEF LoopHasResult
<1>4. Is(g)
  <2>1. ASSUME NEW i \in 1 .. n PROVE g[i] = Body(g[i - 1], i)
    <3>1. i - 1 \in 0 .. n /\ g[i - 1] \in I[i - 1]
        BY <1>3
    <3> QED BY <1>1, <1>3, <3>1
  <2>2. \A i \in 0 .. n : i = 0 \/ i \in 1 .. n
      OBVIOUS
  <2>3. g = [i \in 0 .. n |-> IF i = 0 THEN a ELSE Body(g[i - 1], i)]
      BY <1>3, <2>1, <2>2
  <2>4. Len(a) - 1 = n
      OBVIOUS
  <2> QED BY <2>3, <2>4, Zenon
<1>5. h[0] = a /\ \A i \in 1 .. n : h[i] = Body(h[i - 1], i)
  <2>1. Is(h)
      BY <1>4
  <2> HIDE DEF h
  <2> QED BY <2>1
<1> HIDE DEF h
<1> DEFINE Holds == {i \in 0 .. n : h[i] \in I[i]}
<1>6. 0 \in Holds /\ \A i \in 1 .. n : i - 1 \in Holds => i \in Holds
    BY <1>1, <1>5
<1>7. h[n] \in I[n]
  <2> HIDE DEF Holds
  <2>1. \A i \in 0 .. n : i \in Holds
      BY <1>6, AllAlong
  <2> QED BY <2>1 DEF Holds
<1> QED BY <1>2, <1>5, <1>7

(* The rule for the inner loop of sortBubble. *)
LEMMA BubblePassLoop ==
    ASSUME NEW a, NEW n \in Nat, NEW I, a \in I[0],
           \A i \in 1 .. n : \A b \in I[i - 1] : S!OrderPair(b, i) \in I[i]
    PROVE  S!BubblePass(a, n) \in I[n]
<1> DEFINE Body(b, i) == S!OrderPair(b, i)
           f == [i \in 1 .. n |-> [b \in I[i - 1] |-> Body(b, i)]]
           Is(g) == g = [i \in 0 .. n |-> IF i = 0 THEN a ELSE Body(g[i - 1], i)]
           h == CHOOSE g : Is(g)
<1>1. \A i \in 1 .. n : \A b \in I[i - 1] : Body(b, i) \in I[i] /\ f[i][b] = Body(b, i)
    OBVIOUS
<1>2. S!BubblePass(a, n) = IF n < 1 THEN a ELSE h[n]
    BY Zenon DEF S!BubblePass, S!Turns
<1> HIDE DEF Body, f
<1>3. PICK g : /\ g = [i \in 0 .. n |-> g[i]] /\ g[0] = a
               /\ \A i \in 1 .. n : g[i] = f[i][g[i - 1]]
               /\ \A i \in 0 .. n : g[i] \in I[i]
  <2>1. LoopHasResult(a, f, n, I)
      BY <1>1, LoopKeeps
  <2> QED BY <2>1 DEF LoopHasResult
<1>4. Is(g)
  <2>1. ASSUME NEW i \in 1 .. n PROVE g[i] = Body(g[i - 1], i)
    <3>1. i - 1 \in 0 .. n /\ g[i - 1] \in I[i - 1]
        BY <1>3
    <3> QED BY <1>1, <1>3, <3>1
  <2>2. \A i \in 0 .. n : i = 0 \/ i \in 1 .. n
      OBVIOUS
  <2>3. g = [i \in 0 .. n |-> IF i = 0 THEN a ELSE Body(g[i - 1], i)]
      BY <1>3, <2>1, <2>2
  <2> QED BY <2>3
<1>5. h[0] = a /\ \A i \in 1 .. n : h[i] = Body(h[i - 1], i)
  <2>1. Is(h)
      BY <1>4
  <2> HIDE DEF h
  <2> QED BY <2>1
<1> HIDE DEF h
<1> DEFINE Holds == {i \in 0 .. n : h[i] \in I[i]}
<1>6. 0 \in Holds /\ \A i \in 1 .. n : i - 1 \in Holds => i \in Holds
    BY <1>1, <1>5
<1>7. h[n] \in I[n]
  <2> HIDE DEF Holds
  <2>1. \A i \in 0 .. n : i \in Holds
      BY <1>6, AllAlong
  <2> QED BY <2>1 DEF Holds
<1> QED BY <1>2, <1>5, <1>7

(* The rule for the outer loop of sortBubble. *)
LEMMA BubbleLoop ==
    ASSUME NEW a, NEW n \in Nat, Len(a) = n + 1, NEW I, a \in I[0],
           \A i \in 1 .. n : \A b \in I[i - 1] : S!BubblePass(b, Len(a) - i) \in I[i]
    PROVE  S!SortBubble(a) \in I[n]
<1> DEFINE Body(b, i) == S!BubblePass(b, Len(a) - i)
           f == [i \in 1 .. n |-> [b \in I[i - 1] |-> Body(b, i)]]
           Is(g) == g = [i \in 0 .. Len(a) - 1 |-> IF i = 0 THEN a ELSE Body(g[i - 1], i)]
           h == CHOOSE g : Is(g)
<1>1. \A i \in 1 .. n : \A b \in I[i - 1] : Body(b, i) \in I[i] /\ f[i][b] = Body(b, i)
    OBVIOUS
<1>2. S!SortBubble(a) = IF Len(a) - 1 < 1 THEN a ELSE h[Len(a) - 1]
    BY Zenon DEF S!SortBubble, S!Turns
<1> HIDE DEF Body, f
<1>3. PICK g : /\ g = [i \in 0 .. n |-> g[i]] /\ g[0] = a
               /\ \A i \in 1 .. n : g[i] = f[i][g[i - 1]]
               /\ \A i \in 0 .. n : g[i] \in I[i]
  <2>1. LoopHasResult(a, f, n, I)
      BY <1>1, LoopKeeps
  <2> QED BY <2>1 DEF LoopHasResult
<1>4. Is(g)
  <2>1. ASSUME NEW i \in 1 .. n PROVE g[i] = Body(g[i - 1], i)
    <3>1. i - 1 \in 0 .. n /\ g[i - 1] \in I[i - 1]
        BY <1>3
    <3> QED BY <1>1, <1>3, <3>1
  <2>2. \A i \in 0 .. n : i = 0 \/ i \in 1 .. n
      OBVIOUS
  <2>3. g = [i \in 0 .. n |-> IF i = 0 THEN a ELSE Body(g[i - 1], i)]
      BY <1>3, <2>1, <2>2
  <2>4. Len(a) - 1 = n
      OBVIOUS
  <2> QED BY <2>3, <2>4, Zenon
<1>5. h[0] = a /\ \A i \in 1 .. n : h[i] = Body(h[i - 1], i)
  <2>1. Is(h)
      BY <1>4
  <2> HIDE DEF h
  <2> QED BY <2>1
<1> HIDE DEF h
<1> DEFINE Holds == {i \in 0 .. n : h[i] \in I[i]}
<1>6. 0 \in Holds /\ \A i \in 1 .. n : i - 1 \in Holds => i \in Holds
    BY <1>1, <1>5
<1>7. h[n] \in I[n]
  <2> HIDE DEF Holds
  <2>1. \A i \in 0 .. n : i \in Holds
      BY <1>6, AllAlong
  <2> QED BY <2>1 DEF Holds
<1> QED BY <1>2, <1>5, <1>7

(* The rule for the loop of sortInsertion. *)
LEMMA InsertionLoop ==
    ASSUME NEW a, NEW n \in Nat, Len(a) = n + 1, NEW I, a \in I[0],
           \A i \in 1 .. n : \A b \in I[i - 1] : S!InsertElement(b, i + 1) \in I[i]
    PROVE  S!SortInsertion(a) \in I[n]
<1> DEFINE Body(b, i) == S!InsertElement(b, i + 1)
           f == [i \in 1 .. n |-> [b \in I[i - 1] |-> Body(b, i)]]
           Is(g) == g = [i \in 0 .. Len(a) - 1 |-> IF i = 0 THEN a ELSE Body(g[i - 1], i)]
           h == CHOOSE g : Is(g)
<1>1. \A i \in 1 .. n : \A b \in I[i - 1] : Body(b, i) \in I[i] /\ f[i][b] = Body(b, i)
    OBVIOUS
<1>2. S!SortInsertion(a) = IF Len(a) - 1 < 1 THEN a ELSE h[Len(a) - 1]
    BY Zenon DEF S!SortInsertion, S!Turns
<1> HIDE DEF Body, f
<1>3. PICK g : /\ g = [i \in 0 .. n |-> g[i]] /\ g[0] = a
               /\ \A i \in 1 .. n : g[i] = f[i][g[i - 1]]
               /\ \A i \in 0 .. n : g[i] \in I[i]
  <2>1. LoopHasResult(a, f, n, I)
      BY <1>1, LoopKeeps
  <2> QED BY <2>1 DEF LoopHasResult
<1>4. Is(g)
  <2>1. ASSUME NEW i \in 1 .. n PROVE g[i] = Body(g[i - 1], i)
    <3>1. i - 1 \in 0 .. n /\ g[i - 1] \in I[i - 1]
        BY <1>3
    <3> QED BY <1>1, <1>3, <3>1
  <2>2. \A i \in 0 .. n : i = 0 \/ i \in 1 .. n
      OBVIOUS
  <2>3. g = [i \in 0 .. n |-> IF i = 0 THEN a ELSE Body(g[i - 1], i)]
      BY <1>3, <2>1, <2>2
  <2>4. Len(a) - 1 = n
      OBVIOUS
  <2> QED BY <2>3, <2>4, Zenon
<1>5. h[0] = a /\ \A i \in 1 .. n : h[i] = Body(h[i - 1], i)
  <2>1. Is(h)
      BY <1>4
  <2> HIDE DEF h
  <2> QED BY <2>1
<1> HIDE DEF h
<1> DEFINE Holds == {i \in 0 .. n : h[i] \in I[i]}
<1>6. 0 \in Holds /\ \A i \in 1 .. n : i - 1 \in Holds => i \in Holds
    BY <1>1, <1>5
<1>7. h[n] \in I[n]
  <2> HIDE DEF Holds
  <2>1. \A i \in 0 .. n : i \in Holds
      BY <1>6, AllAlong
  <2> QED BY <2>1 DEF Holds
<1> QED BY <1>2, <1>5, <1>7

(* The rule for the loop of sortHeap that builds the heap. *)
LEMMA HeapifyLoop ==
    ASSUME NEW a, NEW n \in Nat, Len(a) \div 2 = n, NEW I, a \in I[0],
           \A i \in 1 .. n : \A b \in I[i - 1] : S!SiftDown(b, Len(a) \div 2 + 1 - i, Len(a)) \in I[i]
    PROVE  S!Heapify(a) \in I[n]
<1> DEFINE Body(b, i) == S!SiftDown(b, Len(a) \div 2 + 1 - i, Len(a))
           f == [i \in 1 .. n |-> [b \in I[i - 1] |-> Body(b, i)]]
           Is(g) == g = [i \in 0 .. Len(a) \div 2 |-> IF i = 0 THEN a ELSE Body(g[i - 1], i)]
           h == CHOOSE g : Is(g)
<1>1. \A i \in 1 .. n : \A b \in I[i - 1] : Body(b, i) \in I[i] /\ f[i][b] = Body(b, i)
    OBVIOUS
<1>2. S!Heapify(a) = IF Len(a) \div 2 < 1 THEN a ELSE h[Len(a) \div 2]
    BY Zenon DEF S!Heapify, S!Turns
<1> HIDE DEF Body, f
<1>3. PICK g : /\ g = [i \in 0 .. n |-> g[i]] /\ g[0] = a
               /\ \A i \in 1 .. n : g[i] = f[i][g[i - 1]]
               /\ \A i \in 0 .. n : g[i] \in I[i]
  <2>1. LoopHasResult(a, f, n, I)
      BY <1>1, LoopKeeps
  <2> QED BY <2>1 DEF LoopHasResult
<1>4. Is(g)
  <2>1. ASSUME NEW i \in 1 .. n PROVE g[i] = Body(g[i - 1], i)
    <3>1. i - 1 \in 0 .. n /\ g[i - 1] \in I[i - 1]
        BY <1>3
    <3> QED BY <1>1, <1>3, <3>1
  <2>2. \A i \in 0 .. n : i = 0 \/ i \in 1 .. n
      OBVIOUS
  <2>3. g = [i \in 0 .. n |-> IF i = 0 THEN a ELSE Body(g[i - 1], i)]
      BY <1>3, <2>1, <2>2
  <2>4. Len(a) \div 2 = n
      OBVIOUS
  <2> QED BY <2>3, <2>4, Zenon
<1>5. h[0] = a /\ \A i \in 1 .. n : h[i] = Body(h[i - 1], i)
  <2>1. Is(h)
      BY <1>4
  <2> HIDE DEF h
  <2> QED BY <2>1
<1> HIDE DEF h
<1> DEFINE Holds == {i \in 0 .. n : h[i] \in I[i]}
<1>6. 0 \in Holds /\ \A i \in 1 .. n : i - 1 \in Holds => i \in Holds
    BY <1>1, <1>5
<1>7. h[n] \in I[n]
  <2> HIDE DEF Holds
  <2>1. \A i \in 0 .. n : i \in Holds
      BY <1>6, AllAlong
  <2> QED BY <2>1 DEF Holds
<1> QED BY <1>2, <1>5, <1>7

(* The rule for the loop of sortHeap that takes it down. *)
LEMMA HeapLoop ==
    ASSUME NEW a, NEW n \in Nat, Len(a) = n + 1, NEW I, S!Heapify(a) \in I[0],
           \A i \in 1 .. n : \A b \in I[i - 1] : S!SiftDown(S!SwapElements(b, 1, Len(a) + 1 - i), 1, Len(a) - i) \in I[i]
    PROVE  S!SortHeap(a) \in I[n]
<1> DEFINE Body(b, i) == S!SiftDown(S!SwapElements(b, 1, Len(a) + 1 - i), 1, Len(a) - i)
           f == [i \in 1 .. n |-> [b \in I[i - 1] |-> Body(b, i)]]
           Is(g) == g = [i \in 0 .. Len(a) - 1 |-> IF i = 0 THEN S!Heapify(a) ELSE Body(g[i - 1], i)]
           h == CHOOSE g : Is(g)
<1>1. \A i \in 1 .. n : \A b \in I[i - 1] : Body(b, i) \in I[i] /\ f[i][b] = Body(b, i)
    OBVIOUS
<1>2. S!SortHeap(a) = IF Len(a) - 1 < 1 THEN S!Heapify(a) ELSE h[Len(a) - 1]
    BY Zenon DEF S!SortHeap, S!Turns
<1> HIDE DEF Body, f
<1>3. PICK g : /\ g = [i \in 0 .. n |-> g[i]] /\ g[0] = S!Heapify(a)
               /\ \A i \in 1 .. n : g[i] = f[i][g[i - 1]]
               /\ \A i \in 0 .. n : g[i] \in I[i]
  <2>1. LoopHasResult(S!Heapify(a), f, n, I)
      BY <1>1, LoopKeeps
  <2> QED BY <2>1 DEF LoopHasResult
<1>4. Is(g)
  <2>1. ASSUME NEW i \in 1 .. n PROVE g[i] = Body(g[i - 1], i)
    <3>1. i - 1 \in 0 .. n /\ g[i - 1] \in I[i - 1]
        BY <1>3
    <3> QED BY <1>1, <1>3, <3>1
  <2>2. \A i \in 0 .. n : i = 0 \/ i \in 1 .. n
      OBVIOUS
  <2>3. g = [i \in 0 .. n |-> IF i = 0 THEN S!Heapify(a) ELSE Body(g[i - 1], i)]
      BY <1>3, <2>1, <2>2
  <2>4. Len(a) - 1 = n
      OBVIOUS
  <2> QED BY <2>3, <2>4, Zenon
<1>5. h[0] = S!Heapify(a) /\ \A i \in 1 .. n : h[i] = Body(h[i - 1], i)
  <2>1. Is(h)
      BY <1>4
  <2> HIDE DEF h
  <2> QED BY <2>1
<1> HIDE DEF h
<1> DEFINE Holds == {i \in 0 .. n : h[i] \in I[i]}
<1>6. 0 \in Holds /\ \A i \in 1 .. n : i - 1 \in Holds => i \in Holds
    BY <1>1, <1>5
<1>7. h[n] \in I[n]
  <2> HIDE DEF Holds
  <2>1. \A i \in 0 .. n : i \in Holds
      BY <1>6, AllAlong
  <2> QED BY <2>1 DEF Holds
<1> QED BY <1>2, <1>5, <1>7

(* The rule for the loop of sortReverse. *)
LEMMA ReverseLoop ==
    ASSUME NEW a, NEW n \in Nat, Len(a) \div 2 = n, NEW I, a \in I[0],
           \A i \in 1 .. n : \A b \in I[i - 1] : S!SwapElements(b, i, Len(a) + 1 - i) \in I[i]
    PROVE  S!SortReverse(a) \in I[n]
<1> DEFINE Body(b, i) == S!SwapElements(b, i, Len(a) + 1 - i)
           f == [i \in 1 .. n |-> [b \in I[i - 1] |-> Body(b, i)]]
           Is(g) == g = [i \in 0 .. Len(a) \div 2 |-> IF i = 0 THEN a ELSE Body(g[i - 1], i)]
           h == CHOOSE g : Is(g)
<1>1. \A i \in 1 .. n : \A b \in I[i - 1] : Body(b, i) \in I[i] /\ f[i][b] = Body(b, i)
    OBVIOUS
<1>2. S!SortReverse(a) = IF Len(a) \div 2 < 1 THEN a ELSE h[Len(a) \div 2]
    BY Zenon DEF S!SortReverse, S!Turns
<1> HIDE DEF Body, f
<1>3. PICK g : /\ g = [i \in 0 .. n |-> g[i]] /\ g[0] = a
               /\ \A i \in 1 .. n : g[i] = f[i][g[i - 1]]
               /\ \A i \in 0 .. n : g[i] \in I[i]
  <2>1. LoopHasResult(a, f, n, I)
      BY <1>1, LoopKeeps
  <2> QED BY <2>1 DEF LoopHasResult
<1>4. Is(g)
  <2>1. ASSUME NEW i \in 1 .. n PROVE g[i] = Body(g[i - 1], i)
    <3>1. i - 1 \in 0 .. n /\ g[i - 1] \in I[i - 1]
        BY <1>3
    <3> QED BY <1>1, <1>3, <3>1
  <2>2. \A i \in 0 .. n : i = 0 \/ i \in 1 .. n
      OBVIOUS
  <2>3. g = [i \in 0 .. n |-> IF i = 0 THEN a ELSE Body(g[i - 1], i)]
      BY <1>3, <2>1, <2>2
  <2>4. Len(a) \div 2 = n
      OBVIOUS
  <2> QED BY <2>3, <2>4, Zenon
<1>5. h[0] = a /\ \A i \in 1 .. n : h[i] = Body(h[i - 1], i)
  <2>1. Is(h)
      BY <1>4
  <2> HIDE DEF h
  <2> QED BY <2>1
<1> HIDE DEF h
<1> DEFINE Holds == {i \in 0 .. n : h[i] \in I[i]}
<1>6. 0 \in Holds /\ \A i \in 1 .. n : i - 1 \in Holds => i \in Holds
    BY <1>1, <1>5
<1>7. h[n] \in I[n]
  <2> HIDE DEF Holds
  <2>1. \A i \in 0 .. n : i \in Holds
      BY <1>6, AllAlong
  <2> QED BY <2>1 DEF Holds
<1> QED BY <1>2, <1>5, <1>7

-----------------------------------------------------------------------------
(* Arrays of pairs. *)

Items(b) == {b[k] : k \in DOMAIN b}
Value(b, k) == b[k][1]

(* An array of m pairs as a sequence. *)
LEMMA ArrayFacts ==
    ASSUME NEW m \in Nat, NEW b \in Arrays(m)
    PROVE  /\ DOMAIN b = 1 .. m /\ Len(b) = m /\ b \in Seq(Pairs)
           /\ Items(b) = {b[k] : k \in 1 .. m}
           /\ \A k \in 1 .. m : b[k] \in Pairs /\ b[k][1] \in Int /\ Value(b, k) \in Int
<1>1. DOMAIN b = 1 .. m /\ b \in Seq(Pairs) /\ Len(b) = m
    BY DEF Arrays
<1>2. \A k \in 1 .. m : b[k] \in Pairs
    BY DEF Arrays
<1>3. \A x \in Pairs : x[1] \in Int
    BY DEF Pairs
<1> QED BY <1>1, <1>2, <1>3 DEF Items, Value

(* Two elements trade places: the array has the same elements.               *)
Exchanged(b, c, i, j, m) ==
    /\ c \in Arrays(m) /\ Items(c) = Items(b)
    /\ Value(c, i) = Value(b, j) /\ Value(c, j) = Value(b, i)
    /\ c[i] = b[j] /\ c[j] = b[i]
    /\ \A k \in 1 .. m : k # i /\ k # j => c[k] = b[k] /\ Value(c, k) = Value(b, k)
LEMMA SwapExchanges ==
    ASSUME NEW m \in Nat, NEW b \in Arrays(m), NEW i \in 1 .. m, NEW j \in 1 .. m
    PROVE  Exchanged(b, S!SwapElements(b, i, j), i, j, m)
<1> DEFINE c == S!SwapElements(b, i, j)
<1>1. c \in Arrays(m) /\ c[i] = b[j] /\ c[j] = b[i] /\ \A k \in 1 .. m : k # i /\ k # j => c[k] = b[k]
    BY DEF S!SwapElements, Arrays
<1> HIDE DEF c
<1>2. Items(b) = {b[k] : k \in 1 .. m} /\ Items(c) = {c[k] : k \in 1 .. m}
    BY <1>1, ArrayFacts
<1>3. \A k \in 1 .. m : \E l \in 1 .. m : c[k] = b[l]
    BY <1>1
<1>4. \A k \in 1 .. m : \E l \in 1 .. m : b[k] = c[l]
    BY <1>1
<1>5. Items(c) = Items(b)
    BY <1>2, <1>3, <1>4
<1> QED BY <1>1, <1>5 DEF Exchanged, Value, c

(* The first of the smallest elements of a stretch exists. *)
LEMMA Smallest ==
    ASSUME NEW m \in Nat, NEW b \in Arrays(m), NEW i \in 1 .. m
    PROVE  /\ S!SmallestFrom(b, i) \in i .. m
           /\ \A k \in i .. m : Value(b, S!SmallestFrom(b, i)) <= Value(b, k)
<1> DEFINE Least(s, k) == \A j \in i .. k : Value(b, s) <= Value(b, j)
<1>0. \A k \in 1 .. m : Value(b, k) \in Int
    BY ArrayFacts
<1>1. \E s \in i .. m : Least(s, m)
  <2> DEFINE Holds == {l \in 0 .. m - i : \E s \in i .. i + l : Least(s, i + l)}
  <2>1. 0 \in Holds
    <3>1. Least(i, i + 0) /\ i \in i .. i + 0
        BY <1>0
    <3> QED BY <3>1
  <2>2. ASSUME NEW l \in 1 .. m - i, l - 1 \in Holds PROVE l \in Holds
    <3>1. PICK s \in i .. i + (l - 1) : Least(s, i + (l - 1))
        BY <2>2
    <3>2. i + l \in 1 .. m /\ s \in 1 .. m /\ \A j \in i .. i + l : j \in 1 .. m /\ (j = i + l \/ j \in i .. i + (l - 1))
        OBVIOUS
    <3>3. CASE Value(b, s) <= Value(b, i + l)
      <4>1. Least(s, i + l) /\ s \in i .. i + l
          BY <3>1, <3>2, <3>3
      <4> QED BY <4>1
    <3>4. CASE Value(b, i + l) <= Value(b, s)
      <4>1. Least(i + l, i + l) /\ i + l \in i .. i + l
          BY <1>0, <3>1, <3>2, <3>4
      <4> QED BY <4>1
    <3> QED BY <1>0, <3>2, <3>3, <3>4
  <2>3. \A l \in 0 .. m - i : l \in Holds
    <3> HIDE DEF Holds
    <3>1. m - i \in Nat
        OBVIOUS
    <3> QED BY <2>1, <2>2, <3>1, AllAlong
  <2>4. m - i \in Holds
    <3>1. m - i \in 0 .. m - i
        OBVIOUS
    <3> QED BY <2>3, <3>1
  <2>5. i + (m - i) = m
      OBVIOUS
  <2> QED BY <2>4, <2>5
<1>2. PICK s \in i .. m : Least(s, m) /\ \A t \in i .. m : Least(t, m) => s <= t
  <2> DEFINE Smallests == {t \in i .. m : Least(t, m)}
  <2>1. Smallests # {} /\ Smallests \in SUBSET Nat
      BY <1>1
  <2>2. PICK s \in Smallests : \A t \in Smallests : s <= t
    <3> HIDE DEF Smallests
    <3> QED BY <2>1, LeastNatural
  <2> QED BY <2>2
<1>3. \A j \in i .. s - 1 : Value(b, s) < Value(b, j)
  <2>1. ASSUME NEW j \in i .. s - 1 PROVE Value(b, s) < Value(b, j)
    <3>1. ~ Least(j, m) /\ j \in 1 .. m /\ s \in 1 .. m
        BY <1>2
    <3>2. PICK k \in i .. m : ~ Value(b, j) <= Value(b, k)
        BY <3>1
    <3>3. k \in 1 .. m /\ Value(b, s) <= Value(b, k)
        BY <1>2
    <3> QED BY <1>0, <3>1, <3>2, <3>3
  <2> QED BY <2>1
<1> DEFINE Is(t) == /\ \A j \in i .. Len(b) : ~ S!Above(b[t], b[j])
                    /\ \A j \in i .. t - 1 : S!Above(b[j], b[t])
<1>4. Len(b) = m
    BY ArrayFacts
<1>5. \A j, k \in 1 .. m : S!Above(b[j], b[k]) <=> Value(b, k) < Value(b, j)
    BY <1>0 DEF S!Above, Value
<1>6. Is(s)
  <2>1. s \in 1 .. m /\ (\A j \in i .. m : j \in 1 .. m) /\ \A j \in i .. s - 1 : j \in 1 .. m
      OBVIOUS
  <2> QED BY <1>0, <1>2, <1>3, <1>4, <1>5, <2>1
<1> DEFINE t == CHOOSE t \in i .. Len(b) : Is(t)
<1>7. t \in i .. m /\ Is(t)
    BY <1>4, <1>6
<1>8. t = S!SmallestFrom(b, i)
    BY Zenon DEF S!SmallestFrom
<1> HIDE DEF t
<1>9. \A k \in i .. m : Value(b, t) <= Value(b, k)
  <2>1. t \in 1 .. m /\ \A k \in i .. m : k \in 1 .. m
      BY <1>7
  <2> QED BY <1>0, <1>4, <1>5, <1>7, <2>1
<1> QED BY <1>7, <1>8, <1>9

(* An array in ascending order up to a place, and nothing behind it below.   *)
OrderedUpTo(b, i) == \A p \in 1 .. i : \A q \in DOMAIN b : p < q => Value(b, p) <= Value(b, q)

(* sortSelection: each turn brings the smallest of the rest to its place.    *)
LEMMA SelectionTurn ==
    ASSUME NEW m \in Nat, NEW i \in 1 .. m, NEW b \in Arrays(m), OrderedUpTo(b, i - 1),
           NEW c, c = S!SwapElements(b, i, S!SmallestFrom(b, i))
    PROVE  c \in Arrays(m) /\ Items(c) = Items(b) /\ OrderedUpTo(c, i)
<1> DEFINE s == S!SmallestFrom(b, i)
<1>1. s \in i .. m /\ \A k \in i .. m : Value(b, s) <= Value(b, k)
    BY Smallest
<1> HIDE DEF s
<1>2. s \in 1 .. m
    BY <1>1
<1>3. /\ c \in Arrays(m) /\ Items(c) = Items(b)
      /\ Value(c, i) = Value(b, s) /\ Value(c, s) = Value(b, i)
      /\ \A k \in 1 .. m : k # i /\ k # s => Value(c, k) = Value(b, k)
  <2>1. c = S!SwapElements(b, i, s)
      BY DEF s
  <2>2. Exchanged(b, c, i, s, m)
      BY <1>2, <2>1, SwapExchanges
  <2> QED BY <2>2 DEF Exchanged
<1>4. DOMAIN b = 1 .. m /\ DOMAIN c = 1 .. m
    BY <1>3, ArrayFacts
<1>5. ASSUME NEW p \in 1 .. i, NEW q \in 1 .. m, p < q PROVE Value(c, p) <= Value(c, q)
  <2>1. CASE p = i
      BY <2>1, <1>1, <1>3, <1>5
  <2>2. CASE p < i
    <3>1. Value(c, p) = Value(b, p) /\ p \in 1 .. i - 1
        BY <2>2, <1>1, <1>3
    <3>2. \A k \in 1 .. m : p < k => Value(b, p) <= Value(b, k)
        BY <3>1, <1>4 DEF OrderedUpTo
    <3>3. Value(c, q) = Value(b, q) \/ (q = i /\ Value(c, q) = Value(b, s)) \/ (q = s /\ Value(c, q) = Value(b, i))
        BY <1>3
    <3>4. p < s /\ p < i
        BY <2>2, <1>1
    <3> QED BY <3>1, <3>2, <3>3, <3>4, <1>2, <1>5
  <2> QED BY <2>1, <2>2
<1> QED BY <1>3, <1>4, <1>5 DEF OrderedUpTo

Sorts(a, b, m) == b \in Arrays(m) /\ Items(b) = Items(a) /\ \A p, q \in 1 .. m : p < q => Value(b, p) <= Value(b, q)

(* sortSelection sorts. *)
LEMMA SelectionSorts ==
    ASSUME NEW m \in Nat, NEW a \in Arrays(m)
    PROVE  Sorts(a, S!SortSelection(a), m)
<1>1. CASE m = 0
  <2>1. S!SortSelection(a) = a
    <3>1. Len(a) - 1 < 1
        BY <1>1, ArrayFacts
    <3> QED BY <3>1 DEF S!SortSelection, S!Turns
  <2> QED BY <1>1, <2>1 DEF Sorts
<1>2. CASE m # 0
  <2> DEFINE n == m - 1
             I == [i \in 0 .. n |-> {b \in Arrays(m) : Items(b) = Items(a) /\ OrderedUpTo(b, i)}]
  <2>1. n \in Nat /\ Len(a) = n + 1
      BY <1>2, ArrayFacts
  <2>2. a \in I[0]
      BY <2>1 DEF OrderedUpTo
  <2>3. ASSUME NEW i \in 1 .. n, NEW b \in I[i - 1]
        PROVE  S!SwapElements(b, i, S!SmallestFrom(b, i)) \in I[i]
    <3>1. i \in 1 .. m /\ b \in Arrays(m) /\ Items(b) = Items(a) /\ OrderedUpTo(b, i - 1)
        BY <2>1
    <3> QED BY <3>1, SelectionTurn
  <2>4. S!SortSelection(a) \in I[n]
    <3> HIDE DEF n, I
    <3> QED BY <2>1, <2>2, <2>3, SelectionLoop
  <2>5. \A b \in I[n] : Sorts(a, b, m)
    <3>1. ASSUME NEW b \in I[n], NEW p \in 1 .. m, NEW q \in 1 .. m, p < q PROVE Value(b, p) <= Value(b, q)
      <4>1. DOMAIN b = 1 .. m /\ p \in 1 .. n /\ OrderedUpTo(b, n)
          BY <3>1, <2>1, ArrayFacts
      <4> QED BY <3>1, <4>1 DEF OrderedUpTo
    <3> QED BY <2>1, <3>1 DEF Sorts
  <2> QED BY <2>4, <2>5
<1> QED BY <1>1, <1>2

-----------------------------------------------------------------------------
(* sortBubble. *)

Keeps(a, b, m) == b \in Arrays(m) /\ Items(b) = Items(a) /\ (Stable(a) => Stable(b))

(* Nothing behind a place is below what is before it. *)
Settled(b, k) == \A p, q \in DOMAIN b : p < q /\ k < q => Value(b, p) <= Value(b, q)

(* One comparison of sortBubble. *)
LEMMA PairOrdered ==
    ASSUME NEW m \in Nat, NEW j \in 1 .. m - 1, NEW b \in Arrays(m), NEW c, c = S!OrderPair(b, j)
    PROVE  /\ Keeps(b, c, m)
           /\ Value(c, j) <= Value(c, j + 1) /\ Value(b, j) <= Value(c, j + 1)
           /\ Value(c, j) \in {Value(b, j), Value(b, j + 1)}
           /\ \A k \in 1 .. m : k # j /\ k # j + 1 => Value(c, k) = Value(b, k)
<1>0. j \in 1 .. m /\ j + 1 \in 1 .. m /\ \A k \in 1 .. m : Value(b, k) \in Int
    BY ArrayFacts
<1>1. S!Above(b[j], b[j + 1]) <=> Value(b, j + 1) < Value(b, j)
    BY <1>0 DEF S!Above, Value
<1>2. CASE ~ S!Above(b[j], b[j + 1])
  <2>1. c = b
      BY <1>2 DEF S!OrderPair
  <2> QED BY <1>0, <1>1, <1>2, <2>1 DEF Keeps
<1>3. CASE S!Above(b[j], b[j + 1])
  <2>1. c = S!SwapElements(b, j, j + 1)
      BY <1>3 DEF S!OrderPair
  <2>2. /\ c \in Arrays(m) /\ Items(c) = Items(b)
        /\ Value(c, j) = Value(b, j + 1) /\ Value(c, j + 1) = Value(b, j)
        /\ c[j] = b[j + 1] /\ c[j + 1] = b[j]
        /\ \A k \in 1 .. m : k # j /\ k # j + 1 => c[k] = b[k] /\ Value(c, k) = Value(b, k)
    <3>1. Exchanged(b, c, j, j + 1, m)
        BY <1>0, <2>1, SwapExchanges
    <3> QED BY <3>1 DEF Exchanged
  <2>3. DOMAIN b = 1 .. m /\ DOMAIN c = 1 .. m
      BY <2>2, ArrayFacts
  <2>4. ASSUME Stable(b) PROVE Stable(c)
    <3>1. \A p, q \in 1 .. m : p < q /\ b[p][1] = b[q][1] => b[p][2] < b[q][2]
        BY <2>3, <2>4 DEF Stable
    <3>2. ASSUME NEW p \in 1 .. m, NEW q \in 1 .. m, p < q, c[p][1] = c[q][1] PROVE c[p][2] < c[q][2]
      <4> DEFINE Old(k) == IF k = j THEN j + 1 ELSE IF k = j + 1 THEN j ELSE k
      <4>1. c[p] = b[Old(p)] /\ c[q] = b[Old(q)] /\ Old(p) \in 1 .. m /\ Old(q) \in 1 .. m
          BY <1>0, <2>2
      <4>2. ~ (p = j /\ q = j + 1)
          BY <1>0, <1>1, <1>3, <2>2, <3>2 DEF Value
      <4>3. Old(p) < Old(q)
          BY <3>2, <4>2
      <4> HIDE DEF Old
      <4> QED BY <3>1, <3>2, <4>1, <4>3
    <3> QED BY <2>3, <3>2 DEF Stable
  <2> QED BY <1>0, <1>1, <1>3, <2>2, <2>4 DEF Keeps
<1> QED BY <1>2, <1>3

(* Keeping the elements, and their order, is transitive. *)
LEMMA KeepsOn ==
    ASSUME NEW m, NEW a, NEW b, NEW c, Keeps(a, b, m), Keeps(b, c, m)
    PROVE  Keeps(a, c, m)
BY DEF Keeps

(* Each pass brings the largest of the first elements behind them. *)
LEMMA BubblePassSettles ==
    ASSUME NEW m \in Nat, NEW last \in 1 .. m - 1, NEW b \in Arrays(m), Settled(b, last + 1)
    PROVE  Keeps(b, S!BubblePass(b, last), m) /\ Settled(S!BubblePass(b, last), last)
<1> DEFINE J == [j \in 0 .. last |->
                    {c \in Arrays(m) : /\ Keeps(b, c, m) /\ Settled(c, last + 1)
                                       /\ \A p \in 1 .. j : Value(c, p) <= Value(c, j + 1)}]
<1>1. b \in J[0]
    BY DEF Keeps
<1>2. ASSUME NEW j \in 1 .. last, NEW c \in J[j - 1] PROVE S!OrderPair(c, j) \in J[j]
  <2> DEFINE d == S!OrderPair(c, j)
  <2>1. /\ c \in Arrays(m) /\ Keeps(b, c, m) /\ Settled(c, last + 1) /\ j \in 1 .. m - 1
        /\ \A p \in 1 .. j - 1 : Value(c, p) <= Value(c, j)
      BY <1>2
  <2>2. /\ Keeps(c, d, m)
        /\ Value(d, j) <= Value(d, j + 1) /\ Value(c, j) <= Value(d, j + 1)
        /\ Value(d, j) \in {Value(c, j), Value(c, j + 1)}
        /\ \A k \in 1 .. m : k # j /\ k # j + 1 => Value(d, k) = Value(c, k)
      BY <2>1, PairOrdered
  <2> HIDE DEF d
  <2>3. d \in Arrays(m) /\ Keeps(b, d, m)
      BY <2>1, <2>2, KeepsOn DEF Keeps
  <2>4. /\ DOMAIN c = 1 .. m /\ DOMAIN d = 1 .. m
        /\ \A k \in 1 .. m : Value(c, k) \in Int /\ Value(d, k) \in Int
      BY <2>1, <2>3, ArrayFacts
  <2>5. Settled(d, last + 1)
    <3>1. ASSUME NEW p \in 1 .. m, NEW q \in 1 .. m, p < q, last + 1 < q
          PROVE  Value(d, p) <= Value(d, q)
      <4>1. Value(d, q) = Value(c, q)
          BY <2>2, <3>1
      <4>2. \A k \in 1 .. m : k < q => Value(c, k) <= Value(c, q)
          BY <2>1, <2>4, <3>1 DEF Settled
      <4>3. \E k \in 1 .. m : k < q /\ Value(d, p) = Value(c, k)
        <5>1. CASE p # j /\ p # j + 1
            BY <2>2, <3>1, <5>1
        <5>2. CASE p = j
          <6>1. j < q /\ j + 1 < q /\ j \in 1 .. m /\ j + 1 \in 1 .. m
              BY <3>1
          <6> QED BY <2>2, <5>2, <6>1
        <5>3. CASE p = j + 1
          <6>1. j < q /\ j + 1 < q /\ j \in 1 .. m /\ j + 1 \in 1 .. m
              BY <3>1
          <6>2. Value(d, j + 1) \in {Value(c, j), Value(c, j + 1)}
            <7>1. d = c \/ d = S!SwapElements(c, j, j + 1)
                BY DEF d, S!OrderPair
            <7>2. Exchanged(c, S!SwapElements(c, j, j + 1), j, j + 1, m)
                BY <2>1, <6>1, SwapExchanges
            <7> QED BY <6>1, <7>1, <7>2 DEF Exchanged
          <6> QED BY <5>3, <6>1, <6>2
        <5> QED BY <5>1, <5>2, <5>3
      <4> QED BY <4>1, <4>2, <4>3
    <3> QED BY <2>4, <3>1 DEF Settled
  <2>6. ASSUME NEW p \in 1 .. j PROVE Value(d, p) <= Value(d, j + 1)
    <3>1. CASE p = j
        BY <2>2, <3>1
    <3>2. CASE p \in 1 .. j - 1
      <4>1. p \in 1 .. m /\ j \in 1 .. m /\ j + 1 \in 1 .. m
          OBVIOUS
      <4>2. Value(d, p) = Value(c, p) /\ Value(c, p) <= Value(c, j)
          BY <2>1, <2>2, <3>2, <4>1
      <4>3. Value(c, j) \in Int /\ Value(c, p) \in Int /\ Value(d, j + 1) \in Int
          BY <2>4, <4>1
      <4>4. Value(c, j) <= Value(d, j + 1)
          BY <2>2
      <4> QED BY <4>2, <4>3, <4>4
    <3> QED BY <3>1, <3>2
  <2> QED BY <2>3, <2>5, <2>6 DEF d
<1>3. S!BubblePass(b, last) \in J[last]
  <2> HIDE DEF J
  <2>1. last \in Nat
      OBVIOUS
  <2> QED BY <1>1, <1>2, <2>1, BubblePassLoop
<1> DEFINE e == S!BubblePass(b, last)
<1>4. /\ e \in Arrays(m) /\ Keeps(b, e, m) /\ Settled(e, last + 1)
      /\ \A p \in 1 .. last : Value(e, p) <= Value(e, last + 1)
    BY <1>3
<1>5. Settled(e, last)
  <2> HIDE DEF e
  <2>1. DOMAIN e = 1 .. m
      BY <1>4, ArrayFacts
  <2>2. \A q \in 1 .. m : last < q => q = last + 1 \/ last + 1 < q
      OBVIOUS
  <2> QED BY <1>4, <2>1, <2>2 DEF Settled
<1> QED BY <1>4, <1>5

(* sortBubble sorts, and equal elements stay in their order. *)
LEMMA BubbleSorts ==
    ASSUME NEW m \in Nat, NEW a \in Arrays(m)
    PROVE  Sorts(a, S!SortBubble(a), m) /\ (Stable(a) => Stable(S!SortBubble(a)))
<1>1. CASE m = 0
  <2>1. S!SortBubble(a) = a
    <3>1. Len(a) - 1 < 1
        BY <1>1, ArrayFacts
    <3> QED BY <3>1 DEF S!SortBubble, S!Turns
  <2> QED BY <1>1, <2>1 DEF Sorts
<1>2. CASE m # 0
  <2> DEFINE n == m - 1
             I == [i \in 0 .. n |-> {b \in Arrays(m) : Keeps(a, b, m) /\ Settled(b, m - i)}]
  <2>1. n \in Nat /\ Len(a) = n + 1 /\ Len(a) = m
      BY <1>2, ArrayFacts
  <2>2. a \in I[0]
    <3>1. Settled(a, m - 0)
        BY ArrayFacts DEF Settled
    <3> QED BY <2>1, <3>1 DEF Keeps
  <2>3. ASSUME NEW i \in 1 .. n, NEW b \in I[i - 1] PROVE S!BubblePass(b, Len(a) - i) \in I[i]
    <3>1. b \in Arrays(m) /\ Keeps(a, b, m) /\ Settled(b, m - (i - 1))
        BY <2>1
    <3>2. m - i \in 1 .. m - 1 /\ m - (i - 1) = (m - i) + 1
        OBVIOUS
    <3>3. Keeps(b, S!BubblePass(b, m - i), m) /\ Settled(S!BubblePass(b, m - i), m - i)
        BY <3>1, <3>2, BubblePassSettles
    <3>4. Keeps(a, S!BubblePass(b, m - i), m)
        BY <3>1, <3>3, KeepsOn
    <3> QED BY <2>1, <3>3, <3>4 DEF Keeps
  <2>4. S!SortBubble(a) \in I[n]
    <3> HIDE DEF n, I
    <3> QED BY <2>1, <2>2, <2>3, BubbleLoop
  <2>5. \A b \in I[n] : Sorts(a, b, m) /\ (Stable(a) => Stable(b))
    <3>1. ASSUME NEW b \in I[n], NEW p \in 1 .. m, NEW q \in 1 .. m, p < q PROVE Value(b, p) <= Value(b, q)
      <4>1. DOMAIN b = 1 .. m /\ m - n < q /\ Settled(b, m - n)
          BY <3>1, <2>1, ArrayFacts
      <4> QED BY <3>1, <4>1 DEF Settled
    <3> QED BY <2>1, <3>1 DEF Sorts, Keeps
  <2> QED BY <2>4, <2>5
<1> QED BY <1>1, <1>2

-----------------------------------------------------------------------------
(* sortInsertion. *)

OrderedBefore(b, i) == \A p, q \in 1 .. i : p < q => Value(b, p) <= Value(b, q)

(* The place an element moves to: behind the last that is not above it.      *)
LEMMA PlaceFound ==
    ASSUME NEW m \in Nat, NEW b \in Arrays(m), NEW i \in 1 .. m
    PROVE  \E j \in 1 .. i :
              /\ j = 1 \/ Value(b, j - 1) <= Value(b, i)
              /\ \A q \in j .. i - 1 : Value(b, i) < Value(b, q)
              /\ S!InsertElement(b, i) = [k \in 1 .. m |-> IF k = j THEN b[i]
                                            ELSE IF k \in j + 1 .. i THEN b[k - 1] ELSE b[k]]
<1>0. DOMAIN b = 1 .. m /\ \A k \in 1 .. m : Value(b, k) \in Int
    BY ArrayFacts
<1>1. \A k \in 1 .. m : S!Above(b[k], b[i]) <=> Value(b, i) < Value(b, k)
    BY <1>0 DEF S!Above, Value
<1> DEFINE Is(p) == /\ p = 1 \/ ~ S!Above(b[p - 1], b[i])
                    /\ \A q \in p .. i - 1 : S!Above(b[q], b[i])
           Places == {p \in 1 .. i : \A q \in p .. i - 1 : S!Above(b[q], b[i])}
<1>2. i \in Places /\ Places \in SUBSET Nat
    OBVIOUS
<1>3. PICK p \in Places : \A k \in Places : p <= k
  <2> HIDE DEF Places
  <2> QED BY <1>2, LeastNatural
<1>4. p \in 1 .. i /\ Is(p)
  <2>1. p \in 1 .. i /\ \A q \in p .. i - 1 : S!Above(b[q], b[i])
      BY <1>3
  <2>2. p = 1 \/ ~ S!Above(b[p - 1], b[i])
    <3>1. ASSUME p # 1, S!Above(b[p - 1], b[i]) PROVE FALSE
      <4>1. \A q \in p - 1 .. i - 1 : q = p - 1 \/ q \in p .. i - 1
          BY <2>1
      <4>2. p - 1 \in Places
          BY <2>1, <3>1, <4>1
      <4> QED BY <1>3, <2>1, <4>2
    <3> QED BY <3>1
  <2> QED BY <2>1, <2>2
<1> DEFINE j == CHOOSE j \in 1 .. i : Is(j)
<1>5. j \in 1 .. i /\ Is(j)
    BY <1>4
<1>6. S!InsertElement(b, i) = [k \in DOMAIN b |-> IF k = j THEN b[i]
                                 ELSE IF k \in j + 1 .. i THEN b[k - 1] ELSE b[k]]
    BY Zenon DEF S!InsertElement
<1> HIDE DEF j
<1>7. (j = 1 \/ Value(b, j - 1) <= Value(b, i)) /\ \A q \in j .. i - 1 : Value(b, i) < Value(b, q)
  <2>1. j # 1 => j - 1 \in 1 .. m
      BY <1>5
  <2>2. \A q \in j .. i - 1 : q \in 1 .. m
      BY <1>5
  <2> QED BY <1>0, <1>1, <1>5, <2>1, <2>2
<1> QED BY <1>0, <1>5, <1>6, <1>7

(* One turn of sortInsertion. *)
LEMMA InsertionTurn ==
    ASSUME NEW m \in Nat, NEW i \in 2 .. m, NEW b \in Arrays(m), OrderedBefore(b, i - 1)
    PROVE  Keeps(b, S!InsertElement(b, i), m) /\ OrderedBefore(S!InsertElement(b, i), i)
<1> DEFINE c == S!InsertElement(b, i)
<1>1. i \in 1 .. m
    OBVIOUS
<1>2. PICK j \in 1 .. i :
              /\ j = 1 \/ Value(b, j - 1) <= Value(b, i)
              /\ \A q \in j .. i - 1 : Value(b, i) < Value(b, q)
              /\ c = [k \in 1 .. m |-> IF k = j THEN b[i]
                                       ELSE IF k \in j + 1 .. i THEN b[k - 1] ELSE b[k]]
    BY <1>1, PlaceFound
<1> HIDE DEF c
<1> DEFINE Old(k) == IF k = j THEN i ELSE IF k \in j + 1 .. i THEN k - 1 ELSE k
           New(k) == IF k = i THEN j ELSE IF k \in j .. i - 1 THEN k + 1 ELSE k
<1>3. \A k \in 1 .. m : Old(k) \in 1 .. m /\ c[k] = b[Old(k)] /\ New(k) \in 1 .. m /\ Old(New(k)) = k
    BY <1>2
<1>4. c \in Arrays(m)
    BY <1>2, <1>3 DEF Arrays
<1>5. DOMAIN b = 1 .. m /\ DOMAIN c = 1 .. m
    BY <1>4, ArrayFacts
<1>6. \A k \in 1 .. m : Value(c, k) = Value(b, Old(k)) /\ Value(c, k) \in Int /\ Value(b, k) \in Int
  <2>1. \A k \in 1 .. m : Value(c, k) = Value(b, Old(k))
      BY <1>3 DEF Value
  <2> QED BY <1>4, <2>1, ArrayFacts
<1>7. \A p, q \in 1 .. m : p < q => Old(p) < Old(q) \/ (p = j /\ q \in j + 1 .. i)
    BY <1>2
<1>8. \A q \in j + 1 .. i : q \in 1 .. m /\ Value(c, j) < Value(c, q)
  <2>1. ASSUME NEW q \in j + 1 .. i PROVE q \in 1 .. m /\ Value(c, j) < Value(c, q)
    <3>1. q \in 1 .. m /\ j \in 1 .. m /\ Old(q) = q - 1 /\ Old(j) = i /\ q - 1 \in j .. i - 1
        BY <1>2
    <3>2. Value(b, i) < Value(b, q - 1)
        BY <1>2, <3>1
    <3>3. Value(c, j) = Value(b, i) /\ Value(c, q) = Value(b, q - 1)
      <4> HIDE DEF Old
      <4> QED BY <1>6, <3>1
    <3> QED BY <3>1, <3>2, <3>3
  <2> QED BY <2>1
<1>9. Items(c) = Items(b)
  <2>1. Items(b) = {b[k] : k \in 1 .. m} /\ Items(c) = {c[k] : k \in 1 .. m}
      BY <1>4, ArrayFacts
  <2>2. \A k \in 1 .. m : c[k] = b[Old(k)] /\ Old(k) \in 1 .. m
      BY <1>3
  <2>3. \A k \in 1 .. m : c[New(k)] = b[k] /\ New(k) \in 1 .. m
    <3> HIDE DEF Old, New
    <3> QED BY <1>3
  <2> HIDE DEF Old, New
  <2> QED BY <2>1, <2>2, <2>3
<1>10. ASSUME Stable(b) PROVE Stable(c)
  <2>1. \A p, q \in 1 .. m : p < q /\ b[p][1] = b[q][1] => b[p][2] < b[q][2]
      BY <1>5, <1>10 DEF Stable
  <2>2. ASSUME NEW p \in 1 .. m, NEW q \in 1 .. m, p < q, c[p][1] = c[q][1] PROVE c[p][2] < c[q][2]
    <3> HIDE DEF Old
    <3>1. ~ (p = j /\ q \in j + 1 .. i)
      <4>1. Value(c, p) = Value(c, q) /\ Value(c, p) \in Int
          BY <1>6, <2>2 DEF Value
      <4> QED BY <1>8, <4>1
    <3>2. Old(p) < Old(q) /\ c[p] = b[Old(p)] /\ c[q] = b[Old(q)] /\ Old(p) \in 1 .. m /\ Old(q) \in 1 .. m
        BY <1>3, <1>7, <2>2, <3>1
    <3> QED BY <2>1, <2>2, <3>2
  <2> QED BY <1>5, <2>2 DEF Stable
<1>11. OrderedBefore(c, i)
  <2>1. ASSUME NEW p \in 1 .. i, NEW q \in 1 .. i, p < q PROVE Value(c, p) <= Value(c, q)
    <3>0. p \in 1 .. m /\ q \in 1 .. m
        OBVIOUS
    <3>1. CASE p = j
      <4>1. q \in j + 1 .. i
          BY <2>1, <3>1
      <4>2. Value(c, p) < Value(c, q) /\ Value(c, p) \in Int /\ Value(c, q) \in Int
        <5> HIDE DEF Old
        <5> QED BY <3>0, <3>1, <4>1, <1>6, <1>8
      <4> QED BY <4>2
    <3>2. CASE p # j /\ q # j
      <4>1. Old(p) \in 1 .. i - 1 /\ Old(q) \in 1 .. i - 1 /\ Old(p) < Old(q)
          BY <2>1, <3>2
      <4> HIDE DEF Old
      <4>2. Value(b, Old(p)) <= Value(b, Old(q))
          BY <4>1 DEF OrderedBefore
      <4> QED BY <1>6, <3>0, <4>2
    <3>3. CASE q = j
      <4>1. Old(p) = p /\ Old(q) = i /\ j # 1 /\ j - 1 \in 1 .. i - 1 /\ p \in 1 .. i - 1
          BY <2>1, <3>3
      <4>2. Value(b, p) <= Value(b, j - 1)
        <5>1. p = j - 1 \/ p < j - 1
            BY <2>1, <3>3
        <5>2. Value(b, p) \in Int /\ Value(b, j - 1) \in Int
          <6>1. j - 1 \in 1 .. m
              BY <4>1
          <6> HIDE DEF Old
          <6> QED BY <1>6, <3>0, <6>1
        <5> QED BY <4>1, <5>1, <5>2 DEF OrderedBefore
      <4>3. Value(b, j - 1) <= Value(b, i)
          BY <1>2, <4>1
      <4>4. Value(b, p) \in Int /\ Value(b, j - 1) \in Int /\ Value(b, i) \in Int
        <5>1. j - 1 \in 1 .. m
            BY <4>1
        <5> HIDE DEF Old
        <5> QED BY <1>1, <1>6, <3>0, <5>1
      <4>5. Value(c, p) = Value(b, p) /\ Value(c, q) = Value(b, i)
        <5> HIDE DEF Old
        <5> QED BY <1>6, <3>0, <4>1
      <4> QED BY <4>2, <4>3, <4>4, <4>5
    <3> QED BY <3>1, <3>2, <3>3
  <2> QED BY <2>1 DEF OrderedBefore
<1> QED BY <1>4, <1>9, <1>10, <1>11 DEF Keeps, c

(* sortInsertion sorts, and equal elements stay in their order. *)
LEMMA InsertionSorts ==
    ASSUME NEW m \in Nat, NEW a \in Arrays(m)
    PROVE  Sorts(a, S!SortInsertion(a), m) /\ (Stable(a) => Stable(S!SortInsertion(a)))
<1>1. CASE m = 0
  <2>1. S!SortInsertion(a) = a
    <3>1. Len(a) - 1 < 1
        BY <1>1, ArrayFacts
    <3> QED BY <3>1 DEF S!SortInsertion, S!Turns
  <2> QED BY <1>1, <2>1 DEF Sorts
<1>2. CASE m # 0
  <2> DEFINE n == m - 1
             I == [i \in 0 .. n |-> {b \in Arrays(m) : Keeps(a, b, m) /\ OrderedBefore(b, i + 1)}]
  <2>1. n \in Nat /\ Len(a) = n + 1
      BY <1>2, ArrayFacts
  <2>2. a \in I[0]
      BY <2>1 DEF Keeps, OrderedBefore
  <2>3. ASSUME NEW i \in 1 .. n, NEW b \in I[i - 1] PROVE S!InsertElement(b, i + 1) \in I[i]
    <3> DEFINE k == i + 1
    <3>1. b \in Arrays(m) /\ Keeps(a, b, m) /\ OrderedBefore(b, k - 1) /\ k \in 2 .. m
        BY <2>1
    <3> HIDE DEF k
    <3>2. Keeps(b, S!InsertElement(b, k), m) /\ OrderedBefore(S!InsertElement(b, k), k)
        BY <3>1, InsertionTurn
    <3>3. Keeps(a, S!InsertElement(b, k), m)
        BY <3>1, <3>2, KeepsOn
    <3> QED BY <2>1, <3>2, <3>3 DEF Keeps, k
  <2>4. S!SortInsertion(a) \in I[n]
    <3> HIDE DEF n, I
    <3> QED BY <2>1, <2>2, <2>3, InsertionLoop
  <2>5. \A b \in I[n] : Sorts(a, b, m) /\ (Stable(a) => Stable(b))
      BY <2>1 DEF Sorts, Keeps, OrderedBefore
  <2> QED BY <2>4, <2>5
<1> QED BY <1>1, <1>2

-----------------------------------------------------------------------------
(* sortHeap. *)

Child(p, c) == c = 2 * p \/ c = 2 * p + 1

(* From s on, no element up to e is above its parent; the same, were it not  *)
(* for the one at r; and what is above r is above the children of r, too.    *)
HeapFrom(b, s, e) == \A p \in s .. e : \A c \in 1 .. e : Child(p, c) => Value(b, c) <= Value(b, p)
HeapBut(b, s, e, r) ==
    /\ \A p \in s .. e : \A c \in 1 .. e : Child(p, c) /\ p # r => Value(b, c) <= Value(b, p)
    /\ \A p \in s .. e : \A c \in 1 .. e : Child(p, r) /\ Child(r, c) => Value(b, c) <= Value(b, p)

(* The elements up to e have changed places, and no other. *)
Within(a, b, e) ==
    \A k \in DOMAIN a : IF k > e THEN b[k] = a[k] ELSE \E j \in 1 .. e : b[k] = a[j]

(* The largest of an element and its children is above none of them. *)
LEMMA LargestFacts ==
    ASSUME NEW m \in Nat, NEW b \in Arrays(m), NEW e \in 1 .. m, NEW r \in 1 .. m, 2 * r <= e,
           NEW l, l = S!LargestOf(b, r, e)
    PROVE  /\ l \in r .. e /\ (l = r \/ Child(r, l))
           /\ \A c \in 1 .. e : Child(r, c) => Value(b, c) <= Value(b, l)
           /\ Value(b, r) <= Value(b, l)
<1> DEFINE t == 2 * r
           u == 2 * r + 1
           g == IF S!Above(b[t], b[r]) THEN t ELSE r
<1>1. t \in 1 .. m /\ r \in 1 .. m /\ t > r /\ \A k \in 1 .. m : Value(b, k) \in Int
    BY ArrayFacts
<1>2. \A k, j \in 1 .. m : S!Above(b[k], b[j]) <=> Value(b, j) < Value(b, k)
    BY <1>1 DEF S!Above, Value
<1>3. l = IF u <= e /\ S!Above(b[u], b[g]) THEN u ELSE g
    BY DEF S!LargestOf
<1>4. g \in {t, r} /\ g \in 1 .. m /\ Value(b, t) <= Value(b, g) /\ Value(b, r) <= Value(b, g)
  <2> HIDE DEF t
  <2> QED BY <1>1, <1>2
<1>5. u <= e => u \in 1 .. m
    OBVIOUS
<1>6. /\ l \in {u, t, r} /\ (l = u => u <= e)
      /\ Value(b, t) <= Value(b, l) /\ Value(b, r) <= Value(b, l)
      /\ u <= e => Value(b, u) <= Value(b, l)
  <2> HIDE DEF t, u, g
  <2>1. g \in 1 .. m /\ Value(b, g) \in Int /\ Value(b, t) \in Int /\ Value(b, r) \in Int
      BY <1>1, <1>4
  <2>2. CASE u <= e /\ S!Above(b[u], b[g])
    <3>1. l = u /\ u \in 1 .. m /\ Value(b, u) \in Int
        BY <1>1, <1>3, <1>5, <2>2
    <3>2. Value(b, g) < Value(b, u)
        BY <1>2, <2>1, <2>2, <3>1
    <3> QED BY <1>4, <2>1, <2>2, <3>1, <3>2
  <2>3. CASE u <= e /\ ~ S!Above(b[u], b[g])
    <3>1. l = g /\ u \in 1 .. m /\ Value(b, u) \in Int
        BY <1>1, <1>3, <1>5, <2>3
    <3>2. Value(b, u) <= Value(b, g)
        BY <1>2, <2>1, <2>3, <3>1
    <3>3. l \in {u, t, r} /\ (l = u => u <= e)
        BY <1>4, <2>3, <3>1
    <3>4. Value(b, t) <= Value(b, l) /\ Value(b, r) <= Value(b, l) /\ Value(b, u) <= Value(b, l)
        BY <1>4, <3>1, <3>2
    <3> QED BY <3>3, <3>4
  <2>4. CASE ~ u <= e
    <3>1. l = g
        BY <1>3, <2>4
    <3>2. g # u
        BY <1>4, <1>1, <2>4 DEF t, u
    <3> QED BY <1>4, <2>4, <3>1, <3>2
  <2> QED BY <2>2, <2>3, <2>4
<1> QED BY <1>6 DEF Child

(* One turn of the loop: the gap in the order moves to the larger child.     *)
LEMMA SiftTurn ==
    ASSUME NEW m \in Nat, NEW b \in Arrays(m), NEW e \in 1 .. m, NEW s \in 1 .. e, NEW r \in s .. e,
           HeapBut(b, s, e, r), 2 * r <= e,
           NEW l, l = S!LargestOf(b, r, e), l # r, NEW d, d = S!SwapElements(b, r, l)
    PROVE  /\ d \in Arrays(m) /\ Items(d) = Items(b) /\ Within(b, d, e)
           /\ l \in s .. e /\ HeapBut(d, s, e, l)
<1>1. /\ r \in 1 .. m /\ l \in 1 .. m /\ l \in r .. e /\ Child(r, l)
      /\ \A c \in 1 .. e : Child(r, c) => Value(b, c) <= Value(b, l)
      /\ Value(b, r) <= Value(b, l)
  <2>1. r \in 1 .. m
      OBVIOUS
  <2>2. /\ l \in r .. e /\ (l = r \/ Child(r, l))
        /\ \A c \in 1 .. e : Child(r, c) => Value(b, c) <= Value(b, l)
        /\ Value(b, r) <= Value(b, l)
      BY <2>1, LargestFacts
  <2> QED BY <2>1, <2>2
<1>2. /\ d \in Arrays(m) /\ Items(d) = Items(b)
      /\ Value(d, r) = Value(b, l) /\ Value(d, l) = Value(b, r) /\ d[r] = b[l] /\ d[l] = b[r]
      /\ \A k \in 1 .. m : k # r /\ k # l => d[k] = b[k] /\ Value(d, k) = Value(b, k)
  <2>1. Exchanged(b, d, r, l, m)
      BY <1>1, SwapExchanges
  <2> QED BY <2>1 DEF Exchanged
<1>3. Within(b, d, e)
  <2>1. DOMAIN b = 1 .. m /\ r \in 1 .. e /\ l \in 1 .. e
      BY <1>1, ArrayFacts
  <2>2. ASSUME NEW k \in 1 .. m PROVE IF k > e THEN d[k] = b[k] ELSE \E j \in 1 .. e : d[k] = b[j]
    <3>1. CASE k > e
        BY <1>2, <2>1, <3>1
    <3>2. CASE k <= e
      <4>1. k = r \/ k = l \/ d[k] = b[k]
          BY <1>2
      <4> QED BY <1>2, <2>1, <3>2, <4>1
    <3> QED BY <3>1, <3>2
  <2> QED BY <2>1, <2>2 DEF Within
<1>4. \A k \in 1 .. m : Value(b, k) \in Int
    BY ArrayFacts
<1>5. ASSUME NEW p \in s .. e, NEW c \in 1 .. e, Child(p, c), p # l PROVE Value(d, c) <= Value(d, p)
  <2>0. p \in 1 .. m /\ c \in 1 .. m /\ p < c
      BY <1>5 DEF Child
  <2>1. CASE p = r
    <3>1. Value(b, c) <= Value(b, l) /\ c # r
        BY <1>1, <1>5, <2>0, <2>1
    <3>2. Value(d, c) = Value(b, c) \/ Value(d, c) = Value(b, r)
        BY <1>2, <2>0, <3>1
    <3> QED BY <1>1, <1>2, <2>1, <3>1, <3>2
  <2>2. CASE p # r /\ c = r
    <3>1. Value(b, l) <= Value(b, p)
        BY <1>1, <1>5, <2>2 DEF HeapBut
    <3> QED BY <1>2, <1>5, <2>0, <2>2, <3>1
  <2>3. CASE p # r /\ c # r
    <3>1. c # l
        BY <1>1, <1>5, <2>3 DEF Child
    <3>2. Value(b, c) <= Value(b, p)
        BY <1>5, <2>3 DEF HeapBut
    <3> QED BY <1>2, <1>5, <2>0, <2>3, <3>1, <3>2
  <2> QED BY <2>1, <2>2, <2>3
<1>6. ASSUME NEW p \in s .. e, NEW c \in 1 .. e, Child(p, l), Child(l, c) PROVE Value(d, c) <= Value(d, p)
  <2>1. p = r /\ c # l /\ c # r /\ l \in s .. e /\ c \in 1 .. m
      BY <1>1, <1>6 DEF Child
  <2>2. Value(b, c) <= Value(b, l)
      BY <1>6, <2>1 DEF HeapBut
  <2> QED BY <1>2, <2>1, <2>2
<1>7. l \in s .. e
    BY <1>1
<1> QED BY <1>2, <1>3, <1>5, <1>6, <1>7 DEF HeapBut

(* Where the loop ends, the one gap in the order is closed. *)
LEMMA SiftEnds ==
    ASSUME NEW m \in Nat, NEW b \in Arrays(m), NEW e \in 1 .. m, NEW s \in 1 .. e, NEW r \in s .. e,
           HeapBut(b, s, e, r), 2 * r > e \/ S!LargestOf(b, r, e) = r
    PROVE  HeapFrom(b, s, e)
<1>1. ASSUME NEW c \in 1 .. e, Child(r, c) PROVE Value(b, c) <= Value(b, r)
  <2>1. 2 * r <= e /\ r \in 1 .. m
      BY <1>1 DEF Child
  <2>2. S!LargestOf(b, r, e) = r
      BY <2>1
  <2> QED BY <1>1, <2>1, <2>2, LargestFacts
<1> QED BY <1>1 DEF HeapBut, HeapFrom

(* Changing places up to e is transitive. *)
LEMMA WithinOn ==
    ASSUME NEW m \in Nat, NEW e \in 1 .. m, NEW a \in Arrays(m), NEW b \in Arrays(m), NEW c,
           Within(a, b, e), Within(b, c, e)
    PROVE  Within(a, c, e)
<1>1. DOMAIN a = 1 .. m /\ DOMAIN b = 1 .. m
    BY ArrayFacts
<1>2. ASSUME NEW k \in 1 .. m PROVE IF k > e THEN c[k] = a[k] ELSE \E j \in 1 .. e : c[k] = a[j]
  <2>1. CASE k > e
      BY <1>1, <2>1 DEF Within
  <2>2. CASE ~ k > e
    <3>1. PICK j \in 1 .. e : c[k] = b[j]
        BY <1>1, <2>2 DEF Within
    <3>2. j \in 1 .. m /\ ~ j > e
        OBVIOUS
    <3>3. PICK i \in 1 .. e : b[j] = a[i]
        BY <1>1, <3>2 DEF Within
    <3> QED BY <2>2, <3>1, <3>3
  <2> QED BY <2>1, <2>2
<1> QED BY <1>1, <1>2 DEF Within

(* siftDownForSort repairs the order of a heap but for its root. *)
LEMMA SiftDownSifts ==
    ASSUME NEW m \in Nat, NEW a \in Arrays(m), NEW e \in 1 .. m, NEW s \in 1 .. e,
           HeapFrom(a, s + 1, e)
    PROVE  /\ S!SiftDown(a, s, e) \in Arrays(m) /\ Items(S!SiftDown(a, s, e)) = Items(a)
           /\ Within(a, S!SiftDown(a, s, e), e) /\ HeapFrom(S!SiftDown(a, s, e), s, e)
<1> DEFINE D == [DOMAIN a -> Int \X Int] \X DOMAIN a
           Largest(p) == S!LargestOf(p[1], p[2], e)
           Ends(p) == 2 * p[2] > e \/ Largest(p) = p[2]
           Swap(p) == S!SwapElements(p[1], p[2], Largest(p))
           base == {p \in D : Ends(p)}
           res == [p \in D |-> p[1]]
           next == [p \in D |-> <<Swap(p), Largest(p)>>]
           size == [p \in D |-> m - p[2]]
           Is(g) == g = [p \in D |-> IF Ends(p) THEN p[1] ELSE g[<<Swap(p), Largest(p)>>]]
           h == CHOOSE g : Is(g)
<1>1. S!SiftDown(a, s, e) = h[<<a, s>>]
    BY Zenon DEF S!SiftDown
<1> HIDE DEF h
<1>2. D = Arrays(m) \X (1 .. m)
    BY DEF Arrays, Pairs
<1>3. ASSUME NEW p \in D, ~ Ends(p)
      PROVE  /\ p[1] \in Arrays(m) /\ p[2] \in 1 .. m /\ Largest(p) \in 1 .. m /\ Largest(p) > p[2]
             /\ 2 * p[2] <= e /\ Swap(p) \in Arrays(m)
  <2>1. p[1] \in Arrays(m) /\ p[2] \in 1 .. m /\ 2 * p[2] <= e /\ Largest(p) # p[2]
      BY <1>2, <1>3
  <2>2. Largest(p) \in p[2] .. e
      BY <2>1, LargestFacts
  <2>3. Largest(p) \in 1 .. m /\ Largest(p) > p[2]
      BY <2>1, <2>2
  <2> QED BY <2>1, <2>3, SwapExchanges DEF Exchanged
<1>4. /\ size \in [D -> 0 .. m]
      /\ \A p \in D : p \notin base => next[p] \in D /\ size[next[p]] < size[p]
  <2>1. size \in [D -> 0 .. m]
      BY <1>2
  <2>2. ASSUME NEW p \in D, ~ Ends(p) PROVE next[p] \in D /\ size[next[p]] < size[p]
    <3>1. next[p] = <<Swap(p), Largest(p)>>
        BY <2>2
    <3> HIDE DEF Ends, Swap, Largest, next
    <3>2. next[p] \in D
        BY <1>2, <1>3, <2>2, <3>1
    <3>3. size[next[p]] = m - Largest(p) /\ size[p] = m - p[2]
        BY <3>1, <3>2
    <3> QED BY <1>3, <2>2, <3>2, <3>3
  <2> HIDE DEF Ends, Swap, Largest, next, size
  <2> QED BY <2>1, <2>2
<1>5. Is(h)
  <2> DEFINE f == [p \in D |-> p]
  <2>1. PICK g : /\ g = [p \in D |-> g[p]]
                 /\ \A p \in D : g[p] = IF p \in base THEN res[p]
                                        ELSE IF p \in D THEN g[next[p]] ELSE f[p][g[next[p]]]
    <3> HIDE DEF D, size, base, res, next, f
    <3>1. RecursionHasResult(D, base, res, D, next, f)
        BY <1>4, Recursion
    <3> QED BY <3>1 DEF RecursionHasResult
  <2>2. \A p \in D : g[p] = IF Ends(p) THEN p[1] ELSE g[<<Swap(p), Largest(p)>>]
    <3> HIDE DEF Ends, Swap, Largest
    <3> QED BY <2>1
  <2>3. Is(g)
    <3> HIDE DEF Ends, Swap, Largest, D
    <3> QED BY <2>1, <2>2
  <2> QED BY <2>3 DEF h
<1>6. \A p \in D : h[p] = IF p \in base THEN res[p] ELSE h[next[p]]
  <2> HIDE DEF Ends, Swap, Largest
  <2> QED BY <1>5
<1> DEFINE Holds == {p \in D : /\ p[2] \in s .. e /\ Items(p[1]) = Items(a) /\ Within(a, p[1], e)
                               /\ HeapBut(p[1], s, e, p[2])}
           Out == {b \in Arrays(m) : /\ Items(b) = Items(a) /\ Within(a, b, e) /\ HeapFrom(b, s, e)}
<1>7. ASSUME NEW p \in Holds, p \notin base
      PROVE  next[p] \in Holds /\ size[next[p]] < size[p]
  <2>1. /\ p \in D /\ ~ Ends(p) /\ p[1] \in Arrays(m) /\ p[2] \in s .. e /\ Items(p[1]) = Items(a)
        /\ Within(a, p[1], e) /\ HeapBut(p[1], s, e, p[2])
      BY <1>2, <1>7
  <2>2. 2 * p[2] <= e /\ Largest(p) # p[2]
      BY <1>3, <2>1
  <2>3. /\ Swap(p) \in Arrays(m) /\ Items(Swap(p)) = Items(p[1]) /\ Within(p[1], Swap(p), e)
        /\ Largest(p) \in s .. e /\ HeapBut(Swap(p), s, e, Largest(p))
      BY <2>1, <2>2, SiftTurn
  <2>4. next[p] = <<Swap(p), Largest(p)>> /\ next[p] \in D /\ size[next[p]] < size[p]
      BY <1>4, <1>7, <2>1
  <2>5. Within(a, Swap(p), e)
      BY <2>1, <2>3, WithinOn
  <2> HIDE DEF Swap, Largest, Ends, next, size, D
  <2> QED BY <2>1, <2>3, <2>4, <2>5
<1>8. ASSUME NEW p \in Holds, p \in base PROVE res[p] \in Out
  <2>1. /\ p \in D /\ Ends(p) /\ p[1] \in Arrays(m) /\ p[2] \in s .. e /\ Items(p[1]) = Items(a)
        /\ Within(a, p[1], e) /\ HeapBut(p[1], s, e, p[2])
      BY <1>2, <1>8
  <2>2. HeapFrom(p[1], s, e)
      BY <2>1, SiftEnds
  <2> QED BY <2>1, <2>2
<1>9. <<a, s>> \in Holds
  <2>1. <<a, s>> \in D
      BY <1>2
  <2>2. Within(a, a, e)
      BY ArrayFacts DEF Within
  <2>3. HeapBut(a, s, e, s)
      BY DEF HeapBut, HeapFrom, Child
  <2> QED BY <2>1, <2>2, <2>3
<1>10. \A p \in Holds : h[p] \in Out
  <2>1. \A p \in Holds : p \in D /\ size[p] \in 0 .. m
      BY <1>4
  <2> HIDE DEF Holds, Out, base, res, next, size, D
  <2>2. MovesOn(Holds, Out, m, size, base, res, next, h)
      BY <1>6, <1>7, <1>8, <2>1 DEF MovesOn
  <2> QED BY <2>2, MovingOn
<1>11. h[<<a, s>>] \in Out
  <2> HIDE DEF Holds, Out
  <2> QED BY <1>9, <1>10
<1> QED BY <1>1, <1>11

(* The first loop of sortHeap makes a heap of the array. *)
LEMMA Heapified ==
    ASSUME NEW m \in Nat, m # 0, NEW a \in Arrays(m)
    PROVE  /\ S!Heapify(a) \in Arrays(m) /\ Items(S!Heapify(a)) = Items(a)
           /\ HeapFrom(S!Heapify(a), 1, m)
<1> DEFINE n == m \div 2
           I == [i \in 0 .. n |-> {b \in Arrays(m) : Items(b) = Items(a) /\ HeapFrom(b, n + 1 - i, m)}]
<1>1. n \in Nat /\ m \in {2 * n, 2 * n + 1} /\ Len(a) = m
    BY ArrayFacts
<1>2. Len(a) \div 2 = n
    BY <1>1
<1> HIDE DEF n
<1>3. a \in I[0]
  <2>1. HeapFrom(a, n + 1 - 0, m)
      BY <1>1 DEF HeapFrom, Child
  <2> QED BY <1>1, <2>1
<1>4. ASSUME NEW i \in 1 .. n, NEW b \in I[i - 1]
      PROVE  S!SiftDown(b, Len(a) \div 2 + 1 - i, Len(a)) \in I[i]
  <2> DEFINE s == n + 1 - i
  <2>1. b \in Arrays(m) /\ Items(b) = Items(a) /\ HeapFrom(b, n + 1 - (i - 1), m)
      BY <1>1
  <2>2. s \in 1 .. m /\ n + 1 - (i - 1) = s + 1 /\ m \in 1 .. m
      BY <1>1
  <2>3. S!SiftDown(b, Len(a) \div 2 + 1 - i, Len(a)) = S!SiftDown(b, s, m)
      BY <1>1, <1>2
  <2> HIDE DEF s
  <2> DEFINE d == S!SiftDown(b, s, m)
  <2>4. d \in Arrays(m) /\ Items(d) = Items(b) /\ HeapFrom(d, s, m)
      BY <2>1, <2>2, SiftDownSifts
  <2> HIDE DEF d
  <2>5. d \in {x \in Arrays(m) : Items(x) = Items(a) /\ HeapFrom(x, n + 1 - i, m)} /\ i \in 0 .. n
      BY <1>1, <2>1, <2>4 DEF s
  <2>6. d \in I[i]
      BY <2>5
  <2> QED BY <2>3, <2>6 DEF d
<1>5. S!Heapify(a) \in I[n]
  <2> HIDE DEF I
  <2> QED BY <1>1, <1>2, <1>3, <1>4, HeapifyLoop
<1>6. n + 1 - n = 1 /\ n \in 0 .. n
    BY <1>1
<1> DEFINE h == S!Heapify(a)
<1>7. h \in I[n]
    BY <1>5
<1> HIDE DEF h
<1>8. h \in Arrays(m) /\ Items(h) = Items(a) /\ HeapFrom(h, n + 1 - n, m)
    BY <1>1, <1>6, <1>7
<1> QED BY <1>6, <1>8 DEF h

(* The largest element is at the top. *)
LEMMA HeapTop ==
    ASSUME NEW m \in Nat, NEW b \in Arrays(m), NEW e \in 1 .. m, HeapFrom(b, 1, e)
    PROVE  \A k \in 1 .. e : Value(b, k) <= Value(b, 1)
<1> DEFINE Holds == {k \in 0 .. e - 1 : \A j \in 1 .. k + 1 : Value(b, j) <= Value(b, 1)}
<1>0. \A k \in 1 .. m : Value(b, k) \in Int
    BY ArrayFacts
<1>1. 0 \in Holds
  <2>1. \A j \in 1 .. 0 + 1 : j = 1
      OBVIOUS
  <2> QED BY <1>0, <2>1
<1>2. ASSUME NEW k \in 1 .. e - 1, k - 1 \in Holds PROVE k \in Holds
  <2>1. \A j \in 1 .. k : Value(b, j) <= Value(b, 1)
      BY <1>2
  <2> DEFINE p == (k + 1) \div 2
  <2>2. p \in 1 .. k /\ k + 1 \in {2 * p, 2 * p + 1}
      OBVIOUS
  <2> HIDE DEF p
  <2>3. p \in 1 .. e /\ k + 1 \in 1 .. e /\ Child(p, k + 1) /\ p \in 1 .. m /\ k + 1 \in 1 .. m /\ 1 \in 1 .. m
      BY <2>2 DEF Child
  <2>4. Value(b, k + 1) <= Value(b, p)
      BY <2>3 DEF HeapFrom
  <2>5. Value(b, p) <= Value(b, 1)
      BY <2>1, <2>2
  <2>6. Value(b, k + 1) <= Value(b, 1)
      BY <1>0, <2>3, <2>4, <2>5
  <2>7. \A j \in 1 .. k + 1 : j = k + 1 \/ j \in 1 .. k
      OBVIOUS
  <2> QED BY <2>1, <2>6, <2>7
<1>3. \A k \in 0 .. e - 1 : k \in Holds
  <2>1. e - 1 \in Nat
      OBVIOUS
  <2> HIDE DEF Holds
  <2> QED BY <1>1, <1>2, <2>1, AllAlong
<1>4. e - 1 \in Holds
  <2>1. e - 1 \in 0 .. e - 1
      OBVIOUS
  <2> HIDE DEF Holds
  <2> QED BY <1>3, <2>1
<1> QED BY <1>4

(* Each turn takes the largest of the first elements behind them. *)
LEMMA HeapTurn ==
    ASSUME NEW m \in Nat, NEW e \in 1 .. m - 1, NEW b \in Arrays(m), Settled(b, e + 1),
           HeapFrom(b, 1, e + 1), NEW d, d = S!SiftDown(S!SwapElements(b, 1, e + 1), 1, e)
    PROVE  d \in Arrays(m) /\ Items(d) = Items(b) /\ Settled(d, e) /\ HeapFrom(d, 1, e)
<1> DEFINE t == e + 1
           c == S!SwapElements(b, 1, t)
<1>1. t \in 1 .. m /\ t = e + 1 /\ 1 \in 1 .. m /\ e \in 1 .. m
    OBVIOUS
<1>2. d = S!SiftDown(c, 1, e)
    OBVIOUS
<1>3. Exchanged(b, c, 1, t, m)
  <2> HIDE DEF t
  <2> QED BY <1>1, SwapExchanges
<1>4. HeapFrom(b, 1, t) /\ Settled(b, t)
    OBVIOUS
<1> HIDE DEF t, c
<1>5. /\ c \in Arrays(m) /\ Items(c) = Items(b) /\ Value(c, 1) = Value(b, t) /\ Value(c, t) = Value(b, 1)
      /\ \A k \in 1 .. m : k # 1 /\ k # t => Value(c, k) = Value(b, k)
    BY <1>3 DEF Exchanged
<1>6. \A k \in 1 .. t : Value(b, k) <= Value(b, 1)
    BY <1>1, <1>4, HeapTop
<1>7. /\ DOMAIN b = 1 .. m /\ DOMAIN c = 1 .. m
      /\ \A k \in 1 .. m : Value(b, k) \in Int /\ Value(c, k) \in Int
    BY <1>5, ArrayFacts
<1>8. Settled(c, e)
  <2>1. ASSUME NEW p \in 1 .. m, NEW q \in 1 .. m, p < q, e < q PROVE Value(c, p) <= Value(c, q)
    <3>1. p \in 1 .. t => \E k \in 1 .. t : Value(c, p) = Value(b, k)
        BY <1>1, <1>5
    <3>2. p > t => Value(c, p) = Value(b, p)
        BY <1>1, <1>5
    <3>3. CASE q = t
      <4>1. p \in 1 .. t
          BY <2>1, <3>3
      <4> QED BY <1>5, <1>6, <3>1, <3>3, <4>1
    <3>4. CASE q > t
      <4>1. Value(c, q) = Value(b, q)
          BY <1>1, <1>5, <3>4
      <4>2. \A k \in 1 .. m : k < q => Value(b, k) <= Value(b, q)
          BY <1>4, <1>7, <3>4 DEF Settled
      <4>3. \E k \in 1 .. m : k < q /\ Value(c, p) = Value(b, k)
        <5>1. CASE p > t
            BY <2>1, <3>2, <5>1
        <5>2. CASE p \in 1 .. t
          <6>1. \A k \in 1 .. t : k \in 1 .. m /\ k < q
              BY <1>1, <3>4
          <6> QED BY <3>1, <5>2, <6>1
        <5> QED BY <1>1, <5>1, <5>2
      <4> QED BY <4>1, <4>2, <4>3
    <3> QED BY <1>1, <2>1, <3>3, <3>4
  <2> QED BY <1>7, <2>1 DEF Settled
<1>9. HeapFrom(c, 1 + 1, e)
  <2>1. ASSUME NEW p \in 1 + 1 .. e, NEW k \in 1 .. e, Child(p, k) PROVE Value(c, k) <= Value(c, p)
    <3>1. p \in 1 .. m /\ k \in 1 .. m /\ p \in 1 .. t /\ k \in 1 .. t /\ p # 1 /\ k # 1 /\ p # t /\ k # t
        BY <1>1, <2>1 DEF Child
    <3>2. Value(b, k) <= Value(b, p)
        BY <1>4, <2>1, <3>1 DEF HeapFrom
    <3> QED BY <1>5, <3>1, <3>2
  <2> QED BY <2>1 DEF HeapFrom
<1>10. d \in Arrays(m) /\ Items(d) = Items(c) /\ Within(c, d, e) /\ HeapFrom(d, 1, e)
  <2>1. 1 \in 1 .. e
      OBVIOUS
  <2> QED BY <1>1, <1>2, <1>5, <1>9, <2>1, SiftDownSifts
<1>11. DOMAIN d = 1 .. m
    BY <1>10, ArrayFacts
<1>12. Settled(d, e)
  <2>1. ASSUME NEW p \in 1 .. m, NEW q \in 1 .. m, p < q, e < q PROVE Value(d, p) <= Value(d, q)
    <3>1. d[q] = c[q]
        BY <1>7, <1>10, <2>1 DEF Within
    <3>2. \E k \in 1 .. m : k < q /\ d[p] = c[k]
      <4>1. CASE p > e
          BY <1>7, <1>10, <2>1, <4>1 DEF Within
      <4>2. CASE ~ p > e
        <5>1. \E k \in 1 .. e : d[p] = c[k]
            BY <1>7, <1>10, <4>2 DEF Within
        <5>2. \A k \in 1 .. e : k \in 1 .. m /\ k < q
            BY <2>1
        <5> QED BY <5>1, <5>2
      <4> QED BY <4>1, <4>2
    <3>3. \A k \in 1 .. m : k < q => Value(c, k) <= Value(c, q)
        BY <1>7, <1>8, <2>1 DEF Settled
    <3> QED BY <3>1, <3>2, <3>3 DEF Value
  <2> QED BY <1>11, <2>1 DEF Settled
<1> QED BY <1>5, <1>10, <1>12

(* sortHeap sorts. *)
LEMMA HeapSorts ==
    ASSUME NEW m \in Nat, NEW a \in Arrays(m)
    PROVE  Sorts(a, S!SortHeap(a), m)
<1>1. CASE m = 0
  <2>1. S!Heapify(a) = a
    <3>1. Len(a) \div 2 < 1
        BY <1>1, ArrayFacts
    <3> QED BY <3>1 DEF S!Heapify, S!Turns
  <2>2. S!SortHeap(a) = a
    <3>1. Len(a) - 1 < 1
        BY <1>1, ArrayFacts
    <3> QED BY <2>1, <3>1 DEF S!SortHeap, S!Turns
  <2> QED BY <1>1, <2>2 DEF Sorts
<1>2. CASE m # 0
  <2> DEFINE n == m - 1
             I == [i \in 0 .. n |-> {b \in Arrays(m) : /\ Items(b) = Items(a) /\ Settled(b, m - i)
                                                       /\ HeapFrom(b, 1, m - i)}]
  <2>1. n \in Nat /\ Len(a) = n + 1 /\ Len(a) = m /\ n = m - 1
      BY <1>2, ArrayFacts
  <2> HIDE DEF n
  <2>2. S!Heapify(a) \in I[0]
    <3> DEFINE h == S!Heapify(a)
    <3>1. h \in Arrays(m) /\ Items(h) = Items(a) /\ HeapFrom(h, 1, m)
        BY <1>2, Heapified
    <3> HIDE DEF h
    <3>2. Settled(h, m - 0) /\ m - 0 = m
        BY <3>1, ArrayFacts DEF Settled
    <3>3. h \in I[0]
        BY <2>1, <3>1, <3>2
    <3> QED BY <3>3 DEF h
  <2>3. ASSUME NEW i \in 1 .. n, NEW b \in I[i - 1]
        PROVE  S!SiftDown(S!SwapElements(b, 1, Len(a) + 1 - i), 1, Len(a) - i) \in I[i]
    <3> DEFINE e == m - i
               d == S!SiftDown(S!SwapElements(b, 1, e + 1), 1, e)
    <3>1. /\ b \in Arrays(m) /\ Items(b) = Items(a) /\ Settled(b, m - (i - 1))
          /\ HeapFrom(b, 1, m - (i - 1))
        BY <2>1
    <3>2. e \in 1 .. m - 1 /\ m - (i - 1) = e + 1 /\ Len(a) + 1 - i = e + 1 /\ Len(a) - i = e
        BY <2>1
    <3> HIDE DEF e
    <3>3. d \in Arrays(m) /\ Items(d) = Items(b) /\ Settled(d, e) /\ HeapFrom(d, 1, e)
        BY <3>1, <3>2, HeapTurn
    <3>4. S!SiftDown(S!SwapElements(b, 1, Len(a) + 1 - i), 1, Len(a) - i) = d
        BY <3>2
    <3> HIDE DEF d
    <3>5. d \in I[i]
        BY <2>1, <3>1, <3>3 DEF e
    <3> QED BY <3>4, <3>5
  <2>4. S!SortHeap(a) \in I[n]
    <3> HIDE DEF I
    <3> QED BY <2>1, <2>2, <2>3, HeapLoop
  <2>5. \A b \in I[n] : Sorts(a, b, m)
    <3>1. ASSUME NEW b \in I[n], NEW p \in 1 .. m, NEW q \in 1 .. m, p < q PROVE Value(b, p) <= Value(b, q)
      <4>1. b \in Arrays(m) /\ Settled(b, m - n)
          BY <2>1
      <4>2. DOMAIN b = 1 .. m /\ m - n < q
          BY <3>1, <2>1, <4>1, ArrayFacts
      <4> QED BY <3>1, <4>1, <4>2 DEF Settled
    <3> QED BY <2>1, <3>1 DEF Sorts
  <2> QED BY <2>4, <2>5
<1> QED BY <1>1, <1>2

-----------------------------------------------------------------------------
(* sortReverse, sortIsSorted. *)

(* sortReverse turns an array round. *)
LEMMA ReverseReverses ==
    ASSUME NEW m \in Nat, NEW a \in Arrays(m)
    PROVE  S!SortReverse(a) = Reverse(a)
<1> DEFINE n == m \div 2
           I == [i \in 0 .. n |-> {b \in Arrays(m) :
                    \A k \in 1 .. m : b[k] = IF k <= i \/ k > m - i THEN a[m + 1 - k] ELSE a[k]}]
<1>1. n \in Nat /\ m \in {2 * n, 2 * n + 1} /\ Len(a) = m /\ DOMAIN a = 1 .. m
    BY ArrayFacts
<1>2. Len(a) \div 2 = n
    BY <1>1
<1> HIDE DEF n
<1>3. a \in I[0]
    BY <1>1
<1>4. ASSUME NEW i \in 1 .. n, NEW b \in I[i - 1] PROVE S!SwapElements(b, i, Len(a) + 1 - i) \in I[i]
  <2> DEFINE j == m + 1 - i
             c == S!SwapElements(b, i, j)
  <2>1. /\ b \in Arrays(m)
        /\ \A k \in 1 .. m : b[k] = IF k <= i - 1 \/ k > m - (i - 1) THEN a[m + 1 - k] ELSE a[k]
      BY <1>1
  <2>2. i \in 1 .. m /\ j \in 1 .. m /\ i < j /\ j = m + 1 - i /\ Len(a) + 1 - i = j /\ i \in 0 .. n
      BY <1>1
  <2> HIDE DEF j
  <2>3. Exchanged(b, c, i, j, m)
      BY <2>1, <2>2, SwapExchanges
  <2> HIDE DEF c
  <2>4. /\ c \in Arrays(m) /\ c[i] = b[j] /\ c[j] = b[i]
        /\ \A k \in 1 .. m : k # i /\ k # j => c[k] = b[k]
      BY <2>3 DEF Exchanged
  <2>5. b[i] = a[i] /\ b[j] = a[j]
      BY <2>1, <2>2
  <2>6. ASSUME NEW k \in 1 .. m PROVE c[k] = IF k <= i \/ k > m - i THEN a[m + 1 - k] ELSE a[k]
    <3>1. CASE k = i
      <4>1. m + 1 - k = j
          BY <2>2, <3>1
      <4> QED BY <2>2, <2>4, <2>5, <3>1, <4>1
    <3>2. CASE k = j
      <4>1. m + 1 - k = i /\ k > m - i
          BY <2>2, <3>2
      <4> QED BY <2>2, <2>4, <2>5, <3>2, <4>1
    <3>3. CASE k # i /\ k # j
      <4>1. c[k] = b[k]
          BY <2>4, <3>3
      <4>2. k <= i \/ k > m - i <=> k <= i - 1 \/ k > m - (i - 1)
          BY <2>2, <3>3
      <4> QED BY <2>1, <4>1, <4>2
    <3> QED BY <3>1, <3>2, <3>3
  <2>7. c \in I[i]
      BY <2>2, <2>4, <2>6
  <2> QED BY <2>2, <2>7 DEF c
<1>5. S!SortReverse(a) \in I[n]
  <2> HIDE DEF I
  <2> QED BY <1>1, <1>2, <1>3, <1>4, ReverseLoop
<1> DEFINE r == S!SortReverse(a)
<1>6. r \in I[n]
    BY <1>5
<1> HIDE DEF r
<1>7. /\ r \in Arrays(m)
      /\ \A k \in 1 .. m : r[k] = IF k <= n \/ k > m - n THEN a[m + 1 - k] ELSE a[k]
    BY <1>1, <1>6
<1>8. ASSUME NEW k \in 1 .. m PROVE r[k] = a[m - k + 1]
  <2>1. m + 1 - k = m - k + 1
      OBVIOUS
  <2>2. k <= n \/ k > m - n \/ m - k + 1 = k
      BY <1>1
  <2> QED BY <1>7, <2>1, <2>2
<1>9. r = [k \in 1 .. m |-> a[m - k + 1]]
    BY <1>7, <1>8 DEF Arrays
<1> QED BY <1>1, <1>9 DEF Reverse, r

(* sortIsSorted compares neighbours only, and that is enough. *)
LEMMA IsSortedSays ==
    ASSUME NEW m \in Nat, NEW a \in Arrays(m)
    PROVE  S!SortIsSorted(a) = Ordered(a)
<1>1. /\ DOMAIN a = 1 .. m /\ Len(a) = m
      /\ \A k \in 1 .. m : Value(a, k) \in Int /\ a[k][1] = Value(a, k)
    BY ArrayFacts DEF Value
<1>2. Ordered(a) <=> \A p, q \in 1 .. m : p < q => Value(a, p) <= Value(a, q)
    BY <1>1 DEF Ordered, Value
<1>3. S!SortIsSorted(a) <=> \A i \in 2 .. m : Value(a, i - 1) <= Value(a, i)
  <2>1. ASSUME NEW i \in 2 .. m PROVE S!Above(a[i - 1], a[i]) <=> ~ Value(a, i - 1) <= Value(a, i)
    <3>1. i \in 1 .. m /\ i - 1 \in 1 .. m
        OBVIOUS
    <3> HIDE DEF Value
    <3> QED BY <1>1, <3>1 DEF S!Above
  <2> QED BY <1>1, <2>1 DEF S!SortIsSorted
<1>4. ASSUME \A i \in 2 .. m : Value(a, i - 1) <= Value(a, i)
      PROVE  \A p, q \in 1 .. m : p < q => Value(a, p) <= Value(a, q)
  <2> DEFINE Holds == {k \in 0 .. m : \A p \in 1 .. k : Value(a, p) <= Value(a, k)}
  <2>1. 0 \in Holds
      OBVIOUS
  <2>2. ASSUME NEW k \in 1 .. m, k - 1 \in Holds PROVE k \in Holds
    <3>1. ASSUME NEW p \in 1 .. k PROVE Value(a, p) <= Value(a, k)
      <4>1. CASE p = k
          BY <1>1, <4>1
      <4>2. CASE p < k
        <5>1. p \in 1 .. m /\ k - 1 \in 1 .. m /\ k \in 2 .. m /\ p \in 1 .. k - 1
            BY <4>2
        <5>2. Value(a, p) <= Value(a, k - 1) /\ Value(a, k - 1) <= Value(a, k)
            BY <1>4, <2>2, <5>1
        <5>3. Value(a, p) \in Int /\ Value(a, k - 1) \in Int /\ Value(a, k) \in Int
            BY <1>1, <5>1
        <5> QED BY <5>2, <5>3
      <4> QED BY <4>1, <4>2
    <3> QED BY <3>1
  <2>3. \A k \in 0 .. m : k \in Holds
    <3> HIDE DEF Holds
    <3> QED BY <2>1, <2>2, AllAlong
  <2> QED BY <2>3
<1>5. (\A p, q \in 1 .. m : p < q => Value(a, p) <= Value(a, q)) => \A i \in 2 .. m : Value(a, i - 1) <= Value(a, i)
  <2>1. \A i \in 2 .. m : i - 1 \in 1 .. m /\ i \in 1 .. m /\ i - 1 < i
      OBVIOUS
  <2> QED BY <2>1
<1>6. S!SortIsSorted(a) <=> Ordered(a)
    BY <1>2, <1>3, <1>4, <1>5
<1>7. S!SortIsSorted(a) \in BOOLEAN /\ Ordered(a) \in BOOLEAN
    BY DEF S!SortIsSorted, Ordered
<1> QED BY <1>6 DEF S!SortIsSorted, Ordered

-----------------------------------------------------------------------------
(* searchLowerBound, searchUpperBound. *)

Ints(m) == [1 .. m -> Int]
Rising(a, m) == \A p, q \in 1 .. m : p < q => a[p] <= a[q]

(* A place divides an array: before it are the elements below, and no other. *)
Splits(place, below, m) == place \in 1 .. m + 1 /\ \A i \in 1 .. m : i < place <=> i \in below

(* The halving of searchLowerBound ends at the first element not below. *)
LEMMA LowerWithinFound ==
    ASSUME NEW m \in Nat, NEW a \in Ints(m), Rising(a, m), NEW item \in Int, NEW last, last = m + 1
    PROVE  Splits(S!LowerWithin(a, item, last), {i \in 1 .. m : a[i] < item}, m)
<1> DEFINE D == (1 .. last) \X (1 .. last)
           Mid(p) == p[1] + (p[2] - p[1]) \div 2
           base == {p \in D : p[1] >= p[2]}
           res == [p \in D |-> p[1]]
           next == [p \in D |-> IF a[Mid(p)] < item THEN <<Mid(p) + 1, p[2]>> ELSE <<p[1], Mid(p)>>]
           size == [p \in D |-> IF p[1] < p[2] THEN p[2] - p[1] ELSE 0]
           Is(g) == g = [p \in D |-> IF p[1] >= p[2] THEN p[1]
                                     ELSE IF a[Mid(p)] < item THEN g[<<Mid(p) + 1, p[2]>>]
                                     ELSE g[<<p[1], Mid(p)>>]]
           h == CHOOSE g : Is(g)
<1>1. S!LowerWithin(a, item, last) = h[<<1, last>>]
    BY Zenon DEF S!LowerWithin
<1> HIDE DEF h
<1>2. ASSUME NEW p \in D PROVE p = <<p[1], p[2]>> /\ p[1] \in 1 .. last /\ p[2] \in 1 .. last
    OBVIOUS
<1>3. ASSUME NEW p \in D, p \notin base
      PROVE  p[1] < p[2] /\ Mid(p) \in p[1] .. p[2] - 1 /\ Mid(p) \in 1 .. m
  <2> DEFINE x == p[1]
             y == p[2]
  <2>1. x \in 1 .. last /\ y \in 1 .. last /\ x < y /\ Mid(p) = x + (y - x) \div 2
      BY <1>2, <1>3
  <2> HIDE DEF x, y
  <2>2. x + (y - x) \div 2 \in x .. y - 1
      BY <2>1
  <2> HIDE DEF Mid
  <2>3. x < y /\ Mid(p) \in x .. y - 1 /\ Mid(p) \in 1 .. m
      BY <2>1, <2>2
  <2> QED BY <2>3 DEF x, y
<1> HIDE DEF Mid
<1>4. /\ size \in [D -> 0 .. last]
      /\ \A p \in D : p \notin base => next[p] \in D /\ size[next[p]] < size[p]
  <2>1. size \in [D -> 0 .. last]
      BY <1>2
  <2>2. ASSUME NEW p \in D, p \notin base PROVE next[p] \in D /\ size[next[p]] < size[p]
    <3> DEFINE x == p[1]
               y == p[2]
               k == Mid(p)
    <3>1. x \in 1 .. last /\ y \in 1 .. last /\ x < y /\ k \in x .. y - 1 /\ k \in 1 .. m
        BY <1>2, <1>3, <2>2
    <3>2. next[p] = <<k + 1, y>> \/ next[p] = <<x, k>>
        OBVIOUS
    <3>3. size[p] = y - x
        BY <3>1
    <3> HIDE DEF x, y, k, next
    <3>4. <<k + 1, y>> \in D /\ <<x, k>> \in D
        BY <3>1
    <3>5. size[<<k + 1, y>>] < y - x /\ size[<<x, k>>] < y - x
        BY <3>1, <3>4
    <3> HIDE DEF D, size
    <3> QED BY <3>2, <3>3, <3>4, <3>5
  <2> QED BY <2>1, <2>2
<1>5. Is(h)
  <2> DEFINE f == [p \in D |-> p]
  <2>1. PICK g : /\ g = [p \in D |-> g[p]]
                 /\ \A p \in D : g[p] = IF p \in base THEN res[p]
                                        ELSE IF p \in D THEN g[next[p]] ELSE f[p][g[next[p]]]
    <3> HIDE DEF D, size, base, res, next, f
    <3>1. last \in Nat
        OBVIOUS
    <3>2. RecursionHasResult(D, base, res, D, next, f)
        BY <1>4, <3>1, Recursion
    <3> QED BY <3>2 DEF RecursionHasResult
  <2>2. \A p \in D : g[p] = IF p[1] >= p[2] THEN p[1]
                            ELSE IF a[Mid(p)] < item THEN g[<<Mid(p) + 1, p[2]>>]
                            ELSE g[<<p[1], Mid(p)>>]
      BY <2>1
  <2>3. Is(g)
    <3> HIDE DEF D
    <3> QED BY <2>1, <2>2
  <2> QED BY <2>3 DEF h
<1>6. \A p \in D : h[p] = IF p \in base THEN res[p] ELSE h[next[p]]
    BY <1>5
<1> DEFINE Holds == {p \in D : /\ p[1] <= p[2]
                               /\ \A i \in 1 .. m : /\ i < p[1] => a[i] < item
                                                    /\ i >= p[2] => ~ a[i] < item}
           Out == {x \in 1 .. last : \A i \in 1 .. m : i < x <=> a[i] < item}
<1>7. ASSUME NEW p \in Holds, p \notin base PROVE next[p] \in Holds /\ size[next[p]] < size[p]
  <2> DEFINE x == p[1]
             y == p[2]
             k == Mid(p)
  <2>1. /\ p \in D /\ x \in 1 .. last /\ y \in 1 .. last /\ x < y /\ k \in x .. y - 1 /\ k \in 1 .. m
        /\ \A i \in 1 .. m : (i < x => a[i] < item) /\ (i >= y => ~ a[i] < item)
      BY <1>2, <1>3, <1>7
  <2>2. next[p] \in D /\ size[next[p]] < size[p]
      BY <1>4, <1>7, <2>1
  <2>3. \A i \in 1 .. m : a[i] \in Int /\ (i < k => a[i] <= a[k]) /\ (i > k => a[k] <= a[i])
      BY <2>1 DEF Rising, Ints
  <2>4. CASE a[k] < item
    <3>1. next[p] = <<k + 1, y>>
        BY <2>1, <2>4
    <3> HIDE DEF x, y, k, next, size, D
    <3>2. \A i \in 1 .. m : i < k + 1 => a[i] < item
        BY <2>1, <2>3, <2>4
    <3> QED BY <2>1, <2>2, <3>1, <3>2
  <2>5. CASE ~ a[k] < item
    <3>1. next[p] = <<x, k>>
        BY <2>1, <2>5
    <3> HIDE DEF x, y, k, next, size, D
    <3>2. \A i \in 1 .. m : i >= k => ~ a[i] < item
        BY <2>1, <2>3, <2>5
    <3> QED BY <2>1, <2>2, <3>1, <3>2
  <2> QED BY <2>4, <2>5
<1>8. ASSUME NEW p \in Holds, p \in base PROVE res[p] \in Out
  <2>1. p[1] \in 1 .. last /\ p[2] = p[1] /\ res[p] = p[1]
      BY <1>2, <1>8
  <2> QED BY <1>8, <2>1
<1>9. <<1, last>> \in Holds
    OBVIOUS
<1>10. \A p \in Holds : h[p] \in Out
  <2>1. \A p \in Holds : p \in D /\ size[p] \in 0 .. last
      BY <1>4
  <2>2. last \in Nat
      OBVIOUS
  <2> HIDE DEF Holds, Out, base, res, next, size, D
  <2>3. MovesOn(Holds, Out, last, size, base, res, next, h)
      BY <1>6, <1>7, <1>8, <2>1 DEF MovesOn
  <2> QED BY <2>2, <2>3, MovingOn
<1>11. h[<<1, last>>] \in Out
  <2> HIDE DEF Holds, Out
  <2> QED BY <1>9, <1>10
<1> QED BY <1>1, <1>11 DEF Splits

(* The halving of searchUpperBound ends at the first element above. *)
LEMMA UpperWithinFound ==
    ASSUME NEW m \in Nat, NEW a \in Ints(m), Rising(a, m), NEW item \in Int, NEW last, last = m + 1
    PROVE  Splits(S!UpperWithin(a, item, last), {i \in 1 .. m : a[i] <= item}, m)
<1> DEFINE D == (1 .. last) \X (1 .. last)
           Mid(p) == p[1] + (p[2] - p[1]) \div 2
           base == {p \in D : p[1] >= p[2]}
           res == [p \in D |-> p[1]]
           next == [p \in D |-> IF a[Mid(p)] > item THEN <<p[1], Mid(p)>> ELSE <<Mid(p) + 1, p[2]>>]
           size == [p \in D |-> IF p[1] < p[2] THEN p[2] - p[1] ELSE 0]
           Is(g) == g = [p \in D |-> IF p[1] >= p[2] THEN p[1]
                                     ELSE IF a[Mid(p)] > item THEN g[<<p[1], Mid(p)>>]
                                     ELSE g[<<Mid(p) + 1, p[2]>>]]
           h == CHOOSE g : Is(g)
<1>1. S!UpperWithin(a, item, last) = h[<<1, last>>]
    BY Zenon DEF S!UpperWithin
<1> HIDE DEF h
<1>2. ASSUME NEW p \in D PROVE p = <<p[1], p[2]>> /\ p[1] \in 1 .. last /\ p[2] \in 1 .. last
    OBVIOUS
<1>3. ASSUME NEW p \in D, p \notin base
      PROVE  p[1] < p[2] /\ Mid(p) \in p[1] .. p[2] - 1 /\ Mid(p) \in 1 .. m
  <2> DEFINE x == p[1]
             y == p[2]
  <2>1. x \in 1 .. last /\ y \in 1 .. last /\ x < y /\ Mid(p) = x + (y - x) \div 2
      BY <1>2, <1>3
  <2> HIDE DEF x, y
  <2>2. x + (y - x) \div 2 \in x .. y - 1
      BY <2>1
  <2> HIDE DEF Mid
  <2>3. x < y /\ Mid(p) \in x .. y - 1 /\ Mid(p) \in 1 .. m
      BY <2>1, <2>2
  <2> QED BY <2>3 DEF x, y
<1> HIDE DEF Mid
<1>4. /\ size \in [D -> 0 .. last]
      /\ \A p \in D : p \notin base => next[p] \in D /\ size[next[p]] < size[p]
  <2>1. size \in [D -> 0 .. last]
      BY <1>2
  <2>2. ASSUME NEW p \in D, p \notin base PROVE next[p] \in D /\ size[next[p]] < size[p]
    <3> DEFINE x == p[1]
               y == p[2]
               k == Mid(p)
    <3>1. x \in 1 .. last /\ y \in 1 .. last /\ x < y /\ k \in x .. y - 1 /\ k \in 1 .. m
        BY <1>2, <1>3, <2>2
    <3>2. next[p] = <<k + 1, y>> \/ next[p] = <<x, k>>
        OBVIOUS
    <3>3. size[p] = y - x
        BY <3>1
    <3> HIDE DEF x, y, k, next
    <3>4. <<k + 1, y>> \in D /\ <<x, k>> \in D
        BY <3>1
    <3>5. size[<<k + 1, y>>] < y - x /\ size[<<x, k>>] < y - x
        BY <3>1, <3>4
    <3> HIDE DEF D, size
    <3> QED BY <3>2, <3>3, <3>4, <3>5
  <2> QED BY <2>1, <2>2
<1>5. Is(h)
  <2> DEFINE f == [p \in D |-> p]
  <2>1. PICK g : /\ g = [p \in D |-> g[p]]
                 /\ \A p \in D : g[p] = IF p \in base THEN res[p]
                                        ELSE IF p \in D THEN g[next[p]] ELSE f[p][g[next[p]]]
    <3> HIDE DEF D, size, base, res, next, f
    <3>1. last \in Nat
        OBVIOUS
    <3>2. RecursionHasResult(D, base, res, D, next, f)
        BY <1>4, <3>1, Recursion
    <3> QED BY <3>2 DEF RecursionHasResult
  <2>2. \A p \in D : g[p] = IF p[1] >= p[2] THEN p[1]
                            ELSE IF a[Mid(p)] > item THEN g[<<p[1], Mid(p)>>]
                            ELSE g[<<Mid(p) + 1, p[2]>>]
      BY <2>1
  <2>3. Is(g)
    <3> HIDE DEF D
    <3> QED BY <2>1, <2>2
  <2> QED BY <2>3 DEF h
<1>6. \A p \in D : h[p] = IF p \in base THEN res[p] ELSE h[next[p]]
    BY <1>5
<1> DEFINE Holds == {p \in D : /\ p[1] <= p[2]
                               /\ \A i \in 1 .. m : /\ i < p[1] => a[i] <= item
                                                    /\ i >= p[2] => ~ a[i] <= item}
           Out == {x \in 1 .. last : \A i \in 1 .. m : i < x <=> a[i] <= item}
<1>7. ASSUME NEW p \in Holds, p \notin base PROVE next[p] \in Holds /\ size[next[p]] < size[p]
  <2> DEFINE x == p[1]
             y == p[2]
             k == Mid(p)
  <2>1. /\ p \in D /\ x \in 1 .. last /\ y \in 1 .. last /\ x < y /\ k \in x .. y - 1 /\ k \in 1 .. m
        /\ \A i \in 1 .. m : (i < x => a[i] <= item) /\ (i >= y => ~ a[i] <= item)
      BY <1>2, <1>3, <1>7
  <2>2. next[p] \in D /\ size[next[p]] < size[p]
      BY <1>4, <1>7, <2>1
  <2>3. \A i \in 1 .. m : a[i] \in Int /\ (i < k => a[i] <= a[k]) /\ (i > k => a[k] <= a[i])
      BY <2>1 DEF Rising, Ints
  <2>4. CASE a[k] > item
    <3>1. next[p] = <<x, k>>
        BY <2>1, <2>4
    <3> HIDE DEF x, y, k, next, size, D
    <3>2. \A i \in 1 .. m : i >= k => ~ a[i] <= item
        BY <2>1, <2>3, <2>4
    <3> QED BY <2>1, <2>2, <3>1, <3>2
  <2>5. CASE ~ a[k] > item
    <3>1. next[p] = <<k + 1, y>>
        BY <2>1, <2>5
    <3> HIDE DEF x, y, k, next, size, D
    <3>2. \A i \in 1 .. m : i < k + 1 => a[i] <= item
        BY <2>1, <2>3, <2>5
    <3> QED BY <2>1, <2>2, <3>1, <3>2
  <2> QED BY <2>4, <2>5
<1>8. ASSUME NEW p \in Holds, p \in base PROVE res[p] \in Out
  <2>1. p[1] \in 1 .. last /\ p[2] = p[1] /\ res[p] = p[1]
      BY <1>2, <1>8
  <2> QED BY <1>8, <2>1
<1>9. <<1, last>> \in Holds
    OBVIOUS
<1>10. \A p \in Holds : h[p] \in Out
  <2>1. \A p \in Holds : p \in D /\ size[p] \in 0 .. last
      BY <1>4
  <2>2. last \in Nat
      OBVIOUS
  <2> HIDE DEF Holds, Out, base, res, next, size, D
  <2>3. MovesOn(Holds, Out, last, size, base, res, next, h)
      BY <1>6, <1>7, <1>8, <2>1 DEF MovesOn
  <2> QED BY <2>2, <2>3, MovingOn
<1>11. h[<<1, last>>] \in Out
  <2> HIDE DEF Holds, Out
  <2> QED BY <1>9, <1>10
<1> QED BY <1>1, <1>11 DEF Splits

(* searchLowerBound and searchUpperBound, the empty array included. *)
LEMMA BoundsFound ==
    ASSUME NEW m \in Nat, NEW a \in Ints(m), Rising(a, m), NEW item \in Int
    PROVE  /\ Splits(S!SearchLowerBound(a, item), {i \in 1 .. m : a[i] < item}, m)
           /\ Splits(S!SearchUpperBound(a, item), {i \in 1 .. m : a[i] <= item}, m)
<1> DEFINE last == Len(a) + 1
<1>1. last = m + 1
    BY DEF Ints
<1> HIDE DEF last
<1>2. S!SearchLowerBound(a, item) = S!LowerWithin(a, item, last)
    BY DEF S!SearchLowerBound, last
<1>3. S!SearchUpperBound(a, item) = S!UpperWithin(a, item, last)
    BY DEF S!SearchUpperBound, last
<1> QED BY <1>1, <1>2, <1>3, LowerWithinFound, UpperWithinFound

-----------------------------------------------------------------------------
(* searchLinear, searchBinary. *)

Match(a, item, epsilon, i) == S!IsEqualf(a[i], item, epsilon)

(* The two forms of being within epsilon. *)
LEMMA MatchFacts ==
    ASSUME NEW x \in Int, NEW item \in Int, NEW epsilon \in Nat
    PROVE  /\ S!IsEqualf(x, item, epsilon) <=> item - epsilon <= x /\ x <= item + epsilon
           /\ S!IsEqualf(x, item, epsilon) <=> Gap(x, item) <= epsilon
BY DEF S!IsEqualf, Gap

(* searchLinear finds nothing only where there is nothing. *)
LEMMA LinearFinds ==
    ASSUME NEW m \in Nat, NEW a \in Ints(m), NEW item \in Int, NEW epsilon \in Nat
    PROVE  S!SearchLinear(a, item, epsilon) = S!NotFound <=> \A i \in 1 .. m : ~ Match(a, item, epsilon, i)
<1> DEFINE Matches == {i \in DOMAIN a : Match(a, item, epsilon, i)}
           Is(i) == /\ S!IsEqualf(a[i], item, epsilon)
                    /\ \A j \in 1 .. i - 1 : ~ S!IsEqualf(a[j], item, epsilon)
           found == CHOOSE i \in DOMAIN a : Is(i)
<1>1. DOMAIN a = 1 .. m
    BY DEF Ints
<1>2. S!SearchLinear(a, item, epsilon)
        = IF \E i \in DOMAIN a : S!IsEqualf(a[i], item, epsilon) THEN found ELSE S!NotFound
    BY Zenon DEF S!SearchLinear
<1>3. CASE Matches = {}
  <2>1. \A i \in DOMAIN a : ~ S!IsEqualf(a[i], item, epsilon)
      BY <1>3 DEF Match
  <2> HIDE DEF found
  <2> QED BY <1>1, <1>2, <2>1 DEF Match
<1>4. CASE Matches # {}
  <2>1. Matches \in SUBSET Nat
      BY <1>1
  <2>2. PICK i \in Matches : \A k \in Matches : i <= k
    <3> HIDE DEF Matches
    <3> QED BY <1>4, <2>1, LeastNatural
  <2>3. i \in DOMAIN a /\ Is(i)
    <3>1. \A j \in 1 .. i - 1 : j \in DOMAIN a /\ ~ i <= j
        BY <1>1
    <3> QED BY <2>2, <3>1 DEF Match
  <2>4. found \in DOMAIN a
      BY <2>3
  <2> HIDE DEF found
  <2>5. S!SearchLinear(a, item, epsilon) \in 1 .. m
      BY <1>1, <1>2, <2>3, <2>4
  <2>6. S!SearchLinear(a, item, epsilon) # S!NotFound
      BY <2>5 DEF S!NotFound
  <2> QED BY <1>1, <2>2, <2>6
<1> QED BY <1>3, <1>4

Finds(found, a, item, epsilon, m) ==
    IF found = S!NotFound THEN \A i \in 1 .. m : ~ Match(a, item, epsilon, i)
    ELSE found \in 1 .. m /\ Match(a, item, epsilon, found)

(* searchBinary finds nothing only where there is nothing. *)
LEMMA BinaryFinds ==
    ASSUME NEW m \in Nat, NEW a \in Ints(m), Rising(a, m), NEW item \in Int, NEW epsilon \in Nat
    PROVE  Finds(S!BinaryWithin(a, item, epsilon), a, item, epsilon, m)
<1> DEFINE D == (1 .. Len(a) + 1) \X (0 .. Len(a))
           Mid(p) == p[1] + (p[2] - p[1]) \div 2
           Here(p) == S!IsEqualf(a[Mid(p)], item, epsilon)
           Up(p) == a[Mid(p)] < item \/ Mid(p) = 1
           base == {p \in D : p[1] > p[2] \/ Here(p)}
           res == [p \in D |-> IF p[1] > p[2] THEN S!NotFound ELSE Mid(p)]
           next == [p \in D |-> IF Up(p) THEN <<Mid(p) + 1, p[2]>> ELSE <<p[1], Mid(p) - 1>>]
           size == [p \in D |-> IF p[1] <= p[2] THEN p[2] - p[1] + 1 ELSE 0]
           Is(g) == g = [p \in D |-> IF p[1] > p[2] THEN S!NotFound
                                     ELSE IF Here(p) THEN Mid(p)
                                     ELSE IF Up(p) THEN g[<<Mid(p) + 1, p[2]>>]
                                     ELSE g[<<p[1], Mid(p) - 1>>]]
           h == CHOOSE g : Is(g)
<1>1. S!BinaryWithin(a, item, epsilon) = h[<<1, Len(a)>>]
    BY Zenon DEF S!BinaryWithin
<1> HIDE DEF h
<1>2. Len(a) = m
    BY DEF Ints
<1>3. ASSUME NEW p \in D PROVE p = <<p[1], p[2]>> /\ p[1] \in 1 .. m + 1 /\ p[2] \in 0 .. m
    BY <1>2
<1>4. ASSUME NEW p \in D, p[1] <= p[2] PROVE Mid(p) \in p[1] .. p[2] /\ Mid(p) \in 1 .. m
  <2> DEFINE x == p[1]
             y == p[2]
  <2>1. x \in 1 .. m + 1 /\ y \in 0 .. m /\ x <= y /\ Mid(p) = x + (y - x) \div 2
      BY <1>3, <1>4
  <2> HIDE DEF x, y
  <2>2. x + (y - x) \div 2 \in x .. y
      BY <2>1
  <2> HIDE DEF Mid
  <2>3. Mid(p) \in x .. y /\ Mid(p) \in 1 .. m
      BY <2>1, <2>2
  <2> QED BY <2>3 DEF x, y
<1> HIDE DEF Mid, Here, Up
<1>5. /\ size \in [D -> 0 .. m]
      /\ \A p \in D : p \notin base => next[p] \in D /\ size[next[p]] < size[p]
  <2>1. size \in [D -> 0 .. m]
      BY <1>3
  <2>2. ASSUME NEW p \in D, p \notin base PROVE next[p] \in D /\ size[next[p]] < size[p]
    <3> DEFINE x == p[1]
               y == p[2]
               k == Mid(p)
    <3>1. x \in 1 .. m + 1 /\ y \in 0 .. m /\ x <= y /\ k \in x .. y /\ k \in 1 .. m
        BY <1>3, <1>4, <2>2
    <3>2. next[p] = <<k + 1, y>> \/ next[p] = <<x, k - 1>>
        OBVIOUS
    <3>3. size[p] = y - x + 1
        BY <3>1
    <3> HIDE DEF x, y, k, next
    <3>4. <<k + 1, y>> \in D /\ <<x, k - 1>> \in D
        BY <1>2, <3>1
    <3>5. size[<<k + 1, y>>] < y - x + 1
      <4>1. size[<<k + 1, y>>] = IF k + 1 <= y THEN y - (k + 1) + 1 ELSE 0
          BY <3>4
      <4> QED BY <3>1, <4>1
    <3>6. size[<<x, k - 1>>] < y - x + 1
      <4>1. size[<<x, k - 1>>] = IF x <= k - 1 THEN k - 1 - x + 1 ELSE 0
          BY <3>4
      <4> QED BY <3>1, <4>1
    <3> HIDE DEF D, size
    <3> QED BY <3>2, <3>3, <3>4, <3>5, <3>6
  <2> QED BY <2>1, <2>2
<1>6. Is(h)
  <2> DEFINE f == [p \in D |-> p]
  <2>1. PICK g : /\ g = [p \in D |-> g[p]]
                 /\ \A p \in D : g[p] = IF p \in base THEN res[p]
                                        ELSE IF p \in D THEN g[next[p]] ELSE f[p][g[next[p]]]
    <3> HIDE DEF D, size, base, res, next, f
    <3>1. RecursionHasResult(D, base, res, D, next, f)
        BY <1>5, Recursion
    <3> QED BY <3>1 DEF RecursionHasResult
  <2>2. \A p \in D : g[p] = IF p[1] > p[2] THEN S!NotFound
                            ELSE IF Here(p) THEN Mid(p)
                            ELSE IF Up(p) THEN g[<<Mid(p) + 1, p[2]>>]
                            ELSE g[<<p[1], Mid(p) - 1>>]
      BY <2>1
  <2>3. Is(g)
    <3> HIDE DEF D
    <3> QED BY <2>1, <2>2
  <2> QED BY <2>3 DEF h
<1>7. \A p \in D : h[p] = IF p \in base THEN res[p] ELSE h[next[p]]
    BY <1>6
<1> DEFINE Holds == {p \in D : \A i \in 1 .. m : Match(a, item, epsilon, i) => p[1] <= i /\ i <= p[2]}
           Out == {found \in 0 .. m : Finds(found, a, item, epsilon, m)}
<1>8. \A i \in 1 .. m : a[i] \in Int
    BY DEF Ints
<1>9. ASSUME NEW p \in Holds, p \notin base PROVE next[p] \in Holds /\ size[next[p]] < size[p]
  <2> DEFINE x == p[1]
             y == p[2]
             k == Mid(p)
  <2>1. /\ p \in D /\ x \in 1 .. m + 1 /\ y \in 0 .. m /\ x <= y /\ k \in x .. y /\ k \in 1 .. m
        /\ ~ Match(a, item, epsilon, k)
        /\ \A i \in 1 .. m : Match(a, item, epsilon, i) => x <= i /\ i <= y
      BY <1>3, <1>4, <1>9 DEF Here, Match
  <2>2. next[p] \in D /\ size[next[p]] < size[p]
      BY <1>5, <1>9, <2>1
  <2>3. \A i \in 1 .. m : (i < k => a[i] <= a[k]) /\ (i > k => a[k] <= a[i])
      BY <2>1 DEF Rising
  <2>4. \A i \in 1 .. m : Match(a, item, epsilon, i) <=> item - epsilon <= a[i] /\ a[i] <= item + epsilon
      BY <1>8, MatchFacts DEF Match
  <2>5. CASE a[k] < item
    <3>1. next[p] = <<k + 1, y>>
        BY <2>1, <2>5 DEF Up
    <3> HIDE DEF x, y, k, next, size, D
    <3>2. \A i \in 1 .. m : Match(a, item, epsilon, i) => k + 1 <= i
        BY <1>8, <2>1, <2>3, <2>4, <2>5
    <3> QED BY <2>1, <2>2, <3>1, <3>2
  <2>6. CASE ~ a[k] < item
    <3>1. next[p] = IF k = 1 THEN <<k + 1, y>> ELSE <<x, k - 1>>
        BY <2>1, <2>6 DEF Up
    <3> HIDE DEF x, y, k, next, size, D
    <3>2. \A i \in 1 .. m : Match(a, item, epsilon, i) => i <= k - 1
        BY <1>8, <2>1, <2>3, <2>4, <2>6
    <3> QED BY <2>1, <2>2, <3>1, <3>2
  <2> QED BY <2>5, <2>6
<1>10. ASSUME NEW p \in Holds, p \in base PROVE res[p] \in Out
  <2>1. p \in D /\ p[1] \in 1 .. m + 1 /\ p[2] \in 0 .. m
      BY <1>3, <1>10
  <2>2. CASE p[1] > p[2]
    <3>1. res[p] = S!NotFound
        BY <2>1, <2>2
    <3>2. \A i \in 1 .. m : ~ Match(a, item, epsilon, i)
        BY <1>10, <2>1, <2>2
    <3> QED BY <3>1, <3>2 DEF Finds, S!NotFound
  <2>3. CASE p[1] <= p[2]
    <3>1. res[p] = Mid(p) /\ Here(p) /\ Mid(p) \in 1 .. m
        BY <1>4, <1>10, <2>1, <2>3
    <3> QED BY <3>1 DEF Finds, S!NotFound, Here, Match
  <2> QED BY <2>1, <2>2, <2>3
<1>11. <<1, Len(a)>> \in Holds
    BY <1>2
<1>12. \A p \in Holds : h[p] \in Out
  <2>1. \A p \in Holds : p \in D /\ size[p] \in 0 .. m
      BY <1>5
  <2> HIDE DEF Holds, Out, base, res, next, size, D
  <2>2. MovesOn(Holds, Out, m, size, base, res, next, h)
      BY <1>7, <1>9, <1>10, <2>1 DEF MovesOn
  <2> QED BY <2>2, MovingOn
<1>13. h[<<1, Len(a)>>] \in Out
  <2> HIDE DEF Holds, Out
  <2> QED BY <1>11, <1>12
<1> QED BY <1>1, <1>13

-----------------------------------------------------------------------------
(* searchClosest. *)

(* The first of the elements nearest to the item. *)
FirstNearest(r, a, item, m) ==
    /\ r \in 1 .. m
    /\ \A j \in 1 .. m : Gap(a[r], item) <= Gap(a[j], item)
    /\ \A j \in 1 .. r - 1 : Gap(a[r], item) < Gap(a[j], item)

(* The distance of two integers. *)
LEMMA GapFacts ==
    ASSUME NEW x \in Int, NEW item \in Int
    PROVE  /\ Gap(x, item) \in Nat /\ Gap(x, item) = IF x < item THEN item - x ELSE x - item
BY DEF Gap

(* The first of the nearest, as the property has it. *)
LEMMA FirstNearestIsMin ==
    ASSUME NEW m \in Nat, NEW a \in Ints(m), NEW item \in Int, NEW r, FirstNearest(r, a, item, m)
    PROVE  r = Min({i \in DOMAIN a : \A j \in DOMAIN a : Gap(a[i], item) <= Gap(a[j], item)})
<1> DEFINE N == {i \in DOMAIN a : \A j \in DOMAIN a : Gap(a[i], item) <= Gap(a[j], item)}
<1>1. DOMAIN a = 1 .. m /\ \A i \in 1 .. m : Gap(a[i], item) \in Nat
    BY GapFacts DEF Ints
<1>2. r \in N
    BY <1>1 DEF FirstNearest
<1>3. \A i \in N : r <= i
  <2>1. ASSUME NEW i \in N, i < r PROVE FALSE
    <3>1. i \in 1 .. r - 1 /\ i \in 1 .. m /\ r \in 1 .. m
        BY <1>1, <1>2, <2>1
    <3>2. Gap(a[r], item) < Gap(a[i], item)
        BY <3>1 DEF FirstNearest
    <3>3. Gap(a[i], item) <= Gap(a[r], item)
        BY <1>1, <2>1, <3>1
    <3> QED BY <1>1, <3>1, <3>2, <3>3
  <2> QED BY <1>1, <1>2, <2>1
<1>4. N \in SUBSET Int
    BY <1>1
<1> HIDE DEF N
<1> DEFINE least == CHOOSE x \in N : \A y \in N : x <= y
<1>5. Min(N) = least
    BY Zenon DEF Min
<1>6. least \in N /\ \A y \in N : least <= y
    BY <1>2, <1>3
<1> HIDE DEF least
<1>7. r = Min(N)
    BY <1>2, <1>3, <1>4, <1>5, <1>6
<1> QED BY <1>7 DEF N

(* Of equal elements below the item the first is looked for once more. *)
LEMMA FirstOfEqual ==
    ASSUME NEW m \in Nat, NEW a \in Ints(m), Rising(a, m), NEW item \in Int, NEW k \in 1 .. m,
           a[k] < item, \A j \in 1 .. m : Gap(a[k], item) <= Gap(a[j], item)
    PROVE  FirstNearest(S!SearchLowerBound(a, a[k]), a, item, m)
<1> DEFINE q == S!SearchLowerBound(a, a[k])
<1>0. \A i \in 1 .. m : a[i] \in Int /\ Gap(a[i], item) = IF a[i] < item THEN item - a[i] ELSE a[i] - item
    BY GapFacts DEF Ints
<1>1. q \in 1 .. m + 1 /\ \A i \in 1 .. m : i < q <=> a[i] < a[k]
  <2> DEFINE x == a[k]
  <2>1. x \in Int
      BY <1>0
  <2> HIDE DEF x
  <2>2. Splits(S!SearchLowerBound(a, x), {i \in 1 .. m : a[i] < x}, m)
      BY <2>1, BoundsFound
  <2> QED BY <2>2 DEF Splits, x
<1> HIDE DEF q
<1>2. ~ k < q
    BY <1>0, <1>1
<1>3. q \in 1 .. m /\ ~ a[q] < a[k]
    BY <1>1, <1>2
<1>4. a[q] = a[k]
    BY <1>0, <1>2, <1>3 DEF Rising
<1>5. ASSUME NEW j \in 1 .. q - 1 PROVE Gap(a[q], item) < Gap(a[j], item)
  <2>1. j \in 1 .. m /\ a[j] < a[k] /\ a[j] \in Int /\ a[k] \in Int
      BY <1>0, <1>1, <1>3
  <2> QED BY <1>0, <1>3, <1>4, <2>1
<1>6. FirstNearest(q, a, item, m)
    BY <1>3, <1>4, <1>5 DEF FirstNearest
<1> QED BY <1>6 DEF q

(* The difference of two words is that of their unsigned forms, whether or   *)
(* not it fits a signed one.                                                 *)
LEMMA DistanceIsPlain ==
    ASSUME NEW x \in Q!Words, NEW y \in Q!Words, x <= y
    PROVE  S!Distance(x, y) = y - x
<1> DEFINE half == 2^(WordBits - 1)
           whole == 2^WordBits
<1>1. half \in Nat \ {0} /\ whole = 2 * half
    BY PowersAssumption
<1>2. x \in - half .. half - 1 /\ y \in - half .. half - 1
    BY DEF Q!Words, Q!IntMin, Q!IntMax
<1>3. S!Distance(x, y) = (y - x) % whole
    BY DEF S!Distance
<1> HIDE DEF half, whole
<1> DEFINE d == y - x
<1>4. d \in 0 .. whole - 1 /\ whole \in Nat \ {0} /\ d \in Nat /\ d = whole * 0 + d
    BY <1>1, <1>2
<1> HIDE DEF d
<1>5. d % whole = d
    BY <1>4, ModIs
<1> QED BY <1>3, <1>5 DEF d

(* searchClosest ends at the first of the nearest. *)
LEMMA ClosestFound ==
    ASSUME NEW m \in Nat \ {0}, NEW a \in Ints(m), Rising(a, m), \A i \in 1 .. m : a[i] \in Q!Words,
           NEW item \in Q!Words, Q!Words \in SUBSET Int
    PROVE  FirstNearest(S!SearchClosest(a, item), a, item, m)
<1> DEFINE pos == S!SearchLowerBound(a, item)
           Far(i) == Gap(a[i], item)
<1>0. /\ Len(a) = m /\ a # <<>> /\ item \in Int
      /\ \A i \in 1 .. m : a[i] \in Int
      /\ \A i \in 1 .. m : Far(i) = IF a[i] < item THEN item - a[i] ELSE a[i] - item
  <2>1. Len(a) = m /\ item \in Int /\ \A i \in 1 .. m : a[i] \in Int
      BY DEF Ints
  <2>2. a # <<>>
      BY <2>1
  <2> QED BY <2>1, <2>2, GapFacts
<1>1. pos \in 1 .. m + 1 /\ \A i \in 1 .. m : i < pos <=> a[i] < item
    BY <1>0, BoundsFound DEF Splits
<1>2. S!SearchClosest(a, item)
        = IF a = <<>> THEN S!NotFound
          ELSE IF pos = 1 THEN 1
          ELSE IF pos = Len(a) + 1 THEN S!SearchLowerBound(a, a[Len(a)])
          ELSE IF S!Distance(item, a[pos]) < S!Distance(a[pos - 1], item) THEN pos
          ELSE S!SearchLowerBound(a, a[pos - 1])
    BY DEF S!SearchClosest
<1> HIDE DEF pos
<1>3. \A i, j \in 1 .. m : i <= j => a[i] <= a[j]
  <2>1. \A i, j \in 1 .. m : i <= j => i < j \/ i = j
      OBVIOUS
  <2> QED BY <1>0, <2>1 DEF Rising
<1>4. CASE pos = 1
  <2>1. \A i \in 1 .. m : ~ a[i] < item /\ a[1] <= a[i]
      BY <1>1, <1>3, <1>4
  <2>2. \A i \in 1 .. m : Far(1) <= Far(i)
    <3> HIDE DEF Far
    <3>1. 1 \in 1 .. m
        OBVIOUS
    <3> QED BY <1>0, <2>1, <3>1
  <2>3. FirstNearest(1, a, item, m)
      BY <2>2 DEF FirstNearest
  <2> QED BY <1>0, <1>2, <1>4, <2>3
<1>5. CASE pos = m + 1
  <2>1. \A i \in 1 .. m : a[i] < item /\ a[i] <= a[m] /\ m \in 1 .. m
      BY <1>1, <1>3, <1>5
  <2>2. m \in 1 .. m
      OBVIOUS
  <2>3. \A i \in 1 .. m : Far(m) <= Far(i)
    <3> HIDE DEF Far
    <3> QED BY <1>0, <2>1, <2>2
  <2>4. FirstNearest(S!SearchLowerBound(a, a[m]), a, item, m)
      BY <1>0, <2>1, <2>2, <2>3, FirstOfEqual
  <2>5. S!SearchClosest(a, item) = S!SearchLowerBound(a, a[m])
      BY <1>0, <1>2, <1>5
  <2> QED BY <2>4, <2>5
<1>6. CASE pos # 1 /\ pos # m + 1
  <2> DEFINE k == pos - 1
  <2>1. k \in 1 .. m /\ pos \in 1 .. m /\ k + 1 = pos
      BY <1>1, <1>6
  <2>2. S!SearchClosest(a, item) = IF S!Distance(item, a[pos]) < S!Distance(a[k], item) THEN pos
                                   ELSE S!SearchLowerBound(a, a[k])
      BY <1>0, <1>2, <1>6
  <2> HIDE DEF k
  <2>3. a[k] < item /\ item <= a[pos]
      BY <1>0, <1>1, <2>1
  <2>4. S!Distance(item, a[pos]) = Far(pos) /\ S!Distance(a[k], item) = Far(k)
    <3>1. S!Distance(item, a[pos]) = a[pos] - item
        BY <2>1, <2>3, DistanceIsPlain
    <3>2. S!Distance(a[k], item) = item - a[k]
        BY <1>0, <2>1, <2>3, DistanceIsPlain
    <3> HIDE DEF Far
    <3> QED BY <1>0, <2>1, <2>3, <3>1, <3>2
  <2>5. \A i \in 1 .. m : /\ i < pos => a[i] <= a[k] /\ a[i] < item
                          /\ i >= pos => a[pos] <= a[i] /\ ~ a[i] < item
      BY <1>1, <1>3, <2>1
  <2>6. \A i \in 1 .. m : (i < pos => Far(k) <= Far(i)) /\ (i >= pos => Far(pos) <= Far(i))
    <3> HIDE DEF Far
    <3> QED BY <1>0, <2>1, <2>3, <2>5
  <2>7. Far(k) \in Int /\ Far(pos) \in Int /\ \A i \in 1 .. m : Far(i) \in Int
    <3> HIDE DEF Far
    <3> QED BY <1>0, <2>1
  <2>8. CASE Far(pos) < Far(k)
    <3>1. \A i \in 1 .. m : Far(pos) <= Far(i)
      <4> HIDE DEF Far
      <4> QED BY <2>1, <2>6, <2>7, <2>8
    <3>2. \A i \in 1 .. pos - 1 : Far(pos) < Far(i)
      <4>1. \A i \in 1 .. pos - 1 : i \in 1 .. m /\ i < pos
          BY <2>1
      <4> HIDE DEF Far
      <4> QED BY <2>6, <2>7, <2>8, <4>1
    <3>3. FirstNearest(pos, a, item, m)
        BY <2>1, <3>1, <3>2 DEF FirstNearest
    <3> QED BY <2>2, <2>4, <2>8, <3>3
  <2>9. CASE ~ Far(pos) < Far(k)
    <3>1. \A i \in 1 .. m : Far(k) <= Far(i)
      <4> HIDE DEF Far
      <4> QED BY <2>1, <2>6, <2>7, <2>9
    <3>2. FirstNearest(S!SearchLowerBound(a, a[k]), a, item, m)
        BY <1>0, <2>1, <2>3, <3>1, FirstOfEqual
    <3> QED BY <2>2, <2>4, <2>9, <3>2
  <2> QED BY <2>8, <2>9
<1> QED BY <1>4, <1>5, <1>6

-----------------------------------------------------------------------------
(* What the calls of a family are given. *)

ArgumentsTyped == family \in Families /\ data \in Seq(Elements[family])

(* Whatever the family, its argument is a sequence of its elements. *)
LEMMA ArgumentsKept == Spec => []ArgumentsTyped
<1>1. Init => ArgumentsTyped
  <2>1. <<>> \in Seq(Elements[family])
      OBVIOUS
  <2> QED BY <2>1 DEF Init, ArgumentsTyped
<1>2. ArgumentsTyped /\ [Next]_vars => ArgumentsTyped'
  <2>1. ASSUME ArgumentsTyped, NEW f \in Families, Grow(f) PROVE ArgumentsTyped'
    <3>1. PICK e \in Elements[f] : data' = Append(data, e)
        BY <2>1 DEF Grow
    <3>2. family = f /\ family' = family /\ data \in Seq(Elements[f]) /\ f \in Families
        BY <2>1 DEF Grow, ArgumentsTyped
    <3>3. data' \in Seq(Elements[f])
        BY <3>1, <3>2
    <3> QED BY <3>2, <3>3 DEF ArgumentsTyped
  <2>2. ASSUME ArgumentsTyped, UNCHANGED vars PROVE ArgumentsTyped'
      BY <2>2 DEF ArgumentsTyped, vars
  <2> QED BY <2>1, <2>2 DEF Next
<1> QED BY <1>1, <1>2, PTL DEF Spec

(* Words are integers. *)
LEMMA WordsAreIntegers == Q!Words \in SUBSET Int
<1> DEFINE half == 2^(WordBits - 1)
<1>1. half \in Nat \ {0}
    BY PowersAssumption
<1>2. Q!Words = (- half) .. half - 1
    BY DEF Q!Words, Q!IntMin, Q!IntMax
<1> HIDE DEF half
<1> QED BY <1>1, <1>2

-----------------------------------------------------------------------------
(* The properties the run checks, of every array of words. *)

Values == family = "values" /\ data \in Seq(Q!Words)

(* What the sorts are given. *)
LEMMA TaggedFacts ==
    ASSUME Values
    PROVE  /\ Len(data) \in Nat /\ DOMAIN data = 1 .. Len(data) /\ Tagged \in Arrays(Len(data))
           /\ Stable(Tagged) /\ \A x \in Items(Tagged) : x[1] \in Q!Words
<1> DEFINE m == Len(data)
<1>1. m \in Nat /\ DOMAIN data = 1 .. m /\ \A i \in 1 .. m : data[i] \in Q!Words
    BY DEF Values
<1>2. \A i \in 1 .. m : data[i] \in Int
    BY <1>1, WordsAreIntegers
<1> HIDE DEF m
<1>3. Tagged = [i \in 1 .. m |-> <<data[i], i>>]
    BY <1>1 DEF Tagged
<1>4. \A i \in 1 .. m : <<data[i], i>> \in Pairs
    BY <1>2 DEF Pairs
<1>5. Tagged \in Arrays(m)
    BY <1>3, <1>4 DEF Arrays
<1>6. Stable(Tagged)
    BY <1>3 DEF Stable
<1>7. \A x \in Items(Tagged) : x[1] \in Q!Words
    BY <1>1, <1>3 DEF Items
<1> QED BY <1>1, <1>5, <1>6, <1>7 DEF m

(* What a sort has to do is what the property asks for. *)
LEMMA SortsShow ==
    ASSUME NEW m \in Nat, NEW a \in Arrays(m), NEW b, Sorts(a, b, m)
    PROVE  /\ Ordered(b) /\ ToSet(b) = ToSet(a) /\ Len(b) = m
           /\ S!SortReverse(b) = Reverse(b)
<1>1. b \in Arrays(m) /\ Items(b) = Items(a) /\ \A p, q \in 1 .. m : p < q => Value(b, p) <= Value(b, q)
    BY DEF Sorts
<1>2. DOMAIN b = 1 .. m /\ Len(b) = m
    BY <1>1, ArrayFacts
<1>3. Ordered(b)
    BY <1>1, <1>2 DEF Ordered, Value
<1>4. ToSet(b) = ToSet(a)
    BY <1>1, Zenon DEF ToSet, Items
<1> QED BY <1>1, <1>2, <1>3, <1>4, ReverseReverses

(* The properties of the sorts. *)
LEMMA SortsRight ==
    ASSUME Values
    PROVE  SortsOrder /\ SortsStable
<1> DEFINE m == Len(data)
           t == Tagged
<1>1. m \in Nat /\ t \in Arrays(m) /\ Stable(t)
    BY TaggedFacts
<1>2. t = Tagged /\ m = Len(data)
    OBVIOUS
<1> HIDE DEF m, t
<1>3. /\ Sorts(t, S!SortSelection(t), m) /\ Sorts(t, S!SortBubble(t), m)
      /\ Sorts(t, S!SortInsertion(t), m) /\ Sorts(t, S!SortHeap(t), m)
      /\ Stable(S!SortBubble(t)) /\ Stable(S!SortInsertion(t))
    BY <1>1, SelectionSorts, BubbleSorts, InsertionSorts, HeapSorts
<1>4. ASSUME NEW b \in {S!SortSelection(t), S!SortBubble(t), S!SortInsertion(t), S!SortHeap(t)}
      PROVE  Ordered(b) /\ ToSet(b) = ToSet(t) /\ Len(b) = m /\ S!SortReverse(b) = Reverse(b)
  <2>1. Sorts(t, b, m)
      BY <1>3
  <2> QED BY <1>1, <2>1, SortsShow
<1>5. S!SortIsSorted(t) = Ordered(t)
    BY <1>1, IsSortedSays
<1>6. SortsOrder
    BY <1>2, <1>4, <1>5 DEF SortsOrder
<1>7. SortsStable
    BY <1>2, <1>3 DEF SortsStable
<1> QED BY <1>6, <1>7

(* What the searches are given. *)
LEMMA SortedFacts ==
    ASSUME Values
    PROVE  /\ Sorted \in Ints(Len(data)) /\ Rising(Sorted, Len(data))
           /\ \A i \in 1 .. Len(data) : Sorted[i] \in Q!Words
<1> DEFINE m == Len(data)
           t == Tagged
           b == S!SortInsertion(t)
<1>1. m \in Nat /\ t \in Arrays(m) /\ \A x \in Items(t) : x[1] \in Q!Words
    BY TaggedFacts
<1>2. t = Tagged /\ m = Len(data)
    OBVIOUS
<1> HIDE DEF m, t
<1>3. Sorts(t, b, m)
    BY <1>1, InsertionSorts
<1>4. Sorted = [i \in DOMAIN b |-> b[i][1]]
    BY <1>2 DEF Sorted
<1> HIDE DEF b
<1>5. b \in Arrays(m) /\ Items(b) = Items(t) /\ \A p, q \in 1 .. m : p < q => Value(b, p) <= Value(b, q)
    BY <1>3 DEF Sorts
<1>6. DOMAIN b = 1 .. m /\ \A i \in 1 .. m : Value(b, i) \in Int
    BY <1>1, <1>5, ArrayFacts
<1>7. Sorted = [i \in 1 .. m |-> Value(b, i)]
    BY <1>4, <1>6 DEF Value
<1>8. \A i \in 1 .. m : Value(b, i) \in Q!Words
  <2>1. ASSUME NEW i \in 1 .. m PROVE b[i][1] \in Q!Words
    <3>1. b[i] \in Items(b)
        BY <1>6 DEF Items
    <3> QED BY <1>1, <1>5, <3>1
  <2> QED BY <2>1 DEF Value
<1>9. Sorted \in Ints(m)
    BY <1>6, <1>7 DEF Ints
<1>10. Rising(Sorted, m)
    BY <1>5, <1>7 DEF Rising
<1>11. \A i \in 1 .. m : Sorted[i] \in Q!Words
    BY <1>7, <1>8
<1> QED BY <1>2, <1>9, <1>10, <1>11

(* The property of searchLinear, searchBinary and the two bounds. *)
LEMMA SearchesRight ==
    ASSUME Values
    PROVE  SearchesAgree
<1> DEFINE m == Len(data)
           a == Sorted
<1>1. m \in Nat /\ a \in Ints(m) /\ Rising(a, m)
    BY TaggedFacts, SortedFacts
<1>2. a = Sorted
    OBVIOUS
<1> HIDE DEF m, a
<1>3. DOMAIN a = 1 .. m /\ \A i \in 1 .. m : a[i] \in Int
    BY <1>1 DEF Ints
<1>4. ASSUME NEW item \in Q!Words, NEW epsilon \in 0 .. 2
      PROVE  LET found == S!SearchBinary(a, item, epsilon)
             IN  /\ (found = S!NotFound) = (S!SearchLinear(a, item, epsilon) = S!NotFound)
                 /\ found # S!NotFound => Gap(a[found], item) <= epsilon
  <2> DEFINE found == S!SearchBinary(a, item, epsilon)
  <2>1. item \in Int /\ epsilon \in Nat
      BY WordsAreIntegers
  <2>2. Finds(found, a, item, epsilon, m)
    <3>1. CASE a = <<>>
      <4>1. found = S!NotFound
          BY <3>1 DEF S!SearchBinary
      <4>2. Len(a) = m /\ Len(a) = 0
          BY <1>1, <3>1 DEF Ints
      <4> HIDE DEF found
      <4> QED BY <1>1, <4>1, <4>2 DEF Finds
    <3>2. CASE a # <<>>
      <4>1. found = S!BinaryWithin(a, item, epsilon)
          BY <3>2 DEF S!SearchBinary
      <4> HIDE DEF found
      <4> QED BY <1>1, <2>1, <4>1, BinaryFinds
    <3> QED BY <3>1, <3>2
  <2> HIDE DEF found
  <2>3. found = S!NotFound <=> \A i \in 1 .. m : ~ Match(a, item, epsilon, i)
      BY <2>2 DEF Finds
  <2>4. S!SearchLinear(a, item, epsilon) = S!NotFound <=> \A i \in 1 .. m : ~ Match(a, item, epsilon, i)
      BY <1>1, <2>1, LinearFinds
  <2>5. ASSUME found # S!NotFound PROVE Gap(a[found], item) <= epsilon
    <3>1. found \in 1 .. m /\ Match(a, item, epsilon, found)
        BY <2>2, <2>5 DEF Finds
    <3>2. a[found] \in Int
        BY <1>3, <3>1
    <3> QED BY <2>1, <3>1, <3>2, MatchFacts DEF Match
  <2>6. (found = S!NotFound) = (S!SearchLinear(a, item, epsilon) = S!NotFound)
      BY <2>3, <2>4
  <2> QED BY <2>5, <2>6 DEF found
<1>5. ASSUME NEW item \in Q!Words
      PROVE  /\ {i \in DOMAIN a : a[i] = item}
                  = S!SearchLowerBound(a, item) .. S!SearchUpperBound(a, item) - 1
             /\ \A i \in DOMAIN a : i < S!SearchLowerBound(a, item) <=> a[i] < item
  <2> DEFINE low == S!SearchLowerBound(a, item)
             high == S!SearchUpperBound(a, item)
  <2>1. item \in Int
      BY WordsAreIntegers
  <2>2. /\ Splits(low, {i \in 1 .. m : a[i] < item}, m)
        /\ Splits(high, {i \in 1 .. m : a[i] <= item}, m)
      BY <1>1, <2>1, BoundsFound
  <2> HIDE DEF low, high
  <2>3. /\ low \in 1 .. m + 1 /\ high \in 1 .. m + 1
        /\ \A i \in 1 .. m : (i < low <=> a[i] < item) /\ (i < high <=> a[i] <= item)
      BY <2>2 DEF Splits
  <2>4. {i \in DOMAIN a : a[i] = item} = low .. high - 1
    <3>1. ASSUME NEW i \in 1 .. m, a[i] = item PROVE i \in low .. high - 1
        BY <1>3, <2>1, <2>3, <3>1
    <3>2. ASSUME NEW i \in low .. high - 1 PROVE i \in 1 .. m /\ a[i] = item
      <4>0. low \in 1 .. m + 1 /\ high \in 1 .. m + 1
          BY <2>3
      <4>1. i \in 1 .. m /\ ~ i < low /\ i < high
          BY <1>1, <4>0
      <4> QED BY <1>3, <2>1, <2>3, <4>1
    <3> QED BY <1>3, <3>1, <3>2
  <2> QED BY <1>3, <2>3, <2>4 DEF low, high
<1> QED BY <1>2, <1>4, <1>5 DEF SearchesAgree

(* The property of searchClosest. *)
LEMMA ClosestRight ==
    ASSUME Values
    PROVE  ClosestIsFirstNearest
<1> SUFFICES ASSUME data # <<>> PROVE ClosestIsFirstNearest
    BY DEF ClosestIsFirstNearest
<1> DEFINE m == Len(data)
           a == Sorted
<1>1. m \in Nat \ {0} /\ a \in Ints(m) /\ Rising(a, m) /\ \A i \in 1 .. m : a[i] \in Q!Words
  <2>1. m # 0
      BY DEF Values
  <2> QED BY <2>1, TaggedFacts, SortedFacts
<1>2. a = Sorted
    OBVIOUS
<1> HIDE DEF m, a
<1>3. ASSUME NEW item \in Q!Words
      PROVE  S!SearchClosest(a, item)
               = Min({i \in DOMAIN a : \A j \in DOMAIN a : Gap(a[i], item) <= Gap(a[j], item)})
  <2>1. item \in Int
      BY WordsAreIntegers
  <2>2. FirstNearest(S!SearchClosest(a, item), a, item, m)
      BY <1>1, WordsAreIntegers, ClosestFound
  <2> QED BY <1>1, <2>1, <2>2, FirstNearestIsMin
<1> QED BY <1>2, <1>3 DEF ClosestIsFirstNearest

(* The four sorts order every array of every length and lose nothing of it,  *)
(* the two promised to be stable are, and sortReverse and sortIsSorted are   *)
(* right; in what they leave every search finds what there is to find, at    *)
(* the ends, in ties and across the range of a word of any width.            *)
THEOREM SortsAndSearchesRight == Spec => []OrderedAndFound
<1>1. ArgumentsTyped => OrderedAndFound
  <2>1. CASE family # "values"
      BY <2>1 DEF OrderedAndFound, SortsOrder, SortsStable, SearchesAgree, ClosestIsFirstNearest
  <2>2. ASSUME family = "values", ArgumentsTyped PROVE OrderedAndFound
    <3>1. data \in Seq(Q!Words)
        BY <2>2, ValuesAssumption DEF ArgumentsTyped
    <3>2. Values
        BY <2>2, <3>1 DEF Values
    <3> QED BY <3>2, SortsRight, SearchesRight, ClosestRight DEF OrderedAndFound
  <2> QED BY <2>1, <2>2
<1> QED BY <1>1, ArgumentsKept, PTL

-----------------------------------------------------------------------------
(* cobs.c.  A place p of a frame f and a place n of its payload q belong     *)
(* together (set M) if a reader that is about to take the code byte at p has *)
(* written n bytes of the payload.                                           *)

Bytes == 0 .. Base - 1

(* How many bytes of the payload the run at p stands for.                    *)
Gain(f, p) == f[p] - 1 + (IF C!DelimiterAfter(f, f[p], p + f[p]) THEN 1 ELSE 0)

ReadsRun(M, f, q, p, n) ==
    /\ f[p] \in 1 .. C!RunMax + 1 /\ p + f[p] <= Len(f) + 1
    /\ \A k \in 1 .. f[p] - 1 : q[n + k] = f[p + k]
    /\ C!DelimiterAfter(f, f[p], p + f[p]) => q[n + f[p]] = 0
    /\ <<p + f[p], n + Gain(f, p)>> \in M

Reads(M, f, q) ==
    /\ M \subseteq (1 .. Len(f) + 1) \X (0 .. Len(q)) /\ <<1, 0>> \in M
    /\ \A p \in 1 .. Len(f) + 1, n \in 0 .. Len(q) :
         <<p, n>> \in M => IF p = Len(f) + 1 THEN n = Len(q) ELSE ReadsRun(M, f, q, p, n)

LEMMA RunFacts == C!RunMax \in Nat \ {0} /\ C!RunMax + 1 = Base - 1 /\ Base \in Nat /\ 0 \in Bytes
BY AlgorithmsAssumption DEF C!RunMax, Bytes

LEMMA GainFacts ==
    ASSUME NEW f, NEW p, f[p] \in Int, f[p] >= 1
    PROVE  /\ Gain(f, p) \in {f[p] - 1, f[p]} /\ Gain(f, p) \in Nat
           /\ C!DelimiterAfter(f, f[p], p + f[p]) => Gain(f, p) = f[p]
           /\ ~ C!DelimiterAfter(f, f[p], p + f[p]) => Gain(f, p) = f[p] - 1
BY DEF Gain

(* The validating pass, as the equation its recursion solves.                *)
Bad(f, p) == f[p] = 0 \/ (p + f[p]) - 1 > Len(f)

ValidateEquation(f, v) ==
    \A p \in 1 .. Len(f) + 1, n \in Nat :
        v[<<p, n>>] = IF p > Len(f) THEN n
                      ELSE IF Bad(f, p) THEN -1 ELSE v[<<p + f[p], n + Gain(f, p)>>]

LEMMA ValidateIs ==
    ASSUME NEW f \in Seq(Bytes)
    PROVE  \E v : C!Validate(f) = v[<<1, 0>>] /\ ValidateEquation(f, v)
<1> DEFINE L == Len(f)
           D == (1 .. Len(f) + 1) \X Nat
           base == {p \in D : p[1] > Len(f) \/ Bad(f, p[1])}
           res == [p \in D |-> IF p[1] > Len(f) THEN p[2] ELSE -1]
           next == [p \in D |-> <<p[1] + f[p[1]], p[2] + Gain(f, p[1])>>]
           size == [p \in D |-> Len(f) + 1 - p[1]]
           Is(g) == g = [p \in D |->
                IF p[1] > Len(f) THEN p[2]
                ELSE IF f[p[1]] = 0 \/ (p[1] + f[p[1]]) - 1 > Len(f) THEN -1
                ELSE g[<<p[1] + f[p[1]],
                         p[2] + f[p[1]] - 1
                           + (IF C!DelimiterAfter(f, f[p[1]], p[1] + f[p[1]]) THEN 1 ELSE 0)>>]]
           h == CHOOSE g : Is(g)
<1>1. C!Validate(f) = h[<<1, 0>>]
    BY Zenon DEF C!Validate
<1> HIDE DEF h
<1>2. Len(f) \in Nat /\ \A p \in 1 .. Len(f) : f[p] \in 0 .. Base - 1 /\ f[p] \in Nat
    BY RunFacts DEF Bytes
<1>3. ASSUME NEW p \in D, p \notin base
      PROVE  next[p] \in D /\ size[next[p]] < size[p]
  <2>1. p[1] \in 1 .. Len(f) /\ p[2] \in Nat /\ ~Bad(f, p[1])
      BY <1>2, <1>3
  <2>2. f[p[1]] \in Nat /\ f[p[1]] >= 1 /\ p[1] + f[p[1]] \in 1 .. Len(f) + 1
      BY <1>2, <2>1 DEF Bad
  <2>3. Gain(f, p[1]) \in Nat
      BY <2>2, GainFacts
  <2>4. next[p] = <<p[1] + f[p[1]], p[2] + Gain(f, p[1])>> /\ next[p] \in D
      BY <2>1, <2>2, <2>3
  <2>5. size[next[p]] = Len(f) + 1 - (p[1] + f[p[1]])
      BY <2>4
  <2>6. size[p] = Len(f) + 1 - p[1]
      OBVIOUS
  <2>7. Len(f) + 1 - (p[1] + f[p[1]]) < Len(f) + 1 - p[1]
    <3>1. PICK x \in Nat, c \in Nat \ {0}, l \in Nat : x = p[1] /\ c = f[p[1]] /\ l = Len(f)
        BY <1>2, <2>1, <2>2
    <3>2. l + 1 - (x + c) < l + 1 - x
        OBVIOUS
    <3> QED BY <3>1, <3>2
  <2> QED BY <2>4, <2>5, <2>6, <2>7
<1>4. size \in [D -> 0 .. Len(f)]
    BY <1>2
<1>5. PICK g : /\ g = [p \in D |-> g[p]]
               /\ \A p \in D : g[p] = IF p \in base THEN res[p] ELSE g[next[p]]
  <2> DEFINE e == [p \in D |-> p]
  <2>1. \E g : /\ g = [p \in D |-> g[p]]
               /\ \A p \in D : g[p] = IF p \in base THEN res[p]
                                      ELSE IF p \in D THEN g[next[p]] ELSE e[p][g[next[p]]]
    <3> HIDE DEF D, size, base, res, next, e
    <3>1. RecursionHasResult(D, base, res, D, next, e)
        BY <1>2, <1>3, <1>4, Recursion
    <3> QED BY <3>1 DEF RecursionHasResult
  <2> HIDE DEF size, base, res, next, e
  <2> QED BY <2>1
<1>6. ASSUME NEW p \in D
      PROVE  /\ next[p] = <<p[1] + f[p[1]],
                            p[2] + f[p[1]] - 1
                              + (IF C!DelimiterAfter(f, f[p[1]], p[1] + f[p[1]]) THEN 1 ELSE 0)>>
                \/ p \in base
             /\ p \in base <=> p[1] > Len(f) \/ f[p[1]] = 0 \/ (p[1] + f[p[1]]) - 1 > Len(f)
  <2>1. p \in base <=> p[1] > Len(f) \/ f[p[1]] = 0 \/ (p[1] + f[p[1]]) - 1 > Len(f)
      BY DEF Bad
  <2>2. CASE p \notin base
    <3>1. p[1] \in 1 .. Len(f) /\ p[2] \in Nat
        BY <1>2, <2>2
    <3>2. f[p[1]] \in Nat
        BY <1>2, <3>1
    <3> QED BY <2>1, <3>1, <3>2 DEF Gain
  <2> QED BY <2>1, <2>2
<1>7. Is(g)
  <2>1. ASSUME NEW p \in D
        PROVE  g[p] = IF p[1] > Len(f) THEN p[2]
                ELSE IF f[p[1]] = 0 \/ (p[1] + f[p[1]]) - 1 > Len(f) THEN -1
                ELSE g[<<p[1] + f[p[1]],
                         p[2] + f[p[1]] - 1
                           + (IF C!DelimiterAfter(f, f[p[1]], p[1] + f[p[1]]) THEN 1 ELSE 0)>>]
    <3>1. res[p] = IF p[1] > Len(f) THEN p[2] ELSE -1
        OBVIOUS
    <3> HIDE DEF base, res, next, D
    <3> QED BY <1>5, <1>6, <3>1
  <2> HIDE DEF base, res, next, D
  <2> QED BY <1>5, <2>1
<1>8. Is(h)
  <2> HIDE DEF Is
  <2> QED BY <1>7 DEF h
<1>9. ASSUME NEW p \in 1 .. Len(f) + 1, NEW n \in Nat
      PROVE  h[<<p, n>>] = IF p > Len(f) THEN n
                           ELSE IF Bad(f, p) THEN -1 ELSE h[<<p + f[p], n + Gain(f, p)>>]
  <2>1. <<p, n>> \in D /\ <<p, n>>[1] = p /\ <<p, n>>[2] = n
      OBVIOUS
  <2>2. h[<<p, n>>] = IF p > Len(f) THEN n
                ELSE IF f[p] = 0 \/ (p + f[p]) - 1 > Len(f) THEN -1
                ELSE h[<<p + f[p],
                         n + f[p] - 1 + (IF C!DelimiterAfter(f, f[p], p + f[p]) THEN 1 ELSE 0)>>]
    <3>1. \A x \in D :
            h[x] = IF x[1] > Len(f) THEN x[2]
                ELSE IF f[x[1]] = 0 \/ (x[1] + f[x[1]]) - 1 > Len(f) THEN -1
                ELSE h[<<x[1] + f[x[1]],
                         x[2] + f[x[1]] - 1
                           + (IF C!DelimiterAfter(f, f[x[1]], x[1] + f[x[1]]) THEN 1 ELSE 0)>>]
      <4> HIDE DEF D
      <4> QED BY <1>8, Zenon
    <3> HIDE DEF D
    <3> QED BY <2>1, <3>1
  <2>3. CASE p > Len(f) \/ Bad(f, p)
      BY <2>2, <2>3 DEF Bad
  <2>4. CASE ~(p > Len(f) \/ Bad(f, p))
    <3>1. p \in 1 .. Len(f)
        BY <1>2, <2>4
    <3>2. f[p] \in Nat
        BY <1>2, <3>1
    <3>3. n + Gain(f, p) = n + f[p] - 1 + (IF C!DelimiterAfter(f, f[p], p + f[p]) THEN 1 ELSE 0)
        BY <3>2 DEF Gain
    <3> QED BY <2>2, <2>4, <3>3 DEF Bad
  <2> QED BY <2>3, <2>4
<1> QED BY <1>1, <1>9 DEF ValidateEquation

(* Where the elements of a joined sequence come from.                        *)
LEMMA Joined ==
    ASSUME NEW Elems, NEW a \in Seq(Elems), NEW b \in Seq(Elems)
    PROVE  /\ a \o b \in Seq(Elems) /\ Len(a \o b) = Len(a) + Len(b)
           /\ \A i \in 1 .. Len(a) : (a \o b)[i] = a[i]
           /\ \A i \in 1 .. Len(b) : (a \o b)[Len(a) + i] = b[i]
OBVIOUS

LEMMA JoinedAfter ==
    ASSUME NEW Elems, NEW a \in Seq(Elems), NEW b \in Seq(Elems), NEW i \in 1 .. Len(b)
    PROVE  (a \o b)[Len(a) + i] = b[i]
OBVIOUS

(* What is left of a sequence after its first n elements.                    *)
RestOf(q, n) == [i \in 1 .. Len(q) - n |-> q[n + i]]

LEMMA RestFacts ==
    ASSUME NEW Elems, NEW q \in Seq(Elems), NEW n \in 0 .. Len(q)
    PROVE  /\ RestOf(q, n) \in Seq(Elems) /\ Len(RestOf(q, n)) = Len(q) - n
           /\ \A i \in 1 .. Len(q) - n : RestOf(q, n)[i] = q[n + i]
           /\ RestOf(q, 0) = q /\ RestOf(q, Len(q)) = <<>>
           /\ RestOf(q, n) = <<>> => n = Len(q)
<1>1. Len(q) \in Nat /\ Len(q) - n \in Nat
    OBVIOUS
<1>2. RestOf(q, n) \in Seq(Elems) /\ Len(RestOf(q, n)) = Len(q) - n
      /\ \A i \in 1 .. Len(q) - n : RestOf(q, n)[i] = q[n + i]
    BY <1>1 DEF RestOf
<1>3. RestOf(q, 0) = q
    BY <1>1 DEF RestOf
<1>4. RestOf(q, Len(q)) = <<>>
    BY <1>1 DEF RestOf
<1>5. ASSUME RestOf(q, n) = <<>> PROVE n = Len(q)
  <2>1. Len(RestOf(q, n)) = 0
      BY <1>5
  <2> QED BY <1>1, <1>2, <2>1
<1> QED BY <1>2, <1>3, <1>4, <1>5

(* A sequence is what is left of q exactly when it goes on as q does.        *)
LEMMA RestJoins ==
    ASSUME NEW Elems, NEW q \in Seq(Elems), NEW n \in 0 .. Len(q),
           NEW a \in Seq(Elems), NEW s \in Seq(Elems),
           n + Len(a) <= Len(q), \A i \in 1 .. Len(a) : a[i] = q[n + i], s = RestOf(q, n + Len(a))
    PROVE  a \o s = RestOf(q, n)
<1>0. /\ Len(q) \in Nat /\ Len(a) \in Nat /\ Len(s) \in Nat /\ a \o s \in Seq(Elems)
      /\ Len(a \o s) = Len(a) + Len(s)
      /\ \A i \in 1 .. Len(a) : (a \o s)[i] = a[i]
      /\ \A i \in 1 .. Len(s) : (a \o s)[Len(a) + i] = s[i]
    BY Joined
<1>1. n + Len(a) \in 0 .. Len(q)
    BY <1>0
<1>2. /\ Len(s) = Len(q) - (n + Len(a))
      /\ \A i \in 1 .. Len(q) - (n + Len(a)) : s[i] = q[(n + Len(a)) + i]
  <2>1. PICK m \in 0 .. Len(q) : m = n + Len(a) /\ s = RestOf(q, m)
      BY <1>1
  <2>2. Len(RestOf(q, m)) = Len(q) - m /\ \A i \in 1 .. Len(q) - m : RestOf(q, m)[i] = q[m + i]
      BY RestFacts
  <2> QED BY <2>1, <2>2
<1>3. /\ RestOf(q, n) \in Seq(Elems) /\ Len(RestOf(q, n)) = Len(q) - n
      /\ \A i \in 1 .. Len(q) - n : RestOf(q, n)[i] = q[n + i]
    BY RestFacts
<1>4. Len(a \o s) = Len(RestOf(q, n))
    BY <1>0, <1>2, <1>3
<1>5. ASSUME NEW i \in 1 .. Len(q) - n PROVE (a \o s)[i] = q[n + i]
  <2>1. CASE i <= Len(a)
      BY <1>0, <2>1
  <2>2. CASE i > Len(a)
    <3>1. PICK j \in 1 .. Len(s) : i = Len(a) + j /\ n + i = (n + Len(a)) + j
      <4>1. i - Len(a) \in 1 .. Len(s) /\ i = Len(a) + (i - Len(a))
            /\ n + i = (n + Len(a)) + (i - Len(a))
          BY <1>0, <1>2, <2>2
      <4> QED BY <4>1
    <3>2. s[j] = q[n + i]
        BY <1>2, <3>1
    <3> QED BY <1>0, <3>1, <3>2
  <2>3. i <= Len(a) \/ i > Len(a)
      BY <1>0
  <2> QED BY <2>1, <2>2, <2>3, Zenon
<1>6. \A i \in 1 .. Len(a \o s) : (a \o s)[i] = RestOf(q, n)[i]
    BY <1>3, <1>4, <1>5
<1> QED BY <1>0, <1>3, <1>4, <1>6, SeqEqual

LEMMA RestBegins ==
    ASSUME NEW Elems, NEW q \in Seq(Elems), NEW n \in 0 .. Len(q),
           NEW a \in Seq(Elems), NEW s \in Seq(Elems), a \o s = RestOf(q, n)
    PROVE  \A i \in 1 .. Len(a) : a[i] = q[n + i]
<1>0. /\ Len(q) \in Nat /\ Len(a) \in Nat /\ Len(s) \in Nat /\ a \o s \in Seq(Elems)
      /\ Len(a \o s) = Len(a) + Len(s)
      /\ \A i \in 1 .. Len(a) : (a \o s)[i] = a[i]
      /\ \A i \in 1 .. Len(s) : (a \o s)[Len(a) + i] = s[i]
  <2>1. Len(q) \in Nat /\ Len(a) \in Nat /\ Len(s) \in Nat
      OBVIOUS
  <2>2. a \o s \in Seq(Elems) /\ Len(a \o s) = Len(a) + Len(s)
      BY Joined, Zenon
  <2>3. \A i \in 1 .. Len(a) : (a \o s)[i] = a[i]
      BY Joined, Zenon
  <2>4. \A i \in 1 .. Len(s) : (a \o s)[Len(a) + i] = s[i]
      BY JoinedAfter, Zenon
  <2> QED BY <2>1, <2>2, <2>3, <2>4
<1>1. Len(a) + Len(s) = Len(q) - n /\ \A i \in 1 .. Len(q) - n : (a \o s)[i] = q[n + i]
    BY <1>0, RestFacts
<1> QED BY <1>0, <1>1

LEMMA RestSplits ==
    ASSUME NEW Elems, NEW q \in Seq(Elems), NEW n \in 0 .. Len(q),
           NEW a \in Seq(Elems), NEW s \in Seq(Elems), a \o s = RestOf(q, n)
    PROVE  s = RestOf(q, n + Len(a)) /\ n + Len(a) <= Len(q)
<1>0. /\ Len(q) \in Nat /\ Len(a) \in Nat /\ Len(s) \in Nat /\ a \o s \in Seq(Elems)
      /\ Len(a \o s) = Len(a) + Len(s)
      /\ \A i \in 1 .. Len(a) : (a \o s)[i] = a[i]
      /\ \A i \in 1 .. Len(s) : (a \o s)[Len(a) + i] = s[i]
  <2>1. Len(q) \in Nat /\ Len(a) \in Nat /\ Len(s) \in Nat
      OBVIOUS
  <2>2. a \o s \in Seq(Elems) /\ Len(a \o s) = Len(a) + Len(s)
      BY Joined, Zenon
  <2>3. \A i \in 1 .. Len(a) : (a \o s)[i] = a[i]
      BY Joined, Zenon
  <2>4. \A i \in 1 .. Len(s) : (a \o s)[Len(a) + i] = s[i]
      BY JoinedAfter, Zenon
  <2> QED BY <2>1, <2>2, <2>3, <2>4
<1>1. Len(a) + Len(s) = Len(q) - n /\ \A i \in 1 .. Len(q) - n : (a \o s)[i] = q[n + i]
    BY <1>0, RestFacts
<1>2. n + Len(a) \in 0 .. Len(q)
    BY <1>0, <1>1
<1>3. /\ RestOf(q, n + Len(a)) \in Seq(Elems) /\ Len(RestOf(q, n + Len(a))) = Len(q) - (n + Len(a))
      /\ \A i \in 1 .. Len(q) - (n + Len(a)) : RestOf(q, n + Len(a))[i] = q[(n + Len(a)) + i]
    BY <1>2, RestFacts
<1>4. Len(s) = Len(RestOf(q, n + Len(a)))
    BY <1>0, <1>1, <1>3
<1>5. ASSUME NEW i \in 1 .. Len(s) PROVE s[i] = RestOf(q, n + Len(a))[i]
  <2>1. Len(a) + i \in 1 .. Len(q) - n /\ i \in 1 .. Len(q) - (n + Len(a))
      BY <1>0, <1>1
  <2>2. (a \o s)[Len(a) + i] = q[n + (Len(a) + i)] /\ n + (Len(a) + i) = (n + Len(a)) + i
      BY <1>0, <1>1, <2>1
  <2> QED BY <1>0, <1>3, <2>1, <2>2
<1>6. s = RestOf(q, n + Len(a))
    BY <1>3, <1>4, <1>5, SeqEqual
<1> QED BY <1>2, <1>6

(* The writing pass, as the equation its recursion solves.                   *)
Piece(f, p) ==
    SubSeq(f, p + 1, (p + f[p]) - 1)
        \o (IF C!DelimiterAfter(f, f[p], p + f[p]) THEN <<0>> ELSE <<>>)

Around(f) == {f[i] : i \in Nat} \cup {0}

FillEquation(f, w) ==
    \A p \in 1 .. Len(f) + 1 :
        /\ w[p] \in Seq(Around(f))
        /\ p > Len(f) => w[p] = <<>>
        /\ p <= Len(f) /\ ~Bad(f, p) => w[p] = Piece(f, p) \o w[p + f[p]]

LEMMA PieceFacts ==
    ASSUME NEW f \in Seq(Bytes), NEW p \in 1 .. Len(f), ~Bad(f, p)
    PROVE  /\ f[p] \in Nat \ {0} /\ p + f[p] \in 2 .. Len(f) + 1
           /\ Piece(f, p) \in Seq(Around(f)) /\ Len(Piece(f, p)) = Gain(f, p)
           /\ \A i \in 1 .. f[p] - 1 : Piece(f, p)[i] = f[p + i]
           /\ C!DelimiterAfter(f, f[p], p + f[p]) => Piece(f, p)[f[p]] = 0
<1>1. Len(f) \in Nat /\ f[p] \in Nat
    BY RunFacts DEF Bytes
<1>2. PICK c \in Nat \ {0} : c = f[p] /\ p + c <= Len(f) + 1
    BY <1>1 DEF Bad
<1> DEFINE run == SubSeq(f, p + 1, (p + c) - 1)
<1>3. /\ run \in Seq(Around(f)) /\ Len(run) = c - 1
      /\ \A i \in 1 .. c - 1 : run[i] = f[p + i]
  <2>1. \A i \in p + 1 .. (p + c) - 1 : f[i] \in Around(f)
      BY <1>1, <1>2 DEF Around
  <2>2. /\ run \in Seq(Around(f))
        /\ Len(run) = IF p + 1 <= (p + c) - 1 THEN ((p + c) - 1) - (p + 1) + 1 ELSE 0
        /\ \A i \in 1 .. ((p + c) - 1) - (p + 1) + 1 : run[i] = f[(p + 1) + i - 1]
    <3>1. PICK m \in Int, k \in Int : m = p + 1 /\ k = (p + c) - 1
        BY <1>2
    <3> HIDE DEF Around
    <3>2. \A i \in m .. k : f[i] \in Around(f)
        BY <2>1, <3>1
    <3>3. /\ SubSeq(f, m, k) \in Seq(Around(f))
          /\ Len(SubSeq(f, m, k)) = IF m <= k THEN k - m + 1 ELSE 0
          /\ \A i \in 1 .. k - m + 1 : SubSeq(f, m, k)[i] = f[m + i - 1]
        BY <3>2, SubSeqProperties
    <3> QED BY <3>1, <3>3, Zenon
  <2>3. ((p + c) - 1) - (p + 1) + 1 = c - 1 /\ (p + 1 <= (p + c) - 1 <=> c - 1 # 0)
      BY <1>2
  <2>4. \A i \in 1 .. c - 1 : (p + 1) + i - 1 = p + i
      BY <1>2
  <2> HIDE DEF run
  <2>5. Len(run) = c - 1
      BY <1>2, <2>2, <2>3
  <2>6. \A i \in 1 .. c - 1 : run[i] = f[p + i]
      BY <2>2, <2>3, <2>4
  <2> QED BY <2>2, <2>5, <2>6
<1> HIDE DEF run
<1> DEFINE last == IF C!DelimiterAfter(f, c, p + c) THEN <<0>> ELSE <<>>
<1>4. last \in Seq(Around(f)) /\ Len(last) = (IF C!DelimiterAfter(f, c, p + c) THEN 1 ELSE 0)
      /\ (C!DelimiterAfter(f, c, p + c) => last[1] = 0 /\ Len(last) = 1)
  <2>1. <<0>> \in Seq(Around(f)) /\ Len(<<0>>) = 1 /\ <<0>>[1] = 0 /\ <<>> \in Seq(Around(f)) /\ Len(<<>>) = 0
      BY DEF Around
  <2> QED BY <2>1
<1> HIDE DEF last
<1>5. Piece(f, p) = run \o last
    BY <1>2 DEF Piece, run, last
<1>6. /\ run \o last \in Seq(Around(f)) /\ Len(run \o last) = Len(run) + Len(last)
      /\ \A i \in 1 .. Len(run) : (run \o last)[i] = run[i]
      /\ \A i \in 1 .. Len(last) : (run \o last)[Len(run) + i] = last[i]
  <2>1. run \in Seq(Around(f)) /\ last \in Seq(Around(f))
      BY <1>3, <1>4
  <2> HIDE DEF Around
  <2> QED BY <2>1, Joined
<1>7. C!DelimiterAfter(f, c, p + c) => (run \o last)[c] = 0
  <2>1. SUFFICES ASSUME C!DelimiterAfter(f, c, p + c) PROVE (run \o last)[c] = 0
      OBVIOUS
  <2>2. Len(last) = 1 /\ last[1] = 0
      BY <1>4, <2>1, Zenon
  <2>3. 1 \in 1 .. Len(last) /\ Len(run) + 1 = c
      BY <1>2, <1>3, <2>2
  <2>4. (run \o last)[Len(run) + 1] = last[1]
      BY <1>6, <2>3
  <2> QED BY <2>2, <2>3, <2>4
<1>8. Len(run \o last) = Gain(f, p)
  <2>1. PICK d \in Nat : d = IF C!DelimiterAfter(f, c, p + c) THEN 1 ELSE 0
      OBVIOUS
  <2>2. Gain(f, p) = c - 1 + d
      BY <1>2, <2>1, Zenon DEF Gain
  <2>3. Len(last) = d
      BY <1>4, <2>1, Zenon
  <2>4. Len(run \o last) = Len(run) + Len(last) /\ Len(run) = c - 1
      BY <1>3, <1>6
  <2> QED BY <2>2, <2>3, <2>4
<1>9. \A i \in 1 .. f[p] - 1 : Piece(f, p)[i] = f[p + i]
    BY <1>2, <1>3, <1>5, <1>6
<1>10. C!DelimiterAfter(f, f[p], p + f[p]) => Piece(f, p)[f[p]] = 0
    BY <1>2, <1>5, <1>7
<1>11. f[p] \in Nat \ {0} /\ p + f[p] \in 2 .. Len(f) + 1
    BY <1>1, <1>2
<1>12. Piece(f, p) \in Seq(Around(f)) /\ Len(Piece(f, p)) = Gain(f, p)
    BY <1>5, <1>6, <1>8
<1> QED BY <1>9, <1>10, <1>11, <1>12

LEMMA FillIs ==
    ASSUME NEW f \in Seq(Bytes)
    PROVE  \E w : C!Fill(f) = w[1] /\ FillEquation(f, w)
<1> DEFINE D == 1 .. Len(f) + Base
           Next_(p) == p + (IF f[p] = 0 THEN 1 ELSE f[p])
           Part(p) == SubSeq(f, p + 1, Next_(p) - 1)
                        \o (IF C!DelimiterAfter(f, f[p], Next_(p)) THEN <<C!Delimiter>> ELSE <<>>)
           base == {p \in D : p > Len(f)}
           res == [p \in D |-> <<>>]
           next == [p \in D |-> Next_(p)]
           size == [p \in D |-> Len(f) + Base - p]
           Out == Seq(Around(f))
           e == [p \in D |-> [s \in Out |-> Part(p) \o s]]
           Is(g) == g = [p \in D |-> IF p > Len(f) THEN <<>> ELSE Part(p) \o g[Next_(p)]]
           h == CHOOSE g : Is(g)
<1>1. C!Fill(f) = h[1]
    BY Zenon DEF C!Fill
<1> HIDE DEF h
<1>2. Len(f) \in Nat /\ Base \in Nat /\ Base > 2 /\ \A p \in 1 .. Len(f) : f[p] \in Nat /\ f[p] < Base
  <2>1. Len(f) \in Nat /\ \A p \in 1 .. Len(f) : f[p] \in 0 .. Base - 1
      BY RunFacts DEF Bytes
  <2>2. Base \in Nat /\ Base > 2
      BY RunFacts
  <2> QED BY <2>1, <2>2
<1>3. ASSUME NEW p \in D, p \notin base
      PROVE  /\ Next_(p) \in D /\ p < Next_(p) /\ Part(p) \in Out
             /\ f[p] # 0 => Part(p) = Piece(f, p) /\ Next_(p) = p + f[p]
  <2>1. p \in 1 .. Len(f) /\ f[p] \in Nat /\ f[p] < Base
      BY <1>2, <1>3
  <2>2. Next_(p) \in D /\ p < Next_(p)
      BY <1>2, <2>1
  <2>3. Part(p) \in Out
    <3>1. PICK m \in Nat : Next_(p) = m
        BY <2>1
    <3> HIDE DEF Next_
    <3>2. p + 1 \in Int /\ m - 1 \in Int /\ \A i \in p + 1 .. m - 1 : f[i] \in Around(f)
        BY <2>1, <3>1 DEF Around
    <3>3. SubSeq(f, p + 1, m - 1) \in Seq(Around(f))
      <4> HIDE DEF Around
      <4> QED BY <3>2, SubSeqProperties, Zenon
    <3>4. <<C!Delimiter>> \in Out /\ <<>> \in Out
        BY DEF C!Delimiter, Around
    <3> QED BY <3>1, <3>3, <3>4
  <2>4. f[p] # 0 => Part(p) = Piece(f, p) /\ Next_(p) = p + f[p]
    <3>1. (p + f[p]) - 1 = p + f[p] - 1
        BY <2>1
    <3> QED BY <3>1 DEF Piece, C!Delimiter
  <2> QED BY <2>2, <2>3, <2>4
<1>4. size \in [D -> 0 .. Len(f) + Base]
    BY <1>2
<1>5. PICK g : /\ g = [p \in D |-> g[p]]
               /\ \A p \in D : g[p] = IF p \in base THEN res[p] ELSE e[p][g[next[p]]]
               /\ \A p \in D : g[p] \in Out
  <2>1. \A p \in D : p \notin base => next[p] \in D /\ size[next[p]] < size[p]
    <3>1. ASSUME NEW p \in D, p \notin base PROVE next[p] \in D /\ size[next[p]] < size[p]
      <4>1. PICK n \in D : n = Next_(p) /\ p < n
          BY <1>3, <3>1
      <4> HIDE DEF Next_
      <4> QED BY <1>2, <4>1
    <3> QED BY <3>1
  <2>2. \A p \in D : p \in base => res[p] \in Out
      OBVIOUS
  <2>3. \A p \in D : p \notin base => \A s \in Out : e[p][s] \in Out
    <3> HIDE DEF Part, base
    <3> QED BY <1>3
  <2> HIDE DEF D, size, base, res, next, e, Out
  <2>4. RecursionBuilds(D, base, res, next, e, Out)
      BY <1>2, <1>4, <2>1, <2>2, <2>3, BuildingUp
  <2> QED BY <2>4 DEF RecursionBuilds
<1>6. \A p \in D : g[p] = IF p > Len(f) THEN <<>> ELSE Part(p) \o g[Next_(p)]
  <2> HIDE DEF Part, Next_
  <2>1. ASSUME NEW p \in D, p \notin base PROVE g[p] = Part(p) \o g[Next_(p)]
    <3>1. Next_(p) \in D
        BY <1>3, <2>1
    <3>2. g[Next_(p)] \in Out
        BY <1>5, <3>1
    <3>3. g[p] = e[p][g[Next_(p)]]
        BY <1>5, <2>1
    <3> HIDE DEF Out
    <3> QED BY <3>2, <3>3
  <2>2. ASSUME NEW p \in D, p \in base PROVE g[p] = <<>>
      BY <1>5, <2>2
  <2> QED BY <2>1, <2>2
<1>7. Is(g)
  <2> HIDE DEF D, Part, Next_
  <2> QED BY <1>5, <1>6
<1>8. Is(h)
  <2> HIDE DEF Is
  <2> QED BY <1>7 DEF h
<1>9. \A p \in D : h[p] = IF p > Len(f) THEN <<>> ELSE Part(p) \o h[Next_(p)]
  <2> HIDE DEF D, Part, Next_
  <2> QED BY <1>8, Zenon
<1>10. \A p \in D : h[p] \in Out
  <2>1. h = g
    <3> DEFINE Agree == {n \in Nat : \A p \in D : size[p] < n => h[p] = g[p]}
    <3>1. 0 \in Agree
        BY <1>2
    <3>2. ASSUME NEW n \in Nat, n \in Agree PROVE n + 1 \in Agree
      <4>1. ASSUME NEW p \in D, size[p] < n + 1 PROVE h[p] = g[p]
        <5>1. CASE p \in base
          <6> HIDE DEF Part, Next_
          <6> QED BY <1>6, <1>9, <5>1
        <5>2. CASE p \notin base
          <6>1. PICK m \in D : m = Next_(p) /\ p < m
              BY <1>3, <5>2
          <6>2. size[m] < n
              BY <1>2, <4>1, <6>1
          <6>3. h[m] = g[m]
              BY <3>2, <6>2
          <6> HIDE DEF Part, Next_
          <6> QED BY <1>6, <1>9, <5>2, <6>1, <6>3
        <5> QED BY <5>1, <5>2
      <4> QED BY <4>1
    <3>3. \A n \in Nat : n \in Agree
      <4> HIDE DEF Agree
      <4> QED BY <3>1, <3>2, CountingUp
    <3>4. ASSUME NEW p \in D PROVE h[p] = g[p]
      <4>1. size[p] \in Nat /\ size[p] < size[p] + 1 /\ size[p] + 1 \in Nat
          BY <1>2
      <4> QED BY <3>3, <4>1
    <3>5. h = [p \in D |-> h[p]]
      <4> HIDE DEF D, Part, Next_
      <4> QED BY <1>8, Zenon
    <3> HIDE DEF D
    <3> QED BY <1>5, <3>4, <3>5
  <2> QED BY <1>5, <2>1
<1>11. ASSUME NEW p \in 1 .. Len(f) + 1
       PROVE  /\ h[p] \in Seq(Around(f))
              /\ p > Len(f) => h[p] = <<>>
              /\ p <= Len(f) /\ ~Bad(f, p) => h[p] = Piece(f, p) \o h[p + f[p]]
  <2>1. p \in D
      BY <1>2
  <2>2. h[p] \in Seq(Around(f)) /\ (p > Len(f) => h[p] = <<>>)
      BY <1>9, <1>10, <2>1
  <2>3. ASSUME p <= Len(f), ~Bad(f, p) PROVE h[p] = Piece(f, p) \o h[p + f[p]]
    <3>1. p \notin base /\ f[p] # 0
        BY <1>2, <2>3 DEF Bad
    <3>2. Part(p) = Piece(f, p) /\ Next_(p) = p + f[p]
        BY <1>3, <2>1, <3>1
    <3>3. h[p] = Part(p) \o h[Next_(p)]
      <4>1. ~ p > Len(f)
          BY <1>2, <2>3
      <4> HIDE DEF Part, Next_
      <4> QED BY <1>9, <2>1, <4>1
    <3> QED BY <3>2, <3>3
  <2> QED BY <2>2, <2>3
<1> QED BY <1>1, <1>11 DEF FillEquation

(* What holds of the last place, and of each place if it holds of all places *)
(* after it, holds of every place.                                           *)
LEMMA FromTheEnd ==
    ASSUME NEW last \in Nat, NEW Holds, last + 1 \in Holds,
           \A p \in 1 .. last : (\A r \in p + 1 .. last + 1 : r \in Holds) => p \in Holds
    PROVE  \A p \in 1 .. last + 1 : p \in Holds
<1> DEFINE Agree == {k \in Nat : \A p \in 1 .. last + 1 : last + 1 - p <= k => p \in Holds}
<1>1. 0 \in Agree
    OBVIOUS
<1>2. ASSUME NEW k \in Nat, k \in Agree PROVE k + 1 \in Agree
  <2>1. ASSUME NEW p \in 1 .. last + 1, last + 1 - p <= k + 1 PROVE p \in Holds
    <3>1. CASE p = last + 1
        BY <3>1
    <3>2. CASE p # last + 1
      <4>1. p \in 1 .. last /\ \A r \in p + 1 .. last + 1 : r \in Holds
          BY <1>2, <2>1, <3>2
      <4> QED BY <4>1
    <3> QED BY <3>1, <3>2
  <2> QED BY <2>1
<1>3. \A k \in Nat : k \in Agree
  <2> HIDE DEF Agree
  <2> QED BY <1>1, <1>2, CountingUp
<1>4. ASSUME NEW p \in 1 .. last + 1 PROVE p \in Holds
  <2>1. last + 1 - p \in Nat /\ last + 1 - p <= last + 1 - p
      OBVIOUS
  <2> QED BY <1>3, <2>1
<1> QED BY <1>4

(* A reader at a place that belongs to the payload goes on to another.       *)
LEMMA ReadsOn ==
    ASSUME NEW f \in Seq(Bytes), NEW q, Len(q) \in Nat, NEW M, Reads(M, f, q),
           NEW p \in 1 .. Len(f) + 1, NEW n \in 0 .. Len(q), <<p, n>> \in M
    PROVE  /\ p = Len(f) + 1 => n = Len(q)
           /\ p # Len(f) + 1 =>
                /\ ReadsRun(M, f, q, p, n) /\ p \in 1 .. Len(f) /\ ~Bad(f, p) /\ f[p] \in Nat \ {0}
                /\ p + f[p] \in p + 1 .. Len(f) + 1 /\ n + Gain(f, p) \in 0 .. Len(q)
                /\ <<p + f[p], n + Gain(f, p)>> \in M
<1>1. p = Len(f) + 1 => n = Len(q)
    BY DEF Reads
<1>2. ASSUME p # Len(f) + 1
      PROVE  /\ ReadsRun(M, f, q, p, n) /\ p \in 1 .. Len(f) /\ ~Bad(f, p) /\ f[p] \in Nat \ {0}
             /\ p + f[p] \in p + 1 .. Len(f) + 1 /\ n + Gain(f, p) \in 0 .. Len(q)
             /\ <<p + f[p], n + Gain(f, p)>> \in M
  <2>1. ReadsRun(M, f, q, p, n)
      BY <1>2 DEF Reads
  <2>2. /\ f[p] \in 1 .. C!RunMax + 1 /\ p + f[p] <= Len(f) + 1
        /\ <<p + f[p], n + Gain(f, p)>> \in M
      BY <2>1 DEF ReadsRun
  <2>3. f[p] \in Nat \ {0} /\ Len(f) \in Nat
      BY <2>2, RunFacts
  <2>4. p \in 1 .. Len(f) /\ ~Bad(f, p) /\ p + f[p] \in p + 1 .. Len(f) + 1
      BY <1>2, <2>2, <2>3 DEF Bad
  <2>5. <<p + f[p], n + Gain(f, p)>> \in (1 .. Len(f) + 1) \X (0 .. Len(q))
      BY <2>2 DEF Reads
  <2> QED BY <2>1, <2>2, <2>3, <2>4, <2>5
<1> QED BY <1>1, <1>2

(* Both passes of the decoder give what the frame reads.                     *)
LEMMA ReadsIsValidated ==
    ASSUME NEW f \in Seq(Bytes), NEW q, Len(q) \in Nat, NEW M, Reads(M, f, q)
    PROVE  C!Validate(f) = Len(q)
<1>1. PICK v : C!Validate(f) = v[<<1, 0>>] /\ ValidateEquation(f, v)
    BY ValidateIs
<1>2. Len(f) \in Nat
    OBVIOUS
<1> DEFINE Holds == {p \in 1 .. Len(f) + 1 :
                       \A n \in 0 .. Len(q) : <<p, n>> \in M => v[<<p, n>>] = Len(q)}
<1>3. Len(f) + 1 \in Holds
  <2>1. ASSUME NEW n \in 0 .. Len(q), <<Len(f) + 1, n>> \in M PROVE v[<<Len(f) + 1, n>>] = Len(q)
    <3>1. Len(f) + 1 \in 1 .. Len(f) + 1 /\ n \in Nat /\ Len(f) + 1 > Len(f)
        BY <1>2
    <3>2. v[<<Len(f) + 1, n>>] = n
        BY <1>1, <3>1 DEF ValidateEquation
    <3>3. n = Len(q)
      <4>1. PICK x \in 1 .. Len(f) + 1 : x = Len(f) + 1
          BY <3>1
      <4>2. <<x, n>> \in M
          BY <2>1, <4>1
      <4> QED BY <4>1, <4>2 DEF Reads
    <3> QED BY <3>2, <3>3
  <2> QED BY <1>2, <2>1
<1>4. ASSUME NEW p \in 1 .. Len(f), \A r \in p + 1 .. Len(f) + 1 : r \in Holds PROVE p \in Holds
  <2>1. ASSUME NEW n \in 0 .. Len(q), <<p, n>> \in M PROVE v[<<p, n>>] = Len(q)
    <3>1. p \in 1 .. Len(f) + 1 /\ p # Len(f) + 1 /\ ~ p > Len(f) /\ n \in Nat
        BY <1>2
    <3>2. /\ ~Bad(f, p) /\ p + f[p] \in p + 1 .. Len(f) + 1 /\ n + Gain(f, p) \in 0 .. Len(q)
          /\ <<p + f[p], n + Gain(f, p)>> \in M
        BY <2>1, <3>1, ReadsOn
    <3>3. v[<<p, n>>] = v[<<p + f[p], n + Gain(f, p)>>]
        BY <1>1, <3>1, <3>2 DEF ValidateEquation
    <3>4. v[<<p + f[p], n + Gain(f, p)>>] = Len(q)
        BY <1>4, <3>2
    <3> QED BY <3>3, <3>4
  <2> QED BY <1>2, <2>1
<1>5. 1 \in Holds
  <2> HIDE DEF Holds
  <2>1. \A p \in 1 .. Len(f) + 1 : p \in Holds
      BY <1>2, <1>3, <1>4, FromTheEnd
  <2> QED BY <1>2, <2>1
<1>6. <<1, 0>> \in M /\ 0 \in 0 .. Len(q)
    BY DEF Reads
<1> QED BY <1>1, <1>5, <1>6

LEMMA ReadsIsWritten ==
    ASSUME NEW f \in Seq(Bytes), NEW Elems, Around(f) \subseteq Elems, NEW q \in Seq(Elems),
           NEW M, Reads(M, f, q)
    PROVE  C!Fill(f) = q
<1>1. PICK w : C!Fill(f) = w[1] /\ FillEquation(f, w)
    BY FillIs
<1>2. Len(f) \in Nat /\ Len(q) \in Nat
    OBVIOUS
<1> DEFINE Holds == {p \in 1 .. Len(f) + 1 :
                       \A n \in 0 .. Len(q) : <<p, n>> \in M => w[p] = RestOf(q, n)}
<1>3. Len(f) + 1 \in Holds
  <2>1. ASSUME NEW n \in 0 .. Len(q), <<Len(f) + 1, n>> \in M PROVE w[Len(f) + 1] = RestOf(q, n)
    <3>1. Len(f) + 1 \in 1 .. Len(f) + 1 /\ Len(f) + 1 > Len(f)
        BY <1>2
    <3>2. w[Len(f) + 1] = <<>>
        BY <1>1, <3>1 DEF FillEquation
    <3>3. n = Len(q)
      <4>1. PICK x \in 1 .. Len(f) + 1 : x = Len(f) + 1
          BY <3>1
      <4>2. <<x, n>> \in M
          BY <2>1, <4>1
      <4> QED BY <4>1, <4>2 DEF Reads
    <3> QED BY <3>2, <3>3, RestFacts
  <2> QED BY <1>2, <2>1
<1>4. ASSUME NEW p \in 1 .. Len(f), \A r \in p + 1 .. Len(f) + 1 : r \in Holds PROVE p \in Holds
  <2>1. ASSUME NEW n \in 0 .. Len(q), <<p, n>> \in M PROVE w[p] = RestOf(q, n)
    <3>1. p \in 1 .. Len(f) + 1 /\ p # Len(f) + 1 /\ p <= Len(f)
        BY <1>2
    <3>2. /\ ReadsRun(M, f, q, p, n) /\ f[p] \in Nat \ {0}
          /\ ~Bad(f, p) /\ p + f[p] \in p + 1 .. Len(f) + 1 /\ n + Gain(f, p) \in 0 .. Len(q)
          /\ <<p + f[p], n + Gain(f, p)>> \in M
        BY <1>2, <2>1, <3>1, ReadsOn
    <3>3. w[p] = Piece(f, p) \o w[p + f[p]]
        BY <1>1, <3>1, <3>2 DEF FillEquation
    <3>4. w[p + f[p]] = RestOf(q, n + Gain(f, p))
        BY <1>4, <3>2
    <3>5. /\ Piece(f, p) \in Seq(Around(f)) /\ Len(Piece(f, p)) = Gain(f, p)
          /\ \A i \in 1 .. f[p] - 1 : Piece(f, p)[i] = f[p + i]
          /\ C!DelimiterAfter(f, f[p], p + f[p]) => Piece(f, p)[f[p]] = 0
        BY <3>1, <3>2, PieceFacts
    <3>6. Piece(f, p) \in Seq(Elems) /\ w[p + f[p]] \in Seq(Elems)
      <4>1. w[p + f[p]] \in Seq(Around(f))
        <5>1. p + f[p] \in 1 .. Len(f) + 1
            BY <1>2, <3>2
        <5> QED BY <1>1, <5>1 DEF FillEquation
      <4>2. ASSUME NEW s \in Seq(Around(f)) PROVE s \in Seq(Elems)
        <5> HIDE DEF Around
        <5> QED OBVIOUS
      <4> QED BY <3>5, <4>1, <4>2
    <3>7. ASSUME NEW i \in 1 .. Len(Piece(f, p)) PROVE Piece(f, p)[i] = q[n + i]
      <4>1. CASE i \in 1 .. f[p] - 1
          BY <3>2, <3>5, <4>1 DEF ReadsRun
      <4>2. CASE i \notin 1 .. f[p] - 1
        <5>1. C!DelimiterAfter(f, f[p], p + f[p]) /\ i = f[p]
          <6>1. Gain(f, p) \in {f[p] - 1, f[p]} /\ (~ C!DelimiterAfter(f, f[p], p + f[p]) => Gain(f, p) = f[p] - 1)
              BY <3>2, GainFacts
          <6> QED BY <3>2, <3>5, <4>2, <6>1
        <5> QED BY <3>2, <3>5, <5>1 DEF ReadsRun
      <4> QED BY <4>1, <4>2
    <3>8. n + Len(Piece(f, p)) <= Len(q)
        BY <1>2, <3>2, <3>5
    <3>9. PICK a \in Seq(Elems), b \in Seq(Elems) : a = Piece(f, p) /\ b = w[p + f[p]]
        BY <3>6
    <3>10. b = RestOf(q, n + Len(a)) /\ w[p] = a \o b
        BY <3>3, <3>4, <3>5, <3>9
    <3>11. n + Len(a) <= Len(q) /\ \A i \in 1 .. Len(a) : a[i] = q[n + i]
        BY <3>7, <3>8, <3>9
    <3>12. a \o b = RestOf(q, n)
        BY <3>10, <3>11, RestJoins
    <3> QED BY <3>10, <3>12
  <2> QED BY <1>2, <2>1
<1>5. 1 \in Holds
  <2> HIDE DEF Holds
  <2>1. \A p \in 1 .. Len(f) + 1 : p \in Holds
      BY <1>2, <1>3, <1>4, FromTheEnd
  <2> QED BY <1>2, <2>1
<1>6. <<1, 0>> \in M /\ 0 \in 0 .. Len(q)
    BY <1>2 DEF Reads
<1>7. w[1] = RestOf(q, 0)
    BY <1>5, <1>6
<1> QED BY <1>1, <1>6, <1>7, RestFacts

LEMMA PieceOfBytes ==
    ASSUME NEW f \in Seq(Bytes), NEW p \in 1 .. Len(f), ~Bad(f, p)
    PROVE  Piece(f, p) \in Seq(Bytes)
<1>1. /\ f[p] \in Nat \ {0} /\ p + f[p] \in 2 .. Len(f) + 1
      /\ Piece(f, p) \in Seq(Around(f)) /\ Len(Piece(f, p)) = Gain(f, p)
      /\ \A i \in 1 .. f[p] - 1 : Piece(f, p)[i] = f[p + i]
      /\ C!DelimiterAfter(f, f[p], p + f[p]) => Piece(f, p)[f[p]] = 0
    BY PieceFacts
<1>2. ASSUME NEW i \in 1 .. Len(Piece(f, p)) PROVE Piece(f, p)[i] \in Bytes
  <2>1. CASE i \in 1 .. f[p] - 1
    <3>1. p + i \in 1 .. Len(f)
        BY <1>1, <2>1
    <3> QED BY <1>1, <2>1, <3>1
  <2>2. CASE i \notin 1 .. f[p] - 1
    <3>1. Gain(f, p) \in {f[p] - 1, f[p]} /\ (~ C!DelimiterAfter(f, f[p], p + f[p]) => Gain(f, p) = f[p] - 1)
        BY <1>1, GainFacts
    <3>2. C!DelimiterAfter(f, f[p], p + f[p]) /\ i = f[p]
        BY <1>1, <2>2, <3>1
    <3> QED BY <1>1, <3>2, RunFacts
  <2> QED BY <2>1, <2>2
<1> QED BY <1>1, <1>2

(* A frame the validating pass takes reads what the writing pass writes, and *)
(* the one has counted what the other writes.                                *)
LEMMA SoundIsRead ==
    ASSUME NEW f \in Seq(Bytes), C!Validate(f) # -1
    PROVE  /\ C!Fill(f) \in Seq(Around(f)) /\ Len(C!Fill(f)) = C!Validate(f)
           /\ C!Fill(f) \in Seq(Bytes)
           /\ \E M : Reads(M, f, C!Fill(f))
<1>1. PICK v : C!Validate(f) = v[<<1, 0>>] /\ ValidateEquation(f, v)
    BY ValidateIs
<1>2. PICK w : C!Fill(f) = w[1] /\ FillEquation(f, w)
    BY FillIs
<1>3. Len(f) \in Nat /\ 1 \in 1 .. Len(f) + 1
    OBVIOUS
<1>0. \A p \in 1 .. Len(f) : f[p] \in 0 .. Base - 1
    BY RunFacts DEF Bytes
<1>4. ASSUME NEW p \in 1 .. Len(f) + 1 PROVE w[p] \in Seq(Around(f)) /\ Len(w[p]) \in Nat
  <2>1. w[p] \in Seq(Around(f))
      BY <1>2 DEF FillEquation
  <2> QED BY <2>1
<1>5. ASSUME NEW p \in 1 .. Len(f), ~Bad(f, p)
      PROVE  /\ p + f[p] \in p + 1 .. Len(f) + 1 /\ p + f[p] \in 1 .. Len(f) + 1 /\ f[p] \in Nat \ {0}
             /\ Gain(f, p) \in Nat /\ Piece(f, p) \in Seq(Bytes)
             /\ w[p] = Piece(f, p) \o w[p + f[p]]
             /\ Piece(f, p) \in Seq(Around(f)) /\ Len(Piece(f, p)) = Gain(f, p)
             /\ Len(w[p]) = Gain(f, p) + Len(w[p + f[p]])
  <2>1. /\ f[p] \in Nat \ {0} /\ p + f[p] \in 2 .. Len(f) + 1
        /\ Piece(f, p) \in Seq(Around(f)) /\ Len(Piece(f, p)) = Gain(f, p)
      BY <1>5, PieceFacts
  <2>2. p + f[p] \in p + 1 .. Len(f) + 1 /\ p + f[p] \in 1 .. Len(f) + 1
      BY <1>3, <2>1
  <2>3. p \in 1 .. Len(f) + 1 /\ p <= Len(f)
      BY <1>3
  <2>4. w[p] = Piece(f, p) \o w[p + f[p]]
      BY <1>2, <1>5, <2>3 DEF FillEquation
  <2>5. w[p + f[p]] \in Seq(Around(f))
      BY <1>4, <2>2
  <2>6. Len(w[p]) = Len(Piece(f, p)) + Len(w[p + f[p]])
    <3>1. PICK a \in Seq(Around(f)), b \in Seq(Around(f)) : a = Piece(f, p) /\ b = w[p + f[p]]
        BY <2>1, <2>5
    <3>2. Len(a \o b) = Len(a) + Len(b)
        BY Joined
    <3> QED BY <2>4, <3>1, <3>2
  <2>7. Gain(f, p) \in Nat
      BY <2>1, GainFacts
  <2>8. Piece(f, p) \in Seq(Bytes)
      BY <1>5, PieceOfBytes
  <2> QED BY <2>1, <2>2, <2>4, <2>6, <2>7, <2>8
<1> DEFINE Holds == {p \in 1 .. Len(f) + 1 :
                       \A n \in Nat : v[<<p, n>>] = -1 \/ (v[<<p, n>>] = n + Len(w[p]) /\ w[p] \in Seq(Bytes))}
<1>6. Len(f) + 1 \in Holds
  <2>1. ASSUME NEW n \in Nat PROVE v[<<Len(f) + 1, n>>] = n + Len(w[Len(f) + 1])
                                    /\ w[Len(f) + 1] \in Seq(Bytes)
    <3>1. Len(f) + 1 \in 1 .. Len(f) + 1 /\ Len(f) + 1 > Len(f)
        BY <1>3
    <3>2. v[<<Len(f) + 1, n>>] = n
        BY <1>1, <3>1 DEF ValidateEquation
    <3>3. w[Len(f) + 1] = <<>>
        BY <1>2, <3>1 DEF FillEquation
    <3> QED BY <3>2, <3>3
  <2> QED BY <1>3, <2>1
<1>7. ASSUME NEW p \in 1 .. Len(f), \A r \in p + 1 .. Len(f) + 1 : r \in Holds PROVE p \in Holds
  <2>1. ASSUME NEW n \in Nat PROVE v[<<p, n>>] = -1 \/ (v[<<p, n>>] = n + Len(w[p]) /\ w[p] \in Seq(Bytes))
    <3>1. p \in 1 .. Len(f) + 1 /\ ~ p > Len(f)
        BY <1>3
    <3>2. CASE Bad(f, p)
        BY <1>1, <3>1, <3>2 DEF ValidateEquation
    <3>3. CASE ~Bad(f, p)
      <4>1. v[<<p, n>>] = v[<<p + f[p], n + Gain(f, p)>>]
          BY <1>1, <3>1, <3>3 DEF ValidateEquation
      <4>2. PICK r \in p + 1 .. Len(f) + 1, m \in Nat, d \in Nat, l \in Nat :
                /\ r = p + f[p] /\ d = Gain(f, p) /\ m = n + d /\ l = Len(w[r])
                /\ Len(w[p]) = d + l
        <5>1. /\ p + f[p] \in p + 1 .. Len(f) + 1 /\ p + f[p] \in 1 .. Len(f) + 1 /\ Gain(f, p) \in Nat
              /\ Len(w[p]) = Gain(f, p) + Len(w[p + f[p]])
            BY <1>5, <3>3
        <5>2. Len(w[p + f[p]]) \in Nat
            BY <1>4, <5>1
        <5>3. n + Gain(f, p) \in Nat
            BY <5>1
        <5> QED BY <5>1, <5>2, <5>3
      <4>3. v[<<r, m>>] = -1 \/ (v[<<r, m>>] = m + l /\ w[r] \in Seq(Bytes))
          BY <1>7, <4>2
      <4>4. m + l = n + Len(w[p])
        <5> HIDE DEF Holds
        <5>1. Len(w[p]) = d + l /\ m = n + d
            BY <4>2
        <5> QED BY <5>1
      <4>5. v[<<p, n>>] = v[<<r, m>>]
          BY <4>1, <4>2
      <4>6. w[r] \in Seq(Bytes) => w[p] \in Seq(Bytes)
        <5>1. Piece(f, p) \in Seq(Bytes) /\ w[p] = Piece(f, p) \o w[r]
            BY <1>5, <3>3, <4>2
        <5> HIDE DEF Holds
        <5> QED BY <5>1, Joined
      <4> QED BY <4>3, <4>4, <4>5, <4>6
    <3> QED BY <3>2, <3>3
  <2> QED BY <1>3, <2>1
<1>8. \A p \in 1 .. Len(f) + 1 : p \in Holds
  <2> HIDE DEF Holds
  <2> QED BY <1>3, <1>6, <1>7, FromTheEnd
<1>9. v[<<1, 0>>] = Len(w[1]) /\ Len(w[1]) \in Nat /\ w[1] \in Seq(Around(f)) /\ w[1] \in Seq(Bytes)
  <2>1. 1 \in Holds /\ w[1] \in Seq(Around(f)) /\ Len(w[1]) \in Nat
      BY <1>3, <1>4, <1>8
  <2> QED BY <1>1, <1>3, <2>1
<1>10. PICK q \in Seq(Around(f)) : q = w[1] /\ Len(q) \in Nat
    BY <1>9
<1> DEFINE M == {x \in (1 .. Len(f) + 1) \X (0 .. Len(q)) :
                   v[x] = Len(q) /\ w[x[1]] = RestOf(q, x[2])}
<1>11. <<1, 0>> \in M
  <2>1. w[1] = RestOf(w[1], 0)
    <3>1. 0 \in 0 .. Len(w[1])
        BY <1>9
    <3> QED BY <1>9, <3>1, RestFacts
  <2> QED BY <1>3, <1>9, <1>10, <2>1
<1>12. ASSUME NEW p \in 1 .. Len(f) + 1, NEW n \in 0 .. Len(q), <<p, n>> \in M
       PROVE  IF p = Len(f) + 1 THEN n = Len(q) ELSE ReadsRun(M, f, q, p, n)
  <2>1. v[<<p, n>>] = Len(q) /\ w[p] = RestOf(q, n) /\ n \in Nat
      BY <1>10, <1>12
  <2>2. ASSUME p = Len(f) + 1 PROVE n = Len(q)
    <3>1. p > Len(f)
        BY <1>3, <2>2
    <3> QED BY <1>1, <2>1, <3>1 DEF ValidateEquation
  <2>3. ASSUME p # Len(f) + 1 PROVE ReadsRun(M, f, q, p, n)
    <3>1. p \in 1 .. Len(f) /\ ~ p > Len(f)
        BY <1>3, <2>3
    <3>2. ~Bad(f, p)
      <4>1. ASSUME Bad(f, p) PROVE FALSE
        <5>1. v[<<p, n>>] = -1
            BY <1>1, <2>1, <3>1, <4>1 DEF ValidateEquation
        <5> QED BY <1>10, <2>1, <5>1
      <4> QED BY <4>1
    <3>3. PICK c \in Nat \ {0}, r \in 1 .. Len(f) + 1, d \in Nat, m \in Nat :
            c = f[p] /\ r = p + c /\ d = Gain(f, p) /\ m = n + d
        BY <1>5, <2>1, <3>1, <3>2
    <3>4. v[<<r, m>>] = Len(q)
        BY <1>1, <2>1, <3>1, <3>2, <3>3 DEF ValidateEquation
    <3>5. PICK a \in Seq(Around(f)), b \in Seq(Around(f)) : a = Piece(f, p) /\ b = w[r]
        BY <1>4, <1>5, <3>1, <3>2, <3>3
    <3>6. a \o b = RestOf(q, n) /\ Len(a) = d
        BY <1>5, <2>1, <3>1, <3>2, <3>3, <3>5
    <3>7. n + Len(a) <= Len(q) /\ (\A i \in 1 .. Len(a) : a[i] = q[n + i]) /\ b = RestOf(q, n + Len(a))
      <4>1. a \o b = RestOf(q, n)
          BY <3>6
      <4> HIDE DEF M, Holds
      <4>2. b = RestOf(q, n + Len(a)) /\ n + Len(a) <= Len(q)
          BY <4>1, RestSplits
      <4>3. \A i \in 1 .. Len(a) : a[i] = q[n + i]
          BY <4>1, RestBegins
      <4> QED BY <4>2, <4>3
    <3>8. <<r, m>> \in M
      <4>1. m \in 0 .. Len(q) /\ w[r] = RestOf(q, m)
          BY <1>10, <3>3, <3>5, <3>6, <3>7
      <4> QED BY <3>3, <3>4, <4>1
    <3>9. c \in 1 .. C!RunMax + 1 /\ p + c <= Len(f) + 1
      <4> HIDE DEF M, Holds
      <4>1. f[p] \in 0 .. Base - 1
          BY <1>0, <3>1
      <4>2. c \in 0 .. Base - 1 /\ c \in Nat \ {0} /\ C!RunMax + 1 = Base - 1 /\ Base \in Nat
          BY <3>3, <4>1, RunFacts
      <4>3. c \in 1 .. Base - 1
          BY <4>2
      <4> QED BY <1>3, <3>3, <4>2, <4>3
    <3>10. /\ \A i \in 1 .. c - 1 : a[i] = f[p + i]
           /\ C!DelimiterAfter(f, c, p + c) => a[c] = 0
           /\ d \in {c - 1, c} /\ (C!DelimiterAfter(f, c, p + c) => d = c)
      <4>1. /\ \A i \in 1 .. f[p] - 1 : Piece(f, p)[i] = f[p + i]
            /\ C!DelimiterAfter(f, f[p], p + f[p]) => Piece(f, p)[f[p]] = 0
          BY <3>1, <3>2, PieceFacts
      <4>2. /\ Gain(f, p) \in {f[p] - 1, f[p]}
            /\ C!DelimiterAfter(f, f[p], p + f[p]) => Gain(f, p) = f[p]
        <5>1. f[p] \in Int /\ f[p] >= 1
          <6>1. f[p] \in Nat \ {0}
              BY <1>5, <3>1, <3>2
          <6> HIDE DEF M, Holds
          <6>2. \A x \in Nat \ {0} : x \in Int /\ x >= 1
              OBVIOUS
          <6> QED BY <6>1, <6>2, Zenon
        <5> QED BY <5>1, GainFacts
      <4> QED BY <3>3, <3>5, <4>1, <4>2
    <3>11. \A i \in 1 .. c - 1 : q[n + i] = f[p + i]
      <4> HIDE DEF M, Holds
      <4>0. Len(a) = d /\ d \in {c - 1, c} /\ c \in Nat \ {0} /\ d \in Nat
          BY <3>3, <3>6, <3>10
      <4>1. \A i \in 1 .. c - 1 : i \in 1 .. Len(a)
          BY <4>0
      <4> QED BY <3>7, <3>10, <4>1
    <3>12. C!DelimiterAfter(f, c, p + c) => q[n + c] = 0
      <4> HIDE DEF M, Holds
      <4>1. ASSUME C!DelimiterAfter(f, c, p + c) PROVE q[n + c] = 0
        <5>1. a[c] = 0 /\ d = c
            BY <3>10, <4>1, Zenon
        <5>2. Len(a) = c /\ c \in Nat \ {0}
            BY <3>3, <3>6, <5>1
        <5>3. c \in 1 .. Len(a)
            BY <5>2
        <5> QED BY <3>7, <5>1, <5>3
      <4> QED BY <4>1
    <3> HIDE DEF M
    <3> QED BY <3>3, <3>8, <3>9, <3>11, <3>12 DEF ReadsRun
  <2> QED BY <2>2, <2>3
<1>13. Reads(M, f, q)
  <2>1. M \subseteq (1 .. Len(f) + 1) \X (0 .. Len(q))
      OBVIOUS
  <2> HIDE DEF M
  <2> QED BY <1>11, <1>12, <2>1 DEF Reads
<1> HIDE DEF M
<1> QED BY <1>1, <1>2, <1>9, <1>10, <1>13

(* The validating pass gives a length, or -1.                                *)
LEMMA ValidateRange ==
    ASSUME NEW f \in Seq(Bytes)
    PROVE  C!Validate(f) \in Nat \cup {-1}
<1>1. CASE C!Validate(f) = -1
    BY <1>1
<1>2. CASE C!Validate(f) # -1
  <2>1. C!Fill(f) \in Seq(Around(f)) /\ Len(C!Fill(f)) = C!Validate(f)
      BY <1>2, SoundIsRead
  <2> QED BY <2>1
<1> QED BY <1>1, <1>2

(* The finished part d of a frame stands for the first m bytes of q, if more *)
(* follows it: each of its runs is full, or stands for a delimiter too.      *)
BegunRun(M, d, q, p, n) ==
    /\ d[p] \in 1 .. C!RunMax + 1 /\ p + d[p] <= Len(d) + 1
    /\ \A k \in 1 .. d[p] - 1 : q[n + k] = d[p + k]
    /\ d[p] # C!RunMax + 1 => q[n + d[p]] = 0
    /\ <<p + d[p], n + (IF d[p] = C!RunMax + 1 THEN d[p] - 1 ELSE d[p])>> \in M

Begun(M, d, q, m) ==
    /\ M \subseteq (1 .. Len(d) + 1) \X (0 .. m) /\ <<1, 0>> \in M
    /\ \A p \in 1 .. Len(d) + 1, n \in 0 .. m :
         <<p, n>> \in M => IF p = Len(d) + 1 THEN n = m ELSE BegunRun(M, d, q, p, n)

(* The frame e is d with the run r after it.                                 *)
Extended(d, r, e) ==
    /\ Len(e) = (Len(d) + 1) + Len(r)
    /\ \A i \in 1 .. Len(d) : e[i] = d[i]
    /\ e[Len(d) + 1] = Len(r) + 1
    /\ \A k \in 1 .. Len(r) : e[(Len(d) + 1) + k] = r[k]

LEMMA ClosedIs ==
    ASSUME NEW d \in Seq(Bytes), NEW r \in Seq(Bytes), Len(r) <= C!RunMax
    PROVE  /\ C!CloseRun([done |-> d, run |-> r]).run = <<>>
           /\ C!CloseRun([done |-> d, run |-> r]).done \in Seq(Bytes)
           /\ Extended(d, r, C!CloseRun([done |-> d, run |-> r]).done)
<1>1. PICK c \in Bytes : c = Len(r) + 1
    BY RunFacts DEF Bytes
<1>2. PICK s \in Seq(Bytes) : s = d \o <<c>>
  <2>1. <<c>> \in Seq(Bytes)
      OBVIOUS
  <2> QED BY <2>1, Joined
<1>3. Len(s) = Len(d) + 1 /\ (\A i \in 1 .. Len(d) : s[i] = d[i]) /\ s[Len(d) + 1] = c
    BY <1>2
<1>4. PICK e \in Seq(Bytes) : e = s \o r
    BY Joined
<1>5. Len(e) = Len(s) + Len(r) /\ (\A i \in 1 .. Len(s) : e[i] = s[i])
      /\ \A k \in 1 .. Len(r) : e[Len(s) + k] = r[k]
    BY <1>4, Joined
<1>6. C!CloseRun([done |-> d, run |-> r]) = [done |-> e, run |-> <<>>]
    BY <1>1, <1>2, <1>4 DEF C!CloseRun
<1>7. Len(d) \in Nat
    OBVIOUS
<1>8. Extended(d, r, e)
  <2>1. \A i \in 1 .. Len(d) : e[i] = d[i]
      BY <1>3, <1>5, <1>7
  <2>2. e[Len(d) + 1] = Len(r) + 1
      BY <1>1, <1>3, <1>5, <1>7
  <2> QED BY <1>3, <1>5, <2>1, <2>2 DEF Extended
<1> QED BY <1>6, <1>8

(* What a run says is not changed by what is put behind it.                  *)
LEMMA RunKept ==
    ASSUME NEW d, NEW r, NEW e, Len(d) \in Nat, Len(r) \in Nat, Extended(d, r, e),
           NEW M, NEW N, M \subseteq N, NEW q, NEW p \in 1 .. Len(d), NEW n \in Nat,
           BegunRun(M, d, q, p, n)
    PROVE  BegunRun(N, e, q, p, n) /\ ReadsRun(N, e, q, p, n)
<1>1. PICK c \in Nat \ {0} : c = d[p] /\ c = e[p] /\ p + c <= Len(d) + 1 /\ c \in 1 .. C!RunMax + 1
  <2>1. d[p] \in Nat \ {0}
      BY RunFacts DEF BegunRun
  <2>2. e[p] = d[p]
      BY DEF Extended
  <2> QED BY <2>1, <2>2 DEF BegunRun
<1>2. Len(e) \in Nat /\ Len(d) + 1 <= Len(e)
    BY DEF Extended
<1>3. \A k \in 1 .. c - 1 : q[n + k] = e[p + k]
  <2>1. ASSUME NEW k \in 1 .. c - 1 PROVE q[n + k] = e[p + k]
    <3>1. p + k \in 1 .. Len(d)
        BY <1>1
    <3>2. e[p + k] = d[p + k]
        BY <3>1 DEF Extended
    <3>3. q[n + k] = d[p + k]
        BY <1>1 DEF BegunRun
    <3> QED BY <3>2, <3>3
  <2> QED BY <2>1
<1>4. c # C!RunMax + 1 => q[n + c] = 0
    BY <1>1 DEF BegunRun
<1>5. <<p + c, n + (IF c = C!RunMax + 1 THEN c - 1 ELSE c)>> \in N
    BY <1>1 DEF BegunRun
<1>6. p + c <= Len(e) + 1 /\ p + c <= Len(e)
    BY <1>1, <1>2
<1>7. BegunRun(N, e, q, p, n)
    BY <1>1, <1>3, <1>4, <1>5, <1>6 DEF BegunRun
<1>8. ReadsRun(N, e, q, p, n)
  <2>1. C!DelimiterAfter(e, e[p], p + e[p]) <=> c # C!RunMax + 1
      BY <1>1, <1>6 DEF C!DelimiterAfter
  <2>2. Gain(e, p) = IF c = C!RunMax + 1 THEN c - 1 ELSE c
    <3>1. Gain(e, p) = c - 1 + (IF C!DelimiterAfter(e, e[p], p + e[p]) THEN 1 ELSE 0)
        BY <1>1 DEF Gain
    <3>2. CASE c = C!RunMax + 1
        BY <2>1, <3>1, <3>2
    <3>3. CASE c # C!RunMax + 1
        BY <2>1, <3>1, <3>3
    <3> QED BY <3>2, <3>3
  <2>3. <<p + c, n + Gain(e, p)>> \in N
      BY <1>5, <2>2
  <2> QED BY <1>1, <1>3, <1>4, <1>6, <2>1, <2>3 DEF ReadsRun
<1> QED BY <1>7, <1>8

(* Closing a run that is full, or that a delimiter ends.                     *)
LEMMA RunCloses ==
    ASSUME NEW d, NEW r, NEW e, Len(d) \in Nat, Len(r) \in 0 .. C!RunMax, Extended(d, r, e),
           NEW M, NEW q, NEW m \in Nat, Begun(M, d, q, m),
           \A k \in 1 .. Len(r) : q[m + k] = r[k], NEW x,
           Len(r) = C!RunMax => x = m + Len(r),
           Len(r) # C!RunMax => x = (m + Len(r)) + 1 /\ q[(m + Len(r)) + 1] = 0
    PROVE  Begun(M \cup {<<Len(e) + 1, x>>}, e, q, x)
<1> DEFINE N == M \cup {<<Len(e) + 1, x>>}
<1>1. C!RunMax \in Nat \ {0}
    BY RunFacts
<1>2. PICK a \in Nat, l \in Nat : a = Len(d) /\ l = Len(r) /\ l <= C!RunMax /\ Len(e) = (a + 1) + l
    BY <1>1 DEF Extended
<1>3. x \in Nat /\ m <= x
    BY <1>1, <1>2
<1>4. M \subseteq (1 .. a + 1) \X (0 .. m) /\ <<1, 0>> \in M
    BY <1>2 DEF Begun
<1>5. N \subseteq (1 .. Len(e) + 1) \X (0 .. x) /\ <<1, 0>> \in N
  <2>1. (1 .. a + 1) \X (0 .. m) \subseteq (1 .. Len(e) + 1) \X (0 .. x)
      BY <1>2, <1>3
  <2>2. <<Len(e) + 1, x>> \in (1 .. Len(e) + 1) \X (0 .. x)
      BY <1>2, <1>3
  <2> QED BY <1>4, <2>1, <2>2
<1>6. ASSUME NEW p \in 1 .. Len(e) + 1, NEW n \in 0 .. x, <<p, n>> \in N, p # Len(e) + 1
      PROVE  BegunRun(N, e, q, p, n)
  <2>1. <<p, n>> \in M
      BY <1>6
  <2>2. p \in 1 .. a + 1 /\ n \in 0 .. m
      BY <1>4, <2>1
  <2>3. CASE p \in 1 .. a
    <3>1. BegunRun(M, d, q, p, n)
        BY <1>2, <2>1, <2>2, <2>3 DEF Begun
    <3>2. Len(r) \in Nat /\ M \subseteq N /\ p \in 1 .. Len(d) /\ n \in Nat
        BY <1>2, <2>2, <2>3
    <3> HIDE DEF N
    <3> QED BY <3>1, <3>2, RunKept
  <2>4. CASE p = a + 1
    <3>1. n = m
        BY <1>2, <2>1, <2>2, <2>4 DEF Begun
    <3>2. e[p] = l + 1 /\ \A k \in 1 .. l : e[p + k] = r[k]
        BY <1>2, <2>4 DEF Extended
    <3>3. \A k \in 1 .. l : q[n + k] = e[p + k]
        BY <1>2, <3>1, <3>2
    <3>4. e[p] \in 1 .. C!RunMax + 1 /\ p + e[p] = Len(e) + 1 /\ e[p] - 1 = l
          /\ (e[p] = C!RunMax + 1 <=> l = C!RunMax)
        BY <1>1, <1>2, <2>4, <3>2
    <3>5. e[p] # C!RunMax + 1 => q[n + e[p]] = 0
      <4>1. SUFFICES ASSUME l # C!RunMax PROVE q[n + e[p]] = 0
          BY <3>4
      <4>2. q[(m + l) + 1] = 0
          BY <1>2, <4>1
      <4>3. n + e[p] = (m + l) + 1
          BY <1>2, <3>1, <3>2
      <4> QED BY <4>2, <4>3
    <3>6. n + (IF e[p] = C!RunMax + 1 THEN e[p] - 1 ELSE e[p]) = x
      <4>1. CASE l = C!RunMax
        <5>1. x = m + l
            BY <1>2, <4>1
        <5> QED BY <1>2, <3>1, <3>2, <3>4, <4>1, <5>1
      <4>2. CASE l # C!RunMax
        <5>1. x = (m + l) + 1
            BY <1>2, <4>2
        <5> QED BY <1>2, <3>1, <3>2, <3>4, <4>2, <5>1
      <4> QED BY <4>1, <4>2
    <3>7. <<p + e[p], n + (IF e[p] = C!RunMax + 1 THEN e[p] - 1 ELSE e[p])>> \in N
        BY <3>4, <3>6
    <3>8. p + e[p] <= Len(e) + 1
        BY <1>2, <3>4
    <3> HIDE DEF N
    <3> QED BY <3>3, <3>4, <3>5, <3>7, <3>8 DEF BegunRun
  <2> QED BY <2>2, <2>3, <2>4
<1>7. ASSUME NEW n \in 0 .. x, <<Len(e) + 1, n>> \in N PROVE n = x
  <2>1. <<Len(e) + 1, n>> \notin M \/ n = x
    <3>1. CASE <<Len(e) + 1, n>> \in M
      <4>1. Len(e) + 1 \in 1 .. a + 1
          BY <1>4, <3>1
      <4> QED BY <1>2, <4>1
    <3> QED BY <3>1
  <2> QED BY <1>7, <2>1
<1> HIDE DEF N
<1>8. Begun(N, e, q, x)
    BY <1>5, <1>6, <1>7 DEF Begun
<1> QED BY <1>8 DEF N

(* Closing the last run.                                                     *)
LEMMA RunEnds ==
    ASSUME NEW d, NEW r, NEW e, Len(d) \in Nat, Len(r) \in 0 .. C!RunMax - 1, Extended(d, r, e),
           NEW M, NEW q, NEW m \in Nat, Begun(M, d, q, m),
           \A k \in 1 .. Len(r) : q[m + k] = r[k], Len(q) = m + Len(r)
    PROVE  Reads(M \cup {<<Len(e) + 1, Len(q)>>}, e, q)
<1> DEFINE x == Len(q)
           N == M \cup {<<Len(e) + 1, x>>}
<1>1. C!RunMax \in Nat \ {0}
    BY RunFacts
<1>2. PICK a \in Nat, l \in Nat : a = Len(d) /\ l = Len(r) /\ l < C!RunMax /\ Len(e) = (a + 1) + l
    BY <1>1 DEF Extended
<1>3. x \in Nat /\ x = m + l
    BY <1>1, <1>2
<1> HIDE DEF x
<1>4. M \subseteq (1 .. a + 1) \X (0 .. m) /\ <<1, 0>> \in M
    BY <1>2 DEF Begun
<1>5. N \subseteq (1 .. Len(e) + 1) \X (0 .. x) /\ <<1, 0>> \in N
  <2>1. (1 .. a + 1) \X (0 .. m) \subseteq (1 .. Len(e) + 1) \X (0 .. x)
      BY <1>2, <1>3
  <2>2. <<Len(e) + 1, x>> \in (1 .. Len(e) + 1) \X (0 .. x)
      BY <1>2, <1>3
  <2> QED BY <1>4, <2>1, <2>2
<1>6. ASSUME NEW p \in 1 .. Len(e) + 1, NEW n \in 0 .. Len(q), <<p, n>> \in N, p # Len(e) + 1
      PROVE  ReadsRun(N, e, q, p, n)
  <2>1. <<p, n>> \in M
      BY <1>6
  <2>2. p \in 1 .. a + 1 /\ n \in 0 .. m
      BY <1>4, <2>1
  <2>3. CASE p \in 1 .. a
    <3>1. BegunRun(M, d, q, p, n)
        BY <1>2, <2>1, <2>2, <2>3 DEF Begun
    <3>2. Len(r) \in Nat /\ M \subseteq N /\ p \in 1 .. Len(d) /\ n \in Nat
        BY <1>2, <2>2, <2>3
    <3> HIDE DEF N
    <3> QED BY <3>1, <3>2, RunKept
  <2>4. CASE p = a + 1
    <3>1. n = m
        BY <1>2, <2>1, <2>2, <2>4 DEF Begun
    <3>2. e[p] = l + 1 /\ \A k \in 1 .. l : e[p + k] = r[k]
        BY <1>2, <2>4 DEF Extended
    <3>3. \A k \in 1 .. l : q[n + k] = e[p + k]
        BY <1>2, <3>1, <3>2
    <3>4. e[p] \in 1 .. C!RunMax + 1 /\ p + e[p] = Len(e) + 1 /\ e[p] - 1 = l
        BY <1>1, <1>2, <2>4, <3>2
    <3>5. ~ C!DelimiterAfter(e, e[p], p + e[p])
        BY <1>2, <3>4 DEF C!DelimiterAfter
    <3>6. Gain(e, p) = l
      <4>1. e[p] \in Int /\ e[p] >= 1
          BY <1>2, <3>2
      <4> QED BY <3>4, <3>5, <4>1, GainFacts
    <3>7. <<p + e[p], n + Gain(e, p)>> \in N
        BY <1>3, <3>1, <3>4, <3>6
    <3>8. p + e[p] <= Len(e) + 1
        BY <1>2, <3>4
    <3> HIDE DEF N
    <3> QED BY <3>3, <3>4, <3>5, <3>7, <3>8 DEF ReadsRun
  <2> QED BY <2>2, <2>3, <2>4
<1>7. ASSUME NEW n \in 0 .. Len(q), <<Len(e) + 1, n>> \in N PROVE n = x
  <2>1. <<Len(e) + 1, n>> \notin M \/ n = x
    <3>1. CASE <<Len(e) + 1, n>> \in M
      <4>1. Len(e) + 1 \in 1 .. a + 1
          BY <1>4, <3>1
      <4> QED BY <1>2, <4>1
    <3> QED BY <3>1
  <2> QED BY <1>7, <2>1
<1>8. x = Len(q)
    BY DEF x
<1> HIDE DEF N
<1>9. Reads(N, e, q)
    BY <1>5, <1>6, <1>7, <1>8 DEF Reads
<1> QED BY <1>8, <1>9 DEF N

-----------------------------------------------------------------------------
(* The rule for the loop of cobsEncode.                                      *)
LEMMA EncodeLoop ==
    ASSUME NEW q, NEW n \in Nat, n = Len(q), NEW I, [done |-> <<>>, run |-> <<>>] \in I[0],
           \A i \in 1 .. n : \A b \in I[i - 1] : C!EncodeByte(b, q[i]) \in I[i],
           NEW capacity, C!EncodedSize(n) <= capacity
    PROVE  \E b \in I[n] : C!Encode(q, capacity) = C!Written(C!CloseRun(b).done)
<1> DEFINE a == [done |-> <<>>, run |-> <<>>]
           Body(b, i) == C!EncodeByte(b, q[i])
           f == [i \in 1 .. n |-> [b \in I[i - 1] |-> Body(b, i)]]
           Is(g) == g = [i \in 0 .. Len(q) |-> IF i = 0 THEN a ELSE Body(g[i - 1], i)]
           h == CHOOSE g : Is(g)
<1>1. \A i \in 1 .. n : \A b \in I[i - 1] : Body(b, i) \in I[i] /\ f[i][b] = Body(b, i)
    OBVIOUS
<1>2. C!Encode(q, capacity) = IF C!EncodedSize(Len(q)) <= capacity
                              THEN C!Written(C!CloseRun(h[Len(q)]).done) ELSE C!Refused
    BY Zenon DEF C!Encode
<1> HIDE DEF Body, f, a
<1>3. PICK g : /\ g = [i \in 0 .. n |-> g[i]] /\ g[0] = a
               /\ \A i \in 1 .. n : g[i] = f[i][g[i - 1]]
               /\ \A i \in 0 .. n : g[i] \in I[i]
  <2>1. a \in I[0]
      BY DEF a
  <2>2. LoopHasResult(a, f, n, I)
      BY <1>1, <2>1, LoopKeeps
  <2> QED BY <2>2 DEF LoopHasResult
<1>4. Is(g)
  <2>1. ASSUME NEW i \in 1 .. n PROVE g[i] = Body(g[i - 1], i)
    <3>1. i - 1 \in 0 .. n /\ g[i - 1] \in I[i - 1]
        BY <1>3
    <3> QED BY <1>1, <1>3, <3>1
  <2>2. \A i \in 0 .. n : i = 0 \/ i \in 1 .. n
      OBVIOUS
  <2>3. g = [i \in 0 .. n |-> IF i = 0 THEN a ELSE Body(g[i - 1], i)]
      BY <1>3, <2>1, <2>2
  <2> QED BY <2>3, Zenon
<1>5. h[0] = a /\ \A i \in 1 .. n : h[i] = Body(h[i - 1], i)
  <2>1. Is(h)
      BY <1>4
  <2> HIDE DEF h
  <2> QED BY <2>1
<1> HIDE DEF h
<1> DEFINE Holds == {i \in 0 .. n : h[i] \in I[i]}
<1>6. 0 \in Holds /\ \A i \in 1 .. n : i - 1 \in Holds => i \in Holds
  <2>1. a \in I[0]
      BY DEF a
  <2> QED BY <1>1, <1>5, <2>1
<1>7. h[n] \in I[n]
  <2> HIDE DEF Holds
  <2>1. \A i \in 0 .. n : i \in Holds
      BY <1>6, AllAlong
  <2> QED BY <2>1 DEF Holds
<1>8. C!Encode(q, capacity) = C!Written(C!CloseRun(h[n]).done)
    BY <1>2, Zenon
<1> QED BY <1>7, <1>8

(* The states of the encoder after i bytes of q.  The finished part says the *)
(* first m of them and holds, besides them, a byte for each of its full      *)
(* runs; the open run is not full and holds the rest, none of them zero.     *)
OpenRun(r, q, i, m) ==
    m + Len(r) = i /\ Len(r) < C!RunMax /\ \A k \in 1 .. Len(r) : r[k] = q[m + k] /\ r[k] # 0

Finished(d, M, q, m, full) ==
    /\ Begun(M, d, q, m)
    /\ \A j \in 1 .. Len(d) : d[j] # 0
    /\ Len(d) <= m + full /\ C!RunMax * full <= m

Encoding(q, i) ==
    {b \in [done : Seq(Bytes), run : Seq(Bytes)] :
        \E M : \E m \in Nat, full \in Nat :
            OpenRun(b.run, q, i, m) /\ Finished(b.done, M, q, m, full)}

LEMMA EncodingStarts ==
    ASSUME NEW q
    PROVE  [done |-> <<>>, run |-> <<>>] \in Encoding(q, 0)
<1>1. OpenRun(<<>>, q, 0, 0)
    BY RunFacts DEF OpenRun
<1>2. C!RunMax * 0 = 0
    BY RunFacts
<1>3. Begun({<<1, 0>>}, <<>>, q, 0)
    BY DEF Begun
<1>4. Finished(<<>>, {<<1, 0>>}, q, 0, 0)
    BY <1>2, <1>3 DEF Finished
<1>5. [done |-> <<>>, run |-> <<>>] \in [done : Seq(Bytes), run : Seq(Bytes)]
    OBVIOUS
<1> QED BY <1>1, <1>4, <1>5 DEF Encoding

(* No byte of a frame is zero, if none of its runs has one.                  *)
LEMMA ExtendedFree ==
    ASSUME NEW d, NEW r, NEW e, Len(d) \in Nat, Len(r) \in Nat, Extended(d, r, e),
           \A j \in 1 .. Len(d) : d[j] # 0, \A k \in 1 .. Len(r) : r[k] # 0
    PROVE  \A j \in 1 .. Len(e) : e[j] # 0
<1>1. ASSUME NEW j \in 1 .. Len(e) PROVE e[j] # 0
  <2>1. PICK a \in Nat, l \in Nat : a = Len(d) /\ l = Len(r) /\ Len(e) = (a + 1) + l
      BY DEF Extended
  <2>2. CASE j <= a
    <3>1. j \in 1 .. Len(d)
        BY <2>1, <2>2
    <3>2. e[j] = d[j]
        BY <3>1 DEF Extended
    <3> QED BY <3>1, <3>2
  <2>3. CASE j = a + 1
    <3>1. e[j] = l + 1
        BY <2>1, <2>3 DEF Extended
    <3> QED BY <2>1, <3>1
  <2>4. CASE j > a + 1
    <3>1. PICK k \in 1 .. l : j = (a + 1) + k
      <4>1. j - (a + 1) \in 1 .. l /\ j = (a + 1) + (j - (a + 1))
          BY <2>1, <2>4
      <4> QED BY <4>1
    <3>2. e[j] = r[k]
        BY <2>1, <3>1 DEF Extended
    <3> QED BY <2>1, <3>2
  <2>5. j <= a \/ j = a + 1 \/ j > a + 1
      BY <2>1
  <2> QED BY <2>2, <2>3, <2>4, <2>5
<1> QED BY <1>1

LEMMA EncodingTurn ==
    ASSUME NEW q \in Seq(Bytes), NEW i \in 1 .. Len(q), NEW b \in Encoding(q, i - 1)
    PROVE  C!EncodeByte(b, q[i]) \in Encoding(q, i)
<1>0. C!RunMax \in Nat \ {0} /\ Len(q) \in Nat /\ q[i] \in Bytes
    BY RunFacts
<1>1. PICK d \in Seq(Bytes), r \in Seq(Bytes) : b = [done |-> d, run |-> r]
    BY DEF Encoding
<1>9. PICK M : \E m \in Nat, full \in Nat : OpenRun(r, q, i - 1, m) /\ Finished(d, M, q, m, full)
    BY <1>1 DEF Encoding
<1>2. PICK m \in Nat, full \in Nat : OpenRun(r, q, i - 1, m) /\ Finished(d, M, q, m, full)
    BY <1>9
<1>3. /\ Len(d) \in Nat /\ Len(r) \in Nat /\ m + Len(r) = i - 1 /\ Len(r) < C!RunMax
      /\ \A k \in 1 .. Len(r) : r[k] = q[m + k] /\ r[k] # 0
      /\ Begun(M, d, q, m) /\ Len(d) <= m + full /\ C!RunMax * full <= m
      /\ \A j \in 1 .. Len(d) : d[j] # 0
    BY <1>2 DEF OpenRun, Finished
<1>4. CASE q[i] = 0
  <2>1. PICK e \in Seq(Bytes) : C!CloseRun(b) = [done |-> e, run |-> <<>>] /\ Extended(d, r, e)
    <3>1. Len(r) <= C!RunMax
        BY <1>0, <1>3
    <3>2. C!CloseRun(b).done \in Seq(Bytes) /\ Extended(d, r, C!CloseRun(b).done)
        BY <1>1, <3>1, ClosedIs
    <3>3. C!CloseRun(b) = [done |-> C!CloseRun(b).done, run |-> <<>>]
        BY DEF C!CloseRun
    <3> QED BY <3>2, <3>3
  <2>2. C!EncodeByte(b, q[i]) = [done |-> e, run |-> <<>>]
      BY <1>4, <2>1 DEF C!EncodeByte, C!Delimiter
  <2>3. PICK N : Begun(N, e, q, i)
    <3>1. Len(r) \in 0 .. C!RunMax /\ Len(r) # C!RunMax /\ i = (m + Len(r)) + 1
        BY <1>0, <1>3
    <3>2. q[(m + Len(r)) + 1] = 0
        BY <1>4, <3>1
    <3>3. \A k \in 1 .. Len(r) : q[m + k] = r[k]
        BY <1>3
    <3>4. Begun(M \cup {<<Len(e) + 1, i>>}, e, q, i)
      <4>1. Len(d) \in Nat /\ Begun(M, d, q, m) /\ Extended(d, r, e)
          BY <1>3, <2>1
      <4>2. Len(r) = C!RunMax => i = m + Len(r)
          BY <3>1
      <4>3. Len(r) # C!RunMax => i = (m + Len(r)) + 1 /\ q[(m + Len(r)) + 1] = 0
          BY <3>1, <3>2
      <4> QED BY <3>1, <3>3, <4>1, <4>2, <4>3, RunCloses
    <3> QED BY <3>4
  <2>4. \A j \in 1 .. Len(e) : e[j] # 0
      BY <1>3, <2>1, ExtendedFree
  <2>5. Len(e) <= i + full /\ C!RunMax * full <= i
    <3>1. Len(e) = (Len(d) + 1) + Len(r)
        BY <2>1 DEF Extended
    <3>2. PICK x \in Nat : x = C!RunMax * full
        BY <1>0, Times
    <3> QED BY <1>0, <1>3, <3>1, <3>2
  <2>6. Finished(e, N, q, i, full)
      BY <2>3, <2>4, <2>5 DEF Finished
  <2>7. OpenRun(<<>>, q, i, i)
      BY <1>0 DEF OpenRun
  <2>8. [done |-> e, run |-> <<>>] \in [done : Seq(Bytes), run : Seq(Bytes)] /\ i \in Nat
      OBVIOUS
  <2> QED BY <2>2, <2>6, <2>7, <2>8 DEF Encoding
<1>5. CASE q[i] # 0
  <2>1. PICK s \in Seq(Bytes) : s = Append(r, q[i])
    <3>1. PICK c \in Bytes : c = q[i]
        BY <1>0
    <3>2. Append(r, c) \in Seq(Bytes)
        OBVIOUS
    <3> QED BY <3>1, <3>2
  <2>2. /\ Len(s) = Len(r) + 1 /\ s[Len(r) + 1] = q[i]
        /\ \A k \in 1 .. Len(r) : s[k] = r[k]
      BY <2>1
  <2>3. \A k \in 1 .. Len(s) : s[k] = q[m + k] /\ s[k] # 0
    <3>1. ASSUME NEW k \in 1 .. Len(s) PROVE s[k] = q[m + k] /\ s[k] # 0
      <4>1. CASE k = Len(r) + 1
        <5>1. m + k = i
            BY <1>3, <4>1
        <5> QED BY <1>5, <2>2, <4>1, <5>1
      <4>2. CASE k # Len(r) + 1
        <5>1. k \in 1 .. Len(r)
            BY <1>3, <2>2, <4>2
        <5> QED BY <1>3, <2>2, <5>1
      <4> QED BY <4>1, <4>2
    <3> QED BY <3>1
  <2>4. C!EncodeByte(b, q[i]) = IF Len(s) = C!RunMax THEN C!CloseRun([done |-> d, run |-> s])
                                ELSE [done |-> d, run |-> s]
    <3>1. [b EXCEPT !.run = Append(@, q[i])] = [done |-> d, run |-> s]
      <4>1. [[done |-> d, run |-> r] EXCEPT !.run = s] = [done |-> d, run |-> s] /\ b.run = r
          BY <1>1
      <4>2. [b EXCEPT !.run = Append(@, q[i])] = [b EXCEPT !.run = s]
          BY <2>1, <4>1
      <4> QED BY <1>1, <4>1, <4>2
    <3>2. [done |-> d, run |-> s].run = s
        OBVIOUS
    <3> QED BY <1>5, <3>1, <3>2, Zenon DEF C!EncodeByte, C!Delimiter
  <2>5. CASE Len(s) = C!RunMax
    <3>1. PICK e \in Seq(Bytes) : C!CloseRun([done |-> d, run |-> s]) = [done |-> e, run |-> <<>>]
                                  /\ Extended(d, s, e)
      <4>1. Len(s) <= C!RunMax
          BY <1>0, <2>5
      <4>2. C!CloseRun([done |-> d, run |-> s]).done \in Seq(Bytes)
            /\ Extended(d, s, C!CloseRun([done |-> d, run |-> s]).done)
          BY <4>1, ClosedIs
      <4>3. C!CloseRun([done |-> d, run |-> s])
              = [done |-> C!CloseRun([done |-> d, run |-> s]).done, run |-> <<>>]
          BY DEF C!CloseRun
      <4> QED BY <4>2, <4>3
    <3>2. PICK N : Begun(N, e, q, i)
      <4>1. Len(s) \in 0 .. C!RunMax /\ i = m + Len(s)
          BY <1>0, <1>3, <2>2, <2>5
      <4>2. Begun(M \cup {<<Len(e) + 1, i>>}, e, q, i)
          BY <1>3, <2>3, <2>5, <3>1, <4>1, RunCloses
      <4> QED BY <4>2
    <3>3. \A j \in 1 .. Len(e) : e[j] # 0
      <4>1. Len(s) \in Nat /\ \A k \in 1 .. Len(s) : s[k] # 0
          BY <1>3, <2>2, <2>3
      <4> QED BY <1>3, <3>1, <4>1, ExtendedFree
    <3>4. Len(e) <= i + (full + 1) /\ C!RunMax * (full + 1) <= i
      <4>1. Len(e) = (Len(d) + 1) + Len(s)
          BY <3>1 DEF Extended
      <4>2. PICK x \in Nat : x = C!RunMax * full /\ C!RunMax * (full + 1) = x + C!RunMax
          BY <1>0, Times
      <4> QED BY <1>0, <1>3, <2>2, <2>5, <4>1, <4>2
    <3>5. Finished(e, N, q, i, full + 1)
        BY <3>2, <3>3, <3>4 DEF Finished
    <3>6. OpenRun(<<>>, q, i, i)
        BY <1>0 DEF OpenRun
    <3>7. [done |-> e, run |-> <<>>] \in [done : Seq(Bytes), run : Seq(Bytes)] /\ i \in Nat /\ full + 1 \in Nat
        OBVIOUS
    <3>8. [done |-> e, run |-> <<>>] \in Encoding(q, i)
        BY <3>5, <3>6, <3>7 DEF Encoding
    <3> QED BY <2>4, <2>5, <3>1, <3>8
  <2>6. CASE Len(s) # C!RunMax
    <3>1. OpenRun(s, q, i, m)
        BY <1>0, <1>3, <2>2, <2>3, <2>6 DEF OpenRun
    <3> QED BY <1>2, <2>4, <2>6, <3>1 DEF Encoding
  <2> QED BY <2>5, <2>6
<1> QED BY <1>4, <1>5

(* What cobsEncode writes reads as the payload, holds no zero, and fits.     *)
LEMMA EncodedReads ==
    ASSUME NEW q \in Seq(Bytes)
    PROVE  \E f \in Seq(Bytes) : \E M :
             /\ C!Encode(q, C!EncodedSize(Len(q))) = C!Written(f)
             /\ \A j \in 1 .. Len(f) : f[j] # 0
             /\ Len(f) <= C!EncodedSize(Len(q)) /\ f # <<>>
             /\ Reads(M, f, q)
<1> DEFINE n == Len(q)
           I == [i \in 0 .. n |-> Encoding(q, i)]
<1>0. C!RunMax \in Nat \ {0} /\ n \in Nat
    BY RunFacts
<1>1. PICK b \in Encoding(q, n) : C!Encode(q, C!EncodedSize(n)) = C!Written(C!CloseRun(b).done)
  <2>1. [done |-> <<>>, run |-> <<>>] \in I[0]
      BY <1>0, EncodingStarts
  <2>2. \A i \in 1 .. n : \A b \in I[i - 1] : C!EncodeByte(b, q[i]) \in I[i]
    <3>1. ASSUME NEW i \in 1 .. n, NEW b \in I[i - 1] PROVE C!EncodeByte(b, q[i]) \in I[i]
      <4>1. b \in Encoding(q, i - 1)
          BY <1>0
      <4>2. C!EncodeByte(b, q[i]) \in Encoding(q, i)
          BY <4>1, EncodingTurn
      <4> QED BY <1>0, <4>2
    <3> QED BY <3>1
  <2>3. C!EncodedSize(n) <= C!EncodedSize(n)
      BY <1>0 DEF C!EncodedSize
  <2>4. I[n] = Encoding(q, n)
      BY <1>0
  <2> HIDE DEF I
  <2>5. \E b \in I[n] : C!Encode(q, C!EncodedSize(n)) = C!Written(C!CloseRun(b).done)
      BY <1>0, <2>1, <2>2, <2>3, EncodeLoop
  <2> QED BY <2>4, <2>5
<1>2. PICK d \in Seq(Bytes), r \in Seq(Bytes) : b = [done |-> d, run |-> r]
    BY DEF Encoding
<1>11. PICK M : \E m \in Nat, full \in Nat : OpenRun(r, q, n, m) /\ Finished(d, M, q, m, full)
    BY <1>2 DEF Encoding
<1>3. PICK m \in Nat, full \in Nat : OpenRun(r, q, n, m) /\ Finished(d, M, q, m, full)
    BY <1>11
<1>4. /\ Len(d) \in Nat /\ Len(r) \in Nat /\ m + Len(r) = n /\ Len(r) < C!RunMax
      /\ \A k \in 1 .. Len(r) : r[k] = q[m + k] /\ r[k] # 0
      /\ Begun(M, d, q, m) /\ Len(d) <= m + full /\ C!RunMax * full <= m
      /\ \A j \in 1 .. Len(d) : d[j] # 0
    BY <1>3 DEF OpenRun, Finished
<1>5. PICK e \in Seq(Bytes) : e = C!CloseRun(b).done /\ Extended(d, r, e)
  <2>1. Len(r) <= C!RunMax
      BY <1>0, <1>4
  <2> QED BY <1>2, <2>1, ClosedIs
<1>6. \A j \in 1 .. Len(e) : e[j] # 0
    BY <1>4, <1>5, ExtendedFree
<1>7. Reads(M \cup {<<Len(e) + 1, Len(q)>>}, e, q)
  <2>1. Len(r) \in 0 .. C!RunMax - 1 /\ Len(q) = m + Len(r)
      BY <1>0, <1>4
  <2> QED BY <1>4, <1>5, <2>1, RunEnds
<1>8. Len(e) = (Len(d) + 1) + Len(r) /\ Len(e) \in Nat /\ e # <<>>
  <2>1. Len(e) = (Len(d) + 1) + Len(r)
      BY <1>5 DEF Extended
  <2> QED BY <1>4, <2>1
<1>9. full <= n \div C!RunMax
  <2>1. PICK p \in Nat \ {0}, t \in Nat : p = C!RunMax /\ t = n
      BY <1>0
  <2>2. t \div p \in Int /\ t % p \in 0 .. p - 1 /\ t = p * (t \div p) + (t % p)
      OBVIOUS
  <2>3. PICK w \in Int, x \in 0 .. p - 1 : w = t \div p /\ t = p * w + x
      BY <2>2
  <2>4. ASSUME w < full PROVE FALSE
    <3>1. p * w + p <= p * full
        BY <2>4, Below
    <3>2. PICK y \in Int, z \in Int : y = p * w /\ z = p * full
        OBVIOUS
    <3>3. z <= t /\ t = y + x /\ y + p <= z
      <4>1. p * full <= m
          BY <1>4, <2>1, Zenon
      <4>2. m <= t
          BY <1>4, <2>1
      <4>3. z <= m
          BY <3>2, <4>1
      <4>4. t = y + x
          BY <2>3, <3>2
      <4>5. y + p <= z
          BY <3>1, <3>2
      <4> QED BY <4>2, <4>3, <4>4, <4>5
    <3> QED BY <3>3
  <2> QED BY <2>1, <2>3, <2>4
<1>10. Len(e) <= C!EncodedSize(n)
  <2>1. PICK w \in Int : w = n \div C!RunMax /\ full <= w
    <3>1. PICK p \in Nat \ {0}, t \in Nat : p = C!RunMax /\ t = n
        BY <1>0
    <3>2. t \div p \in Int
        OBVIOUS
    <3> QED BY <1>9, <3>1, <3>2
  <2>2. C!EncodedSize(n) = n + 1 + w
      BY <2>1 DEF C!EncodedSize
  <2>3. PICK t \in Nat, u \in Nat, v \in Nat : t = n /\ u = Len(d) /\ v = Len(r)
      BY <1>0, <1>4
  <2>4. Len(e) = (u + 1) + v /\ m + v = t /\ u <= m + full
      BY <1>4, <1>8, <2>3
  <2>5. (u + 1) + v <= t + 1 + w
      BY <2>1, <2>4
  <2> QED BY <2>2, <2>3, <2>4, <2>5
<1> QED BY <1>1, <1>5, <1>6, <1>7, <1>8, <1>10

-----------------------------------------------------------------------------
(* The states of the encoder after i bytes of what a frame f reads, if no    *)
(* byte of f is zero: it has written f up to a code byte, and has read some  *)
(* of the run behind it.                                                     *)
At(f, M, q, i, b, p, n) ==
    /\ <<p, n>> \in M /\ n + Len(b.run) = i
    /\ Len(b.done) = p - 1 /\ \A j \in 1 .. p - 1 : b.done[j] = f[j]
    /\ \A k \in 1 .. Len(b.run) : b.run[k] = q[n + k]
    /\ IF p = Len(f) + 1 THEN n = i ELSE Len(b.run) <= f[p] - 1 /\ Len(b.run) < C!RunMax

Following(f, M, q, i) ==
    {b \in [done : Seq(Bytes), run : Seq(Bytes)] :
        \E p \in 1 .. Len(f) + 1, n \in 0 .. Len(q) : At(f, M, q, i, b, p, n)}

LEMMA FollowingStarts ==
    ASSUME NEW f \in Seq(Bytes), NEW q \in Seq(Bytes), NEW M, Reads(M, f, q)
    PROVE  [done |-> <<>>, run |-> <<>>] \in Following(f, M, q, 0)
<1> DEFINE b == [done |-> <<>>, run |-> <<>>]
<1>1. b \in [done : Seq(Bytes), run : Seq(Bytes)] /\ Len(b.done) = 0 /\ Len(b.run) = 0
    OBVIOUS
<1>2. <<1, 0>> \in M /\ 1 \in 1 .. Len(f) + 1 /\ 0 \in 0 .. Len(q)
    BY DEF Reads
<1>3. 1 # Len(f) + 1 => f[1] \in Nat \ {0}
  <2>1. PICK x \in 1 .. Len(f) + 1, y \in 0 .. Len(q) : x = 1 /\ y = 0 /\ <<x, y>> \in M
      BY <1>2
  <2>2. Len(q) \in Nat
      OBVIOUS
  <2>3. ASSUME x # Len(f) + 1 PROVE f[x] \in Nat \ {0}
      BY <2>1, <2>2, <2>3, ReadsOn
  <2> QED BY <2>1, <2>3
<1> HIDE DEF b
<1>4. At(f, M, q, 0, b, 1, 0)
    BY <1>1, <1>2, <1>3, RunFacts DEF At
<1>5. b \in Following(f, M, q, 0)
    BY <1>1, <1>2, <1>4 DEF Following
<1> QED BY <1>5 DEF b

LEMMA FollowingTurn ==
    ASSUME NEW f \in Seq(Bytes), Free(f), NEW q \in Seq(Bytes), NEW M, Reads(M, f, q),
           NEW i \in 1 .. Len(q), NEW b \in Following(f, M, q, i - 1)
    PROVE  C!EncodeByte(b, q[i]) \in Following(f, M, q, i)
<1>0. C!RunMax \in Nat \ {0} /\ Len(q) \in Nat /\ Len(f) \in Nat /\ q[i] \in Bytes
    BY RunFacts
<1>1. PICK d \in Seq(Bytes), r \in Seq(Bytes) : b = [done |-> d, run |-> r]
    BY DEF Following
<1>2. PICK p \in 1 .. Len(f) + 1, n \in 0 .. Len(q) : At(f, M, q, i - 1, b, p, n)
    BY DEF Following
<1>3. /\ <<p, n>> \in M /\ n + Len(r) = i - 1 /\ Len(r) \in Nat
      /\ Len(d) = p - 1 /\ \A j \in 1 .. p - 1 : d[j] = f[j]
      /\ \A k \in 1 .. Len(r) : r[k] = q[n + k]
      /\ IF p = Len(f) + 1 THEN n = i - 1 ELSE Len(r) <= f[p] - 1 /\ Len(r) < C!RunMax
    BY <1>1, <1>2 DEF At
<1>4. p # Len(f) + 1
  <2>1. p = Len(f) + 1 => n = Len(q)
      BY <1>3 DEF Reads
  <2> QED BY <1>0, <1>3, <2>1
<1>5. /\ ReadsRun(M, f, q, p, n) /\ p \in 1 .. Len(f) /\ f[p] \in Nat \ {0}
      /\ p + f[p] \in p + 1 .. Len(f) + 1 /\ n + Gain(f, p) \in 0 .. Len(q)
      /\ <<p + f[p], n + Gain(f, p)>> \in M
    BY <1>0, <1>3, <1>4, ReadsOn
<1>6. PICK c \in Nat \ {0} : c = f[p]
    BY <1>5
<1>7. /\ \A k \in 1 .. c - 1 : q[n + k] = f[p + k]
      /\ C!DelimiterAfter(f, c, p + c) => q[n + c] = 0
      /\ c \in 1 .. C!RunMax + 1
    BY <1>5, <1>6 DEF ReadsRun
<1>8. PICK last \in Nat : last = Len(f)
    BY <1>0
<1>9. c <= C!RunMax + 1 /\ p <= last /\ p \in Nat \ {0} /\ p + c <= last + 1
    BY <1>5, <1>6, <1>7, <1>8
<1>10. PICK g \in Nat : g = Gain(f, p) /\ g \in {c - 1, c}
        /\ (C!DelimiterAfter(f, c, p + c) => g = c) /\ (~ C!DelimiterAfter(f, c, p + c) => g = c - 1)
        /\ n + g \in 0 .. Len(q) /\ <<p + c, n + g>> \in M
  <2>1. f[p] \in Int /\ f[p] >= 1
      BY <1>6
  <2>2. /\ Gain(f, p) \in {f[p] - 1, f[p]} /\ Gain(f, p) \in Nat
        /\ C!DelimiterAfter(f, f[p], p + f[p]) => Gain(f, p) = f[p]
        /\ ~ C!DelimiterAfter(f, f[p], p + f[p]) => Gain(f, p) = f[p] - 1
      BY <2>1, GainFacts
  <2>3. n + Gain(f, p) \in 0 .. Len(q) /\ <<p + c, n + Gain(f, p)>> \in M
      BY <1>5, <1>6
  <2> QED BY <1>6, <2>2, <2>3
<1>11. PICK l \in Nat : l = Len(r)
    BY <1>3
<1>12. l <= c - 1 /\ l < C!RunMax /\ n + l = i - 1 /\ (n + l) + 1 = i
  <2>1. Len(r) <= f[p] - 1 /\ Len(r) < C!RunMax /\ n + Len(r) = i - 1
      BY <1>3, <1>4
  <2>2. l <= c - 1 /\ l < C!RunMax /\ n + l = i - 1
      BY <1>6, <1>11, <2>1
  <2> QED BY <2>2
(* Writing the code byte of a run that has ended: the encoder is at the next. *)
<1>13. ASSUME NEW s \in Seq(Bytes), Len(s) = c - 1, \A k \in 1 .. Len(s) : s[k] = q[n + k], n + g = i
      PROVE  C!CloseRun([done |-> d, run |-> s]) \in Following(f, M, q, i)
  <2>1. Len(s) <= C!RunMax
      BY <1>0, <1>9, <1>13
  <2>2. PICK e \in Seq(Bytes) : C!CloseRun([done |-> d, run |-> s]) = [done |-> e, run |-> <<>>]
                                /\ Extended(d, s, e)
    <3>1. C!CloseRun([done |-> d, run |-> s]).done \in Seq(Bytes)
          /\ Extended(d, s, C!CloseRun([done |-> d, run |-> s]).done)
        BY <2>1, ClosedIs
    <3>2. C!CloseRun([done |-> d, run |-> s])
            = [done |-> C!CloseRun([done |-> d, run |-> s]).done, run |-> <<>>]
        BY DEF C!CloseRun
    <3> QED BY <3>1, <3>2
  <2>3. Len(e) = (p + c) - 1
    <3>1. Len(e) = (Len(d) + 1) + Len(s)
        BY <2>2 DEF Extended
    <3> QED BY <1>3, <1>9, <1>13, <3>1
  <2>4. \A j \in 1 .. (p + c) - 1 : e[j] = f[j]
    <3>1. ASSUME NEW j \in 1 .. (p + c) - 1 PROVE e[j] = f[j]
      <4>1. CASE j <= p - 1
        <5>1. j \in 1 .. Len(d)
            BY <1>3, <4>1
        <5>2. e[j] = d[j]
            BY <2>2, <5>1 DEF Extended
        <5>3. j \in 1 .. p - 1
            BY <4>1
        <5> QED BY <1>3, <5>2, <5>3
      <4>2. CASE j = p
        <5>1. e[Len(d) + 1] = Len(s) + 1
            BY <2>2 DEF Extended
        <5>2. Len(d) + 1 = p /\ Len(s) + 1 = c
            BY <1>3, <1>9, <1>13
        <5> QED BY <1>6, <4>2, <5>1, <5>2
      <4>3. CASE j > p
        <5>1. PICK k \in 1 .. c - 1 : j = p + k
          <6>1. j - p \in 1 .. c - 1 /\ j = p + (j - p)
              BY <1>9, <4>3
          <6> QED BY <6>1
        <5>2. k \in 1 .. Len(s) /\ (Len(d) + 1) + k = j
            BY <1>3, <1>13, <5>1
        <5>3. e[(Len(d) + 1) + k] = s[k]
            BY <2>2, <5>2 DEF Extended
        <5>4. s[k] = q[n + k] /\ q[n + k] = f[p + k]
            BY <1>7, <1>13, <5>1, <5>2
        <5> QED BY <5>1, <5>2, <5>3, <5>4
      <4>4. j <= p - 1 \/ j = p \/ j > p
          BY <1>9
      <4> QED BY <4>1, <4>2, <4>3, <4>4
    <3> QED BY <3>1
  <2>5. PICK x \in 1 .. Len(f) + 1, y \in 0 .. Len(q) : x = p + c /\ y = n + g /\ y = i /\ <<x, y>> \in M
    <3>1. p + c \in 1 .. Len(f) + 1
        BY <1>9, <1>8
    <3> QED BY <1>10, <1>13, <3>1
  <2>6. x # Len(f) + 1 => f[x] \in Nat \ {0}
      BY <1>0, <2>5, ReadsOn
  <2>7. At(f, M, q, i, [done |-> e, run |-> <<>>], x, y)
    <3>1. Len(<<>>) = 0 /\ y + Len(<<>>) = i
        BY <2>5
    <3>2. Len(e) = x - 1 /\ \A j \in 1 .. x - 1 : e[j] = f[j]
        BY <2>3, <2>4, <2>5
    <3>3. IF x = Len(f) + 1 THEN y = i ELSE Len(<<>>) <= f[x] - 1 /\ Len(<<>>) < C!RunMax
        BY <1>0, <2>5, <2>6, <3>1
    <3> QED BY <2>5, <3>1, <3>2, <3>3 DEF At
  <2>8. [done |-> e, run |-> <<>>] \in [done : Seq(Bytes), run : Seq(Bytes)]
      OBVIOUS
  <2> QED BY <2>2, <2>7, <2>8 DEF Following
<1>14. CASE q[i] = 0
  <2>1. l = c - 1
    <3>1. SUFFICES ASSUME l < c - 1 PROVE FALSE
        BY <1>12
    <3>2. l + 1 \in 1 .. c - 1 /\ n + (l + 1) = i /\ p + (l + 1) \in 1 .. Len(f)
        BY <1>9, <1>8, <1>12, <3>1
    <3>3. q[n + (l + 1)] = f[p + (l + 1)]
        BY <1>7, <3>2
    <3>4. f[p + (l + 1)] # 0
        BY <3>2 DEF Free, C!Delimiter
    <3> QED BY <1>14, <3>2, <3>3, <3>4
  <2>2. n + g = i
    <3>1. SUFFICES ASSUME g = c - 1 PROVE FALSE
        BY <1>10, <1>12, <2>1
    <3>2. ~ C!DelimiterAfter(f, c, p + c)
        BY <1>10, <3>1
    <3>3. c # C!RunMax + 1
        BY <1>0, <1>12, <2>1
    <3>4. p + c = Len(f) + 1
      <4>1. ~ p + c <= last
          BY <1>8, <3>2, <3>3, Zenon DEF C!DelimiterAfter
      <4>2. p + c = last + 1
          BY <1>9, <4>1
      <4> QED BY <1>8, <4>2
    <3>5. n + g = Len(q)
        BY <1>0, <1>10, <3>4 DEF Reads
    <3> QED BY <1>0, <1>12, <2>1, <3>1, <3>5
  <2>3. C!CloseRun([done |-> d, run |-> r]) \in Following(f, M, q, i)
      BY <1>3, <1>11, <1>13, <2>1, <2>2
  <2> QED BY <1>1, <1>14, <2>3 DEF C!EncodeByte, C!Delimiter
<1>15. CASE q[i] # 0
  <2>1. l < c - 1
    <3>1. SUFFICES ASSUME l = c - 1 PROVE FALSE
        BY <1>12
    <3>2. CASE g = c
      <4>1. C!DelimiterAfter(f, c, p + c)
          BY <1>10, <3>2
      <4>2. q[n + c] = 0 /\ n + c = i
        <5>1. q[n + c] = 0
            BY <1>7, <4>1
        <5>2. n + c = i
            BY <1>12, <3>1
        <5> QED BY <5>1, <5>2
      <4> QED BY <1>15, <4>2
    <3>3. CASE g = c - 1
      <4>1. ~ C!DelimiterAfter(f, c, p + c)
          BY <1>10, <3>3
      <4>2. c # C!RunMax + 1
          BY <1>0, <1>12, <3>1
      <4>3. p + c = Len(f) + 1
        <5>1. ~ p + c <= last
            BY <1>8, <4>1, <4>2, Zenon DEF C!DelimiterAfter
        <5>2. p + c = last + 1
            BY <1>9, <5>1
        <5> QED BY <1>8, <5>2
      <4>4. n + g = Len(q)
          BY <1>0, <1>10, <4>3 DEF Reads
      <4> QED BY <1>0, <1>12, <3>1, <3>3, <4>4
    <3> QED BY <1>10, <3>2, <3>3
  <2>2. PICK s \in Seq(Bytes) : s = Append(r, q[i])
    <3>1. PICK x \in Bytes : x = q[i]
        BY <1>0
    <3>2. Append(r, x) \in Seq(Bytes)
        OBVIOUS
    <3> QED BY <3>1, <3>2
  <2>3. /\ Len(s) = l + 1 /\ s[l + 1] = q[i]
        /\ \A k \in 1 .. l : s[k] = r[k]
      BY <1>11, <2>2
  <2>4. \A k \in 1 .. Len(s) : s[k] = q[n + k]
    <3>1. ASSUME NEW k \in 1 .. Len(s) PROVE s[k] = q[n + k]
      <4>1. CASE k = l + 1
        <5>1. n + k = i
            BY <1>12, <4>1
        <5> QED BY <2>3, <4>1, <5>1
      <4>2. CASE k # l + 1
        <5>1. k \in 1 .. l
            BY <2>3, <4>2
        <5> QED BY <1>3, <1>11, <2>3, <5>1
      <4> QED BY <4>1, <4>2
    <3> QED BY <3>1
  <2>5. C!EncodeByte(b, q[i]) = IF Len(s) = C!RunMax THEN C!CloseRun([done |-> d, run |-> s])
                                ELSE [done |-> d, run |-> s]
    <3>1. [b EXCEPT !.run = Append(@, q[i])] = [done |-> d, run |-> s]
      <4>1. [[done |-> d, run |-> r] EXCEPT !.run = s] = [done |-> d, run |-> s] /\ b.run = r
          BY <1>1
      <4>2. [b EXCEPT !.run = Append(@, q[i])] = [b EXCEPT !.run = s]
          BY <2>2, <4>1
      <4> QED BY <1>1, <4>1, <4>2
    <3>2. [done |-> d, run |-> s].run = s
        OBVIOUS
    <3> QED BY <1>15, <3>1, <3>2, Zenon DEF C!EncodeByte, C!Delimiter
  <2>6. CASE Len(s) = C!RunMax
    <3>1. c = C!RunMax + 1 /\ Len(s) = c - 1
      <4>1. PICK t \in Nat : t = C!RunMax
          BY <1>0
      <4>2. l + 1 = t
          BY <2>3, <2>6, <4>1, Zenon
      <4>3. c <= t + 1 /\ l < c - 1
          BY <1>9, <2>1, <4>1, Zenon
      <4>4. c = t + 1
          BY <4>2, <4>3
      <4> QED BY <2>6, <4>1, <4>4
    <3>2. ~ C!DelimiterAfter(f, c, p + c)
        BY <3>1 DEF C!DelimiterAfter
    <3>3. g = c - 1
        BY <1>10, <3>2
    <3>4. n + g = i
      <4>1. l + 1 = c - 1
          BY <2>3, <3>1, Zenon
      <4>2. (n + l) + 1 = i
          BY <1>12
      <4> QED BY <3>3, <4>1, <4>2
    <3>5. C!CloseRun([done |-> d, run |-> s]) \in Following(f, M, q, i)
        BY <1>13, <2>4, <3>1, <3>4
    <3> QED BY <2>5, <2>6, <3>5
  <2>7. CASE Len(s) # C!RunMax
    <3>1. Len(s) <= c - 1 /\ Len(s) < C!RunMax /\ n + Len(s) = i
        BY <1>0, <1>12, <2>1, <2>3, <2>7
    <3>2. At(f, M, q, i, [done |-> d, run |-> s], p, n)
        BY <1>3, <1>4, <1>6, <2>4, <3>1 DEF At
    <3>3. [done |-> d, run |-> s] \in Following(f, M, q, i)
        BY <3>2 DEF Following
    <3> QED BY <2>5, <2>7, <3>3
  <2> QED BY <2>6, <2>7
<1> QED BY <1>14, <1>15

(* Closing the run it has open, the encoder has written f again, or f and    *)
(* the code byte of an empty run if f ends with a full run.                  *)
LEMMA FollowingEnds ==
    ASSUME NEW f \in Seq(Bytes), NEW q \in Seq(Bytes), NEW M, Reads(M, f, q),
           NEW b \in Following(f, M, q, Len(q))
    PROVE  C!CloseRun(b).done \in {f, Append(f, 1)}
<1>0. C!RunMax \in Nat \ {0} /\ Len(q) \in Nat /\ Len(f) \in Nat /\ 1 \in Bytes
    BY RunFacts DEF Bytes
<1>1. PICK d \in Seq(Bytes), r \in Seq(Bytes) : b = [done |-> d, run |-> r]
    BY DEF Following
<1>2. PICK p \in 1 .. Len(f) + 1, n \in 0 .. Len(q) : At(f, M, q, Len(q), b, p, n)
    BY DEF Following
<1>3. /\ <<p, n>> \in M /\ n + Len(r) = Len(q) /\ Len(r) \in Nat
      /\ Len(d) = p - 1 /\ \A j \in 1 .. p - 1 : d[j] = f[j]
      /\ \A k \in 1 .. Len(r) : r[k] = q[n + k]
      /\ IF p = Len(f) + 1 THEN n = Len(q) ELSE Len(r) <= f[p] - 1 /\ Len(r) < C!RunMax
    BY <1>1, <1>2 DEF At
<1>4. PICK e \in Seq(Bytes) : e = C!CloseRun(b).done /\ Extended(d, r, e)
  <2>1. Len(r) <= C!RunMax
      BY <1>0, <1>3
  <2> QED BY <1>1, <2>1, ClosedIs
<1>5. PICK last \in Nat, l \in Nat : last = Len(f) /\ l = Len(r)
    BY <1>0, <1>3
<1>6. Len(e) = p + l /\ e[p] = l + 1
      /\ \A j \in 1 .. p - 1 : e[j] = f[j]
      /\ \A k \in 1 .. l : e[p + k] = r[k]
  <2>1. Len(d) + 1 = p
      BY <1>3
  <2>2. \A j \in 1 .. p - 1 : j \in 1 .. Len(d)
      BY <2>1
  <2> QED BY <1>3, <1>4, <1>5, <2>1, <2>2 DEF Extended
<1>7. CASE p = Len(f) + 1
  <2>1. l = 0
      BY <1>3, <1>5, <1>7
  <2>2. Append(f, 1) \in Seq(Bytes) /\ Len(Append(f, 1)) = last + 1
        /\ Append(f, 1)[last + 1] = 1 /\ \A j \in 1 .. last : Append(f, 1)[j] = f[j]
      BY <1>0, <1>5
  <2>3. Len(e) = last + 1 /\ e[last + 1] = 1 /\ \A j \in 1 .. last : e[j] = f[j]
      BY <1>5, <1>6, <1>7, <2>1
  <2>4. \A j \in 1 .. last + 1 : e[j] = Append(f, 1)[j]
      BY <2>2, <2>3
  <2>5. e = Append(f, 1)
      BY <2>2, <2>3, <2>4, SeqEqual
  <2> QED BY <1>4, <2>5
<1>8. CASE p # Len(f) + 1
  <2>1. /\ ReadsRun(M, f, q, p, n) /\ p \in 1 .. Len(f) /\ f[p] \in Nat \ {0}
        /\ n + Gain(f, p) \in 0 .. Len(q)
      BY <1>0, <1>3, <1>8, ReadsOn
  <2>2. PICK c \in Nat \ {0} : c = f[p]
      BY <2>1
  <2>3. /\ p + c <= Len(f) + 1 /\ \A k \in 1 .. c - 1 : q[n + k] = f[p + k]
      BY <2>1, <2>2 DEF ReadsRun
  <2>4. PICK g \in Nat : g = Gain(f, p) /\ g \in {c - 1, c} /\ n + g <= Len(q)
                         /\ (~ C!DelimiterAfter(f, c, p + c) \/ g = c)
    <3>1. f[p] \in Int /\ f[p] >= 1
        BY <2>1
    <3>2. /\ Gain(f, p) \in {f[p] - 1, f[p]} /\ Gain(f, p) \in Nat
          /\ C!DelimiterAfter(f, f[p], p + f[p]) => Gain(f, p) = f[p]
        BY <3>1, GainFacts
    <3> QED BY <2>1, <2>2, <3>2
  <2>5. l <= c - 1 /\ l < C!RunMax /\ n + l = Len(q)
    <3>1. Len(r) <= f[p] - 1 /\ Len(r) < C!RunMax
        BY <1>3, <1>8
    <3> QED BY <1>3, <1>5, <2>2, <3>1
  <2>6. g = c - 1 /\ l = c - 1 /\ c # C!RunMax + 1
      BY <1>0, <2>4, <2>5
  <2>7. ~ C!DelimiterAfter(f, c, p + c)
      BY <2>4, <2>6
  <2>8. ~ p + c <= last
      BY <1>5, <2>6, <2>7, Zenon DEF C!DelimiterAfter
  <2>9. p + l = last /\ p + c = last + 1
    <3>1. PICK x \in Int : x = p
        OBVIOUS
    <3>2. x + c <= last + 1 /\ ~ x + c <= last /\ l = c - 1
        BY <1>5, <2>3, <2>6, <2>8, <3>1
    <3>3. x + l = last /\ x + c = last + 1
        BY <3>2
    <3> QED BY <3>1, <3>3
  <2>10. \A j \in 1 .. last : e[j] = f[j]
    <3>1. ASSUME NEW j \in 1 .. last PROVE e[j] = f[j]
      <4>1. CASE j <= p - 1
        <5>1. j \in 1 .. p - 1
            BY <4>1
        <5> QED BY <1>6, <5>1
      <4>2. CASE j = p
        <5>1. l + 1 = c
            BY <2>6
        <5> QED BY <1>6, <2>2, <4>2, <5>1
      <4>3. CASE j > p
        <5>1. PICK k \in 1 .. l : j = p + k
          <6>1. j - p \in 1 .. l /\ j = p + (j - p)
              BY <2>9, <4>3
          <6> QED BY <6>1
        <5>2. k \in 1 .. c - 1 /\ k \in 1 .. Len(r)
            BY <1>5, <2>6, <5>1
        <5>3. e[p + k] = r[k]
          <6>1. e[(Len(d) + 1) + k] = r[k]
              BY <1>4, <5>2 DEF Extended
          <6>2. Len(d) + 1 = p
              BY <1>3
          <6> QED BY <6>1, <6>2
        <5>4. r[k] = q[n + k]
            BY <1>3, <5>2
        <5>5. q[n + k] = f[p + k]
            BY <2>3, <5>2
        <5> QED BY <5>1, <5>3, <5>4, <5>5
      <4>4. j <= p - 1 \/ j = p \/ j > p
          OBVIOUS
      <4> QED BY <4>1, <4>2, <4>3, <4>4
    <3> QED BY <3>1
  <2>11. Len(e) = last
      BY <1>6, <2>9
  <2>12. e = f
      BY <1>5, <2>10, <2>11, SeqEqual
  <2> QED BY <1>4, <2>12
<1> QED BY <1>7, <1>8

(* Of a frame without a zero the encoder makes, from what it reads, itself.  *)
LEMMA EncodedAgain ==
    ASSUME NEW f \in Seq(Bytes), Free(f), NEW q \in Seq(Bytes), NEW M, Reads(M, f, q)
    PROVE  \E e \in {f, Append(f, 1)} : C!Encode(q, C!EncodedSize(Len(q))) = C!Written(e)
<1> DEFINE n == Len(q)
           I == [i \in 0 .. n |-> Following(f, M, q, i)]
<1>0. C!RunMax \in Nat \ {0} /\ n \in Nat
    BY RunFacts
<1>1. PICK b \in Following(f, M, q, n) : C!Encode(q, C!EncodedSize(n)) = C!Written(C!CloseRun(b).done)
  <2>1. [done |-> <<>>, run |-> <<>>] \in I[0]
      BY <1>0, FollowingStarts
  <2>2. \A i \in 1 .. n : \A b \in I[i - 1] : C!EncodeByte(b, q[i]) \in I[i]
    <3>1. ASSUME NEW i \in 1 .. n, NEW b \in I[i - 1] PROVE C!EncodeByte(b, q[i]) \in I[i]
      <4>1. b \in Following(f, M, q, i - 1)
          BY <1>0
      <4>2. C!EncodeByte(b, q[i]) \in Following(f, M, q, i)
          BY <4>1, FollowingTurn
      <4> QED BY <1>0, <4>2
    <3> QED BY <3>1
  <2>3. C!EncodedSize(n) <= C!EncodedSize(n)
      BY <1>0 DEF C!EncodedSize
  <2>4. I[n] = Following(f, M, q, n)
      BY <1>0
  <2> HIDE DEF I
  <2>5. \E b \in I[n] : C!Encode(q, C!EncodedSize(n)) = C!Written(C!CloseRun(b).done)
      BY <1>0, <2>1, <2>2, <2>3, EncodeLoop
  <2> QED BY <2>4, <2>5
<1>2. C!CloseRun(b).done \in {f, Append(f, 1)}
    BY FollowingEnds
<1> QED BY <1>1, <1>2

(* A frame that reads as q is decoded to q, if there is room for it.         *)
LEMMA ReadsIsDecoded ==
    ASSUME NEW f \in Seq(Bytes), f # <<>>, NEW q \in Seq(Bytes), NEW M, Reads(M, f, q),
           NEW capacity \in Nat, Len(q) <= capacity
    PROVE  C!Decode(f, capacity) = C!Written(q)
<1>1. C!Validate(f) = Len(q) /\ Len(q) \in Nat
    BY ReadsIsValidated
<1>2. C!Fill(f) = q
  <2>1. PICK Elems : Elems = Bytes \cup Around(f)
      OBVIOUS
  <2>2. Around(f) \subseteq Elems /\ q \in Seq(Elems)
      BY <2>1
  <2> QED BY <2>2, ReadsIsWritten
<1> QED BY <1>1, <1>2 DEF C!Decode

(* What a frame is decoded to, if it is.                                     *)
LEMMA DecodedIs ==
    ASSUME NEW f \in Seq(Bytes), NEW capacity \in Nat
    PROVE  \/ C!Decode(f, capacity) = C!Refused
           \/ /\ f # <<>> /\ C!Validate(f) # -1 /\ C!Decode(f, capacity) = C!Written(C!Fill(f))
              /\ Len(C!Fill(f)) <= capacity
<1>1. CASE f = <<>>
    BY <1>1 DEF C!Decode
<1>2. CASE f # <<>>
  <2>1. C!Validate(f) # -1 => Len(C!Fill(f)) = C!Validate(f)
      BY SoundIsRead
  <2>2. C!Decode(f, capacity) = IF C!Validate(f) >= 0 /\ C!Validate(f) <= capacity
                                THEN C!Written(C!Fill(f)) ELSE C!Refused
      BY <1>2 DEF C!Decode
  <2> QED BY <1>2, <2>1, <2>2, ValidateRange
<1> QED BY <1>1, <1>2

(* The frames of cobs.c, whatever a byte is and however long they are:       *)
(* cobsEncode writes no delimiter and no more than it says, cobsDecode gives *)
(* the payload back and takes no frame that cobsEncode does not make, and no *)
(* frame makes its second pass write more than its first has counted.        *)
THEOREM FramesAreInverted == Spec => []FramesInvert
<1>1. ArgumentsTyped => FramesInvert
  <2>1. CASE family # "frame"
      BY <2>1 DEF FramesInvert, CobsRoundTrip, CobsWritesWithinCapacity, CobsOneFrame
  <2>2. ASSUME family = "frame", ArgumentsTyped PROVE FramesInvert
    <3>1. data \in Seq(Bytes) /\ Len(data) \in Nat
      <4>1. data \in Seq(Elements["frame"]) /\ Elements["frame"] \subseteq Bytes
          BY <2>2, BytesAssumption DEF ArgumentsTyped, Bytes
      <4>2. PICK E : E = Elements["frame"]
          OBVIOUS
      <4>3. E \subseteq Bytes => Seq(E) \subseteq Seq(Bytes)
          OBVIOUS
      <4> QED BY <4>1, <4>2, <4>3
    <3>2. CobsRoundTrip
      <4>1. PICK f \in Seq(Bytes) :
               \E M : /\ C!Encode(data, C!EncodedSize(Len(data))) = C!Written(f)
                      /\ \A j \in 1 .. Len(f) : f[j] # 0
                      /\ Len(f) <= C!EncodedSize(Len(data)) /\ f # <<>> /\ Reads(M, f, data)
          BY <3>1, EncodedReads
      <4>2. C!Decode(f, Len(data)) = C!Written(data)
        <5>1. PICK M : f # <<>> /\ Reads(M, f, data)
            BY <4>1
        <5>2. Len(data) <= Len(data)
            BY <3>1
        <5> QED BY <3>1, <5>1, <5>2, ReadsIsDecoded
      <4>3. Free(f)
          BY <4>1 DEF Free, C!Delimiter
      <4>4. C!Written(f).ok /\ C!Written(f).bytes = f
          BY DEF C!Written
      <4> QED BY <4>1, <4>2, <4>3, <4>4 DEF CobsRoundTrip
    <3>3. CobsWritesWithinCapacity
      <4>1. ASSUME NEW capacity \in 0 .. Len(data) PROVE Len(C!Decode(data, capacity).bytes) <= capacity
        <5>1. capacity \in Nat
            BY <3>1
        <5>2. C!Refused.bytes = <<>> /\ C!Written(C!Fill(data)).bytes = C!Fill(data)
            BY DEF C!Refused, C!Written
        <5> QED BY <3>1, <5>1, <5>2, DecodedIs
      <4> QED BY <4>1 DEF CobsWritesWithinCapacity
    <3>4. CobsOneFrame
      <4>1. SUFFICES ASSUME Free(data), C!Decode(data, Len(data)).ok
                     PROVE  LET d == C!Decode(data, Len(data))
                                e == C!Encode(d.bytes, C!EncodedSize(Len(d.bytes))).bytes
                            IN  \/ e = data
                                \/ e = Append(data, 1) /\ C!Decode(e, Len(data)) = d
          BY DEF CobsOneFrame
      <4>2. PICK q \in Seq(Bytes) : /\ C!Decode(data, Len(data)) = C!Written(q) /\ Len(q) <= Len(data)
                                    /\ \E M : Reads(M, data, q)
        <5>1. ~ C!Refused.ok
            BY DEF C!Refused
        <5>2. /\ C!Validate(data) # -1 /\ C!Decode(data, Len(data)) = C!Written(C!Fill(data))
              /\ Len(C!Fill(data)) <= Len(data)
            BY <3>1, <4>1, <5>1, DecodedIs
        <5>3. C!Fill(data) \in Seq(Bytes) /\ \E M : Reads(M, data, C!Fill(data))
            BY <3>1, <5>2, SoundIsRead
        <5> QED BY <5>2, <5>3
      <4>3. PICK M : Reads(M, data, q)
          BY <4>2
      <4>4. PICK e \in {data, Append(data, 1)} : C!Encode(q, C!EncodedSize(Len(q))) = C!Written(e)
          BY <3>1, <4>1, <4>3, EncodedAgain
      <4>5. PICK f \in Seq(Bytes) :
               \E N : C!Encode(q, C!EncodedSize(Len(q))) = C!Written(f) /\ f # <<>> /\ Reads(N, f, q)
          BY EncodedReads
      <4>6. PICK N : f # <<>> /\ Reads(N, f, q)
          BY <4>5
      <4>7. C!Decode(f, Len(data)) = C!Written(q)
          BY <3>1, <4>2, <4>6, ReadsIsDecoded
      <4>8. C!Written(e).bytes = e /\ C!Written(f).bytes = f /\ C!Written(q).bytes = q
          BY DEF C!Written
      <4>9. e = f
          BY <4>4, <4>5, <4>8
      <4> QED BY <4>2, <4>4, <4>7, <4>8, <4>9
    <3> QED BY <3>2, <3>3, <3>4 DEF FramesInvert
  <2> QED BY <2>1, <2>2
<1> QED BY <1>1, ArgumentsKept, PTL
=============================================================================
