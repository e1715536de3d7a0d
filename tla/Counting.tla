------------------------------ MODULE Counting ------------------------------
(***************************************************************************)
(* The arithmetic of a count that starts again at a modulus, and           *)
(* induction over the natural numbers.                                     *)
(***************************************************************************)
EXTENDS Integers, FiniteSetTheorems, TLAPS

(* A quotient that is one larger leaves room for every remainder. *)
LEMMA Below ==
    ASSUME NEW p \in Nat \ {0}, NEW q \in Int, NEW d \in Int, q < d
    PROVE  p * q + p <= p * d
<1>1. PICK k \in Nat : d = q + 1 + k
  <2>1. d - q - 1 \in Nat /\ d = q + 1 + (d - q - 1)
    OBVIOUS
  <2> QED BY <2>1
<1>2. p * d = p * q + p + p * k
    BY <1>1, Z3
<1>3. p * k \in Nat
    BY <1>1, Z3
<1> QED BY <1>2, <1>3

(* A remainder below the divisor is the only one. *)
LEMMA DivUnique ==
    ASSUME NEW p \in Nat \ {0}, NEW q \in Int, NEW r \in 0 .. p - 1,
           NEW d \in Int, NEW s \in 0 .. p - 1, p * q + r = p * d + s
    PROVE  r = s
<1>1. p * q \in Int /\ p * d \in Int
    OBVIOUS
<1>2. ~ q < d
    BY <1>1, Below
<1>3. ~ d < q
    BY <1>1, Below
<1>4. q = d
    BY <1>2, <1>3
<1> QED BY <1>1, <1>4

LEMMA ModIs ==
    ASSUME NEW p \in Nat \ {0}, NEW a \in Nat, NEW q \in Int, NEW r \in 0 .. p - 1, a = p * q + r
    PROVE  a % p = r
<1>1. a % p \in 0 .. p - 1 /\ a \div p \in Int
    OBVIOUS
<1>2. a = p * (a \div p) + (a % p)
    OBVIOUS
<1> QED BY <1>1, <1>2, DivUnique

(* The remainder counts along and starts again at p. *)
LEMMA ModSucc ==
    ASSUME NEW p \in Nat \ {0}, NEW a \in Nat
    PROVE  /\ a % p \in 0 .. p - 1
           /\ (a + 1) % p = IF (a % p) + 1 = p THEN 0 ELSE (a % p) + 1
<1>1. a % p \in 0 .. p - 1 /\ a \div p \in Int
    OBVIOUS
<1>2. a = p * (a \div p) + (a % p)
    OBVIOUS
<1>5. CASE (a % p) + 1 = p
  <2>1. a + 1 = p * (a \div p + 1) + 0
      BY <1>1, <1>2, <1>5, Z3
  <2>2. a \div p + 1 \in Int /\ 0 \in 0 .. p - 1 /\ a + 1 \in Nat
      BY <1>1
  <2>3. (a + 1) % p = 0
      BY <2>1, <2>2, ModIs
  <2> QED BY <2>3, <1>1, <1>5
<1>6. CASE (a % p) + 1 # p
  <2>1. a + 1 = p * (a \div p) + ((a % p) + 1) /\ a + 1 \in Nat
      BY <1>2
  <2>2. (a % p) + 1 \in 0 .. p - 1
      BY <1>1, <1>6
  <2>3. (a + 1) % p = (a % p) + 1
      BY <2>1, <2>2, <1>1, ModIs
  <2> QED BY <2>3, <1>1, <1>6
<1> QED BY <1>5, <1>6

(* A count kept modulo a multiple of p has the remainders of the count.      *)
LEMMA ModOfMultiple ==
    ASSUME NEW p \in Nat \ {0}, NEW m \in Nat \ {0}, m % p = 0, NEW a \in 0 .. m - 1
    PROVE  /\ (a + 1) % m \in 0 .. m - 1
           /\ ((a + 1) % m) % p = (a + 1) % p
<1>1. CASE a + 1 < m
  <2>1. a + 1 \in 0 .. m - 1 /\ a + 1 = m * 0 + (a + 1) /\ a + 1 \in Nat
      BY <1>1
  <2> QED BY <2>1, ModIs
<1>2. CASE a + 1 = m
  <2>1. m = m * 1 + 0 /\ 0 \in 0 .. m - 1 /\ 0 = p * 0 + 0 /\ 0 \in 0 .. p - 1
      OBVIOUS
  <2>2. m % m = 0 /\ 0 % p = 0
      BY <2>1, ModIs
  <2> QED BY <2>2, <1>2
<1> QED BY <1>1, <1>2

(* A sum may be reduced as often as one likes. *)
LEMMA ModAdd ==
    ASSUME NEW p \in Nat \ {0}, NEW a \in Nat, NEW b \in Nat
    PROVE  ((a % p) + b) % p = (a + b) % p
<1> DEFINE q == a \div p
           r == a % p
<1>1. r \in 0 .. p - 1 /\ q \in Int /\ a = p * q + r
    OBVIOUS
<1> HIDE DEF q, r
<1> DEFINE d == (r + b) \div p
           s == (r + b) % p
<1>2. s \in 0 .. p - 1 /\ d \in Int /\ r + b = p * d + s
    BY <1>1
<1> HIDE DEF d, s
<1>3. a + b \in Nat /\ q + d \in Int /\ a + b = p * (q + d) + s
  <2>1. p * (q + d) = p * q + p * d
      BY <1>1, <1>2, Z3
  <2> QED BY <1>1, <1>2, <2>1
<1>4. (a + b) % p = s
    BY <1>2, <1>3, ModIs
<1> QED BY <1>4 DEF r, s

(* A whole turn changes nothing. *)
LEMMA ModTurn ==
    ASSUME NEW p \in Nat \ {0}, NEW a \in Nat
    PROVE  (a + p) % p = a % p
<1> DEFINE q == a \div p
           r == a % p
<1>1. r \in 0 .. p - 1 /\ q \in Int /\ a = p * q + r
    OBVIOUS
<1> HIDE DEF q, r
<1>2. a + p \in Nat /\ q + 1 \in Int /\ a + p = p * (q + 1) + r
  <2>1. p * (q + 1) = p * q + p
      BY <1>1, Z3
  <2> QED BY <1>1, <2>1
<1>3. (a + p) % p = r
    BY <1>1, <1>2, ModIs
<1> QED BY <1>3 DEF r

(* Numbers closer than p that leave the same remainder are the same.         *)
LEMMA ModClose ==
    ASSUME NEW p \in Nat \ {0}, NEW a \in Nat, NEW b \in Nat,
           a % p = b % p, a < b + p, b < a + p
    PROVE  a = b
<1> DEFINE q == a \div p
           d == b \div p
           r == a % p
<1>1. r \in 0 .. p - 1 /\ q \in Int /\ d \in Int /\ a = p * q + r /\ b = p * d + r
    OBVIOUS
<1> HIDE DEF q, d, r
<1>2. p * q \in Int /\ p * d \in Int
    BY <1>1
<1>3. ~ q < d
    BY <1>1, <1>2, Below
<1>4. ~ d < q
    BY <1>1, <1>2, Below
<1>5. q = d
    BY <1>1, <1>3, <1>4
<1> QED BY <1>1, <1>5

(* Products of a rate. *)
LEMMA Times ==
    ASSUME NEW p \in Nat \ {0}, NEW a \in Nat, NEW b \in Nat
    PROVE  /\ p * a \in Nat /\ p * (a + 1) = p * a + p
           /\ a <= b => p * a <= p * b
           /\ a < b => p * a + p <= p * b
<1>1. p * a \in Nat /\ p * b \in Nat /\ p * (a + 1) = p * a + p
    BY Z3
<1>2. a < b => p * a + p <= p * b
    BY Below
<1> QED BY <1>1, <1>2

-----------------------------------------------------------------------------
(* A set of natural numbers has a least element; so what holds of zero and   *)
(* of every successor holds of all of them.  Both are facts of sets.         *)
LEMMA LeastNatural ==
    ASSUME NEW T \in SUBSET Nat, T # {}
    PROVE  \E m \in T : \A k \in T : m <= k
<1> DEFINE Under(n) == 0 .. n - 1
           Unders == {Under(n) : n \in T}
<1>1. Unders \subseteq FiniteSubsetsOf(Nat) /\ Unders # {}
  <2>1. ASSUME NEW n \in T PROVE Under(n) \in FiniteSubsetsOf(Nat)
    <3>1. IsFiniteSet(Under(n)) /\ Under(n) \in SUBSET Nat
      BY FS_Interval
    <3> QED BY <3>1 DEF FiniteSubsetsOf
  <2> QED BY <2>1
<1>2. PICK x \in Unders : \A y \in Unders : <<y, x>> \notin StrictSubsetOrdering(Nat)
  <2> HIDE DEF Unders
  <2> QED BY <1>1, FS_StrictSubsetOrderingWellFounded, WFMin
<1>3. PICK m \in T : x = Under(m)
  OBVIOUS
<1>4. ASSUME NEW k \in T, k < m PROVE FALSE
  <2>1. Under(k) \subseteq Under(m) /\ k \in Under(m) /\ k \notin Under(k)
    BY <1>4
  <2>2. Under(k) \in SUBSET Nat /\ Under(m) \in SUBSET Nat /\ Under(k) # Under(m)
    BY <2>1
  <2>3. <<Under(k), Under(m)>> \in StrictSubsetOrdering(Nat)
    BY <2>1, <2>2 DEF StrictSubsetOrdering
  <2> QED BY <1>2, <1>3, <2>3
<1> QED BY <1>4

LEMMA CountingUp ==
    ASSUME NEW S, 0 \in S, \A n \in Nat : n \in S => n + 1 \in S
    PROVE  \A n \in Nat : n \in S
<1> SUFFICES ASSUME Nat \ S # {} PROVE FALSE
    OBVIOUS
<1>1. PICK m \in Nat \ S : \A k \in Nat \ S : m <= k
    BY LeastNatural
<1>2. m - 1 \in Nat /\ m - 1 \in S /\ m = (m - 1) + 1
    BY <1>1
<1> QED BY <1>1, <1>2

(* What holds of the first of a run of things, and of each one whose         *)
(* predecessor it holds of, holds of all of them.                            *)
LEMMA AllAlong ==
    ASSUME NEW n \in Nat, NEW Holds, 0 \in Holds,
           \A i \in 1 .. n : i - 1 \in Holds => i \in Holds
    PROVE  \A i \in 0 .. n : i \in Holds
<1> DEFINE S == {i \in Nat : i <= n => i \in Holds}
<1>1. 0 \in S
    OBVIOUS
<1>2. ASSUME NEW i \in Nat, i \in S PROVE i + 1 \in S
    BY <1>2
<1>3. \A i \in Nat : i \in S
  <2> HIDE DEF S
  <2> QED BY <1>1, <1>2, CountingUp
<1> QED BY <1>3

(* A function may be defined by recursion, if every argument but those of    *)
(* base asks for the value at a smaller one; it is handed on as it is for    *)
(* the arguments of through, and f makes another of it for the rest.         *)
RecursionHasResult(D, base, res, through, next, f) ==
    \E g : /\ g = [x \in D |-> g[x]]
           /\ \A x \in D : g[x] = IF x \in base THEN res[x]
                                  ELSE IF x \in through THEN g[next[x]] ELSE f[x][g[next[x]]]

LEMMA Recursion ==
    ASSUME NEW D, NEW N \in Nat, NEW size \in [D -> 0 .. N], NEW base, NEW res, NEW through,
           NEW next, NEW f,
           \A x \in D : x \notin base => next[x] \in D /\ size[next[x]] < size[x]
    PROVE  RecursionHasResult(D, base, res, through, next, f)
<1> DEFINE Value(g, x) == IF x \in base THEN res[x]
                          ELSE IF x \in through THEN g[next[x]] ELSE f[x][g[next[x]]]
           Right(g, n) == \A x \in D : size[x] < n => g[x] = Value(g, x)
           S == {n \in Nat : \E g : g = [x \in D |-> g[x]] /\ Right(g, n)}
<1>1. 0 \in S
  <2> DEFINE g == [x \in D |-> res[x]]
  <2>1. g = [x \in D |-> g[x]] /\ Right(g, 0)
      OBVIOUS
  <2> HIDE DEF g
  <2> QED BY <2>1
<1>2. ASSUME NEW n \in Nat, n \in S PROVE n + 1 \in S
  <2>1. PICK g : g = [x \in D |-> g[x]] /\ Right(g, n)
      BY <1>2
  <2> DEFINE h == [x \in D |-> Value(g, x)]
  <2>2. \A x \in D : size[x] < n => h[x] = g[x]
      BY <2>1
  <2>3. ASSUME NEW x \in D, size[x] < n + 1 PROVE h[x] = Value(h, x)
    <3>1. CASE x \in base
        BY <3>1
    <3>2. CASE x \notin base
      <4>1. next[x] \in D /\ size[next[x]] < n /\ size[next[x]] \in Int
          BY <2>3, <3>2
      <4>2. h[next[x]] = g[next[x]]
          BY <2>2, <4>1
      <4> QED BY <4>2
    <3> QED BY <3>1, <3>2
  <2>4. h = [x \in D |-> h[x]]
      OBVIOUS
  <2> HIDE DEF h
  <2>5. Right(h, n + 1)
      BY <2>3
  <2> HIDE DEF Right
  <2> QED BY <2>4, <2>5
<1>3. N + 1 \in S
  <2> HIDE DEF S
  <2> QED BY <1>1, <1>2, CountingUp
<1>4. PICK g : g = [x \in D |-> g[x]] /\ Right(g, N + 1)
    BY <1>3
<1> QED BY <1>4 DEF RecursionHasResult

(* And if every turn of it makes a result in Out of one in Out, then all its *)
(* results are in Out.                                                       *)
RecursionBuilds(D, base, res, next, f, Out) ==
    \E g : /\ g = [x \in D |-> g[x]]
           /\ \A x \in D : g[x] = IF x \in base THEN res[x] ELSE f[x][g[next[x]]]
           /\ \A x \in D : g[x] \in Out

LEMMA BuildingUp ==
    ASSUME NEW D, NEW N \in Nat, NEW size \in [D -> 0 .. N], NEW base, NEW res, NEW next, NEW f,
           NEW Out,
           \A x \in D : x \notin base => next[x] \in D /\ size[next[x]] < size[x],
           \A x \in D : x \in base => res[x] \in Out,
           \A x \in D : x \notin base => \A v \in Out : f[x][v] \in Out
    PROVE  RecursionBuilds(D, base, res, next, f, Out)
<1>1. PICK g : /\ g = [x \in D |-> g[x]]
               /\ \A x \in D : g[x] = IF x \in base THEN res[x]
                                      ELSE IF x \in {} THEN g[next[x]] ELSE f[x][g[next[x]]]
  <2>1. RecursionHasResult(D, base, res, {}, next, f)
      BY Recursion
  <2> QED BY <2>1 DEF RecursionHasResult
<1> DEFINE S == {n \in Nat : \A x \in D : size[x] < n => g[x] \in Out}
<1>2. 0 \in S
    OBVIOUS
<1>3. ASSUME NEW n \in Nat, n \in S PROVE n + 1 \in S
  <2>1. ASSUME NEW x \in D, size[x] < n + 1 PROVE g[x] \in Out
    <3>1. CASE x \in base
        BY <1>1, <3>1
    <3>2. CASE x \notin base
      <4>1. next[x] \in D /\ size[next[x]] < n
          BY <2>1, <3>2
      <4>2. g[next[x]] \in Out
          BY <1>3, <4>1
      <4> QED BY <1>1, <3>2, <4>2
    <3> QED BY <3>1, <3>2
  <2> QED BY <2>1
<1>4. N + 1 \in S
  <2> HIDE DEF S
  <2> QED BY <1>2, <1>3, CountingUp
<1> QED BY <1>1, <1>4 DEF RecursionBuilds

(* A recursion that only moves on: if what holds of an argument holds of the *)
(* one asked for, and gives a result in Out where the recursion ends, then   *)
(* its result is in Out.                                                     *)
MovesOn(Holds, Out, N, size, base, res, next, g) ==
    /\ \A x \in Holds : size[x] \in 0 .. N
    /\ \A x \in Holds : g[x] = IF x \in base THEN res[x] ELSE g[next[x]]
    /\ \A x \in Holds : x \notin base => next[x] \in Holds /\ size[next[x]] < size[x]
    /\ \A x \in Holds : x \in base => res[x] \in Out
LEMMA MovingOn ==
    ASSUME NEW Holds, NEW Out, NEW N \in Nat, NEW size, NEW base, NEW res, NEW next, NEW g,
           MovesOn(Holds, Out, N, size, base, res, next, g)
    PROVE  \A x \in Holds : g[x] \in Out
<1> DEFINE S == {n \in Nat : \A x \in Holds : size[x] < n => g[x] \in Out}
<1>1. 0 \in S
    BY DEF MovesOn
<1>2. ASSUME NEW n \in Nat, n \in S PROVE n + 1 \in S
  <2>1. ASSUME NEW x \in Holds, size[x] < n + 1 PROVE g[x] \in Out
    <3>1. CASE x \in base
        BY <2>1, <3>1 DEF MovesOn
    <3>2. CASE x \notin base
      <4>1. next[x] \in Holds /\ size[next[x]] \in 0 .. N /\ size[x] \in 0 .. N /\ size[next[x]] < size[x]
          BY <2>1, <3>2 DEF MovesOn
      <4>2. g[next[x]] \in Out
          BY <1>2, <2>1, <4>1
      <4> QED BY <2>1, <3>2, <4>2 DEF MovesOn
    <3> QED BY <3>1, <3>2
  <2> QED BY <2>1
<1>3. N + 1 \in S
  <2> HIDE DEF S
  <2> QED BY <1>1, <1>2, CountingUp
<1> QED BY <1>3 DEF MovesOn
=============================================================================
