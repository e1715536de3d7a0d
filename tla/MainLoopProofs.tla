--------------------------- MODULE MainLoopProofs ---------------------------
(***************************************************************************)
(* For every table and every set of periods, wherever a tick lands: an     *)
(* entry's counter is the ticks it counted modulo its period, its mark is  *)
(* what it was promised, and no elapsed period is swallowed.  And for      *)
(* every transition table: nested events are taken in order.               *)
(***************************************************************************)
EXTENDS MCMainLoop, Counting

Fields ==
    /\ period \in [Slots -> Periods \union {0}] /\ counter \in [Slots -> Nat]
    /\ due \in [Slots -> BOOLEAN] /\ enabled \in [Slots -> BOOLEAN]
    /\ count \in 0 .. length /\ overrunCount \in 0 .. CountMod - 1
    /\ age \in [Slots -> 0 .. AgeMod - 1] /\ waiting \in [Slots -> BOOLEAN]
    /\ outstanding \in 0 .. CountMod - 1

(* An entry in use counts along with its age; the others are untouched.      *)
Counts(i) ==
    /\ period[i] \in Periods /\ counter[i] \in 0 .. period[i] - 1
    /\ age[i] % period[i] = counter[i]
Blank(i) == counter[i] = 0 /\ due[i] = FALSE

Entries == \A i \in Slots : IF i < count THEN Counts(i) ELSE Blank(i)

(* Where the main loop stands, and what it has tested when it stands there.  *)
Places ==
    /\ pc \in Labels /\ slot \in 0 .. length /\ target \in Slots /\ switch \in BOOLEAN
    /\ pc = "call" => slot < count /\ due[slot] = TRUE /\ enabled[slot] = TRUE
    /\ pc = "task" => slot < count
    /\ pc \in {"dropDue", "setEnabled"} => target < count /\ (slot < length => slot < count)
    /\ pc = "idle" => slot = length

Due == {i \in Slots : due[i]}

SchedInv == Fields /\ Entries /\ Places /\ waiting = due /\ OverrunsCounted

-----------------------------------------------------------------------------
LEMMA Constants ==
    /\ length \in Nat \ {0} /\ Periods \subseteq Nat \ {0}
    /\ AgeMod \in Nat \ {0} /\ CountMod \in Nat \ {0}
    /\ \A p \in Periods : AgeMod % p = 0
BY SchedAssumption

LEMMA Zeros ==
    /\ 0 \in 0 .. AgeMod - 1 /\ 0 \in 0 .. CountMod - 1 /\ 0 \in Slots
    /\ \A p \in Nat \ {0} : 0 % p = 0 /\ 0 \in 0 .. p - 1
<1>1. ASSUME NEW p \in Nat \ {0} PROVE 0 % p = 0 /\ 0 \in 0 .. p - 1
  <2>1. 0 = p * 0 + 0 /\ 0 \in 0 .. p - 1
      OBVIOUS
  <2> QED BY <2>1, ModIs
<1> QED BY <1>1, Constants DEF Slots

LEMMA DueIsFinite ==
    ASSUME NEW S \in SUBSET Slots
    PROVE  IsFiniteSet(S) /\ Cardinality(S) \in Nat
<1>1. IsFiniteSet(Slots)
    BY Constants, FS_Interval DEF Slots
<1> QED BY <1>1, FS_Subset, FS_CardinalityType

(* One tick of an entry, in numbers. *)
LEMMA EntryTick ==
    ASSUME NEW p \in Periods, NEW a \in 0 .. AgeMod - 1, NEW c \in 0 .. p - 1, a % p = c
    PROVE  LET next == IF c + 1 >= p THEN c + 1 - p ELSE c + 1
           IN  /\ (a + 1) % AgeMod \in 0 .. AgeMod - 1
               /\ next \in 0 .. p - 1 /\ ((a + 1) % AgeMod) % p = next
               /\ (a + 1) % p = 0 <=> c + 1 >= p
<1>1. AgeMod % p = 0 /\ AgeMod \in Nat \ {0} /\ p \in Nat \ {0} /\ a \in Nat
    BY Constants
<1>2. (a + 1) % p = IF c + 1 = p THEN 0 ELSE c + 1
    BY <1>1, ModSucc
<1>3. \A m \in Nat \ {0} : m % p = 0 => \A b \in 0 .. m - 1 :
         (b + 1) % m \in 0 .. m - 1 /\ ((b + 1) % m) % p = (b + 1) % p
    BY <1>1, ModOfMultiple
<1>4. (a + 1) % AgeMod \in 0 .. AgeMod - 1 /\ ((a + 1) % AgeMod) % p = (a + 1) % p
    BY <1>1, <1>3, Zenon
<1>5. c \in Nat /\ c + 1 <= p
    BY <1>1
<1>6. /\ (IF c + 1 >= p THEN c + 1 - p ELSE c + 1) \in 0 .. p - 1
      /\ (IF c + 1 >= p THEN c + 1 - p ELSE c + 1) = IF c + 1 = p THEN 0 ELSE c + 1
      /\ (IF c + 1 = p THEN 0 ELSE c + 1) = 0 <=> c + 1 >= p
    BY <1>1, <1>5
<1> QED BY <1>2, <1>4, <1>6

(* A tick in numbers: o of the entries whose period elapsed were marked and  *)
(* u were not.                                                               *)
Balanced(v, d, o, u) ==
    (((v + d) % CountMod) + (o + u)) % CountMod = (((v + o) % CountMod) + (d + u)) % CountMod

LEMMA SumTick == \A v, d, o, u \in Nat : Balanced(v, d, o, u)
<1> SUFFICES ASSUME NEW v \in Nat, NEW d \in Nat, NEW o \in Nat, NEW u \in Nat
             PROVE  Balanced(v, d, o, u)
    OBVIOUS
<1>1. v + d \in Nat /\ v + o \in Nat /\ o + u \in Nat /\ d + u \in Nat
    OBVIOUS
<1>2. (((v + d) % CountMod) + (o + u)) % CountMod = ((v + d) + (o + u)) % CountMod
    BY <1>1, Constants, ModAdd
<1>3. (((v + o) % CountMod) + (d + u)) % CountMod = ((v + o) + (d + u)) % CountMod
    BY <1>1, Constants, ModAdd
<1>4. (v + d) + (o + u) = (v + o) + (d + u)
    OBVIOUS
<1> QED BY <1>2, <1>3, <1>4 DEF Balanced

LEMMA SumClear ==
    ASSUME NEW m \in Nat \ {0}, NEW v \in Nat, NEW d \in Nat \ {0}
    PROVE  (((v + d) % m) + m - 1) % m = (v + (d - 1)) % m
<1> DEFINE e == v + (d - 1)
           k == m - 1
<1>1. e \in Nat /\ k \in Nat /\ v + d \in Nat /\ (v + d) + k = e + m
    OBVIOUS
<1>2. (((v + d) % m) + k) % m = ((v + d) + k) % m
    BY <1>1, ModAdd
<1>3. (e + m) % m = e % m
    BY <1>1, ModTurn
<1>4. ((v + d) % m) + m - 1 = ((v + d) % m) + k
  <2>1. (v + d) % m \in Int
      BY <1>1
  <2> QED BY <2>1
<1> HIDE DEF e, k
<1>5. (((v + d) % m) + k) % m = e % m
    BY <1>1, <1>2, <1>3
<1> QED BY <1>4, <1>5 DEF e

-----------------------------------------------------------------------------
LEMMA InitSched == Init => SchedInv
<1> SUFFICES ASSUME Init PROVE SchedInv
    OBVIOUS
<1>1. Fields
    BY Constants, Zeros DEF Init, Fields
<1>2. Entries
    BY Constants DEF Init, Entries, Blank, Slots
<1>5. Places
  <2>1. length \in 0 .. length /\ 0 \in Slots
      BY Constants, Zeros
  <2> QED BY <2>1 DEF Init, Places, Labels
<1>3. Due = {} /\ Cardinality(Due) = 0
    BY FS_EmptySet DEF Init, Due
<1>4. OverrunsCounted
    BY <1>3, Constants, Zeros DEF Init, OverrunsCounted, Due
<1> QED BY <1>1, <1>2, <1>4, <1>5 DEF Init, SchedInv

(* The interrupt. *)
LEMMA TickKeeps ==
    ASSUME SchedInv, Tick
    PROVE  SchedInv'
<1> DEFINE R == {i \in Counted : Reached(i)}
<1>1. /\ \A i \in Slots : i < count => Counts(i) /\ period[i] \in Nat \ {0}
                             /\ age[i] \in 0 .. AgeMod - 1 /\ counter[i] \in Nat
      /\ \A i \in Counted : i \in Slots /\ i < count
      /\ UNCHANGED <<period, enabled, count, pc, slot, target, switch>>
  <2>1. \A i \in Slots : i < count => Counts(i)
      BY DEF SchedInv, Entries
  <2>2. \A i \in Slots : age[i] \in 0 .. AgeMod - 1 /\ counter[i] \in Nat
      BY DEF SchedInv, Fields
  <2>3. \A i \in Slots : Counts(i) => period[i] \in Nat \ {0}
      BY Constants DEF Counts
  <2>4. \A i \in Counted : i \in Slots /\ i < count
      BY Constants DEF SchedInv, Fields, Counted, Table, Slots
  <2>5. UNCHANGED <<period, enabled, count, pc, slot, target, switch>>
      BY DEF Tick, main
  <2> QED BY <2>1, <2>2, <2>3, <2>4, <2>5
<1>2. \A i \in Slots : i < count =>
         LET next == IF counter[i] + 1 >= period[i] THEN counter[i] + 1 - period[i] ELSE counter[i] + 1
         IN  /\ (age[i] + 1) % AgeMod \in 0 .. AgeMod - 1
             /\ next \in 0 .. period[i] - 1 /\ ((age[i] + 1) % AgeMod) % period[i] = next
             /\ (age[i] + 1) % period[i] = 0 <=> counter[i] + 1 >= period[i]
    BY <1>1, EntryTick DEF Counts
<1>3. Elapsed = R
    BY <1>1, <1>2 DEF Elapsed, Reached
<1>4. Entries'
  <2> SUFFICES ASSUME NEW i \in Slots PROVE IF i < count' THEN Counts(i)' ELSE Blank(i)'
      BY DEF Entries
  <2>1. CASE i \in Counted
    <3>1. /\ counter'[i] = IF counter[i] + 1 >= period[i] THEN counter[i] + 1 - period[i] ELSE counter[i] + 1
          /\ age'[i] = (age[i] + 1) % AgeMod
        BY <2>1 DEF Tick, Reached
    <3>2. counter'[i] \in 0 .. period[i] - 1 /\ age'[i] % period[i] = counter'[i] /\ period[i] \in Periods
        BY <3>1, <2>1, <1>1, <1>2 DEF Counts
    <3> QED BY <3>2, <2>1, <1>1 DEF Counts
  <2>2. CASE i \notin Counted
    <3>1. counter'[i] = counter[i] /\ age'[i] = age[i] /\ period'[i] = period[i] /\ due'[i] = (due[i] \/ FALSE)
        BY <2>2 DEF Tick
    <3>2. due'[i] = due[i]
        BY <3>1 DEF SchedInv, Fields
    <3>3. IF i < count THEN Counts(i) ELSE Blank(i)
        BY DEF SchedInv, Entries
    <3> QED BY <3>1, <3>2, <3>3, <1>1 DEF Counts, Blank
  <2> QED BY <2>1, <2>2
<1>5. Fields'
  <2>1. counter' \in [Slots -> Nat]
    <3>1. \A i \in Slots : counter'[i] \in Nat
        BY <1>1, <1>2 DEF Tick, Reached, SchedInv, Fields
    <3> QED BY <3>1 DEF Tick
  <2>2. age' \in [Slots -> 0 .. AgeMod - 1]
    <3>1. \A i \in Slots : age'[i] \in 0 .. AgeMod - 1
        BY <1>1, <1>2 DEF Tick, SchedInv, Fields
    <3> QED BY <3>1 DEF Tick
  <2>3. due' \in [Slots -> BOOLEAN] /\ waiting' \in [Slots -> BOOLEAN]
      BY DEF Tick
  <2>4. Overrun \in SUBSET Slots /\ Elapsed \in SUBSET Slots
      BY <1>1 DEF Overrun, Elapsed
  <2>5. overrunCount' \in 0 .. CountMod - 1 /\ outstanding' \in 0 .. CountMod - 1
      BY <2>4, DueIsFinite, Constants DEF Tick, SchedInv, Fields
  <2> QED BY <2>1, <2>2, <2>3, <2>5, <1>1 DEF SchedInv, Fields
<1>6. waiting' = due'
    BY <1>1, <1>3 DEF SchedInv, Tick
<1>7. Places'
  <2>1. \A i \in Slots : due[i] = TRUE => due'[i] = TRUE
      BY DEF Tick
  <2>2. slot < count => slot \in Slots
      BY Constants DEF SchedInv, Fields, Places, Slots
  <2> QED BY <1>1, <2>1, <2>2 DEF SchedInv, Places
<1>8. OverrunsCounted'
  <2>1. /\ Due \in SUBSET Slots /\ R \in SUBSET Slots /\ Overrun \in SUBSET Slots
        /\ Due' = Due \union R /\ Due \intersect R = Overrun
      BY <1>1 DEF Due, Overrun, Tick
  <2>2. /\ IsFiniteSet(Due) /\ IsFiniteSet(R) /\ Cardinality(Due) \in Nat /\ Cardinality(R) \in Nat
        /\ Cardinality(Overrun) \in Nat /\ Cardinality(Due \union R) \in Nat
        /\ Cardinality(Due \union R) = Cardinality(Due) + Cardinality(R) - Cardinality(Due \intersect R)
    <3>1. IsFiniteSet(Due) /\ IsFiniteSet(R) /\ Cardinality(Due) \in Nat /\ Cardinality(R) \in Nat
          /\ Cardinality(Overrun) \in Nat
        BY <2>1, DueIsFinite
    <3>2. Cardinality(Due \union R) \in Nat
        BY <2>1, DueIsFinite
    <3> QED BY <3>1, <3>2, FS_Union
  <2>3. Cardinality(Due') + Cardinality(Overrun) = Cardinality(Due) + Cardinality(R)
        /\ Cardinality(Due') \in Nat
    <3>1. Cardinality(Due') = Cardinality(Due \union R) /\ Cardinality(Due \intersect R) = Cardinality(Overrun)
        BY <2>1
    <3> QED BY <2>2, <3>1
  <2>4. /\ outstanding = (overrunCount + Cardinality(Due)) % CountMod
        /\ outstanding' = (outstanding + Cardinality(R)) % CountMod
        /\ overrunCount' = (overrunCount + Cardinality(Overrun)) % CountMod
      BY <1>3 DEF Tick, SchedInv, OverrunsCounted, Due
  <2>5. overrunCount \in Nat /\ CountMod \in Nat \ {0}
      BY Constants DEF SchedInv, Fields
  <2>6. (((overrunCount + Cardinality(Due)) % CountMod) + Cardinality(R)) % CountMod
          = (((overrunCount + Cardinality(Overrun)) % CountMod) + Cardinality(Due')) % CountMod
    <3>1. PICK d, o, u \in Nat :
            /\ d = Cardinality(Due) /\ o + u = Cardinality(R)
            /\ o = Cardinality(Overrun) /\ d + u = Cardinality(Due')
      <4>1. Cardinality(R) - Cardinality(Overrun) \in Nat
        <5>1. Cardinality(Overrun) <= Cardinality(R)
            BY <2>1, <2>2, FS_Subset
        <5> QED BY <5>1, <2>2
      <4>2. PICK u \in Nat : u = Cardinality(R) - Cardinality(Overrun)
          BY <4>1
      <4>3. Cardinality(Overrun) + u = Cardinality(R) /\ Cardinality(Due) + u = Cardinality(Due')
          BY <4>2, <2>2, <2>3
      <4> QED BY <4>3, <2>2
    <3>2. Balanced(overrunCount, d, o, u)
        BY <2>5, SumTick
    <3>3. (((overrunCount + d) % CountMod) + (o + u)) % CountMod = (((overrunCount + o) % CountMod) + (d + u)) % CountMod
        BY <3>2 DEF Balanced
    <3> QED BY <3>1, <3>3
  <2>7. outstanding' = (overrunCount' + Cardinality(Due')) % CountMod
      BY <2>4, <2>6
  <2> QED BY <2>7 DEF OverrunsCounted, Due
<1> QED BY <1>4, <1>5, <1>6, <1>7, <1>8 DEF SchedInv

-----------------------------------------------------------------------------
(* The main loop. *)

(* A mark is dropped: by the call of its task or by schedEnable.  In numbers *)
(* the count of periods goes back with the count of marks.                   *)
LEMMA DropKeeps ==
    ASSUME SchedInv, NEW i \in Slots, i < count,
           due' = [due EXCEPT ![i] = FALSE], waiting' = [waiting EXCEPT ![i] = FALSE],
           outstanding' = IF waiting[i] THEN (outstanding + CountMod - 1) % CountMod ELSE outstanding,
           UNCHANGED <<period, counter, enabled, count, overrunCount, age>>
    PROVE  Fields' /\ Entries' /\ waiting' = due' /\ OverrunsCounted'
<1>1. waiting = due /\ due \in [Slots -> BOOLEAN] /\ outstanding = (overrunCount + Cardinality(Due)) % CountMod
      /\ overrunCount \in Nat /\ CountMod \in Nat \ {0}
    BY Constants DEF SchedInv, Fields, OverrunsCounted, Due
<1>2. Due \in SUBSET Slots /\ IsFiniteSet(Due) /\ Cardinality(Due) \in Nat
    BY DueIsFinite DEF Due
<1>3. Due' = Due \ {i}
    BY <1>1 DEF Due
<1>4. OverrunsCounted'
  <2>1. CASE due[i] = TRUE
    <3>1. i \in Due
        BY <2>1 DEF Due
    <3>2. Cardinality(Due') = Cardinality(Due) - 1 /\ Cardinality(Due) \in Nat \ {0}
      <4>1. Cardinality(Due') = Cardinality(Due) - 1
          BY <1>2, <1>3, <3>1, FS_RemoveElement
      <4>2. Cardinality(Due') \in Nat
          BY <1>2, <1>3, DueIsFinite
      <4> QED BY <4>1, <4>2, <1>2
    <3>3. PICK d \in Nat \ {0} : d = Cardinality(Due) /\ d - 1 = Cardinality(Due')
        BY <3>2
    <3>4. (((overrunCount + d) % CountMod) + CountMod - 1) % CountMod = (overrunCount + (d - 1)) % CountMod
        BY <1>1, SumClear
    <3>5. outstanding' = (outstanding + CountMod - 1) % CountMod
        BY <1>1, <2>1
    <3>6. outstanding' = (overrunCount + Cardinality(Due')) % CountMod
        BY <1>1, <3>3, <3>4, <3>5
    <3> QED BY <3>6 DEF OverrunsCounted, Due
  <2>2. CASE due[i] = FALSE
    <3>1. Due' = Due /\ outstanding' = outstanding
        BY <1>1, <1>3, <2>2 DEF Due
    <3>2. outstanding' = (overrunCount' + Cardinality(Due')) % CountMod
        BY <1>1, <3>1
    <3> QED BY <3>2 DEF OverrunsCounted, Due
  <2> QED BY <1>1, <2>1, <2>2
<1>5. waiting' = due' /\ due' \in [Slots -> BOOLEAN]
    BY <1>1
<1>6. outstanding' \in 0 .. CountMod - 1
  <2>1. outstanding \in 0 .. CountMod - 1 /\ outstanding + CountMod - 1 \in Nat
      BY <1>1 DEF SchedInv, Fields
  <2>2. (outstanding + CountMod - 1) % CountMod \in 0 .. CountMod - 1
      BY <1>1, <2>1
  <2> QED BY <2>1, <2>2
<1>7. Fields'
    BY <1>5, <1>6 DEF SchedInv, Fields
<1>8. Entries'
  <2> SUFFICES ASSUME NEW j \in Slots PROVE IF j < count' THEN Counts(j)' ELSE Blank(j)'
      BY DEF Entries
  <2>1. IF j < count THEN Counts(j) ELSE Blank(j)
      BY DEF SchedInv, Entries
  <2>2. due'[j] = due[j] \/ due'[j] = FALSE
      BY <1>1
  <2> QED BY <2>1, <2>2 DEF Counts, Blank
<1> QED BY <1>4, <1>5, <1>7, <1>8

(* A step that moves the main loop and nothing else. *)
LEMMA MoveKeeps ==
    ASSUME SchedInv, UNCHANGED <<entry, count, overrunCount, history>>
    PROVE  Fields' /\ Entries' /\ waiting' = due' /\ OverrunsCounted'
<1>1. Fields' /\ waiting' = due'
    BY DEF SchedInv, Fields, entry, history
<1>2. Entries'
    BY DEF SchedInv, Entries, Counts, Blank, entry, history
<1>3. OverrunsCounted'
    BY DEF SchedInv, OverrunsCounted, entry, history
<1> QED BY <1>1, <1>2, <1>3

LEMMA MainKeeps ==
    ASSUME SchedInv, BeginRun \/ TaskReturn \/ Continue
    PROVE  SchedInv'
<1>1. length \in Nat \ {0} /\ 0 \in 0 .. length /\ 0 \in Slots /\ count \in 0 .. length
      /\ \A i \in 0 .. length : i < count => i \in Slots /\ i + 1 \in 0 .. length
  <2>1. length \in Nat \ {0} /\ 0 \in Slots /\ count \in 0 .. length
      BY Constants, Zeros DEF SchedInv, Fields
  <2> QED BY <2>1 DEF Slots
<1>2. CASE BeginRun
  <2>1. Places'
      BY <1>1, <1>2 DEF BeginRun, SchedInv, Places, Labels, entry
  <2> QED BY <1>2, <2>1, MoveKeeps DEF BeginRun, SchedInv
<1>3. CASE ScanEntry
  <2>1. Places'
      BY <1>1, <1>3 DEF ScanEntry, SchedInv, Places, Labels, entry
  <2> QED BY <1>3, <2>1, MoveKeeps DEF ScanEntry, SchedInv
<1>4. CASE EndRun
  <2>1. Places'
      BY <1>1, <1>4 DEF EndRun, SchedInv, Places, Labels, entry
  <2> QED BY <1>4, <2>1, MoveKeeps DEF EndRun, SchedInv
<1>5. CASE TaskReturn
  <2>1. Places'
      BY <1>1, <1>5 DEF TaskReturn, SchedInv, Places, Labels, entry
  <2> QED BY <1>5, <2>1, MoveKeeps DEF TaskReturn, SchedInv
<1>6. CASE CallTask
  <2>1. slot \in Slots /\ slot < count /\ due[slot] = TRUE /\ waiting[slot] = TRUE
      BY <1>1, <1>6 DEF CallTask, SchedInv, Places
  <2>2. Places'
      BY <1>1, <1>6, <2>1 DEF CallTask, SchedInv, Places, Labels
  <2> QED BY <1>6, <2>1, <2>2, DropKeeps DEF CallTask, SchedInv
<1>7. CASE DropDue
  <2>1. target \in Slots /\ target < count
      BY <1>7 DEF DropDue, SchedInv, Places
  <2>2. Places'
      BY <1>1, <1>7, <2>1 DEF DropDue, SchedInv, Places, Labels
  <2> QED BY <1>7, <2>1, <2>2, DropKeeps DEF DropDue, SchedInv
<1>8. CASE SetEnabled
  <2>1. Places'
    <3>1. /\ slot \in 0 .. length /\ (slot < length => slot < count) /\ (~ slot < length => slot = length)
          /\ slot' = slot /\ count' = count /\ target' = 0 /\ switch' = FALSE
        BY <1>1, <1>8 DEF SetEnabled, SchedInv, Places
    <3>2. \/ slot < length /\ pc' = "task"
          \/ ~ slot < length /\ pc' = "idle"
        BY <1>8 DEF SetEnabled, ReturnLabel
    <3> QED BY <1>1, <3>1, <3>2 DEF Places, Labels
  <2>2. Fields' /\ waiting' = due'
      BY <1>8 DEF SetEnabled, SchedInv, Fields, Places, history
  <2>3. Entries'
      BY <1>8 DEF SetEnabled, SchedInv, Entries, Counts, Blank, history
  <2>4. OverrunsCounted'
      BY <1>8 DEF SetEnabled, SchedInv, OverrunsCounted, history
  <2> QED BY <2>1, <2>2, <2>3, <2>4 DEF SchedInv
<1> QED BY <1>2, <1>3, <1>4, <1>5, <1>6, <1>7, <1>8 DEF Continue

LEMMA AddTaskKeeps ==
    ASSUME SchedInv, NEW p \in Periods, AddTask(p)
    PROVE  SchedInv'
<1>1. /\ count \in Slots /\ count' = count + 1 /\ count' \in 0 .. length
      /\ \A i \in Slots : i < count' => i < count \/ i = count
      /\ due[count] = FALSE /\ ~ count < count
  <2>1. count \in Slots /\ count' = count + 1 /\ count' \in 0 .. length
      BY Constants DEF SchedInv, Fields, AddTask, Slots
  <2>2. ~ count < count /\ \A i \in Slots : i < count' => i < count \/ i = count
      BY <2>1, Constants DEF Slots
  <2> QED BY <2>1, <2>2 DEF SchedInv, Entries, Blank
<1>2. due' = due
    BY <1>1 DEF AddTask, SchedInv, Fields
<1>3. 0 \in 0 .. AgeMod - 1 /\ p \in Nat \ {0} /\ 0 % p = 0 /\ 0 \in 0 .. p - 1
    BY Zeros, Constants
<1>4. Fields'
    BY <1>1, <1>2, <1>3 DEF AddTask, SchedInv, Fields
<1>5. Entries'
  <2> SUFFICES ASSUME NEW i \in Slots PROVE IF i < count' THEN Counts(i)' ELSE Blank(i)'
      BY DEF Entries
  <2>1. IF i < count THEN Counts(i) ELSE Blank(i)
      BY DEF SchedInv, Entries
  <2>2. CASE i = count
    <3>1. period'[i] = p /\ counter'[i] = 0 /\ age'[i] = 0
        BY <1>1, <2>2 DEF AddTask, SchedInv, Fields
    <3>2. Counts(i)'
        BY <3>1, <1>3 DEF Counts
    <3>3. i < count'
        BY <1>1, <2>2, Constants DEF Slots
    <3> QED BY <3>2, <3>3
  <2>3. CASE i # count
    <3>1. period'[i] = period[i] /\ counter'[i] = counter[i] /\ age'[i] = age[i] /\ due'[i] = due[i]
        BY <1>2, <2>3 DEF AddTask, SchedInv, Fields
    <3>2. i < count' <=> i < count
        BY <1>1, <2>3, Constants DEF Slots
    <3> QED BY <2>1, <3>1, <3>2 DEF Counts, Blank
  <2> QED BY <2>2, <2>3
<1>6. Places'
    BY <1>1, <1>2, Constants DEF AddTask, MayCall, SchedInv, Places, Fields, main
<1>7. waiting' = due' /\ OverrunsCounted'
    BY <1>2 DEF AddTask, SchedInv, OverrunsCounted
<1> QED BY <1>4, <1>5, <1>6, <1>7 DEF SchedInv

LEMMA EnableKeeps ==
    ASSUME SchedInv, NEW i \in Slots, NEW on \in BOOLEAN, Enable(i, on)
    PROVE  SchedInv'
<1>1. i < count /\ count \in 0 .. length /\ length \in Nat \ {0}
    BY Constants DEF Enable, SchedInv, Fields, Table
<1>2. 0 \in 0 .. AgeMod - 1 /\ \A p \in Periods : 0 % p = 0 /\ 0 \in 0 .. p - 1
    BY Zeros, Constants
<1>3. Fields'
    BY <1>2 DEF Enable, SchedInv, Fields
<1>4. Entries'
  <2> SUFFICES ASSUME NEW j \in Slots PROVE IF j < count' THEN Counts(j)' ELSE Blank(j)'
      BY DEF Entries
  <2>1. IF j < count THEN Counts(j) ELSE Blank(j)
      BY DEF SchedInv, Entries
  <2>2. CASE j = i
    <3>1. period'[j] = period[j] /\ counter'[j] = 0 /\ age'[j] = 0 /\ count' = count /\ period[j] \in Periods
        BY <1>1, <2>1, <2>2 DEF Enable, SchedInv, Fields, Counts
    <3> QED BY <3>1, <1>1, <1>2, <2>2 DEF Counts
  <2>3. CASE j # i
    <3>1. period'[j] = period[j] /\ counter'[j] = counter[j] /\ age'[j] = age[j] /\ due'[j] = due[j]
          /\ count' = count
        BY <2>3 DEF Enable, SchedInv, Fields
    <3> QED BY <2>1, <3>1 DEF Counts, Blank
  <2> QED BY <2>2, <2>3
<1>5. Places'
    BY <1>1 DEF Enable, MayCall, SchedInv, Places, Labels
<1>6. waiting' = due' /\ OverrunsCounted'
    BY DEF Enable, SchedInv, OverrunsCounted
<1> QED BY <1>3, <1>4, <1>5, <1>6 DEF SchedInv

-----------------------------------------------------------------------------
(* The invariant everything rests on. *)
THEOREM SchedInvariant == Spec => []SchedInv
<1>1. SchedInv /\ [Next]_vars => SchedInv'
  <2>1. ASSUME SchedInv, UNCHANGED vars PROVE SchedInv'
    <3>1. Places'
        BY <2>1 DEF SchedInv, Places, vars, main, entry
    <3> QED BY <2>1, <3>1, MoveKeeps DEF vars, SchedInv
  <2> QED BY <2>1, TickKeeps, MainKeeps, AddTaskKeeps, EnableKeeps DEF Next
<1> QED BY InitSched, <1>1, PTL DEF Spec

(* Types: an entry that counts stays inside its period, for every period.    *)
THEOREM TypeCorrect == Spec => []TypeOK
<1>1. SchedInv => TypeOK
  <2> SUFFICES ASSUME SchedInv PROVE TypeOK
      OBVIOUS
  <2>1. \A i \in Slots : counter[i] = 0 \/ counter[i] \in 1 .. period[i] - 1
    <3> SUFFICES ASSUME NEW i \in Slots PROVE counter[i] = 0 \/ counter[i] \in 1 .. period[i] - 1
        OBVIOUS
    <3>1. counter[i] = 0 \/ (period[i] \in Nat \ {0} /\ counter[i] \in 0 .. period[i] - 1)
        BY Constants DEF SchedInv, Entries, Counts, Blank
    <3> QED BY <3>1
  <2> QED BY <2>1 DEF SchedInv, Fields, Places, TypeOK
<1> QED BY <1>1, SchedInvariant, PTL

(* A tick costs no call, wherever it lands. *)
THEOREM NoCallIsLost == Spec => []ElapsedIsDue
<1>1. SchedInv => ElapsedIsDue
    BY DEF SchedInv, ElapsedIsDue
<1> QED BY <1>1, SchedInvariant, PTL

(* No elapsed period is swallowed: each was run, is due, was dropped by      *)
(* schedEnable or was counted, modulo the width of the count.                *)
THEOREM NoOverrunIsLost == Spec => []OverrunsCounted
<1>1. SchedInv => OverrunsCounted
    BY DEF SchedInv
<1> QED BY <1>1, SchedInvariant, PTL

(* No task is called but for an elapsed period of its own, while switched on. *)
THEOREM CallsAreDue == Spec => CalledWhenElapsed
<1>1. SchedInv /\ [Next]_vars => [CallTask => waiting[slot] /\ enabled[slot]]_vars
    BY DEF SchedInv, Places, CallTask
<1> QED BY <1>1, SchedInvariant, PTL DEF Spec, CalledWhenElapsed

-----------------------------------------------------------------------------
(* The table driven machine. *)
MachineInv ==
    /\ table \in Tables
    /\ driver = [state |-> driver.state, initialState |-> driver.initialState,
                 rejectCount |-> driver.rejectCount]
    /\ flat = [state |-> flat.state, rejected |-> flat.rejected]
    /\ F!FlatRun

(* The first matching row is the abstract machine's. *)
LEMMA FirstRow ==
    ASSUME MachineInv, NEW event
    PROVE  /\ F!Matches(event) = {} => F!Row(flat.state, event) = 0
           /\ F!Matches(event) # {} => /\ F!Row(flat.state, event) = F!FirstMatch(event)
                                       /\ F!Row(flat.state, event) # 0
<1> DEFINE rows == F!Matches(event)
<1>1. rows = {i \in DOMAIN table : <<table[i].from, table[i].event>> = <<flat.state, event>>}
    BY DEF F!Matches, MachineInv, F!FlatRun
<1>2. F!Row(flat.state, event) =
        IF rows = {} THEN 0 ELSE CHOOSE i \in rows : \A k \in rows : i <= k
  <2> HIDE DEF rows
  <2> QED BY <1>1 DEF F!Row
<1>3. F!FirstMatch(event) = CHOOSE i \in rows : \A k \in rows : i <= k
    BY DEF F!FirstMatch
<1>4. rows \subseteq Nat /\ 0 \notin rows
    BY TablesAssumption DEF F!Matches, MachineInv
<1> HIDE DEF rows
<1>5. ASSUME rows # {} PROVE (CHOOSE i \in rows : \A k \in rows : i <= k) \in rows
  <2>1. \E i \in rows : \A k \in rows : i <= k
    BY <1>4, <1>5, LeastNatural
  <2> QED BY <2>1
<1> QED BY <1>2, <1>3, <1>4, <1>5 DEF rows

LEMMA MachineStep == ASSUME MachineInv, F!Next PROVE MachineInv'
<1>1. ASSUME NEW event \in Events, F!Dispatch(event) PROVE MachineInv'
  <2>0. table' = table /\ flat' = F!FlatTakes(event)
    BY <1>1 DEF F!Dispatch
  <2>1. CASE F!Matches(event) # {} /\ F!Fire(F!FirstMatch(event))
    <3> DEFINE row == F!FirstMatch(event)
    <3>1. F!Row(flat.state, event) = row /\ row # 0
      BY <2>1, FirstRow
    <3> HIDE DEF row
    <3>2. flat' = [flat EXCEPT !.state = table[row].to]
      BY <2>0, <3>1 DEF F!FlatTakes
    <3>3. driver' = [driver EXCEPT !.state = table[row].to]
      BY <2>1 DEF F!Fire, row
    <3> QED BY <2>0, <3>2, <3>3 DEF MachineInv, F!FlatRun
  <2>2. CASE F!Matches(event) = {} /\ F!Reject
    <3>1. flat' = [flat EXCEPT !.rejected = (@ + 1) % CountMod]
      BY <2>0, <2>2, FirstRow DEF F!FlatTakes
    <3>2. driver' = [driver EXCEPT !.rejectCount = (@ + 1) % CountMod]
      BY <2>2 DEF F!Reject
    <3> QED BY <2>0, <3>1, <3>2 DEF MachineInv, F!FlatRun
  <2> QED BY <1>1, <2>1, <2>2 DEF F!Dispatch
<1>2. ASSUME F!Return PROVE MachineInv'
    BY <1>2 DEF F!Return, MachineInv, F!FlatRun
<1>3. ASSUME F!Reset PROVE MachineInv'
    BY <1>3 DEF F!Reset, MachineInv, F!FlatRun
<1> QED BY <1>1, <1>2, <1>3 DEF F!Next

(* However dispatches nest in one another's actions, the machine is where    *)
(* the events lead, taken one after another in the order they were offered.  *)
THEOREM EventsAreTakenInOrder == LoopSpec => []EventsInOrder
<1>1. LoopInit => MachineInv
  <2> SUFFICES ASSUME LoopInit PROVE MachineInv
    OBVIOUS
  <2>1. PICK s \in InitialStates :
            driver = [state |-> s, initialState |-> s, rejectCount |-> 0]
    BY DEF LoopInit, F!Init
  <2>2. table \in Tables /\ flat = [state |-> driver.state, rejected |-> 0]
    BY DEF LoopInit, F!Init
  <2> QED BY <2>1, <2>2 DEF MachineInv, F!FlatRun
<1>2. MachineInv /\ [LoopNext]_loopVars => MachineInv'
  <2> SUFFICES ASSUME MachineInv, [LoopNext]_loopVars PROVE MachineInv'
    OBVIOUS
  <2>1. CASE UNCHANGED fsm
    BY <2>1 DEF fsm, MachineInv, F!FlatRun
  <2> QED BY <2>1, MachineStep DEF LoopNext, loopVars, Tasks, Machine
<1>3. MachineInv => EventsInOrder
    BY DEF MachineInv, EventsInOrder
<1> QED BY <1>1, <1>2, <1>3, PTL DEF LoopSpec
=============================================================================
