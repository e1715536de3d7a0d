---------------------------- MODULE BuffersProofs ----------------------------
(***************************************************************************)
(* comgenbuf, for every byte base, storage size and set of packets: each   *)
(* call keeps the ring in order, and with the producer held off from the   *)
(* two updates of comgenbufPop and from comgenbufFlush, and from nothing   *)
(* else, the ring is in order whenever the main loop is outside the queue  *)
(* and the two contexts together implement PacketQueue.  circBuf, for      *)
(* every capacity: it implements BoundedQueue.                             *)
(***************************************************************************)
EXTENDS MCBuffers, SequenceTheorems, TLAPS

USE DEF Header

-----------------------------------------------------------------------------
(* Facts about the ring's arithmetic. *)

LEMMA WrapInside ==
    ASSUME NEW x \in 0..2 * Size - 1
    PROVE  Wrap(x) \in 0..Size - 1
BY SizeAssumption DEF Wrap

(* A cell that holds a queued byte is at least the free space ahead of the  *)
(* head, so a push that fits cannot reach it.                               *)
LEMMA QueuedIsFarAhead ==
    ASSUME TypeOK, NEW CONSTANT t \in 0..Size - 1, head = Wrap(t + used), NEW o \in 0..used - 1
    PROVE  /\ Wrap(t + o) \in 0..Size - 1
           /\ Ahead(Wrap(t + o)) = Size - used + o
BY SizeAssumption DEF TypeOK, Wrap, Ahead

(* The bytes a push writes are the ones just past the queued stretch. *)
LEMMA FreeIsNear ==
    ASSUME TypeOK, NEW CONSTANT t \in 0..Size - 1, head = Wrap(t + used),
           NEW o \in 0..Size - used - 1
    PROVE  /\ Wrap(t + used + o) \in 0..Size - 1
           /\ Ahead(Wrap(t + used + o)) = o
BY SizeAssumption DEF TypeOK, Wrap, Ahead

(* Dropping bytes from the tail leaves the others where they were. *)
LEMMA DropKeepsCells ==
    ASSUME NEW t \in 0..Size - 1, NEW d \in 0..Size, NEW o \in 0..Size - d - 1
    PROVE  Wrap(Wrap(t + d) + o) = Wrap(t + (d + o))
BY SizeAssumption DEF Wrap

(* The header's two bytes give back the length they were made from. *)
LEMMA HeaderRoundTrip ==
    ASSUME NEW n \in 1..MaxPacket
    PROVE  /\ n \div Base \in Byte
           /\ n % Base \in Byte
           /\ (n \div Base) * Base + (n % Base) = n
<1>1. n < Base * Base /\ n \in Nat
    BY BaseAssumption DEF MaxPacket
<1>2. (n \div Base) * Base + (n % Base) = n
    BY <1>1, BaseAssumption
<1>3. n \div Base \in Byte /\ n % Base \in Byte
    BY <1>1, BaseAssumption DEF Byte
<1> QED BY <1>2, <1>3

(* What one packet looks like in the ring. *)
LEMMA StoredShape ==
    ASSUME NEW p \in Packets
    PROVE  /\ p \in Seq(Byte) /\ Len(p) \in 1..MaxPacket
           /\ Need(p) = Len(Stored(p)) /\ Need(p) \in Nat /\ Need(p) = Len(p) + 2
           /\ Stored(p) \in Seq(Byte)
           /\ Stored(p)[1] = Len(p) \div Base
           /\ Stored(p)[2] = Len(p) % Base
           /\ \A k \in 1..Len(p) : Stored(p)[k + 2] = p[k]
<1>1. p \in Seq(Byte) /\ Len(p) \in 1..MaxPacket
    BY PacketsAssumption
<1>2. Len(p) \div Base \in Byte /\ Len(p) % Base \in Byte
    BY <1>1, HeaderRoundTrip
<1> DEFINE h == <<Len(p) \div Base, Len(p) % Base>>
<1>3. h \in Seq(Byte) /\ Len(h) = 2 /\ h[1] = Len(p) \div Base /\ h[2] = Len(p) % Base
    BY <1>2
<1>4. Stored(p) = h \o p
    BY DEF Stored
<1> HIDE DEF h
<1>a. /\ h \o p \in Seq(Byte)
      /\ Len(h \o p) = Len(h) + Len(p)
      /\ \A i \in 1..Len(h) + Len(p) :
            (h \o p)[i] = IF i <= Len(h) THEN h[i] ELSE p[i - Len(h)]
    BY <1>1, <1>3, ConcatProperties, Zenon
<1>5. /\ h \o p \in Seq(Byte)
      /\ Len(h \o p) = 2 + Len(p)
      /\ \A i \in 1..2 + Len(p) : (h \o p)[i] = IF i <= 2 THEN h[i] ELSE p[i - 2]
    BY <1>3, <1>a
<1>6. /\ Stored(p)[1] = Len(p) \div Base
      /\ Stored(p)[2] = Len(p) % Base
      /\ \A k \in 1..Len(p) : Stored(p)[k + 2] = p[k]
    BY <1>1, <1>3, <1>4, <1>5
<1> QED
    BY <1>1, <1>4, <1>5, <1>6 DEF Need

-----------------------------------------------------------------------------
(* Every operation keeps the ring in order. *)

LEMMA InitOK == Init => RingOK
BY SizeAssumption, CountAssumption
   DEF Init, RingOK, RingFrom, TypeOK, Extent, Layout, Contents, Wrap

LEMMA PushFrom ==
    ASSUME NEW CONSTANT t \in 0..Size - 1, RingFrom(t), NEW p \in Packets, Push(p)
    PROVE  RingFrom(t)'
<1> DEFINE n == Len(queued)
<1> USE DEF RingFrom, Push
<1>1. /\ Need(p) = Len(Stored(p)) /\ Need(p) \in Nat /\ Stored(p) \in Seq(Byte)
      /\ Need(p) <= Size - used
      /\ head \in 0..Size - 1 /\ tail \in 0..Size - 1 /\ used \in 0..Size
    BY StoredShape, SizeAssumption DEF Fits, TypeOK
<1>2. TypeOK'
  <2>1. buffer' \in [0..Size - 1 -> Byte]
    <3>1. buffer' = [i \in 0..Size - 1 |->
                       IF Ahead(i) < Len(Stored(p)) THEN Stored(p)[Ahead(i) + 1] ELSE buffer[i]]
        BY DEF PutBytes
    <3>2. ASSUME NEW i \in 0..Size - 1
          PROVE  (IF Ahead(i) < Len(Stored(p)) THEN Stored(p)[Ahead(i) + 1] ELSE buffer[i]) \in Byte
      <4>1. Ahead(i) \in Nat
          BY <1>1, SizeAssumption DEF Ahead
      <4>2. CASE Ahead(i) < Len(Stored(p))
          BY <4>1, <4>2, <1>1
      <4>3. CASE ~(Ahead(i) < Len(Stored(p)))
          BY <4>3 DEF TypeOK
      <4> QED BY <4>2, <4>3
    <3> QED BY <3>1, <3>2
  <2>2. head' \in 0..Size - 1 /\ used' \in 0..Size
      BY <1>1, SizeAssumption, WrapInside DEF PutBytes
  <2>3. queued' \in Seq(Packets) /\ starts' \in Seq(Nat)
      BY <1>1 DEF TypeOK
  <2> QED BY <2>1, <2>2, <2>3 DEF TypeOK
<1>3. /\ n \in Nat /\ Len(starts) = n
      /\ \A i \in 1..n : starts[i] \in Nat /\ queued[i] \in Packets
    BY DEF TypeOK, Extent
<1>4. /\ queued' # <<>> /\ Len(queued') = n + 1 /\ Len(starts') = n + 1
      /\ \A i \in 1..n : queued'[i] = queued[i] /\ starts'[i] = starts[i]
      /\ queued'[n + 1] = p /\ starts'[n + 1] = used
  <2>1. queued \in Seq(Packets) /\ starts \in Seq(Nat) /\ used \in Nat
      BY <1>1 DEF TypeOK
  <2> QED BY <2>1, <1>3, AppendProperties
<1>5. \A i \in 1..n : Need(queued[i]) \in Nat
    BY <1>3, StoredShape
<1>6. Extent(t)'
  <2>1. head' = Wrap(Wrap(t + used) + Need(p))
      BY <1>1 DEF PutBytes, Extent
  <2>2. head' = Wrap(t + used')
      BY <2>1, <1>1, SizeAssumption DEF Wrap
  <2> QED BY <2>2, <1>3, <1>4 DEF Extent, Wrap
<1>7. Layout'
  <2> DEFINE need(i) == Need(queued'[i])
  <2>1. /\ \A i \in 1..n : need(i) = Need(queued[i]) /\ need(i) \in Nat
        /\ need(n + 1) = Need(p) /\ need(n + 1) \in Nat
      BY <1>1, <1>4, <1>5
  <2> HIDE DEF need
  <2>2. starts'[1] = 0
      BY <1>3, <1>4 DEF Layout, Extent
  <2>3. starts'[n + 1] + need(n + 1) = used'
      BY <2>1, <1>4
  <2>4. \A i \in 1..n + 1 : starts'[i] + need(i) <= used'
      BY <2>1, <2>3, <1>1, <1>3, <1>4 DEF Layout
  <2>5. \A i, j \in 1..n + 1 : j = i + 1 => starts'[j] = starts'[i] + need(i)
      BY <2>1, <1>3, <1>4 DEF Layout
  <2>6. \A i, j \in 1..n + 1 : i < j => starts'[i] + need(i) <= starts'[j]
      BY <2>1, <1>3, <1>4 DEF Layout
  <2> QED BY <2>2, <2>3, <2>4, <2>5, <2>6, <1>4 DEF Layout, need, Need
<1>8. Contents(t)'
  <2> SUFFICES ASSUME NEW i \in 1..n + 1, NEW k \in 1..Need(queued'[i])
               PROVE  buffer'[Wrap(t + (starts'[i] + k - 1))] = Stored(queued'[i])[k]
      BY <1>4 DEF Contents
  <2>1. CASE i \in 1..n
    <3> DEFINE o == starts[i] + k - 1
    <3>1. k \in 1..Need(queued[i])
        BY <2>1, <1>4
    <3>2. o \in 0..used - 1
      <4>1. /\ starts[i] \in Nat /\ Need(queued[i]) \in Nat /\ k \in Int
            /\ 1 <= k /\ k <= Need(queued[i])
            /\ starts[i] + Need(queued[i]) <= used
          BY <2>1, <3>1, <1>3, <1>5 DEF Layout
      <4>2. used \in Nat
          BY <1>1, SizeAssumption
      <4> HIDE DEF RingFrom
      <4> QED BY <4>1, <4>2
    <3>3. /\ Wrap(t + o) \in 0..Size - 1
          /\ ~(Ahead(Wrap(t + o)) < Len(Stored(p)))
      <4>1. /\ Wrap(t + o) \in 0..Size - 1
            /\ Ahead(Wrap(t + o)) = Size - used + o
          BY <3>2, QueuedIsFarAhead DEF Extent
      <4> QED BY <4>1, <3>2, <1>1, SizeAssumption
    <3>4. buffer'[Wrap(t + o)] = buffer[Wrap(t + o)]
        BY <3>3 DEF PutBytes
    <3>5. buffer[Wrap(t + o)] = Stored(queued[i])[k]
        BY <2>1, <3>1, <1>3 DEF Contents
    <3> QED BY <3>4, <3>5, <2>1, <1>4
  <2>2. CASE i = n + 1
    <3> DEFINE o == k - 1
    <3>1. o \in 0..Size - used - 1 /\ o < Need(p)
      <4>1. Need(queued'[i]) = Need(p)
          BY <2>2, <1>4
      <4> QED BY <4>1, <1>1, SizeAssumption
    <3>2. /\ Wrap(t + used + o) \in 0..Size - 1
          /\ Ahead(Wrap(t + used + o)) = o
        BY <3>1, FreeIsNear DEF Extent
    <3>3. buffer'[Wrap(t + used + o)] = Stored(p)[o + 1]
        BY <3>1, <3>2, <1>1 DEF PutBytes
    <3>4. t + used + o = t + (starts'[i] + k - 1) /\ o + 1 = k
        BY <2>2, <1>1, <1>4
    <3> QED BY <3>3, <3>4, <2>2, <1>4
  <2> QED BY <2>1, <2>2, <1>3
<1> QED BY <1>2, <1>6, <1>7, <1>8

LEMMA PushOK ==
    ASSUME RingOK, NEW p \in Packets, Push(p)
    PROVE  RingOK'
<1>1. PICK t \in 0..Size - 1 : t = tail
    BY DEF RingOK, RingFrom, TypeOK
<1>2. RingFrom(t)'
    BY <1>1, PushFrom DEF RingOK
<1>3. tail' = t /\ count' = Len(queued')
  <2>1. queued \in Seq(Packets) /\ queued' = Append(queued, p) /\ count' = count + 1
      BY DEF RingOK, RingFrom, TypeOK, Push
  <2>2. Len(queued') = Len(queued) + 1
      BY <2>1, AppendProperties
  <2> QED BY <1>1, <2>1, <2>2 DEF RingOK, Push
<1> QED BY <1>2, <1>3 DEF RingOK

(* comgenbufPeekLength and comgenbufPop read the oldest packet exactly. *)
LEMMA PopReadsOldest ==
    ASSUME RingOK, count # 0
    PROVE  /\ queued # <<>> /\ Head(queued) = queued[1] /\ Head(queued) \in Packets
           /\ PeekLength = Len(Head(queued))
           /\ Payload(PeekLength) = Head(queued)
           /\ PeekLength + Header = Need(Head(queued))
<1> DEFINE q == queued[1]
<1>1. /\ queued \in Seq(Packets) /\ starts \in Seq(Nat)
      /\ Len(queued) \in Nat /\ Len(queued) >= 1 /\ queued # <<>>
    BY DEF RingOK, RingFrom, TypeOK, Extent
<1>2. q \in Packets /\ Head(queued) = q
    BY <1>1
<1>3. /\ q \in Seq(Byte) /\ Len(q) \in 1..MaxPacket /\ Len(q) \in Nat
      /\ Need(q) = Len(q) + 2
      /\ Stored(q)[1] = Len(q) \div Base /\ Stored(q)[2] = Len(q) % Base
      /\ \A k \in 1..Len(q) : Stored(q)[k + 2] = q[k]
  <2>1. Len(q) \in Nat
      BY <1>2, PacketsAssumption
  <2> QED BY <2>1, <1>2, StoredShape
<1>4. \A k \in 1..Len(q) + 2 : PeekByte(k - 1) = Stored(q)[k]
  <2>1. starts[1] = 0 /\ \A k \in 1..Need(q) : PeekByte(starts[1] + k - 1) = Stored(q)[k]
      BY <1>1 DEF RingOK, RingFrom, Layout, Contents, PeekByte
  <2>2. ASSUME NEW k \in 1..Len(q) + 2 PROVE PeekByte(k - 1) = Stored(q)[k]
    <3>1. starts[1] + k - 1 = k - 1 /\ k \in 1..Need(q)
        BY <2>1, <1>3
    <3> QED BY <2>1, <3>1
  <2> QED BY <2>2
<1> HIDE DEF q
<1>5. PeekLength = Len(q)
  <2>1. PeekByte(0) = Len(q) \div Base /\ PeekByte(1) = Len(q) % Base
    <3>1. PeekByte(1 - 1) = Stored(q)[1] /\ PeekByte(2 - 1) = Stored(q)[2]
        BY <1>3, <1>4
    <3> QED BY <3>1, <1>3
  <2> QED BY <2>1, <1>3, HeaderRoundTrip DEF PeekLength
<1>6. Payload(Len(q)) = q
  <2>1. ASSUME NEW i \in 1..Len(q) PROVE PeekByte(Header + i - 1) = q[i]
    <3>1. PeekByte((i + 2) - 1) = Stored(q)[i + 2] /\ Stored(q)[i + 2] = q[i]
        BY <1>3, <1>4
    <3>2. (i + 2) - 1 = Header + i - 1
        BY <1>3
    <3> QED BY <3>1, <3>2
  <2>2. q = [i \in 1..Len(q) |-> q[i]]
      BY <1>3
  <2> QED BY <2>1, <2>2 DEF Payload
<1> QED BY <1>1, <1>2, <1>3, <1>5, <1>6

(* A step that leaves the stretch from t without its oldest packet. *)
Drops(t) ==
    /\ queued # <<>>
    /\ tail' = Wrap(t + Need(Head(queued))) /\ used' = used - Need(Head(queued))
    /\ queued' = Tail(queued)
    /\ starts' = [i \in 1..Len(starts) - 1 |-> starts[i + 1] - Need(Head(queued))]
    /\ UNCHANGED <<buffer, head, dropCount>>
    /\ count' \in Nat /\ out' \in Seq(Byte)

(* Giving the oldest packet's bytes back leaves the others where they were:  *)
(* the stretch now starts one packet further on.                             *)
LEMMA DropOldest ==
    ASSUME NEW CONSTANT t \in 0..Size - 1, RingFrom(t), Drops(t)
    PROVE  RingFrom(tail)' /\ Len(queued') = Len(queued) - 1
<1> DEFINE n == Len(queued)
           q == Head(queued)
           c == Need(q)
<1>1. /\ tail' = Wrap(t + c) /\ used' = used - c
      /\ queued' = Tail(queued)
      /\ starts' = [i \in 1..Len(starts) - 1 |-> starts[i + 1] - c]
      /\ buffer' = buffer /\ head' = head /\ dropCount' = dropCount
      /\ q = queued[1] /\ q \in Packets /\ queued # <<>>
      /\ count' \in Nat /\ out' \in Seq(Byte)
    BY DEF Drops, RingFrom, TypeOK
<1>2. /\ queued \in Seq(Packets) /\ starts \in Seq(Nat)
      /\ head \in 0..Size - 1 /\ t \in 0..Size - 1 /\ used \in 0..Size
      /\ n \in Nat /\ n >= 1 /\ Len(starts) = n
    BY <1>1 DEF RingFrom, TypeOK, Extent
<1>3. /\ \A i \in 1..n : /\ starts[i] \in Nat /\ queued[i] \in Packets
                         /\ Need(queued[i]) \in Nat
      /\ c \in Nat /\ q \in Seq(Byte)
  <2>1. \A i \in 1..n : starts[i] \in Nat /\ queued[i] \in Packets
      BY <1>2
  <2>2. \A i \in 1..n : Need(queued[i]) \in Nat
      BY <2>1, StoredShape
  <2>3. c \in Nat /\ q \in Seq(Byte)
      BY <1>1, StoredShape
  <2> QED BY <2>1, <2>2, <2>3
<1>4. /\ queued' \in Seq(Packets) /\ Len(queued') = n - 1
      /\ \A i \in 1..n - 1 : queued'[i] = queued[i + 1]
    BY <1>1, <1>2, HeadTailProperties
<1> HIDE DEF q, c
<1>5. /\ starts[1] = 0 /\ c <= used
      /\ \A i \in 1..n - 1 : starts[i + 1] >= c
  <2>1. starts[1] + c <= used /\ starts[1] = 0
      BY <1>1, <1>2, <1>3 DEF RingFrom, Layout, c
  <2>2. \A i \in 1..n - 1 : starts[1] + c <= starts[i + 1]
      BY <1>1, <1>2 DEF RingFrom, Layout, c
  <2> QED BY <2>1, <2>2, <1>2, <1>3
<1>6. /\ Len(starts') = n - 1 /\ starts' \in Seq(Nat)
      /\ \A i \in 1..n - 1 : starts'[i] = starts[i + 1] - c
  <2>1. \A i \in 1..n - 1 : starts[i + 1] - c \in Nat
      BY <1>2, <1>3, <1>5
  <2> QED BY <2>1, <1>1, <1>2
<1> HIDE DEF n
<1>a. c \in Nat /\ used \in Nat /\ used <= Size /\ used' = used - c
    BY <1>1, <1>2, <1>3, SizeAssumption
<1>b. ASSUME NEW i \in 1..n - 1
      PROVE  /\ starts[i + 1] \in Nat /\ Need(queued[i + 1]) \in Nat
             /\ starts[i + 1] >= c /\ starts'[i] = starts[i + 1] - c
  <2>1. i + 1 \in 1..n
      BY <1>2
  <2> QED BY <2>1, <1>3, <1>5, <1>6
<1>7. TypeOK'
  <2>1. tail' \in 0..Size - 1 /\ used' \in 0..Size
      BY <1>1, <1>2, <1>3, <1>5, SizeAssumption DEF Wrap
  <2> QED BY <2>1, <1>1, <1>2, <1>4, <1>6 DEF RingFrom, TypeOK
<1>8. Extent(tail)'
  <2>1. head' = Wrap(tail' + used')
      BY <1>1, <1>2, <1>3, <1>5, SizeAssumption DEF RingFrom, Extent, Wrap
  <2>2. queued' = <<>> => used' = 0
    <3>1. CASE n = 1
        BY <3>1, <1>1, <1>2, <1>3, <1>5 DEF RingFrom, Layout, c, n
    <3>2. CASE n # 1
        BY <3>2, <1>2, <1>4
    <3> QED BY <3>1, <3>2
  <2> QED BY <2>1, <2>2, <1>1, <1>2, <1>4, <1>6 DEF Extent, Wrap
<1>9. Layout'
  <2> DEFINE need(i) == Need(queued'[i])
  <2>1. \A i \in 1..n - 1 : need(i) = Need(queued[i + 1]) /\ need(i) \in Nat
    <3> SUFFICES ASSUME NEW i \in 1..n - 1
                 PROVE  need(i) = Need(queued[i + 1]) /\ need(i) \in Nat
        OBVIOUS
    <3>1. queued'[i] = queued[i + 1] /\ i + 1 \in 1..n
        BY <1>2, <1>4
    <3> QED BY <3>1, <1>3
  <2> HIDE DEF need
  <2>2. ASSUME n # 1
        PROVE  starts'[1] = 0 /\ starts'[n - 1] + need(n - 1) = used'
    <3>1. starts[2] = starts[1] + c
        BY <2>2, <1>1, <1>2 DEF RingFrom, Layout, c, n
    <3>2. starts[n] + Need(queued[n]) = used
        BY <1>1 DEF RingFrom, Layout, n
    <3>3. starts'[1] = starts[1 + 1] - c
        BY <2>2, <1>2, <1>6
    <3>4. starts'[n - 1] = starts[n] - c /\ need(n - 1) = Need(queued[n])
      <4>1. n - 1 \in 1..n - 1 /\ (n - 1) + 1 = n
          BY <2>2, <1>2
      <4> QED BY <4>1, <1>6, <2>1
    <3>5. starts[n] \in Nat /\ Need(queued[n]) \in Nat
        BY <1>2, <1>3
    <3> QED BY <3>1, <3>2, <3>3, <3>4, <3>5, <1>a, <1>5
  <2>3. ASSUME NEW i \in 1..n - 1 PROVE starts'[i] + need(i) <= used'
    <3>1. starts[i + 1] + Need(queued[i + 1]) <= used
        BY <1>2 DEF RingFrom, Layout, n
    <3> QED BY <3>1, <2>1, <1>a, <1>b
  <2>4. ASSUME NEW i \in 1..n - 1, NEW j \in 1..n - 1, j = i + 1
        PROVE  starts'[j] = starts'[i] + need(i)
    <3>1. starts[j + 1] = starts[i + 1] + Need(queued[i + 1])
        BY <2>4, <1>2 DEF RingFrom, Layout, n
    <3> QED BY <3>1, <2>1, <1>a, <1>b
  <2>5. ASSUME NEW i \in 1..n - 1, NEW j \in 1..n - 1, i < j
        PROVE  starts'[i] + need(i) <= starts'[j]
    <3>1. starts[i + 1] + Need(queued[i + 1]) <= starts[j + 1]
        BY <2>5, <1>2 DEF RingFrom, Layout, n
    <3> QED BY <3>1, <2>1, <1>a, <1>b
  <2> QED BY <2>2, <2>3, <2>4, <2>5, <1>2, <1>4 DEF Layout, need, Need
<1>10. Contents(tail)'
  <2> SUFFICES ASSUME NEW i \in 1..n - 1, NEW k \in 1..Need(queued'[i])
               PROVE  buffer[Wrap(tail' + (starts'[i] + k - 1))] = Stored(queued'[i])[k]
      BY <1>1, <1>4 DEF Contents
  <2> DEFINE o == starts'[i] + k - 1
  <2>1. i + 1 \in 1..n /\ k \in 1..Need(queued[i + 1]) /\ queued'[i] = queued[i + 1]
      BY <1>2, <1>4
  <2>2. o \in 0..Size - c - 1 /\ c + o = starts[i + 1] + k - 1
    <3>1. starts[i + 1] + Need(queued[i + 1]) <= used
        BY <2>1 DEF RingFrom, Layout, n
    <3>2. k \in 1..Need(queued[i + 1])
        BY <2>1
    <3> QED BY <3>1, <3>2, <1>a, <1>b, SizeAssumption
  <2>3. Wrap(tail' + o) = Wrap(t + (c + o))
    <3>1. tail' = Wrap(t + c) /\ t \in 0..Size - 1 /\ c \in 0..Size
        BY <1>1, <1>2, <1>5, <1>a, SizeAssumption
    <3> HIDE DEF o
    <3> QED BY <3>1, <2>2, DropKeepsCells
  <2>4. buffer[Wrap(t + (starts[i + 1] + k - 1))] = Stored(queued[i + 1])[k]
      BY <2>1 DEF RingFrom, Contents, n
  <2> QED BY <2>1, <2>2, <2>3, <2>4
<1> QED BY <1>4, <1>7, <1>8, <1>9, <1>10 DEF RingFrom, n

LEMMA PopOK ==
    ASSUME RingOK, NEW c \in Capacities, Pop(c)
    PROVE  RingOK'
<1>1. PICK t \in 0..Size - 1 : t = tail
    BY DEF RingOK, RingFrom, TypeOK
<1>2. /\ count # 0 /\ count' = count - 1 /\ queued # <<>>
      /\ tail' = Wrap(t + Need(Head(queued))) /\ used' = used - Need(Head(queued))
      /\ queued' = Tail(queued) /\ out' = Head(queued)
      /\ starts' = [i \in 1..Len(starts) - 1 |-> starts[i + 1] - Need(Head(queued))]
      /\ buffer' = buffer /\ head' = head /\ dropCount' = dropCount
      /\ Head(queued) \in Packets
    BY <1>1, PopReadsOldest DEF Pop, DropBytes
<1>3. count' \in Nat /\ out' \in Seq(Byte) /\ RingFrom(t) /\ count = Len(queued)
    BY <1>1, <1>2, PacketsAssumption DEF RingOK, RingFrom, TypeOK
<1>4. RingFrom(tail)' /\ Len(queued') = Len(queued) - 1
    BY <1>2, <1>3, DropOldest DEF Drops
<1> QED BY <1>2, <1>3, <1>4 DEF RingOK

LEMMA FlushOK == RingOK /\ Flush => RingOK'
BY SizeAssumption, CountAssumption
   DEF RingOK, RingFrom, TypeOK, Extent, Layout, Contents, Flush, Wrap

LEMMA RefusalOK ==
    ASSUME RingOK,
           \/ \E p \in Packets : PushRefused(p)
           \/ \E c \in Capacities : PopRefused(c)
           \/ UNCHANGED vars
    PROVE  RingOK'
<1>1. /\ UNCHANGED <<buffer, head, tail, used, count, queued, starts>>
      /\ dropCount' \in 0..CountMod - 1 /\ out' \in Seq(Byte)
  <2>1. ASSUME NEW p \in Packets, PushRefused(p)
        PROVE  UNCHANGED <<out>> /\ dropCount' \in 0..CountMod - 1
      BY <2>1, CountAssumption DEF PushRefused, RingOK, RingFrom, TypeOK
  <2>2. ASSUME NEW c \in Capacities, PopRefused(c)
        PROVE  UNCHANGED dropCount /\ out' \in Seq(Byte)
      BY <2>2 DEF PopRefused, driver, RingOK, RingFrom, TypeOK
  <2> QED BY <2>1, <2>2 DEF PushRefused, PopRefused, vars, driver, RingOK, RingFrom, TypeOK
<1> QED
    BY <1>1 DEF RingOK, RingFrom, TypeOK, Extent, Layout, Contents

-----------------------------------------------------------------------------
(* The ring's state always describes the packets it accepted, stored whole   *)
(* and one after the other: no call of comgenbuf overwrites a queued packet  *)
(* or loses track of one.  RingOK is inductive as it stands.                 *)
THEOREM RingInvariant == Spec => []RingOK
<1>1. RingOK /\ [Next]_vars => RingOK'
  <2> SUFFICES ASSUME RingOK, [Next]_vars PROVE RingOK'
      OBVIOUS
  <2>1. CASE \E p \in Packets : Push(p)
      BY <2>1, PushOK
  <2>2. CASE \E c \in Capacities : Pop(c)
      BY <2>2, PopOK
  <2>3. CASE Flush
      BY <2>3, FlushOK
  <2>4. CASE \/ \E p \in Packets : PushRefused(p)
             \/ \E c \in Capacities : PopRefused(c)
             \/ UNCHANGED vars
      BY <2>4, RefusalOK
  <2> QED BY <2>1, <2>2, <2>3, <2>4 DEF Next
<1> QED BY InitOK, <1>1, PTL DEF Spec

-----------------------------------------------------------------------------
(* comgenbuf between the interrupt and the main loop. *)

(* Between the move of the tail and the store to used the ring still counts  *)
(* the packet that is leaving: the stretch starts where the tail was.        *)
Leaving ==
    \E t \in 0..Size - 1 :
        /\ RingFrom(t) /\ count = Len(queued)
        /\ queued # <<>> /\ length = Len(Head(queued)) /\ out = Head(queued)
        /\ tail = Wrap(t + (length + Header))

(* Then only the count is behind. *)
CountBehind == RingFrom(tail) /\ count = Len(queued) + 1

CopyUnderway ==
    /\ RingOK /\ count # 0 /\ queued # <<>> /\ length = Len(Head(queued))
    /\ Len(out) <= length
    /\ \A i \in 1..Len(out) : out[i] = Head(queued)[i]

(* Flush has forgotten the packets and is clearing the fields in order.      *)
Clearing ==
    /\ TypeOK /\ queued = <<>> /\ starts = <<>>
    /\ head = 0
    /\ pc # "flushTail" => tail = 0
    /\ pc \notin {"flushTail", "flushUsed"} => used = 0
    /\ pc = "flushDrops" => count = 0

IsrInv ==
    /\ pc \in Labels
    /\ pc \in {"peek", "copy", "loadUsed", "storeUsed"} => capacity \in Capacities
    /\ pc \in {"copy", "loadUsed", "storeUsed"} => length <= capacity
    /\ pc = "idle" => RingOK /\ returned = out
    /\ pc = "peek" => RingOK /\ count # 0
    /\ pc = "copy" => CopyUnderway
    /\ pc \in {"loadUsed", "storeUsed"} => Leaving
    /\ pc = "storeUsed" => register = used
    /\ pc \in {"loadCount", "storeCount"} => CountBehind /\ returned = out
    /\ pc = "storeCount" => register = count
    /\ pc \in FlushLabels => Clearing /\ returned = out

LEMMA IsrInitOK == IsrInit => IsrInv
BY InitOK DEF IsrInit, IsrInv, Init, Labels, FlushLabels

-----------------------------------------------------------------------------
(* The interrupt. *)

(* A push keeps whichever stretch the main loop is working on. *)
LEMMA PushAround ==
    ASSUME NEW CONSTANT t \in 0..Size - 1, RingFrom(t), NEW p \in Packets, Push(p)
    PROVE  /\ RingFrom(t)' /\ tail' = tail /\ out' = out
           /\ count' = count + 1 /\ Len(queued') = Len(queued) + 1
           /\ queued # <<>> => queued' # <<>> /\ Head(queued') = Head(queued)
<1>1. queued \in Seq(Packets) /\ queued' = Append(queued, p)
    BY DEF RingFrom, TypeOK, Push
<1>2. Len(queued') = Len(queued) + 1
    BY <1>1, AppendProperties
<1>3. queued # <<>> => queued' # <<>> /\ Head(queued') = Head(queued)
    BY <1>1
<1> QED BY <1>2, <1>3, PushFrom DEF Push

LEMMA RefusedAround ==
    ASSUME NEW CONSTANT t \in 0..Size - 1, RingFrom(t), NEW p \in Packets, PushRefused(p)
    PROVE  RingFrom(t)'
<1>1. /\ UNCHANGED <<buffer, head, tail, used, count, out, queued, starts>>
      /\ dropCount' \in 0..CountMod - 1
    BY CountAssumption DEF PushRefused, RingFrom, TypeOK
<1> QED BY <1>1 DEF RingFrom, TypeOK, Extent, Layout, Contents

LEMMA PushInterruptKeeps ==
    ASSUME UpdatesMasked, IsrInv, PushInterrupt
    PROVE  IsrInv'
<1>1. /\ pc \in {"idle", "peek", "copy", "loadUsed", "loadCount"}
      /\ UNCHANGED <<pc, capacity, length, register, returned>>
    BY DEF UpdatesMasked, PushInterrupt, InterruptEnabled, IsrInv, Labels, main
<1>2. PICK p \in Packets : Push(p) \/ PushRefused(p)
    BY DEF PushInterrupt
<1>a. UNCHANGED out
    BY <1>2 DEF Push, PushRefused
<1>3. ASSUME RingOK
      PROVE  RingOK' /\ count' \in {count, count + 1}
    BY <1>2, <1>3, PushOK, RefusalOK DEF Push, PushRefused
<1>4. CASE pc = "idle"
    BY <1>1, <1>3, <1>4, <1>a DEF IsrInv, FlushLabels
<1>5. CASE pc = "peek"
  <2>1. RingOK' /\ count' # 0
      BY <1>3, <1>5 DEF IsrInv, RingOK, RingFrom, TypeOK
  <2> QED BY <1>1, <1>5, <2>1 DEF IsrInv, FlushLabels
<1>6. CASE pc = "copy"
  <2>1. RingOK' /\ count' # 0
      BY <1>3, <1>6 DEF IsrInv, CopyUnderway, RingOK, RingFrom, TypeOK
  <2>2. queued' # <<>> /\ Head(queued') = Head(queued)
    <3>1. PICK t \in 0..Size - 1 : t = tail
        BY <1>6 DEF IsrInv, CopyUnderway, RingOK, RingFrom, TypeOK
    <3>2. queued # <<>> /\ RingFrom(t)
        BY <1>6, <3>1 DEF IsrInv, CopyUnderway, RingOK
    <3> QED BY <1>2, <3>2, PushAround DEF PushRefused
  <2> QED BY <1>1, <1>6, <1>a, <2>1, <2>2 DEF IsrInv, CopyUnderway, FlushLabels
<1>7. CASE pc = "loadUsed"
  <2>1. PICK t \in 0..Size - 1 :
            /\ RingFrom(t) /\ count = Len(queued)
            /\ queued # <<>> /\ length = Len(Head(queued)) /\ out = Head(queued)
            /\ tail = Wrap(t + (length + Header))
      BY <1>7 DEF IsrInv, Leaving
  <2>2. /\ RingFrom(t)' /\ count' = Len(queued')
        /\ queued' # <<>> /\ Head(queued') = Head(queued) /\ tail' = tail
      BY <1>2, <2>1, PushAround, RefusedAround DEF PushRefused
  <2>3. Leaving'
      BY <1>1, <1>a, <2>1, <2>2 DEF Leaving
  <2> QED BY <1>1, <1>7, <2>3 DEF IsrInv, FlushLabels
<1>8. CASE pc = "loadCount"
  <2>1. PICK t \in 0..Size - 1 : t = tail /\ RingFrom(t)
      BY <1>8 DEF IsrInv, CountBehind, RingFrom, TypeOK
  <2>2. RingFrom(t)' /\ tail' = tail /\ count' = Len(queued') + 1
    <3>1. count = Len(queued) + 1 /\ Len(queued) \in Nat
        BY <1>8 DEF IsrInv, CountBehind, RingFrom, TypeOK
    <3> QED BY <1>2, <2>1, <3>1, PushAround, RefusedAround DEF PushRefused
  <2>3. CountBehind'
      BY <2>1, <2>2 DEF CountBehind
  <2> QED BY <1>1, <1>8, <1>a, <2>3 DEF IsrInv, FlushLabels
<1> QED BY <1>1, <1>4, <1>5, <1>6, <1>7, <1>8

-----------------------------------------------------------------------------
(* comgenbufPop. *)

LEMMA PopStepsKeep ==
    ASSUME IsrInv, PopCall \/ PopEmpty \/ PopPeek \/ PopTooSmall \/ PopCopyByte
    PROVE  IsrInv'
<1>1. CASE PopCall
  <2>1. /\ pc = "idle" /\ count # 0 /\ capacity' \in Capacities /\ pc' = "peek"
        /\ UNCHANGED vars
      BY <1>1 DEF PopCall
  <2>2. RingOK'
    <3>1. RingOK
        BY <2>1 DEF IsrInv
    <3> QED BY <2>1, <3>1, RefusalOK
  <2> QED BY <2>1, <2>2 DEF IsrInv, Labels, FlushLabels, vars, driver
<1>2. CASE PopEmpty \/ PopTooSmall
  <2>1. /\ pc' = "idle" /\ out' = <<>> /\ returned' = <<>>
        /\ UNCHANGED <<driver, queued, starts>>
      BY <1>2 DEF PopEmpty, PopTooSmall, ReturnNothing, LeavePop
  <2>2. RingOK
      BY <1>2 DEF PopEmpty, PopTooSmall, IsrInv
  <2>3. RingOK'
    <3>1. out' \in Seq(Byte)
        BY <2>1
    <3> QED BY <2>1, <2>2, <3>1
        DEF driver, RingOK, RingFrom, TypeOK, Extent, Layout, Contents
  <2> QED BY <2>1, <2>3 DEF IsrInv, Labels, FlushLabels
<1>3. CASE PopPeek
  <2>1. /\ pc = "peek" /\ capacity >= PeekLength /\ length' = PeekLength /\ out' = <<>>
        /\ pc' = "copy"
        /\ UNCHANGED <<driver, queued, starts, capacity, register, returned>>
      BY <1>3 DEF PopPeek
  <2>2. RingOK /\ count # 0 /\ capacity \in Capacities
      BY <2>1 DEF IsrInv
  <2>3. /\ queued # <<>> /\ PeekLength = Len(Head(queued))
        /\ PeekLength \in Nat /\ capacity \in Nat
      BY <2>2, PopReadsOldest, PacketsAssumption
  <2>4. RingOK'
    <3>1. out' \in Seq(Byte)
        BY <2>1
    <3> QED BY <2>1, <2>2, <3>1
        DEF driver, RingOK, RingFrom, TypeOK, Extent, Layout, Contents
  <2>5. CopyUnderway'
      BY <2>1, <2>2, <2>3, <2>4 DEF CopyUnderway, driver
  <2>6. length' <= capacity'
      BY <2>1, <2>3
  <2> QED BY <2>1, <2>2, <2>5, <2>6 DEF IsrInv, Labels, FlushLabels
<1>4. CASE PopCopyByte
  <2> DEFINE b == PeekByte(Header + Len(out))
  <2>1. /\ pc = "copy" /\ Len(out) < length /\ out' = Append(out, b)
        /\ UNCHANGED <<buffer, head, tail, used, count, dropCount, queued, starts,
                       pc, capacity, length, register, returned>>
      BY <1>4 DEF PopCopyByte, driver, main
  <2>2. /\ RingOK /\ count # 0 /\ queued # <<>> /\ length = Len(Head(queued))
        /\ \A i \in 1..Len(out) : out[i] = Head(queued)[i]
        /\ capacity \in Capacities /\ length <= capacity
      BY <2>1 DEF IsrInv, CopyUnderway
  <2>3. /\ PeekLength = length /\ Payload(PeekLength) = Head(queued)
        /\ Head(queued) \in Seq(Byte) /\ length \in Nat
      BY <2>2, PopReadsOldest, PacketsAssumption
  <2>4. out \in Seq(Byte) /\ Len(out) \in Nat
      BY <2>2 DEF RingOK, RingFrom, TypeOK
  <2>5. b = Head(queued)[Len(out) + 1] /\ b \in Byte
    <3>1. Len(out) + 1 \in 1..length
        BY <2>1, <2>3, <2>4
    <3>2. Payload(length)[Len(out) + 1] = PeekByte(Header + (Len(out) + 1) - 1)
        BY <3>1 DEF Payload
    <3>3. Header + (Len(out) + 1) - 1 = Header + Len(out)
        BY <2>4 DEF Header
    <3>4. b = Head(queued)[Len(out) + 1]
        BY <2>3, <3>2, <3>3
    <3>5. Head(queued)[Len(out) + 1] \in Byte
        BY <2>2, <2>3, <3>1
    <3> QED BY <3>4, <3>5
  <2> HIDE DEF b
  <2>6. /\ out' \in Seq(Byte) /\ Len(out') = Len(out) + 1
        /\ \A i \in 1..Len(out) : out'[i] = out[i]
        /\ out'[Len(out) + 1] = b
      BY <2>1, <2>4, <2>5, AppendProperties
  <2>7. RingOK'
      BY <2>1, <2>2, <2>6 DEF RingOK, RingFrom, TypeOK, Extent, Layout, Contents
  <2>8. Len(out') <= length' /\ \A i \in 1..Len(out') : out'[i] = Head(queued')[i]
    <3>1. Len(out') <= length'
        BY <2>1, <2>3, <2>4, <2>6
    <3>2. ASSUME NEW i \in 1..Len(out') PROVE out'[i] = Head(queued)[i]
        BY <2>2, <2>4, <2>5, <2>6
    <3> QED BY <2>1, <3>1, <3>2
  <2> QED BY <2>1, <2>2, <2>7, <2>8 DEF IsrInv, CopyUnderway, Labels, FlushLabels
<1> QED BY <1>1, <1>2, <1>3, <1>4

(* The copy is complete: what the caller has is the oldest packet.           *)
LEMMA CopyComplete ==
    ASSUME CopyUnderway, Len(out) = length
    PROVE  out = Head(queued)
<1>1. /\ queued # <<>> /\ queued \in Seq(Packets) /\ out \in Seq(Byte)
      /\ length = Len(Head(queued))
    BY DEF CopyUnderway, RingOK, RingFrom, TypeOK
<1>2. Head(queued) \in Seq(Byte)
    BY <1>1, PacketsAssumption
<1>3. \A i \in 1..Len(out) : out[i] = Head(queued)[i]
    BY DEF CopyUnderway
<1> QED BY <1>1, <1>2, <1>3, SeqEqual

LEMMA PopUpdatesKeep ==
    ASSUME IsrInv,
           PopMoveTail \/ PopLoadUsed \/ PopStoreUsed \/ PopLoadCount \/ PopStoreCount
    PROVE  IsrInv'
<1>1. CASE PopMoveTail
  <2>1. /\ pc = "copy" /\ Len(out) = length /\ tail' = Wrap(tail + length + Header)
        /\ pc' = "loadUsed"
        /\ UNCHANGED <<buffer, head, used, count, dropCount, out, queued, starts,
                       capacity, length, register, returned>>
      BY <1>1 DEF PopMoveTail
  <2>2. /\ CopyUnderway /\ RingOK /\ queued # <<>> /\ length = Len(Head(queued))
        /\ capacity \in Capacities /\ length <= capacity
      BY <2>1 DEF IsrInv, CopyUnderway
  <2>3. PICK t \in 0..Size - 1 : t = tail /\ RingFrom(t) /\ count = Len(queued)
      BY <2>2 DEF RingOK, RingFrom, TypeOK
  <2>4. /\ length \in Nat /\ length + Header = Need(Head(queued))
        /\ length + Header <= used /\ used \in 0..Size
    <3>1. queued \in Seq(Packets) /\ Len(queued) \in Nat /\ Len(queued) >= 1 /\ used \in 0..Size
          /\ Head(queued) = queued[1] /\ Head(queued) \in Packets
        BY <2>2, <2>3 DEF RingFrom, TypeOK
    <3>2. starts[1] = 0 /\ starts[1] + Need(Head(queued)) <= used
        BY <2>2, <2>3, <3>1 DEF RingFrom, Layout
    <3>3. Len(Head(queued)) \in Nat /\ Need(Head(queued)) = Len(Head(queued)) + Header
        BY <3>1, PacketsAssumption DEF Need
    <3> QED BY <2>2, <3>1, <3>2, <3>3 DEF Header
  <2>5. tail' = Wrap(t + (length + Header)) /\ tail' \in 0..Size - 1
    <3> DEFINE c == length + Header
    <3>1. c \in 0..Size /\ tail + length + Header = t + c
        BY <2>3, <2>4, SizeAssumption DEF Header
    <3> HIDE DEF c
    <3>2. Wrap(t + c) \in 0..Size - 1
        BY <3>1, SizeAssumption DEF Wrap
    <3> QED BY <2>1, <3>1, <3>2 DEF c
  <2>6. RingFrom(t)'
      BY <2>1, <2>3, <2>5 DEF RingFrom, TypeOK, Extent, Layout, Contents
  <2>7. out = Head(queued)
      BY <2>1, <2>2, CopyComplete
  <2>8. Leaving'
      BY <2>1, <2>2, <2>3, <2>5, <2>6, <2>7 DEF Leaving
  <2> QED BY <2>1, <2>2, <2>8 DEF IsrInv, Labels, FlushLabels
<1>2. CASE PopLoadUsed
  <2>1. /\ pc = "loadUsed" /\ pc' = "storeUsed" /\ register' = used
        /\ UNCHANGED <<vars, capacity, length, returned>>
      BY <1>2 DEF PopLoadUsed
  <2>2. Leaving'
      BY <2>1 DEF IsrInv, Leaving, vars, driver, RingFrom, TypeOK, Extent, Layout, Contents
  <2> QED BY <2>1, <2>2 DEF IsrInv, Labels, FlushLabels, vars, driver
<1>3. CASE PopStoreUsed
  <2>1. /\ pc = "storeUsed" /\ pc' = "loadCount"
        /\ used' = used - (length + Header) /\ returned' = out
        /\ queued' = Tail(queued)
        /\ starts' = [i \in 1..Len(starts) - 1 |-> starts[i + 1] - (length + Header)]
        /\ UNCHANGED <<buffer, head, tail, count, dropCount, out, capacity, length, register>>
      BY <1>3 DEF PopStoreUsed, IsrInv
  <2>2. PICK t \in 0..Size - 1 :
            /\ RingFrom(t) /\ count = Len(queued)
            /\ queued # <<>> /\ length = Len(Head(queued)) /\ out = Head(queued)
            /\ tail = Wrap(t + (length + Header))
      BY <2>1 DEF IsrInv, Leaving
  <2>3. length + Header = Need(Head(queued))
      BY <2>2 DEF Need
  <2>4. count' \in Nat /\ out' \in Seq(Byte)
      BY <2>1, <2>2 DEF RingFrom, TypeOK
  <2>5. RingFrom(tail)' /\ Len(queued') = Len(queued) - 1
    <3>1. Drops(t)
        BY <2>1, <2>2, <2>3, <2>4 DEF Drops
    <3> QED BY <2>2, <3>1, DropOldest
  <2>6. CountBehind'
      BY <2>1, <2>2, <2>4, <2>5 DEF CountBehind
  <2> QED BY <2>1, <2>6 DEF IsrInv, Labels, FlushLabels
<1>4. CASE PopLoadCount
  <2>1. /\ pc = "loadCount" /\ pc' = "storeCount" /\ register' = count
        /\ UNCHANGED <<vars, capacity, length, returned>>
      BY <1>4 DEF PopLoadCount
  <2>2. CountBehind'
      BY <2>1 DEF IsrInv, CountBehind, vars, driver, RingFrom, TypeOK, Extent, Layout, Contents
  <2> QED BY <2>1, <2>2 DEF IsrInv, Labels, FlushLabels, vars, driver
<1>5. CASE PopStoreCount
  <2>1. /\ pc = "storeCount" /\ pc' = "idle" /\ count' = count - 1
        /\ UNCHANGED <<buffer, head, tail, used, dropCount, out, queued, starts, returned>>
      BY <1>5 DEF PopStoreCount, LeavePop, IsrInv
  <2>2. RingFrom(tail) /\ count = Len(queued) + 1 /\ Len(queued) \in Nat
      BY <2>1 DEF IsrInv, CountBehind, RingFrom, TypeOK
  <2>3. count' = Len(queued) /\ count' \in Nat
      BY <2>1, <2>2
  <2>4. RingOK'
      BY <2>1, <2>2, <2>3 DEF RingOK, RingFrom, TypeOK, Extent, Layout, Contents
  <2> QED BY <2>1, <2>4 DEF IsrInv, Labels, FlushLabels
<1> QED BY <1>1, <1>2, <1>3, <1>4, <1>5
-----------------------------------------------------------------------------
(* comgenbufFlush, and a call made whole. *)

LEMMA FlushStepsKeep ==
    ASSUME IsrInv, FlushHead \/ FlushTail \/ FlushUsed \/ FlushCount \/ FlushDrops
    PROVE  IsrInv'
<1>1. CASE FlushHead
  <2>1. /\ pc = "idle" /\ pc' = "flushTail" /\ head' = 0 /\ queued' = <<>> /\ starts' = <<>>
        /\ UNCHANGED <<buffer, tail, used, count, dropCount, out, returned>>
      BY <1>1 DEF FlushHead
  <2>2. TypeOK /\ returned = out
      BY <2>1 DEF IsrInv, RingOK, RingFrom
  <2>3. Clearing'
      BY <2>1, <2>2, SizeAssumption DEF Clearing, TypeOK
  <2> QED BY <2>1, <2>2, <2>3 DEF IsrInv, Labels, FlushLabels
<1>2. CASE FlushTail \/ FlushUsed \/ FlushCount
  <2>1. /\ pc \in {"flushTail", "flushUsed", "flushCount"} /\ Clearing /\ returned = out
        /\ UNCHANGED <<buffer, head, dropCount, out, queued, starts, returned>>
      BY <1>2 DEF FlushTail, FlushUsed, FlushCount, IsrInv, FlushLabels
  <2>2. Clearing'
      BY <1>2, <2>1, SizeAssumption DEF FlushTail, FlushUsed, FlushCount, Clearing, TypeOK
  <2>3. pc' \in {"flushUsed", "flushCount", "flushDrops"}
      BY <1>2 DEF FlushTail, FlushUsed, FlushCount
  <2> QED BY <2>1, <2>2, <2>3 DEF IsrInv, Labels, FlushLabels
<1>3. CASE FlushDrops
  <2>1. /\ pc = "flushDrops" /\ pc' = "idle" /\ dropCount' = 0
        /\ UNCHANGED <<buffer, head, tail, used, count, out, queued, starts, returned>>
      BY <1>3 DEF FlushDrops
  <2>2. /\ TypeOK /\ queued = <<>> /\ starts = <<>> /\ returned = out
        /\ head = 0 /\ tail = 0 /\ used = 0 /\ count = 0
      BY <2>1 DEF IsrInv, Clearing, FlushLabels
  <2>3. RingOK'
      BY <2>1, <2>2, SizeAssumption, CountAssumption
         DEF RingOK, RingFrom, TypeOK, Extent, Layout, Contents, Wrap
  <2> QED BY <2>1, <2>2, <2>3 DEF IsrInv, Labels, FlushLabels
<1> QED BY <1>1, <1>2, <1>3

LEMMA WholeCallKeeps ==
    ASSUME IsrInv, WholeCall
    PROVE  IsrInv'
<1>1. pc = "idle" /\ pc' = "idle" /\ returned' = out' /\ RingOK
    BY DEF WholeCall, IsrInv
<1>2. CASE \E c \in Capacities : Pop(c)
    BY <1>1, <1>2, PopOK DEF IsrInv, Labels, FlushLabels
<1>3. CASE \E c \in Capacities : PopRefused(c)
    BY <1>1, <1>3, RefusalOK DEF IsrInv, Labels, FlushLabels
<1>4. CASE Flush
    BY <1>1, <1>4, FlushOK DEF IsrInv, Labels, FlushLabels
<1> QED BY <1>2, <1>3, <1>4 DEF WholeCall

LEMMA StutterKeeps == IsrInv /\ UNCHANGED isrVars => IsrInv'
<1> SUFFICES ASSUME IsrInv, UNCHANGED isrVars PROVE IsrInv'
    OBVIOUS
<1>1. UNCHANGED <<buffer, head, tail, used, count, dropCount, out, queued, starts,
                  pc, capacity, length, register, returned>>
    BY DEF isrVars, main, vars, driver
<1>2. \A t : RingFrom(t)' <=> RingFrom(t)
    BY <1>1 DEF RingFrom, TypeOK, Extent, Layout, Contents
<1>3. /\ RingFrom(tail)' <=> RingFrom(tail)
      /\ RingOK' <=> RingOK
    BY <1>1 DEF RingOK, RingFrom, TypeOK, Extent, Layout, Contents
<1>4. Leaving' <=> Leaving
    BY <1>1, <1>2 DEF Leaving
<1>5. (CopyUnderway' <=> CopyUnderway) /\ (CountBehind' <=> CountBehind)
    BY <1>1, <1>3 DEF CopyUnderway, CountBehind
<1>6. Clearing' <=> Clearing
    BY <1>1 DEF Clearing, TypeOK
<1> QED BY <1>1, <1>3, <1>4, <1>5, <1>6 DEF IsrInv

LEMMA IsrInvariant ==
    ASSUME UpdatesMasked
    PROVE  IsrSpec => []IsrInv
<1>1. IsrInv /\ [IsrNext]_isrVars => IsrInv'
    BY PushInterruptKeeps, PopStepsKeep, PopUpdatesKeep, FlushStepsKeep, WholeCallKeeps,
       StutterKeeps DEF IsrNext, MainStep
<1> QED BY IsrInitOK, <1>1, PTL DEF IsrSpec

-----------------------------------------------------------------------------
(* However many packets the interrupt pushes inside comgenbufPop, the ring   *)
(* is in order again when the main loop leaves the queue, as long as the     *)
(* interrupt is held off from the stores of used and count and from Flush.   *)
THEOREM IdleRing ==
    ASSUME UpdatesMasked
    PROVE  IsrSpec => []IdleRingOK
<1>1. IsrInv => IdleRingOK
    BY DEF IsrInv, IdleRingOK
<1> QED BY <1>1, IsrInvariant, PTL
-----------------------------------------------------------------------------
(* The refinement, step by step. *)

LEMMA PushMaps ==
    ASSUME UpdatesMasked, IsrInv, PushInterrupt
    PROVE  \E p \in Packets : IsrQueue!Push(p) \/ IsrQueue!Refuse(p)
<1>1. pc \notin FlushLabels /\ pc' = pc /\ returned' = returned
    BY DEF PushInterrupt, InterruptEnabled, UpdatesMasked, main
<1>2. used \in 0..Size
  <2>1. pc \in {"idle", "peek", "copy", "loadUsed", "storeUsed", "loadCount", "storeCount"}
      BY <1>1 DEF IsrInv, Labels
  <2>2. CASE pc \in {"idle", "peek", "copy"}
      BY <2>2 DEF IsrInv, CopyUnderway, RingOK, RingFrom, TypeOK
  <2>3. CASE pc \in {"loadUsed", "storeUsed"}
      BY <2>3 DEF IsrInv, Leaving, RingFrom, TypeOK
  <2>4. CASE pc \in {"loadCount", "storeCount"}
      BY <2>4 DEF IsrInv, CountBehind, RingFrom, TypeOK
  <2> QED BY <2>1, <2>2, <2>3, <2>4
<1>3. PICK p \in Packets : Push(p) \/ PushRefused(p)
    BY DEF PushInterrupt
<1>4. Len(p) \in Nat
    BY PacketsAssumption
<1> DEFINE n == Len(p) + Header
<1>5. n \in Nat /\ Need(p) = n /\ IsrQueue!Cost(p) = n
    BY <1>4 DEF Header, Need, IsrQueue!Cost
<1> HIDE DEF n
<1>6. CASE Push(p)
  <2>1. /\ n <= Size - used /\ used' = used + n /\ queued' = Append(queued, p)
        /\ dropCount' = dropCount
      BY <1>2, <1>5, <1>6, SizeAssumption DEF Push, Fits
  <2>2. Size - used' = (Size - used) - n
      BY <1>2, <1>5, <2>1, SizeAssumption
  <2> QED BY <1>1, <1>5, <2>1, <2>2 DEF FlushUnderway, IsrQueue!Push
<1>7. CASE PushRefused(p)
  <2>1. /\ n > Size - used /\ UNCHANGED <<used, queued>>
        /\ dropCount' = (dropCount + 1) % CountMod
      BY <1>2, <1>5, <1>7, SizeAssumption DEF PushRefused, Fits
  <2> QED BY <1>1, <1>5, <2>1 DEF FlushUnderway, IsrQueue!Refuse
<1> QED BY <1>3, <1>6, <1>7

(* The bytes a packet gives back to the budget. *)
LEMMA GivesBack ==
    ASSUME used \in 0..Size, NEW n \in Nat, used' = used - (n + Header)
    PROVE  Size - used' = Size - used + (n + Header)
BY SizeAssumption DEF Header

LEMMA PopMaps ==
    ASSUME IsrInv, PopStoreUsed
    PROVE  \E c \in Capacities : IsrQueue!Pop(c)
<1>1. /\ pc = "storeUsed" /\ pc' = "loadCount"
      /\ used' = used - (length + Header) /\ returned' = out
      /\ queued' = Tail(queued) /\ dropCount' = dropCount
      /\ capacity \in Capacities /\ length <= capacity
    BY DEF PopStoreUsed, IsrInv
<1>2. /\ queued # <<>> /\ length = Len(Head(queued)) /\ out = Head(queued)
      /\ used \in 0..Size /\ queued \in Seq(Packets)
    BY <1>1 DEF IsrInv, Leaving, RingFrom, TypeOK
<1>3. length \in Nat
    BY <1>2, PacketsAssumption
<1>4. Size - used' = Size - used + (length + Header)
    BY <1>1, <1>2, <1>3, GivesBack
<1>5. ~FlushUnderway /\ ~FlushUnderway'
    BY <1>1 DEF FlushUnderway, FlushLabels
<1>6. IsrQueue!Pop(capacity)
    BY <1>1, <1>2, <1>4, <1>5 DEF IsrQueue!Pop, IsrQueue!Cost
<1> QED BY <1>1, <1>6

(* Nothing to hand over: the queue is empty, or its oldest is too long.      *)
LEMMA NothingFits ==
    ASSUME RingOK, NEW c \in Capacities, count = 0 \/ c < PeekLength
    PROVE  queued # <<>> => Len(Head(queued)) > c
<1>1. CASE count = 0
  <2>1. queued \in Seq(Packets) /\ Len(queued) = 0
      BY <1>1 DEF RingOK, RingFrom, TypeOK
  <2> QED BY <2>1, EmptySeq
<1>2. CASE count # 0
  <2>1. PeekLength = Len(Head(queued)) /\ Head(queued) \in Packets
      BY <1>2, PopReadsOldest
  <2>2. Len(Head(queued)) \in Nat /\ c \in Nat /\ c < PeekLength
      BY <2>1, <1>2, PacketsAssumption
  <2> QED BY <2>1, <2>2
<1> QED BY <1>1, <1>2

LEMMA PopNothingMaps ==
    ASSUME IsrInv, PopEmpty \/ PopTooSmall
    PROVE  \E c \in Capacities : IsrQueue!PopNothing(c)
<1>1. /\ returned' = <<>> /\ pc' = "idle" /\ pc \in {"idle", "peek"}
      /\ UNCHANGED <<used, dropCount, queued>> /\ RingOK
    BY DEF PopEmpty, PopTooSmall, ReturnNothing, LeavePop, driver, IsrInv
<1>2. PICK c \in Capacities : count = 0 \/ c < PeekLength
    BY MaskedAssumption DEF PopEmpty, PopTooSmall, IsrInv
<1>3. queued # <<>> => Len(Head(queued)) > c
    BY <1>1, <1>2, NothingFits
<1> QED BY <1>1, <1>3 DEF IsrQueue!PopNothing, FlushUnderway, FlushLabels

LEMMA FlushMaps ==
    ASSUME IsrInv, FlushHead
    PROVE  IsrQueue!Flush
BY DEF FlushHead, IsrQueue!Flush, FlushUnderway, FlushLabels

LEMMA WholeCallMaps ==
    ASSUME IsrInv, WholeCall
    PROVE  \/ \E c \in Capacities : IsrQueue!Pop(c) \/ IsrQueue!PopNothing(c)
           \/ IsrQueue!Flush
<1>1. /\ pc = "idle" /\ pc' = "idle" /\ RingOK /\ returned = out /\ returned' = out'
      /\ ~FlushUnderway /\ ~FlushUnderway' /\ used \in 0..Size
    BY DEF WholeCall, IsrInv, FlushUnderway, FlushLabels, RingOK, RingFrom, TypeOK
<1>2. ASSUME NEW c \in Capacities, Pop(c)
      PROVE  IsrQueue!Pop(c)
  <2>1. /\ queued # <<>> /\ PeekLength = Len(Head(queued)) /\ Head(queued) \in Packets
        /\ out' = Head(queued) /\ queued' = Tail(queued) /\ dropCount' = dropCount
        /\ used' = used - (PeekLength + Header) /\ c >= PeekLength
      BY <1>1, <1>2, PopReadsOldest DEF Pop, DropBytes
  <2>2. Len(Head(queued)) \in Nat /\ c \in Nat
      BY <2>1, PacketsAssumption
  <2>3. Size - used' = Size - used + (Len(Head(queued)) + Header)
      BY <1>1, <2>1, <2>2, GivesBack
  <2> QED BY <1>1, <2>1, <2>2, <2>3 DEF IsrQueue!Pop, IsrQueue!Cost
<1>3. ASSUME NEW c \in Capacities, PopRefused(c)
      PROVE  IsrQueue!PopNothing(c)
  <2>1. queued # <<>> => Len(Head(queued)) > c
      BY <1>1, <1>3, NothingFits DEF PopRefused
  <2> QED BY <1>1, <1>3, <2>1 DEF PopRefused, driver, IsrQueue!PopNothing
<1>4. ASSUME Flush PROVE IsrQueue!Flush
    BY <1>1, <1>4, SizeAssumption DEF Flush, IsrQueue!Flush
<1> QED BY <1>2, <1>3, <1>4 DEF WholeCall

(* The other steps show nothing outside. *)
LEMMA OtherStepsStutter ==
    ASSUME IsrInv,
           \/ PopCall \/ PopPeek \/ PopCopyByte \/ PopMoveTail \/ PopLoadUsed
           \/ PopLoadCount \/ PopStoreCount
           \/ FlushTail \/ FlushUsed \/ FlushCount \/ FlushDrops
           \/ UNCHANGED isrVars
    PROVE  UNCHANGED IsrQueue!vars
<1>1. CASE \/ PopCall \/ PopPeek \/ PopCopyByte \/ PopMoveTail \/ PopLoadUsed
           \/ PopLoadCount \/ PopStoreCount
  <2>1. /\ UNCHANGED <<used, dropCount, queued, returned>>
        /\ pc \notin FlushLabels /\ pc' \notin FlushLabels
      BY <1>1 DEF PopCall, PopPeek, PopCopyByte, PopMoveTail, PopLoadUsed, PopLoadCount,
                  PopStoreCount, LeavePop, vars, driver, main, FlushLabels
  <2> QED BY <2>1 DEF IsrQueue!vars, FlushUnderway
<1>2. CASE FlushTail \/ FlushUsed \/ FlushCount
  <2>1. UNCHANGED <<queued, returned>> /\ pc \in FlushLabels /\ pc' \in FlushLabels
      BY <1>2 DEF FlushTail, FlushUsed, FlushCount, FlushLabels
  <2> QED BY <2>1 DEF IsrQueue!vars, FlushUnderway
<1>3. CASE FlushDrops
  <2>1. /\ UNCHANGED <<used, queued, returned>> /\ used = 0 /\ dropCount' = 0
        /\ pc \in FlushLabels /\ pc' \notin FlushLabels
      BY <1>3 DEF FlushDrops, IsrInv, Clearing, FlushLabels
  <2> QED BY <2>1, SizeAssumption DEF IsrQueue!vars, FlushUnderway
<1>4. CASE UNCHANGED isrVars
    BY <1>4 DEF isrVars, main, vars, driver, IsrQueue!vars, FlushUnderway
<1> QED BY <1>1, <1>2, <1>3, <1>4

(* comgenbuf between its two contexts is a queue of whole packets: what a    *)
(* caller of comgenbufPop gets is the oldest packet exactly as the interrupt *)
(* pushed it, and a push is refused exactly when its bytes and its header    *)
(* exceed the space not in use, wherever in Pop the push comes.              *)
THEOREM QueueRefinement ==
    ASSUME UpdatesMasked
    PROVE  IsrSpec => IsrImplementsQueue
<1>1. IsrInit => IsrQueue!Init
    BY SizeAssumption DEF IsrInit, Init, IsrQueue!Init, FlushUnderway, FlushLabels
<1>2. IsrInv /\ [IsrNext]_isrVars => [IsrQueue!Next]_IsrQueue!vars
    BY PushMaps, PopMaps, PopNothingMaps, FlushMaps, WholeCallMaps, OtherStepsStutter
       DEF IsrNext, MainStep, IsrQueue!Next
<1> QED BY <1>1, <1>2, IsrInvariant, PTL DEF IsrSpec, IsrImplementsQueue, IsrQueue!Spec

------------------------------------------------------------------------

-----------------------------------------------------------------------------
(* circBuf, for every capacity and every set of elements: it is a bounded    *)
(* queue.  What status adds to two equal indices is the whole invariant.     *)

Widths == {"u32", "u8", "i32"}
RingElements == UNION {RingValues[w] : w \in DOMAIN RingValues}

(* Capacities are numbers, and Values has the elements of the three widths.  *)
RingGiven == RingCapacities \subseteq Nat /\ Widths \subseteq DOMAIN RingValues

RingInv ==
    /\ width \in Widths /\ ringCapacity \in RingCapacities \ {0} /\ behaviour \in Ring!Behaviours
    /\ ringBuffer \in [0 .. ringCapacity - 1 -> RingElements]
    /\ rp \in 0 .. ringCapacity - 1 /\ wp \in 0 .. ringCapacity - 1
    /\ status \in Ring!Statuses /\ (status = "NOTEMPTY" <=> wp # rp)

-----------------------------------------------------------------------------
(* The arithmetic of the two indices, of numbers. *)

Around(c, i) == IF i + 1 >= c THEN 0 ELSE i + 1
Held(s, c, r, w) == IF s = "FULL" THEN c ELSE IF w >= r THEN w - r ELSE w + (c - r)
At(c, r, i) == IF r + i - 1 < c THEN r + i - 1 ELSE r + i - 1 - c

LEMMA RingMeasured ==
    /\ Ring!Length = Held(status, ringCapacity, rp, wp)
    /\ Ring!Length' = Held(status', ringCapacity', rp', wp')
    /\ \A i : Ring!Offset(i) = At(ringCapacity, rp, i) /\ Ring!Offset(i)' = At(ringCapacity', rp', i)
    /\ \A i : Ring!Step(i) = Around(ringCapacity, i)
BY DEF Ring!Length, Held, Ring!Offset, At, Ring!Step, Around

LEMMA RingInside ==
    ASSUME NEW c \in Nat \ {0}, NEW r \in 0 .. c - 1, NEW w \in 0 .. c - 1, NEW s
    PROVE  /\ Held(s, c, r, w) \in 0 .. c
           /\ \A i \in 1 .. c : At(c, r, i) \in 0 .. c - 1
           /\ Around(c, r) \in 0 .. c - 1
BY DEF Held, At, Around

LEMMA Adding ==
    ASSUME NEW c \in Nat \ {0}, NEW r \in 0 .. c - 1, NEW w \in 0 .. c - 1,
           NEW s \in Ring!Statuses, s = "NOTEMPTY" <=> w # r, w # r \/ s = "EMPTY",
           NEW t, t = IF Around(c, w) = r THEN "FULL" ELSE "NOTEMPTY"
    PROVE  /\ t \in Ring!Statuses /\ (t = "NOTEMPTY" <=> Around(c, w) # r)
           /\ Held(s, c, r, w) < c /\ Held(t, c, r, Around(c, w)) = Held(s, c, r, w) + 1
           /\ \A i \in 1 .. Held(s, c, r, w) : At(c, r, i) # w
           /\ At(c, r, Held(s, c, r, w) + 1) = w
<1> DEFINE h == IF w >= r THEN w - r ELSE w + (c - r)
<1>1. Held(s, c, r, w) = h
    BY DEF Ring!Statuses, Held
<1>2. Held(t, c, r, Around(c, w)) = h + 1
    BY DEF Held, Around
<1>3. h \in 0 .. c - 1 /\ (\A i \in 1 .. h : At(c, r, i) # w) /\ At(c, r, h + 1) = w
    BY DEF At
<1> HIDE DEF h
<1> QED BY <1>1, <1>2, <1>3 DEF Ring!Statuses

LEMMA Displacing ==
    ASSUME NEW c \in Nat \ {0}, NEW r \in 0 .. c - 1
    PROVE  /\ \A i \in 1 .. c - 1 : At(c, Around(c, r), i) = At(c, r, i + 1) /\ At(c, r, i + 1) # r
           /\ At(c, Around(c, r), c) = r
BY DEF At, Around

LEMMA Reading ==
    ASSUME NEW c \in Nat \ {0}, NEW r \in 0 .. c - 1, NEW w \in 0 .. c - 1,
           NEW s \in Ring!Statuses, s = "NOTEMPTY" <=> w # r, s # "EMPTY",
           NEW t, t = IF Around(c, r) = w THEN "EMPTY" ELSE "NOTEMPTY"
    PROVE  /\ t \in Ring!Statuses /\ (t = "NOTEMPTY" <=> w # Around(c, r))
           /\ Held(s, c, r, w) > 0 /\ Held(t, c, Around(c, r), w) = Held(s, c, r, w) - 1
           /\ At(c, r, 1) = r
           /\ \A i \in 1 .. Held(s, c, r, w) - 1 : At(c, Around(c, r), i) = At(c, r, i + 1)
<1>1. Held(s, c, r, w) = IF w > r THEN w - r ELSE w + (c - r)
    BY DEF Ring!Statuses, Held
<1>2. Held(t, c, Around(c, r), w) = Held(s, c, r, w) - 1
    BY <1>1 DEF Held, Around
<1>3. Held(s, c, r, w) \in 1 .. c
    BY <1>1
<1>4. \A i \in 1 .. c - 1 : At(c, Around(c, r), i) = At(c, r, i + 1)
    BY Displacing
<1>5. \A i \in 1 .. Held(s, c, r, w) - 1 : i \in 1 .. c - 1
    BY <1>3
<1> QED BY <1>2, <1>3, <1>4, <1>5 DEF Ring!Statuses, At

-----------------------------------------------------------------------------
(* A function of 1 .. n is a sequence of n elements. *)
LEMMA FunctionIsSequence ==
    ASSUME NEW S, NEW n \in Nat, NEW f \in [1 .. n -> S]
    PROVE  f \in Seq(S) /\ Len(f) = n
OBVIOUS

LEMMA RingCapacity == RingGiven /\ RingInv => ringCapacity \in Nat \ {0}
BY DEF RingGiven, RingInv

(* What the indices delimit is a queue of elements. *)
LEMMA ContentsAre ==
    ASSUME RingGiven, RingInv
    PROVE  /\ Ring!Length \in 0 .. ringCapacity /\ Ring!Length \in Nat
           /\ Ring!Contents \in Seq(RingElements) /\ Len(Ring!Contents) = Ring!Length
           /\ \A i \in 1 .. Ring!Length : Ring!Offset(i) \in 0 .. ringCapacity - 1 /\ Ring!Contents[i] = ringBuffer[Ring!Offset(i)]
<1>1. ringCapacity \in Nat \ {0} /\ Ring!Length \in 0 .. ringCapacity /\ Ring!Length \in Nat
    BY RingCapacity, RingMeasured, RingInside DEF RingInv
<1>2. \A i \in 1 .. Ring!Length : Ring!Offset(i) \in 0 .. ringCapacity - 1
    BY <1>1, RingMeasured, RingInside DEF RingInv
<1>3. Ring!Contents \in [1 .. Ring!Length -> RingElements] /\ \A i \in 1 .. Ring!Length : Ring!Contents[i] = ringBuffer[Ring!Offset(i)]
    BY <1>2 DEF RingInv, Ring!Contents
<1> QED BY <1>1, <1>2, <1>3, FunctionIsSequence

(* The same of the state a step leads to. *)
LEMMA ContentsNext ==
    ASSUME RingGiven, RingInv'
    PROVE  /\ Ring!Contents' \in Seq(RingElements) /\ Len(Ring!Contents') = Ring!Length'
           /\ \A i \in 1 .. Ring!Length' : Ring!Contents'[i] = ringBuffer'[Ring!Offset(i)']
<1>1. /\ ringCapacity' \in Nat \ {0}
      /\ rp' \in 0 .. ringCapacity' - 1 /\ wp' \in 0 .. ringCapacity' - 1
      /\ ringBuffer' \in [0 .. ringCapacity' - 1 -> RingElements]
    BY DEF RingGiven, RingInv
<1>2. /\ Held(status', ringCapacity', rp', wp') \in 0 .. ringCapacity'
      /\ \A i \in 1 .. ringCapacity' : At(ringCapacity', rp', i) \in 0 .. ringCapacity' - 1
    BY <1>1, RingInside
<1>3. Ring!Length' \in 0 .. ringCapacity' /\ Ring!Length' \in Nat
    BY <1>1, <1>2, RingMeasured
<1>4. \A i \in 1 .. Ring!Length' : Ring!Offset(i)' \in 0 .. ringCapacity' - 1
    BY <1>1, <1>2, <1>3, RingMeasured
<1>5. Ring!Contents' \in [1 .. Ring!Length' -> RingElements] /\ \A i \in 1 .. Ring!Length' : Ring!Contents'[i] = ringBuffer'[Ring!Offset(i)']
    BY <1>1, <1>4 DEF Ring!Contents
<1> QED BY <1>3, <1>5, FunctionIsSequence

LEMMA RingInitQueue == RingGiven /\ Ring!Init => RingInv /\ Ring!Queue!Init
<1> SUFFICES ASSUME RingGiven, Ring!Init PROVE RingInv /\ Ring!Queue!Init
    OBVIOUS
<1>1. width \in Widths /\ Ring!Ring
    BY DEF Ring!Init, Ring!Initu32, Ring!Initu8, Ring!Initi32, Widths
<1>2. ringCapacity \in Nat \ {0} /\ ringCapacity \in RingCapacities
    BY <1>1 DEF Ring!Ring, RingGiven
<1>3. ringBuffer \in [0 .. ringCapacity - 1 -> RingElements]
    BY <1>1 DEF Ring!Ring, RingGiven, RingElements
<1>4. RingInv
    BY <1>1, <1>2, <1>3 DEF Ring!Ring, RingInv, Ring!Statuses
<1>5. Ring!Length = 0
    BY <1>1, <1>2 DEF Ring!Ring, Ring!Length
<1>6. Ring!Contents = << >>
    BY <1>4, <1>5, ContentsAre
<1> QED BY <1>1, <1>2, <1>4, <1>6 DEF Ring!Ring, Ring!Queue!Init

-----------------------------------------------------------------------------
LEMMA AddAppends ==
    ASSUME RingGiven, RingInv, NEW data \in RingElements, Ring!AddElement(data),
           UNCHANGED <<width, ringCapacity, behaviour>>
    PROVE  RingInv' /\ Ring!Queue!Add(data)
<1>1. /\ ringCapacity \in Nat \ {0} /\ rp \in 0 .. ringCapacity - 1 /\ wp \in 0 .. ringCapacity - 1
      /\ status \in Ring!Statuses /\ (status = "NOTEMPTY" <=> wp # rp) /\ (wp # rp \/ status = "EMPTY")
    BY RingCapacity DEF RingInv, Ring!AddElement, Ring!Room
<1>2. /\ wp' = Around(ringCapacity, wp) /\ rp' = rp /\ ringCapacity' = ringCapacity
      /\ status' = IF Around(ringCapacity, wp) = rp THEN "FULL" ELSE "NOTEMPTY"
      /\ ringBuffer' = [ringBuffer EXCEPT ![wp] = data]
    BY RingMeasured DEF Ring!AddElement, Ring!Store
<1>3. /\ status' \in Ring!Statuses /\ (status' = "NOTEMPTY" <=> wp' # rp')
      /\ Ring!Length < ringCapacity /\ Ring!Length' = Ring!Length + 1
      /\ \A i \in 1 .. Ring!Length : Ring!Offset(i)' = Ring!Offset(i) /\ Ring!Offset(i) # wp
      /\ \A i : i = Ring!Length + 1 => Ring!Offset(i)' = wp
  <2> DEFINE h == Held(status, ringCapacity, rp, wp)
             w == Around(ringCapacity, wp)
             t == IF w = rp THEN "FULL" ELSE "NOTEMPTY"
  <2>1. /\ t \in Ring!Statuses /\ (t = "NOTEMPTY" <=> w # rp)
        /\ h < ringCapacity /\ Held(t, ringCapacity, rp, w) = h + 1
        /\ \A i \in 1 .. h : At(ringCapacity, rp, i) # wp
        /\ At(ringCapacity, rp, h + 1) = wp
      BY <1>1, Adding
  <2>2. h = Ring!Length /\ w = wp' /\ t = status' /\ rp' = rp /\ ringCapacity' = ringCapacity
      BY <1>2, RingMeasured
  <2> HIDE DEF h, w, t
  <2> QED BY <2>1, <2>2, RingMeasured
<1>4. RingInv'
  <2>1. wp' \in 0 .. ringCapacity - 1
      BY <1>1, <1>2, RingInside
  <2>2. ringBuffer' \in [0 .. ringCapacity - 1 -> RingElements]
      BY <1>2 DEF RingInv
  <2> QED BY <1>2, <1>3, <2>1, <2>2 DEF RingInv
<1>5. Ring!Contents' = Append(Ring!Contents, data)
  <2>1. /\ Append(Ring!Contents, data) \in Seq(RingElements) /\ Len(Append(Ring!Contents, data)) = Ring!Length + 1
        /\ Append(Ring!Contents, data)[Ring!Length + 1] = data
        /\ \A i \in 1 .. Ring!Length : Append(Ring!Contents, data)[i] = Ring!Contents[i]
      BY ContentsAre, AppendProperties
  <2>2. /\ Ring!Contents' \in Seq(RingElements) /\ Len(Ring!Contents') = Ring!Length + 1
        /\ \A i \in 1 .. Ring!Length + 1 : Ring!Contents'[i] = ringBuffer'[Ring!Offset(i)']
      BY <1>3, <1>4, ContentsNext
  <2>3. ASSUME NEW i \in 1 .. Ring!Length PROVE Ring!Contents'[i] = Append(Ring!Contents, data)[i]
    <3>1. i \in 1 .. Ring!Length + 1 /\ Ring!Offset(i) \in 0 .. ringCapacity - 1 /\ Ring!Contents[i] = ringBuffer[Ring!Offset(i)]
        BY ContentsAre
    <3>2. ringBuffer'[Ring!Offset(i)'] = ringBuffer[Ring!Offset(i)]
        BY <3>1, <1>2, <1>3 DEF RingInv
    <3> QED BY <3>1, <3>2, <2>1, <2>2
  <2>4. Ring!Contents'[Ring!Length + 1] = data
    <3>1. Ring!Length + 1 \in 1 .. Ring!Length + 1
        BY ContentsAre
    <3>2. ringBuffer'[wp] = data
        BY <1>1, <1>2 DEF RingInv
    <3>3. \A i : i = Ring!Length + 1 => Ring!Contents'[i] = ringBuffer'[wp]
        BY <3>1, <1>3, <2>2
    <3> QED BY <3>2, <3>3
  <2>5. \A i \in 1 .. Ring!Length + 1 : i = Ring!Length + 1 \/ i \in 1 .. Ring!Length
      BY ContentsAre
  <2> QED BY <2>1, <2>2, <2>3, <2>4, <2>5, SeqEqual
<1>6. Len(Ring!Contents) < ringCapacity
    BY <1>3, ContentsAre
<1> QED BY <1>4, <1>5, <1>6 DEF Ring!AddElement, Ring!Queue!Add

LEMMA OverwriteDisplaces ==
    ASSUME RingGiven, RingInv, NEW data \in RingElements, Ring!Overwrite(data),
           UNCHANGED <<width, ringCapacity, behaviour>>
    PROVE  RingInv' /\ Ring!Queue!Displace(data)
<1>1. /\ ringCapacity \in Nat \ {0} /\ rp \in 0 .. ringCapacity - 1 /\ wp = rp /\ status = "FULL"
    BY RingCapacity DEF RingInv, Ring!Overwrite, Ring!Room, Ring!Statuses
<1>2. /\ wp' = Around(ringCapacity, rp) /\ rp' = Around(ringCapacity, rp) /\ ringCapacity' = ringCapacity
      /\ status' = "FULL" /\ ringBuffer' = [ringBuffer EXCEPT ![rp] = data]
    BY <1>1, RingMeasured DEF Ring!Overwrite, Ring!Store
<1>3. /\ Ring!Length = ringCapacity /\ Ring!Length' = ringCapacity
      /\ \A i \in 1 .. ringCapacity - 1 : Ring!Offset(i)' = Ring!Offset(i + 1) /\ Ring!Offset(i + 1) # rp
      /\ Ring!Offset(ringCapacity)' = rp
    BY <1>1, <1>2, Displacing, RingMeasured DEF Held
<1>4. RingInv'
  <2>1. wp' \in 0 .. ringCapacity - 1 /\ rp' \in 0 .. ringCapacity - 1 /\ wp' = rp'
      BY <1>1, <1>2, RingInside
  <2>2. ringBuffer' \in [0 .. ringCapacity - 1 -> RingElements]
      BY <1>1, <1>2 DEF RingInv
  <2> QED BY <1>2, <2>1, <2>2 DEF RingInv, Ring!Statuses
<1>5. Ring!Contents' = Append(Tail(Ring!Contents), data)
  <2> DEFINE t == Tail(Ring!Contents)
  <2>1. Ring!Contents \in Seq(RingElements) /\ Ring!Contents # << >> /\ Len(Ring!Contents) = ringCapacity
      BY <1>1, <1>3, ContentsAre
  <2>2. t \in Seq(RingElements) /\ Len(t) = ringCapacity - 1 /\ \A i \in 1 .. ringCapacity - 1 : t[i] = Ring!Contents[i + 1]
      BY <2>1, HeadTailProperties
  <2> HIDE DEF t
  <2>3. /\ Append(t, data) \in Seq(RingElements) /\ Len(Append(t, data)) = ringCapacity
        /\ Append(t, data)[ringCapacity] = data
        /\ \A i \in 1 .. ringCapacity - 1 : Append(t, data)[i] = t[i]
      BY <1>1, <2>2, AppendProperties
  <2>4. /\ Ring!Contents' \in Seq(RingElements) /\ Len(Ring!Contents') = ringCapacity
        /\ \A i \in 1 .. ringCapacity : Ring!Contents'[i] = ringBuffer'[Ring!Offset(i)']
      BY <1>3, <1>4, ContentsNext
  <2>5. ASSUME NEW i \in 1 .. ringCapacity - 1 PROVE Ring!Contents'[i] = Append(t, data)[i]
    <3>1. i \in 1 .. ringCapacity /\ i + 1 \in 1 .. Ring!Length
        BY <1>1, <1>3
    <3>2. Ring!Contents[i + 1] = ringBuffer[Ring!Offset(i + 1)] /\ Ring!Offset(i + 1) \in 0 .. ringCapacity - 1
        BY <3>1, ContentsAre
    <3>3. ringBuffer'[Ring!Offset(i)'] = ringBuffer[Ring!Offset(i + 1)]
        BY <3>2, <1>2, <1>3 DEF RingInv
    <3> QED BY <3>1, <3>2, <3>3, <2>2, <2>3, <2>4
  <2>6. Ring!Contents'[ringCapacity] = data
    <3>1. ringBuffer'[rp] = data /\ ringCapacity \in 1 .. ringCapacity
        BY <1>1, <1>2 DEF RingInv
    <3> QED BY <3>1, <1>3, <2>4
  <2>7. \A i \in 1 .. ringCapacity : i = ringCapacity \/ i \in 1 .. ringCapacity - 1
      BY <1>1
  <2> QED BY <2>3, <2>4, <2>5, <2>6, <2>7, SeqEqual DEF t
<1>6. Len(Ring!Contents) = ringCapacity /\ behaviour = "OVERWRITE"
    BY <1>3, ContentsAre DEF Ring!Overwrite
<1> QED BY <1>4, <1>5, <1>6 DEF Ring!Overwrite, Ring!Queue!Displace

(* A step that leaves the indices, the elements and the status alone leaves  *)
(* the queue alone.                                                          *)
LEMMA RingUntouched ==
    ASSUME RingGiven, RingInv, UNCHANGED <<width, ringCapacity, behaviour, Ring!indices>>
    PROVE  RingInv' /\ Ring!Contents' = Ring!Contents
BY DEF RingInv, Ring!indices, Ring!Contents, Ring!Length, Ring!Offset

LEMMA RefusalRefuses ==
    ASSUME RingGiven, RingInv, Ring!AddRefused, UNCHANGED <<width, ringCapacity, behaviour>>
    PROVE  RingInv' /\ Ring!Queue!Refuse
<1>1. status = "FULL" /\ UNCHANGED Ring!indices
    BY DEF Ring!AddRefused, RingInv, Ring!Statuses, Ring!Room, Ring!indices
<1>2. RingInv' /\ Ring!Contents' = Ring!Contents
    BY <1>1, RingUntouched
<1>3. Len(Ring!Contents) = ringCapacity
    BY <1>1, ContentsAre DEF Ring!Length
<1> QED BY <1>2, <1>3 DEF Ring!AddRefused, Ring!Queue!Refuse

LEMMA ReadTakesHead ==
    ASSUME RingGiven, RingInv, Ring!ReadElement, UNCHANGED <<width, ringCapacity, behaviour>>
    PROVE  RingInv' /\ Ring!Queue!Read
<1>1. /\ ringCapacity \in Nat \ {0} /\ rp \in 0 .. ringCapacity - 1 /\ wp \in 0 .. ringCapacity - 1
      /\ status \in Ring!Statuses /\ (status = "NOTEMPTY" <=> wp # rp) /\ status # "EMPTY"
    BY RingCapacity DEF RingInv, Ring!ReadElement
<1>2. /\ rp' = Around(ringCapacity, rp) /\ wp' = wp /\ ringCapacity' = ringCapacity /\ ringBuffer' = ringBuffer
      /\ status' = IF Around(ringCapacity, rp) = wp THEN "EMPTY" ELSE "NOTEMPTY"
      /\ answer' = [read |-> TRUE, data |-> ringBuffer[rp]]
    BY RingMeasured DEF Ring!ReadElement
<1>3. /\ status' \in Ring!Statuses /\ (status' = "NOTEMPTY" <=> wp' # rp')
      /\ Ring!Length > 0 /\ Ring!Length' = Ring!Length - 1
      /\ Ring!Offset(1) = rp /\ \A i \in 1 .. Ring!Length - 1 : Ring!Offset(i)' = Ring!Offset(i + 1)
  <2> DEFINE h == Held(status, ringCapacity, rp, wp)
             r == Around(ringCapacity, rp)
             t == IF r = wp THEN "EMPTY" ELSE "NOTEMPTY"
  <2>1. /\ t \in Ring!Statuses /\ (t = "NOTEMPTY" <=> wp # r)
        /\ h > 0 /\ Held(t, ringCapacity, r, wp) = h - 1
        /\ At(ringCapacity, rp, 1) = rp
        /\ \A i \in 1 .. h - 1 : At(ringCapacity, r, i) = At(ringCapacity, rp, i + 1)
      BY <1>1, Reading
  <2>2. h = Ring!Length /\ r = rp' /\ t = status' /\ wp' = wp /\ ringCapacity' = ringCapacity
      BY <1>2, RingMeasured
  <2> HIDE DEF h, r, t
  <2> QED BY <2>1, <2>2, RingMeasured
<1>4. RingInv'
  <2>1. rp' \in 0 .. ringCapacity - 1
      BY <1>1, <1>2, RingInside
  <2> QED BY <1>2, <1>3, <2>1 DEF RingInv
<1>5. Ring!Contents \in Seq(RingElements) /\ Ring!Contents # << >> /\ Len(Ring!Contents) = Ring!Length /\ Ring!Length \in Nat
    BY <1>3, ContentsAre
<1>6. Head(Ring!Contents) = ringBuffer[rp]
  <2>1. 1 \in 1 .. Ring!Length
      BY <1>3, <1>5
  <2> QED BY <2>1, <1>3, <1>5, ContentsAre
<1>7. Ring!Contents' = Tail(Ring!Contents)
  <2> DEFINE t == Tail(Ring!Contents)
  <2>1. t \in Seq(RingElements) /\ Len(t) = Ring!Length - 1 /\ \A i \in 1 .. Ring!Length - 1 : t[i] = Ring!Contents[i + 1]
      BY <1>5, HeadTailProperties
  <2> HIDE DEF t
  <2>2. /\ Ring!Contents' \in Seq(RingElements) /\ Len(Ring!Contents') = Ring!Length - 1
        /\ \A i \in 1 .. Ring!Length - 1 : Ring!Contents'[i] = ringBuffer'[Ring!Offset(i)']
      BY <1>3, <1>4, ContentsNext
  <2>3. ASSUME NEW i \in 1 .. Ring!Length - 1 PROVE Ring!Contents'[i] = t[i]
    <3>1. i + 1 \in 1 .. Ring!Length
        BY <1>5
    <3>2. Ring!Contents[i + 1] = ringBuffer[Ring!Offset(i + 1)]
        BY <3>1, ContentsAre
    <3> QED BY <3>2, <1>2, <1>3, <2>1, <2>2
  <2> QED BY <2>1, <2>2, <2>3, SeqEqual DEF t
<1> QED BY <1>2, <1>4, <1>5, <1>6, <1>7 DEF Ring!Queue!Read

LEMMA AskingTells ==
    ASSUME RingGiven, RingInv, Ring!ReadNothing \/ Ring!GetLength \/ Ring!GetStatus,
           UNCHANGED <<width, ringCapacity, behaviour>>
    PROVE  RingInv' /\ (Ring!Queue!ReadNothing \/ Ring!Queue!GetLength \/ Ring!Queue!GetStatus)
<1>1. UNCHANGED Ring!indices
    BY DEF Ring!ReadNothing, Ring!GetLength, Ring!GetStatus
<1>2. RingInv' /\ Ring!Contents' = Ring!Contents
    BY <1>1, RingUntouched
<1>3. Ring!Contents \in Seq(RingElements) /\ Len(Ring!Contents) = Ring!Length /\ ringCapacity \in Nat \ {0}
    BY ContentsAre, RingCapacity
<1>4. /\ Ring!Contents = << >> <=> status = "EMPTY"
      /\ Len(Ring!Contents) = ringCapacity <=> status = "FULL"
  <2>1. /\ rp \in 0 .. ringCapacity - 1 /\ wp \in 0 .. ringCapacity - 1
        /\ status \in Ring!Statuses /\ (status = "NOTEMPTY" <=> wp # rp)
      BY DEF RingInv
  <2>2. /\ Ring!Length = 0 <=> status = "EMPTY"
        /\ Ring!Length = ringCapacity <=> status = "FULL"
      BY <1>3, <2>1 DEF Ring!Length, Ring!Statuses
  <2> QED BY <1>3, <2>2
<1>5. CASE Ring!ReadNothing
    BY <1>2, <1>4, <1>5 DEF Ring!ReadNothing, Ring!Queue!ReadNothing
<1>6. CASE Ring!GetLength
    BY <1>2, <1>3, <1>6 DEF Ring!GetLength, Ring!Queue!GetLength
<1>7. CASE Ring!GetStatus
  <2>1. status = IF Ring!Contents = << >> THEN "EMPTY" ELSE IF Len(Ring!Contents) = ringCapacity THEN "FULL" ELSE "NOTEMPTY"
      BY <1>4 DEF RingInv, Ring!Statuses
  <2> QED BY <1>2, <1>7, <2>1 DEF Ring!GetStatus, Ring!Queue!GetStatus
<1> QED BY <1>5, <1>6, <1>7

-----------------------------------------------------------------------------
LEMMA RingStepsFollow ==
    ASSUME RingGiven, RingInv, [Ring!Next]_(Ring!vars)
    PROVE  RingInv' /\ [Ring!Queue!Next]_(Ring!Queue!vars)
<1>1. CASE UNCHANGED Ring!vars
  <2>1. RingInv' /\ Ring!Contents' = Ring!Contents
      BY <1>1, RingUntouched DEF Ring!vars
  <2> QED BY <1>1, <2>1 DEF Ring!vars, Ring!Queue!vars
<1>2. CASE Ring!Next
  <2>1. UNCHANGED <<width, ringCapacity, behaviour>>
      BY <1>2 DEF Ring!Next
  <2>2. (\E data \in RingElements : Ring!Add(data)) \/ Ring!Read \/ Ring!GetLength \/ Ring!GetStatus
      BY <1>2 DEF Ring!Next, Ring!Callsu32, Ring!Callsu8, Ring!Callsi32, RingGiven, Widths, RingElements
  <2>3. ASSUME NEW data \in RingElements, Ring!Add(data) PROVE RingInv' /\ Ring!Queue!Next
      BY <2>1, <2>3, AddAppends, OverwriteDisplaces, RefusalRefuses DEF Ring!Add, Ring!Queue!Next, RingElements
  <2>4. CASE Ring!Read
      BY <2>1, <2>4, ReadTakesHead, AskingTells DEF Ring!Read, Ring!Queue!Next
  <2>5. CASE Ring!GetLength \/ Ring!GetStatus
      BY <2>1, <2>5, AskingTells DEF Ring!Queue!Next
  <2> QED BY <2>2, <2>3, <2>4, <2>5
<1> QED BY <1>1, <1>2

(* circBuf implements the bounded queue: from any legal capacity, through    *)
(* every wrap, what is read is the oldest element and no element is lost but *)
(* the one a full ring displaces.                                            *)
THEOREM CircBufIsQueue == Ring!Spec => Ring!RingIsQueue
<1>1. RingGiven
    BY RingAssumption DEF RingGiven, Widths
<1>2. Ring!Init => RingInv /\ Ring!Queue!Init
    BY <1>1, RingInitQueue
<1>3. RingInv /\ [Ring!Next]_(Ring!vars) => RingInv' /\ [Ring!Queue!Next]_(Ring!Queue!vars)
    BY <1>1, RingStepsFollow
<1> QED BY <1>2, <1>3, PTL DEF Ring!Spec, Ring!RingIsQueue, Ring!Queue!Spec

-----------------------------------------------------------------------------
(* The run has both buffers, and one of them at work. *)

(* The behaviours of the run are ones of the packet queue, which may stand   *)
(* still, so that QueueRefinement and IdleRing speak of them too.            *)
LEMMA PacketsAtWork == BuffersSpec => IsrSpec
<1>1. BuffersInit => IsrInit
    BY DEF BuffersInit
<1>2. [BuffersNext]_<<atWork, isrVars, ring>> => [IsrNext]_isrVars
    BY DEF BuffersNext
<1> QED BY <1>1, <1>2, PTL DEF BuffersSpec, IsrSpec

(* In the behaviours of the run: what circBuf answers is what a bounded      *)
(* queue would, through every wrap of its two indices.                       *)
THEOREM RingQueue == BuffersSpec => RingIsQueue
<1>1. BuffersInit => Ring!Init
    BY DEF BuffersInit
<1>2. [BuffersNext]_<<atWork, isrVars, ring>> => [Ring!Next]_(Ring!vars)
    BY DEF BuffersNext, ring, Ring!vars, Ring!indices
<1> QED BY <1>1, <1>2, CircBufIsQueue, PTL DEF BuffersSpec, RingIsQueue, Ring!Spec
=============================================================================
