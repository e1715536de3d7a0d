------------------------------ MODULE ComGenBuf ------------------------------
(***************************************************************************)
(* comgenbuf: packets of any length in one flat ring, each stored as a     *)
(* two-byte length followed by its bytes.  Every call is one step here;    *)
(* module ComGenBufIsr splits the consumer's calls where an interrupt can  *)
(* come between.  A call refused for its arguments (NULL, length zero,     *)
(* length past COMGENBUF_MAX_PACKET) changes nothing and is left out.      *)
(***************************************************************************)
EXTENDS Integers, Sequences

CONSTANTS
    Base,       \* values of a byte: 256 in the code
    Size,       \* bytes of caller-owned storage
    Packets,    \* what the producer may push
    Capacities, \* destination sizes the consumer may pass
    CountMod    \* dropCount is a uint32_t: 2^32 in the code

Header == 2
Byte == 0..Base - 1
MaxPacket == Base * Base - 1

ASSUME BaseAssumption == Base \in Nat /\ Base > 1
ASSUME SizeAssumption == Size \in Nat /\ Size > Header
ASSUME CountAssumption == CountMod \in Nat \ {0}
ASSUME PacketsAssumption ==
    /\ Packets \subseteq Seq(Byte)
    /\ \A p \in Packets : Len(p) \in 1..MaxPacket
    /\ Capacities \subseteq Nat

VARIABLES
    buffer, head, tail, used, count, dropCount,
    out,        \* the bytes the last comgenbufPop copied out
    (* History, read by the invariants only. *)
    queued,     \* the packets accepted and not yet popped
    starts      \* where each of them starts, in bytes past the tail

driver == <<buffer, head, tail, used, count, dropCount>>
vars == <<driver, out, queued, starts>>

Init ==
    /\ buffer \in [0..Size - 1 -> Byte]  \* the storage is not cleared
    /\ head = 0 /\ tail = 0 /\ used = 0 /\ count = 0 /\ dropCount = 0
    /\ out = <<>> /\ queued = <<>> /\ starts = <<>>

-----------------------------------------------------------------------------
(* The ring. *)

WrapLate(index) ==  \* mutant: > for >=
    IF index > Size THEN index - Size ELSE index
Wrap(index) == IF index >= Size THEN index - Size ELSE index

(* Bytes from the head forward to a cell. *)
Ahead(i) == IF i >= head THEN i - head ELSE i + Size - head

(* comgenbufPutByte for each byte of s in turn. *)
PutBytes(s) ==
    /\ buffer' = [i \in 0..Size - 1 |->
                    IF Ahead(i) < Len(s) THEN s[Ahead(i) + 1] ELSE buffer[i]]
    /\ head' = Wrap(head + Len(s))

PeekByte(offset) == buffer[Wrap(tail + offset)]

(* The two header bytes, high first, and the payload. *)
Stored(p) == <<Len(p) \div Base, Len(p) % Base>> \o p

Need(p) == Len(p) + Header

FitsPayload(p) == Size - used >= Len(p)  \* mutant: the header is forgotten
Fits(p) == Size - used >= Need(p)

-----------------------------------------------------------------------------
Push(p) ==
    /\ Fits(p)
    /\ PutBytes(Stored(p))
    /\ used' = used + Need(p)
    /\ count' = count + 1
    /\ queued' = Append(queued, p)
    /\ starts' = Append(starts, used)
    /\ UNCHANGED <<tail, dropCount, out>>

PushRefused(p) ==
    /\ ~Fits(p)
    /\ dropCount' = (dropCount + 1) % CountMod
    /\ UNCHANGED <<buffer, head, tail, used, count, out, queued, starts>>

PeekLengthSwapped ==  \* mutant: the header read low byte first
    IF count # 0 THEN PeekByte(1) * Base + PeekByte(0) ELSE 0
PeekLength == IF count # 0 THEN PeekByte(0) * Base + PeekByte(1) ELSE 0

Payload(length) == [i \in 1..length |-> PeekByte(Header + i - 1)]

DropPayload(bytes) ==  \* mutant: used is not given back
    /\ tail' = Wrap(tail + bytes)
    /\ UNCHANGED used
DropBytes(bytes) ==
    /\ tail' = Wrap(tail + bytes)
    /\ used' = used - bytes

Pop(capacity) ==
    /\ count # 0 /\ capacity >= PeekLength
    /\ out' = Payload(PeekLength)
    /\ DropBytes(PeekLength + Header)
    /\ count' = count - 1
    /\ queued' = Tail(queued)
    /\ starts' = [i \in 1..Len(starts) - 1 |-> starts[i + 1] - (PeekLength + Header)]
    /\ UNCHANGED <<buffer, head, dropCount>>

(* The queue is empty, or the packet stays for a larger destination. *)
PopRefused(capacity) ==
    /\ count = 0 \/ capacity < PeekLength
    /\ out' = <<>>
    /\ UNCHANGED <<driver, queued, starts>>

Flush ==
    /\ head' = 0 /\ tail' = 0 /\ used' = 0 /\ count' = 0 /\ dropCount' = 0
    /\ queued' = <<>> /\ starts' = <<>>
    /\ UNCHANGED <<buffer, out>>

Next ==
    \/ \E p \in Packets : Push(p) \/ PushRefused(p)
    \/ \E capacity \in Capacities : Pop(capacity) \/ PopRefused(capacity)
    \/ Flush

Spec == Init /\ [][Next]_vars

-----------------------------------------------------------------------------
(* Every index stays inside the storage and the counters inside their types. *)
TypeOK ==
    /\ buffer \in [0..Size - 1 -> Byte]
    /\ head \in 0..Size - 1 /\ tail \in 0..Size - 1
    /\ used \in 0..Size
    /\ count \in Nat /\ dropCount \in 0..CountMod - 1
    /\ out \in Seq(Byte)
    /\ queued \in Seq(Packets) /\ starts \in Seq(Nat)

(* The stretch of the ring that starts at cell t holds what was accepted:    *)
(* it ends at the head, ...                                                  *)
Extent(t) ==
    /\ head = Wrap(t + used)
    /\ Len(starts) = Len(queued)
    /\ queued = <<>> => used = 0

(* ... the packets lie in it one after the other, without gap or overlap,    *)
Layout ==
    /\ queued # <<>> => /\ starts[1] = 0
                        /\ starts[Len(queued)] + Need(queued[Len(queued)]) = used
    /\ \A i \in 1..Len(queued) : starts[i] + Need(queued[i]) <= used
    /\ \A i, j \in 1..Len(queued) :
           j = i + 1 => starts[j] = starts[i] + Need(queued[i])
    /\ \A i, j \in 1..Len(queued) :
           i < j => starts[i] + Need(queued[i]) <= starts[j]

(* ... and each is there byte for byte behind the length it was pushed with: *)
(* comgenbufPush never writes over one, through any number of wraps.         *)
Contents(t) ==
    \A i \in 1..Len(queued) : \A k \in 1..Need(queued[i]) :
        buffer[Wrap(t + (starts[i] + k - 1))] = Stored(queued[i])[k]

RingFrom(t) == TypeOK /\ Extent(t) /\ Layout /\ Contents(t)

(* The ring holds what it accepted: the conjunction that is inductive.       *)
RingOK == RingFrom(tail) /\ count = Len(queued)
=============================================================================
