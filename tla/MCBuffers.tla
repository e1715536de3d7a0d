------------------------------ MODULE MCBuffers ------------------------------
(***************************************************************************)
(* The two buffers of the library, each at work in behaviours of its own:  *)
(* the packet queue comgenbuf between an interrupt and the main loop, and  *)
(* the element ring circBuf.                                               *)
(***************************************************************************)
EXTENDS ComGenBufIsr

CONSTANTS RingValues, RingCapacities

(* circBufInit takes a number, and each width has its elements.              *)
ASSUME RingAssumption ==
    RingCapacities \subseteq Nat /\ {"u32", "u8", "i32"} \subseteq DOMAIN RingValues

VARIABLES
    atWork,     \* the buffer this behaviour is about
    width, ringBuffer, ringCapacity, rp, wp, behaviour, status, answer

Ring == INSTANCE CircBuf WITH
    Values <- RingValues, Capacities <- RingCapacities,
    buffer <- ringBuffer, capacity <- ringCapacity
ring == <<width, ringBuffer, ringCapacity, rp, wp, behaviour, status, answer>>

BuffersInit ==
    /\ IsrInit /\ Ring!Init
    /\ atWork \in {"packets", "ring"}
    (* One initial state of the other buffer will do. *)
    /\ atWork = "packets" =>
         width = "u8" /\ behaviour = "STOP" /\ ringCapacity = 1 /\ ringBuffer[0] = 0
    /\ atWork = "ring" => \A i \in DOMAIN buffer : buffer[i] = 0

BuffersNext ==
    /\ \/ atWork = "packets" /\ IsrNext /\ UNCHANGED ring
       \/ atWork = "ring" /\ Ring!Next /\ UNCHANGED isrVars
    /\ UNCHANGED atWork

BuffersSpec == BuffersInit /\ [][BuffersNext]_<<atWork, isrVars, ring>>

-----------------------------------------------------------------------------
(* The ring is a bounded queue through every wrap (module CircBuf).          *)
RingIsQueue == Ring!RingIsQueue

-----------------------------------------------------------------------------
(* For TLC.  The interrupt is held off inside the two read-modify-writes of  *)
(* Pop and in Flush, and nowhere else.                                       *)
MCMasked == {"storeUsed", "storeCount"} \union FlushLabels

(* Bytes have one bit: packets of one to three bytes, so that a length needs *)
(* both header bytes, in a ring that is full after two or three.             *)
MCPackets == {<<0>>, <<1, 0>>, <<1, 1, 0>>}

(* Two elements of each width: enough to tell an element from its neighbour  *)
(* in rings of up to three, of which one is a ring circBufInit refuses.      *)
MCRingValues == [u32 |-> {0, 1}, u8 |-> {0, 1}, i32 |-> {-1, 0}]
=============================================================================
