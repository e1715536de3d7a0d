------------------------------ MODULE StxEtxLink ------------------------------
(***************************************************************************)
(* A sender that frames packets with comstxetxBuildFrame, a serial line,   *)
(* and the receiver of module ComStxEtx.  The line delivers in order and   *)
(* may lose, change or insert a byte, MaxFaults times in all.              *)
(***************************************************************************)
EXTENDS ComStxEtx, SequencesExt

CONSTANTS
    Payloads,   \* the packets a sender may send
    txSize,     \* bytes of transmit buffer
    MaxFrames,  \* bound on the frames sent over a line without fault
    MaxNoisy,   \* bound on the frames sent over a line that has had one
    MaxFaults   \* bound on the faults of the line

(* Packets are bytes, and so are the two that the callback makes of one.     *)
ASSUME LinkAssumption ==
    /\ txSize \in Nat /\ txSize >= 4
    /\ Payloads \subseteq Seq(Byte)
    /\ \A p \in Payloads : Checksum(p) \in Seq(Byte) /\ Len(Checksum(p)) = ChecksumSize

VARIABLES
    wire,       \* bytes sent and not yet arrived
    faults,     \* faults so far
    sent, handed, \* packets framed; packets given to packetProcess
    clean,      \* the frame last sent met a receiver in step and no fault since
    held,       \* index in sent of the frame whose ETX completed last
    last        \* the same for the packet handed over last

linkVars == <<vars, wire, faults, sent, handed, clean, held, last>>

-----------------------------------------------------------------------------
(* comstxetxBuildFrame. *)

EscapeNothing(b) == <<b>>  \* mutant: framing bytes travel bare
Escape(b) == IF b \in {stx, etx, dle} THEN <<dle, b>> ELSE <<b>>

Checked(p) == p \o Checksum(p)

EscapeAll(s) == FlattenSeq([i \in DOMAIN s |-> Escape(s[i])])

Frame(p) == <<stx>> \o EscapeAll(Checked(p)) \o <<etx>>

(* The code reserves the trailing ETX before every byte it writes, which    *)
(* refuses exactly the frames longer than txSize.                           *)
FitsTx(p) == Len(Frame(p)) <= txSize

(* The receiver can hold the packet and its check and still see the ETX.    *)
FitsRx(p) == Len(p) + ChecksumSize < rxSize

BuildFrame(p) ==
    /\ wire = <<>> /\ Len(sent) < (IF faults = 0 THEN MaxFrames ELSE MaxNoisy)
    /\ FitsTx(p)
    /\ wire' = Frame(p)
    /\ sent' = Append(sent, p)
    /\ clean' = FALSE
    /\ UNCHANGED <<vars, faults, handed, held, last>>

-----------------------------------------------------------------------------
(* The line. *)

(* A receiver in step: no completed frame in the way, and no DLE pending    *)
(* that would turn the STX into data.                                       *)
InStep == ~rxReadyToEvaluate /\ ~(rxFrameOpen /\ rxEscape)

AtFrameStart == wire = Frame(sent[Len(sent)])

Note(isClean) ==
    /\ clean' = isClean
    /\ held' = IF rxReadyToEvaluate' /\ ~rxReadyToEvaluate THEN Len(sent) ELSE held
    /\ UNCHANGED <<sent, handed, last>>

Arrive ==
    /\ wire # <<>>
    /\ Receive(Head(wire))
    /\ wire' = Tail(wire)
    /\ Note(IF AtFrameStart THEN InStep ELSE clean)
    /\ UNCHANGED faults

Fault ==
    /\ faults < MaxFaults /\ Len(sent) <= MaxNoisy
    /\ faults' = faults + 1

Lose ==
    /\ Fault /\ wire # <<>>
    /\ wire' = Tail(wire)
    /\ UNCHANGED vars
    /\ Note(FALSE)

Garble ==
    /\ Fault /\ wire # <<>>
    /\ \E b \in Byte \ {Head(wire)} : Receive(b)
    /\ wire' = Tail(wire)
    /\ Note(FALSE)

Insert ==
    /\ Fault
    /\ \E b \in Byte : Receive(b)
    /\ UNCHANGED wire
    /\ Note(FALSE)

-----------------------------------------------------------------------------
(* The receiver's own steps. *)

Tick ==
    /\ TimeoutCounter
    /\ Note(clean /\ ~Overdue)
    /\ UNCHANGED <<wire, faults>>

HandOver ==
    /\ PacketProcess
    /\ handed' = Append(handed, Payload)
    /\ last' = held
    /\ UNCHANGED <<wire, faults, sent, clean, held>>

EvaluateOther ==
    /\ Evaluate /\ pc # "process"
    /\ clean' = (clean /\ pc # "clearIndex")
    /\ UNCHANGED <<wire, faults, sent, handed, held, last>>

LinkInit ==
    /\ Init
    /\ wire = <<>> /\ faults = 0
    /\ sent = <<>> /\ handed = <<>> /\ last = 0
    /\ clean = FALSE /\ held = 0

LinkNext ==
    \/ \E p \in Payloads : BuildFrame(p)
    \/ Arrive \/ Lose \/ Garble \/ Insert
    \/ Tick \/ HandOver \/ EvaluateOther

LinkSpec == LinkInit /\ [][LinkNext]_linkVars

-----------------------------------------------------------------------------
(* A packet that starts on a receiver in step, however it got there after    *)
(* noise, overflows or timeouts, stands whole in rxBuffer with its check     *)
(* when its last byte has arrived, whatever bytes it is made of.             *)
CleanFrameArrives ==
    clean /\ wire = <<>> /\ FitsRx(sent[Len(sent)])
        => rxReadyToEvaluate /\ Stored = Checked(sent[Len(sent)])

(* While the line is without a fault the link as a whole is a channel of     *)
(* packets: packetProcess gets packets that were sent, whole, in order and   *)
(* none twice, though frames overlap with the waiting ones, time out and are *)
(* joined halfway.                                                           *)
Channel == INSTANCE FrameChannel
ImplementsChannel ==
    Channel!Init /\ [][Channel!Next \/ faults # 0]_<<sent, handed, last>>

(* A receiver that was busy when a frame began may join it at an STX among   *)
(* its data, and then has a tail of the packet and its check.  What the      *)
(* channel needs of the check and the packets is that no such tail passes.   *)
Passes(s) ==
    /\ Len(s) >= ChecksumSize
    /\ SubSeq(s, Len(s) - ChecksumSize + 1, Len(s))
         = Checksum(SubSeq(s, 1, Len(s) - ChecksumSize))

TailsFail ==
    \A p \in Payloads : \A k \in 1 .. Len(Checked(p)) :
        Checked(p)[k] = stx => ~ Passes(SubSeq(Checked(p), k + 1, Len(Checked(p))))
=============================================================================
