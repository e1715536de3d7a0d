--------------------------- MODULE MCSafetyLayers ----------------------------
(***************************************************************************)
(* The two layers that a frame's payload passes over a transport it does   *)
(* not trust, each at work in behaviours of its own: comsafe, that takes   *)
(* every lost frame for a fault and watches for silence, alone with any    *)
(* frame and with the sender and the transport of module ComSafeLink; and  *)
(* comsec, that takes any newer frame of its session.                      *)
(***************************************************************************)
EXTENDS ComSafeLink, Sequences

CONSTANTS Materials, Payloads, TagSize, RxSize, TxSize, CounterMax, MaxFrames, MaxResumes

(* What comsecRekey asks of the caller: no generation has the key and the    *)
(* session id of another.                                                    *)
ASSUME MaterialsAssumption ==
    /\ Len(Materials) \in Nat \ {0} /\ DOMAIN Materials = 1 .. Len(Materials)
    /\ \A g, h \in DOMAIN Materials :
         g # h => \/ Materials[g].key # Materials[h].key
                  \/ Materials[g].session # Materials[h].session
ASSUME CounterAssumption == CounterMax \in Nat
ASSUME ResumesAssumption == MaxResumes \in Nat

VARIABLES
    atWork,     \* the layer this behaviour is about
    sender, receiver, txMaterial, rxMaterial, frames, sent, handed, last, begun, resumes

Sec == INSTANCE ComSec
sec == <<sender, receiver, txMaterial, rxMaterial, frames, sent, handed, last, begun, resumes>>
line == <<txSequence, built, inFlight, behind, skipped>>

LayersInit == atWork \in {"comsafe", "link", "comsec"} /\ LinkInit /\ Sec!Init

Safe(action) == atWork = "comsafe" /\ action /\ UNCHANGED <<atWork, line, sec>>
Linked(action) == atWork = "link" /\ action /\ UNCHANGED <<atWork, sec>>

LayersNext ==
    \/ Safe(Next)
    \/ Linked(LinkNext)
    \/ atWork = "comsec" /\ Sec!Next /\ UNCHANGED <<atWork, linkVars>>

layersVars == <<atWork, linkVars, sec>>

(* comsafe's fairness: its tick keeps coming and a call ends (module         *)
(* ComSafe).  comsec promises nothing in time.                               *)
LayersSpec ==
    /\ LayersInit /\ [][LayersNext]_layersVars
    /\ WF_layersVars(Safe(Tick)) /\ WF_layersVars(Safe(Continue))
    /\ WF_layersVars(Linked(LinkTick)) /\ WF_layersVars(Linked(LinkContinue))

-----------------------------------------------------------------------------
(* comsec is a channel of whole frames over any transport, but for the       *)
(* frames of a session resumed after a reset (module ComSec).                *)
AuthenticatedChannel == Sec!IsChannel

(* The claim that a resumed session keeps its guard (module ComSec), which   *)
(* comsecRekey does not: it disarms whatever session it is given.            *)
CountersTakenOnce == Sec!TakenOnce

-----------------------------------------------------------------------------
(* Three generations of key material, of which two share a key and two a     *)
(* session id; payloads of which one does not fit the receiver and one does  *)
(* not fit a frame.                                                          *)
MCMaterials ==
    <<[key |-> "a", session |-> 1], [key |-> "a", session |-> 2], [key |-> "b", session |-> 1]>>
MCPayloads == {<<1>>, <<2>>, <<1, 2>>, <<1, 1, 1>>}
=============================================================================
