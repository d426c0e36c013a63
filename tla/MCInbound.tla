------------------------------- MODULE MCInbound -------------------------------
(***************************************************************************)
(* The inbound path at its three levels, one at a time: the storage, the   *)
(* items, and one connection's messages. `part` is chosen at the start.    *)
(***************************************************************************)
EXTENDS SharedRing, InboundRing, InboundGate

VARIABLE part

inboundPathVars == <<ringVars, inboundVars, gateVars, part>>

\* What is not looked at is at rest, so that its fairness asks for nothing.
InboundPathInit ==
    /\ part \in {"storage", "items", "messages"}
    /\ RingInit /\ (part # "storage" => junk = {})
    /\ InboundStarts(IF part = "items" THEN "running" ELSE "done")
    /\ GateStarts(IF part = "messages" THEN "read" ELSE "gone")

InboundPathNext ==
    \/ part = "storage" /\ RingNext /\ UNCHANGED <<inboundVars, gateVars, part>>
    \/ part = "items" /\ InboundNext /\ UNCHANGED <<ringVars, gateVars, part>>
    \/ part = "messages" /\ GateNext /\ UNCHANGED <<ringVars, inboundVars, part>>

InboundPathSpec ==
    /\ InboundPathInit /\ [][InboundPathNext]_inboundPathVars
    /\ InboundFairness /\ GateFairness

\* Types, and what holds of each level in every state: no byte of the storage belongs to two items, and
\* the oldest item is found when it is complete (SharedRing); every item and quota charge has an owner
\* (InboundRing); a connection's message buffer has one user and its close comes last (InboundGate).
InboundSafe ==
    /\ part \in {"storage", "items", "messages"}
    /\ RingTypeOK /\ InboundTypeOK /\ GateTypeOK
    /\ ItemsApart /\ NothingStranded /\ ItemsAccounted /\ GateSafe

\* A connection's messages are processed once, in the order they came, and none behind the
\* server/activate closes the connection for its length (connection.cpp, begin_inbound_message()).
MessagesInOrder == ProcessedInOrder /\ JudgedAfterActivation
=============================================================================
