----------------------------- MODULE MCTransports -----------------------------
(***************************************************************************)
(* The connections from both sides of the protocol task, one at a time:    *)
(* their life from a call or a socket to the end of their transport, and   *)
(* the time bursts on the admitted ones. `part` is chosen at the start.    *)
(*                                                                         *)
(* Two calls, one call and one peer, or two peers, who meet one accept     *)
(* slot; a client that is stopped and started again.                       *)
(***************************************************************************)
EXTENDS ConnectionLife, TimeSync

VARIABLE part

transportVars == <<lifeVars, syncVars, part>>

MCMixes == {<<2, 0>>, <<1, 1>>, <<0, 2>>}

\* What is not looked at is at rest, so that its fairness asks for nothing.
TransportsInit ==
    /\ part \in {"life", "time"}
    /\ SyncInit
    /\ IF part = "life" THEN LifeInit ELSE LifeStarts(0, 0)

TransportsNext ==
    \/ part = "life" /\ LifeNext /\ UNCHANGED <<syncVars, part>>
    \/ part = "time" /\ SyncNext /\ UNCHANGED <<lifeVars, part>>

TransportsSpec ==
    /\ TransportsInit /\ [][TransportsNext]_transportVars
    /\ LifeFairness /\ SyncFairness

\* Types, and what holds in every state: a stopped client holds nothing, calls take effect in the
\* order they were posted (ConnectionLife), the holds of the high-performance mode are those of the
\* bursts, a frame is in flight only in that mode, and a burst measures the frames it sent (TimeSync).
TransportsSafe == LifeSafe /\ SyncTypeOK /\ HoldsBalanced /\ MeasuredInMode /\ MeasuresItsFrames
=============================================================================
