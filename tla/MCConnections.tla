----------------------------- MODULE MCConnections -----------------------------
(***************************************************************************)
(* What happens on the admitted connection: its pairing attempts, and its  *)
(* client/state messages, one at a time. `part` is chosen at the start.    *)
(***************************************************************************)
EXTENDS PairingSession, StateReports

VARIABLE part

connectionVars == <<pairingVars, reportVars, part>>

\* What is not looked at has no connection, so that its fairness asks for nothing.
ConnectionsInit ==
    /\ part \in {"pairing", "reports"}
    /\ PairingInit
    /\ ReportsInit /\ (part # "reports" => ~snapshot.available)

ConnectionsNext ==
    \/ part = "pairing" /\ PairingNext /\ UNCHANGED <<reportVars, part>>
    \/ part = "reports" /\ ReportsNext /\ UNCHANGED <<pairingVars, part>>

ConnectionsSpec ==
    /\ ConnectionsInit /\ [][ConnectionsNext]_connectionVars
    /\ PairingFairness /\ ReportsFairness

\* What holds on the admitted connection in every state: the prompts follow the attempt and guesses
\* are bounded (PairingSession), every active role is announced (StateReports).
ConnectionsSafe == PairingSafe /\ ReportsSafe
=============================================================================
