----------------------------- MODULE PairingBook -----------------------------
(***************************************************************************)
(* What the client promises of its long-term pairings: which PSKs          *)
(* authenticate a server now, and which of them will after a restart.      *)
(***************************************************************************)
EXTENDS Integers

CONSTANTS
    Psks,        \* long-term PSKs: p[1] is the server p was minted for
    Capacity,    \* records the book holds at most
    Size(_)      \* how many elements a set has

VARIABLES
    valid,       \* the PSKs a handshake resolves
    inUse,       \* those an open connection authenticated with
    safe         \* a restart now would leave exactly `valid`

bookVars == <<valid, inUse, safe>>

Siblings(p) == {q \in Psks \ {p} : q[1] = p[1]}

BookInit == valid \subseteq Psks /\ inUse = {} /\ safe \in BOOLEAN

\* A pairing leaves its server no other PSK. It costs another server its record only in a full
\* book, one record, and never one a connection is open on.
Pair(p) ==
    /\ \E evicted \in SUBSET (valid \ inUse) :
        /\ evicted # {} =>
              /\ Size(evicted) = 1 /\ Size(valid) = Capacity
              /\ p \notin valid /\ Siblings(p) \cap valid = {}
        /\ valid' = (valid \ (Siblings(p) \cup evicted)) \cup {p}
    /\ safe' = FALSE
    /\ UNCHANGED inUse

\* A revocation takes effect at once, and ends every connection on the PSK.
Revoke(p) ==
    /\ valid' = valid \ {p} /\ inUse' = inUse \ {p}
    /\ safe' = (safe /\ p \notin valid)

\* Only a PSK of the book opens a connection.
Open(p) == p \in valid /\ inUse' = inUse \cup {p} /\ UNCHANGED <<valid, safe>>
Close(p) == inUse' = inUse \ {p} /\ UNCHANGED <<valid, safe>>

\* Writes land, or are lost.
Settle == safe' \in BOOLEAN /\ UNCHANGED <<valid, inUse>>

\* A restart brings back what was safe, no more and no less.
Restart ==
    /\ valid' \subseteq Psks /\ (safe => valid' = valid)
    /\ inUse' = {}
    /\ safe' \in BOOLEAN /\ (safe => safe')

BookNext ==
    \/ \E p \in Psks : Pair(p) \/ Revoke(p) \/ Open(p) \/ Close(p)
    \/ Settle \/ Restart

BookSpec == BookInit /\ [][BookNext]_bookVars
=============================================================================
