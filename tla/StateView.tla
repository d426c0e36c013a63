------------------------------ MODULE StateView ------------------------------
(***************************************************************************)
(* What a state role (metadata, color) promises its listener: the states   *)
(* of one connection in the order the server sent them, none before its    *)
(* time, and a clear between the states of two connections. The server's   *)
(* side moves on at its own pace, and states may be skipped.               *)
(***************************************************************************)
EXTENDS Integers

CONSTANTS
    Times,      \* the times a state may be scheduled for
    NoState     \* nothing shown

VARIABLES
    sent,       \* the states sent so far
    latest,     \* how many
    generation, \* teardowns so far
    told,       \* the teardown the listener was last told of
    shown,      \* the state the listener was last given, or NoState
    clock       \* the client's clock: its time, and whether one is published

viewVars == <<sent, latest, generation, told, shown, clock>>

\* The n-th state sent, under a generation, scheduled for a time.
StateOf(n, gen, time) == [serial |-> n, gen |-> gen, time |-> time]

\* Without a clock nothing can be waited for.
IsDue(state) == state.time <= clock.now \/ ~clock.published

Init ==
    /\ sent = {} /\ latest = 0
    /\ generation = 0 /\ told = 0
    /\ shown = NoState
    /\ clock = [now |-> 0, published |-> TRUE]

\* The server sends a state.
Send ==
    /\ \E time \in Times : sent' = sent \cup {StateOf(latest + 1, generation, time)}
    /\ latest' = latest + 1
    /\ UNCHANGED <<generation, told, shown, clock>>

\* The connection, or the role on it, is torn down.
TearDown ==
    /\ generation' = generation + 1
    /\ UNCHANGED <<sent, latest, told, shown, clock>>

\* The listener is told of a teardown; several may collapse into one clear.
Clear ==
    /\ told' \in told + 1 .. generation
    /\ shown' = NoState
    /\ UNCHANGED <<sent, latest, generation, clock>>

\* The listener is given a later state of the connection it was last told of, once it is due.
Show ==
    /\ shown' \in sent
    /\ shown'.gen = told
    /\ IsDue(shown')
    /\ shown # NoState => shown'.serial > shown.serial
    /\ UNCHANGED <<sent, latest, generation, told, clock>>

\* Time passes, and the clock is lost and found.
PassTime ==
    /\ clock' \in [now : Nat, published : BOOLEAN]
    /\ clock'.now >= clock.now
    /\ UNCHANGED <<sent, latest, generation, told, shown>>

Next == Send \/ TearDown \/ Clear \/ Show \/ PassTime

Spec == Init /\ [][Next]_viewVars
=============================================================================
