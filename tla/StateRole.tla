------------------------------ MODULE StateRole ------------------------------
(***************************************************************************)
(* A state role, metadata or color, between the protocol task and the main *)
(* loop: server/state objects cross through a GenerationSlot that keeps    *)
(* the oldest and the newest of a window, a teardown bumps the generation  *)
(* they are stamped with, and the main loop's drain catches up with the    *)
(* teardown, holds a state until its time and gives it to the listener.    *)
(* The two roles differ in what a state holds only.                        *)
(*                                                                         *)
(* A definition whose name ends in Mutant is a deliberate mistake the      *)
(* properties are tested against.                                          *)
(***************************************************************************)
EXTENDS Integers, Sequences

CONSTANTS
    MaxTime,        \* bound: the clock's last tick; states are scheduled up to it
    MaxStates,      \* bound: server/state objects
    MaxTeardowns,   \* bound: teardowns on the protocol task
    MaxStops,       \* bound: SendspinClient::stop() calls
    NoState         \* no state

ASSUME BoundAssumption == {MaxTime, MaxStates, MaxTeardowns, MaxStops} \subseteq Nat
ASSUME NoStateAssumption == NoState \notin [serial : Nat, gen : Nat, time : Nat]

VARIABLES
    proto,       \* the protocol task: its place in a handler, teardowns and stops so far
    sent,        \* history: the states the server sent
    latest,      \* history: how many
    generation,  \* RoleTeardown::cleanup_generation
    slot,        \* the GenerationSlot: its stamp and PendingMetadataStates
    cleared,     \* the generations of the role's *_CLEARED events in the inbox ring
    main,        \* the main loop: its place in the drain and its locals
    told,        \* TeardownTracker::completed_
    held,        \* held_state
    shown,       \* the state last given to the listener, cleared by its clear callback
    clock        \* client time, and whether the primary connection has published a clock

vars == <<proto, sent, latest, generation, slot, cleared, main, told, held, shown, clock>>
server == <<sent, latest, clock>>
inbox  == <<generation, slot, cleared>>
view   == <<main, told, held, shown>>

Times == 0 .. MaxTime
States == [serial : Nat, gen : Nat, time : Times]
MaybeState == States \cup {NoState}

\* PendingMetadataStates, stamped: there is a newest only behind an oldest.
Pendings == {p \in [gen : Nat, oldest : MaybeState, newest : MaybeState] :
                p.oldest = NoState => p.newest = NoState}
NoPending == [gen |-> 0, oldest |-> NoState, newest |-> NoState]
IsPending(p) == p.oldest # NoState

-----------------------------------------------------------------------------
Init ==
    /\ proto = [pc |-> "ready", teardowns |-> 0, stops |-> 0]
    /\ sent = {} /\ latest = 0
    /\ generation = 0 /\ slot = NoPending /\ cleared = <<>>
    /\ main = [pc |-> "tick", batch |-> <<>>, taken |-> NoPending, gen |-> 0]
    /\ told = 0 /\ held = NoState /\ shown = NoState
    /\ clock = [now |-> 0, published |-> TRUE]

-----------------------------------------------------------------------------
(* Protocol task *)

\* coalesce_metadata_states(): the first state of a window stays the oldest, every later one is
\* the newest.
CoalescedMutant(p, state) == [p EXCEPT !.newest = state]
Coalesced(p, state) ==
    IF IsPending(p) THEN [p EXCEPT !.newest = state] ELSE [p EXCEPT !.oldest = state]

\* GenerationSlot::merge(): a payload of an earlier generation is replaced, one of a later
\* generation kept.
Merged(p, gen, state) ==
    CASE IsPending(p) /\ p.gen > gen -> p
      [] IsPending(p) /\ p.gen = gen -> Coalesced(p, state)
      [] OTHER                       -> Coalesced([NoPending EXCEPT !.gen = gen], state)

\* handle_server_state(), for a state scheduled for some time.
HandleServerState ==
    /\ proto.pc = "ready" /\ latest < MaxStates
    /\ latest' = latest + 1
    /\ \E time \in Times :
        LET state == [serial |-> latest', gen |-> generation, time |-> time] IN
        /\ sent' = sent \cup {state}
        /\ slot' = Merged(slot, generation, state)
    /\ UNCHANGED <<proto, generation, cleared, view, clock>>

\* cleanup(), of the role alone (apply_role_removals()) or with every role, which wipes the event
\* ring first (cleanup_connection_state()): the generation ...
BumpGeneration ==
    /\ proto.pc = "ready" /\ proto.teardowns < MaxTeardowns
    /\ proto' = [proto EXCEPT !.pc = "resetSlot", !.teardowns = @ + 1]
    /\ generation' = generation + 1
    /\ cleared' = <<>> \/ UNCHANGED cleared
    /\ UNCHANGED <<server, slot, view>>

\* ... the slot ...
ResetSlot ==
    /\ proto.pc = "resetSlot"
    /\ proto' = [proto EXCEPT !.pc = "push"]
    /\ slot' = NoPending
    /\ UNCHANGED <<server, generation, cleared, view>>

\* ... and the event, which a ring full of other roles' events drops.
PushCleared ==
    /\ proto.pc = "push"
    /\ proto' = [proto EXCEPT !.pc = "ready"]
    /\ cleared' = Append(cleared, generation) \/ UNCHANGED cleared
    /\ UNCHANGED <<server, generation, slot, view>>

\* refresh_published_state(): the primary connection's clock appears or goes.
PublishClock ==
    /\ proto.pc = "ready"
    /\ clock' = [clock EXCEPT !.published = ~@]
    /\ UNCHANGED <<proto, sent, latest, inbox, view>>

FinishCleanup == ResetSlot \/ PushCleared
ProtocolTask == HandleServerState \/ BumpGeneration \/ FinishCleanup \/ PublishClock

-----------------------------------------------------------------------------
(* Main loop *)

At(pc) == main.pc = pc

\* A callback may call stop(), and goes on from there.
MayStop == proto.stops < MaxStops /\ proto.pc # "joined"
Continue(m, called) == main' = m \/ (called /\ MayStop /\ main' = [m EXCEPT !.pc = "stop"])

\* catch_up_teardown(): a teardown not caught up with resets the role and fires the clear callback.
IsTeardown(gen) == gen > told
CatchUpMutant(gen) ==
    /\ told' = IF IsTeardown(gen) THEN gen ELSE told
    /\ shown' = IF IsTeardown(gen) THEN NoState ELSE shown
    /\ UNCHANGED held
CatchUp(gen) ==
    /\ told' = IF IsTeardown(gen) THEN gen ELSE told
    /\ held' = IF IsTeardown(gen) THEN NoState ELSE held
    /\ shown' = IF IsTeardown(gen) THEN NoState ELSE shown

\* The head of drain_inbox(), run by loop() unless the client is stopped.
MainCatchUp ==
    /\ At("tick") /\ proto.pc # "joined"
    /\ CatchUp(generation)
    /\ Continue([main EXCEPT !.pc = "ring"], IsTeardown(generation))
    /\ UNCHANGED <<proto, server, inbox>>

MainTakeEvents ==
    /\ At("ring")
    /\ main' = [main EXCEPT !.pc = "dispatch", !.batch = cleared]
    /\ cleared' = <<>>
    /\ UNCHANGED <<proto, server, generation, slot, told, held, shown>>

\* A *_CLEARED event catches the role up with the generation it carries.
MainDispatch ==
    /\ At("dispatch") /\ main.batch # <<>>
    /\ CatchUp(Head(main.batch))
    /\ Continue([main EXCEPT !.batch = Tail(@)], IsTeardown(Head(main.batch)))
    /\ UNCHANGED <<proto, server, inbox>>

\* needs_drain(): the slot's topic bit, or a state still held.
NeedsDrainMutant == IsPending(slot)
NeedsDrain == IsPending(slot) \/ held # NoState

MainPoll ==
    /\ At("dispatch") /\ main.batch = <<>>
    /\ main' = [main EXCEPT !.pc = IF NeedsDrain THEN "take" ELSE "tick"]
    /\ UNCHANGED <<proto, server, inbox, told, held, shown>>

\* drain_events(): the slot is taken before the generation is read ...
MainTake ==
    /\ At("take")
    /\ main' = [main EXCEPT !.pc = "load", !.taken = slot]
    /\ slot' = NoPending
    /\ UNCHANGED <<proto, server, generation, cleared, told, held, shown>>

\* ... and kept only if its stamp is that generation's.
KeptMutant(taken, gen) == taken
Kept(taken, gen) == IF taken.gen = gen THEN taken ELSE NoPending

MainLoadGeneration ==
    /\ At("load")
    /\ CatchUp(generation)
    /\ Continue([main EXCEPT !.pc = "accept", !.gen = generation,
                             !.taken = Kept(@, generation)], IsTeardown(generation))
    /\ UNCHANGED <<proto, server, inbox>>

\* Whatever is read here is abandoned once a teardown moves the generation on.
Abandon == main' = [main EXCEPT !.pc = "tick", !.taken = NoPending]

MainAccept ==
    /\ At("accept")
    /\ IF generation = main.gen THEN main' = [main EXCEPT !.pc = "fold"] ELSE Abandon
    /\ UNCHANGED <<proto, server, inbox, told, held, shown>>

\* state_is_due(): without a clock a state is due at once.
IsDue(state) == state.time <= clock.now \/ ~clock.published

\* apply_due_state(): the held state is given to the listener once it is due.
Applies(state) == state # NoState /\ IsDue(state)
ApplyDueMutant(state) ==
    /\ held' = NoState
    /\ shown' = IF state # NoState THEN state ELSE shown
ApplyDue(state) ==
    /\ held' = IF Applies(state) THEN NoState ELSE state
    /\ shown' = IF Applies(state) THEN state ELSE shown

\* The oldest state taken replaces the held one, unless the newest is due as well. One reading of
\* the clock decides both here; the newest is judged again when its turn comes.
MainFold ==
    /\ At("fold")
    /\ LET oldest == main.taken.oldest
           newest == main.taken.newest
           collapses == newest # NoState /\ IsDue(newest) IN
        IF oldest # NoState /\ ~collapses
        THEN /\ ApplyDue(oldest)
             /\ Continue([main EXCEPT !.pc = "recheck"], Applies(oldest))
        ELSE /\ main' = [main EXCEPT !.pc = "final"]
             /\ UNCHANGED <<held, shown>>
    /\ UNCHANGED <<proto, server, inbox, told>>

MainRecheck ==
    /\ At("recheck")
    /\ IF generation = main.gen THEN main' = [main EXCEPT !.pc = "final"] ELSE Abandon
    /\ UNCHANGED <<proto, server, inbox, told, held, shown>>

\* The newest replaces whatever is held; what is held is applied when due.
MainApply ==
    /\ At("final")
    /\ LET last == IF main.taken.newest # NoState THEN main.taken.newest ELSE held IN
        /\ ApplyDue(last)
        /\ Continue([main EXCEPT !.pc = "tick", !.taken = NoPending], Applies(last))
    /\ UNCHANGED <<proto, server, inbox, told>>

\* stop(), between two ticks or from a callback of another role.
MainStop ==
    /\ At("tick") \/ At("ring") \/ At("dispatch") \/ At("take")
    /\ MayStop
    /\ main' = [main EXCEPT !.pc = "stop"]
    /\ UNCHANGED <<proto, server, inbox, told, held, shown>>

\* The protocol task joined between two handlers, the role is torn down on the main loop ...
MainTearDown ==
    /\ At("stop") /\ proto.pc = "ready"
    /\ proto' = [proto EXCEPT !.pc = "joined", !.stops = @ + 1]
    /\ generation' = generation + 1
    /\ slot' = NoPending
    /\ cleared' = <<generation + 1>>
    /\ main' = [main EXCEPT !.pc = "drain", !.batch = <<>>, !.taken = NoPending]
    /\ UNCHANGED <<server, told, held, shown>>

\* ... and the drain stop() runs delivers the clear. The drain whose callback called stop() is
\* abandoned.
DeliverClearMutant == UNCHANGED <<told, held, shown>>
DeliverClear == CatchUp(generation)
MainDrainTeardown ==
    /\ At("drain")
    /\ DeliverClear
    /\ cleared' = <<>>
    /\ main' = [main EXCEPT !.pc = "tick"]
    /\ UNCHANGED <<proto, server, generation, slot>>

\* start() after a stop(), whose shutdown pass left no clock published.
MainRestart ==
    /\ At("tick") /\ proto.pc = "joined"
    /\ proto' = [proto EXCEPT !.pc = "ready"]
    /\ clock' = [clock EXCEPT !.published = FALSE]
    /\ UNCHANGED <<sent, latest, inbox, view>>

MainDrain ==
    \/ MainCatchUp \/ MainTakeEvents \/ MainDispatch \/ MainPoll \/ MainTake
    \/ MainLoadGeneration \/ MainAccept \/ MainFold \/ MainRecheck \/ MainApply
    \/ MainTearDown \/ MainDrainTeardown
MainLoop == MainDrain \/ MainStop \/ MainRestart

\* Time passes.
Tick ==
    /\ clock.now < MaxTime
    /\ clock' = [clock EXCEPT !.now = @ + 1]
    /\ UNCHANGED <<proto, sent, latest, inbox, view>>

-----------------------------------------------------------------------------
Next == ProtocolTask \/ MainLoop \/ Tick

Spec == Init /\ [][Next]_vars

\* loop() is called again and again, a handler finishes what it began, and time passes.
Fairness == WF_vars(MainDrain) /\ WF_vars(FinishCleanup) /\ WF_vars(Tick)
FairSpec == Spec /\ Fairness

-----------------------------------------------------------------------------
(* Properties *)

\* Types of the threads' records and of what they share.
TypeOK ==
    /\ proto \in [pc : {"ready", "resetSlot", "push", "joined"}, teardowns : Nat, stops : Nat]
    /\ sent \subseteq States /\ latest \in Nat
    /\ generation \in Nat /\ slot \in Pendings /\ cleared \in Seq(Nat)
    /\ main \in [pc : {"tick", "ring", "dispatch", "take", "load", "accept", "fold", "recheck",
                       "final", "stop", "drain"},
                 batch : Seq(Nat), taken : Pendings, gen : Nat]
    /\ told \in Nat /\ held \in MaybeState /\ shown \in MaybeState
    /\ clock \in [now : Times, published : BOOLEAN]

\* What the listener was given, and what is held for it, is of the connection it was last told of:
\* the clear of a torn-down connection is never followed by one of its states, and no state of the
\* next one precedes it.
ShownIsCurrent ==
    /\ shown # NoState => shown.gen = told
    /\ held # NoState => held.gen = told

\* A stopped client has cleared what it showed, whatever callback called stop().
StoppedIsCleared ==
    proto.pc = "joined" /\ At("tick") => shown = NoState /\ held = NoState /\ told = generation

\* No stamp runs ahead of the generation.
Stamped ==
    /\ told <= generation
    /\ \A i \in DOMAIN cleared : cleared[i] <= generation
    /\ \A i \in DOMAIN main.batch : main.batch[i] <= generation

\* What is pending, held or shown was sent; a window is of one generation, in order.
Precedes(a, b) == a # NoState /\ b # NoState => a.serial < b.serial
MaybeSent(state) == state \in sent \cup {NoState}
WasSent(p) ==
    /\ MaybeSent(p.oldest) /\ MaybeSent(p.newest)
    /\ \A state \in {p.oldest, p.newest} : state # NoState => state.gen = p.gen
    /\ Precedes(p.oldest, p.newest)
Known ==
    /\ \A state \in sent : state.serial <= latest /\ state.gen <= generation
    /\ WasSent(slot) /\ WasSent(main.taken)
    /\ MaybeSent(held) /\ MaybeSent(shown)

\* Past the load, the drain's generation is the one the listener was told of.
Current ==
    main.pc \in {"accept", "fold", "recheck", "final"} =>
        main.gen = told /\ (IsPending(main.taken) => main.taken.gen = told)

\* A state moves from the slot to the drain, to the held one, to the listener, and none overtakes
\* an earlier one.
Ordered ==
    /\ Precedes(shown, held)
    /\ main.pc \in {"load", "accept", "fold"} =>
          Precedes(shown, main.taken.oldest) /\ Precedes(held, main.taken.oldest)
    /\ main.pc \in {"load", "accept", "fold", "recheck", "final"} =>
          Precedes(shown, main.taken.newest) /\ Precedes(held, main.taken.newest)
    /\ \A state \in {shown, held, main.taken.oldest, main.taken.newest} :
          Precedes(state, slot.oldest)

\* While the protocol task is joined the main loop is in stop()'s drain or past it.
Joined ==
    /\ proto.pc = "joined" => main.pc \in {"tick", "drain"}
    /\ At("drain") => proto.pc = "joined" /\ told < generation
    /\ StoppedIsCleared

\* The inductive invariant: whatever crosses the threads keeps its stamp and its place.
Inv == TypeOK /\ Stamped /\ Known /\ ShownIsCurrent /\ Current /\ Ordered /\ Joined

\* The role keeps the promise of StateView: states in order, none before its time, a clear
\* between two connections.
View == INSTANCE StateView
KeepsPromise == View!Spec

\* Once messages stop arriving the listener ends up with the last state of the connection, or
\* cleared if there is none: no teardown's clear is lost, and no scheduled state is stranded.
OfConnection == {state \in sent : state.gen = generation}
Settled ==
    IF OfConnection = {} \/ proto.pc = "joined"
    THEN shown = NoState
    ELSE shown \in OfConnection /\ \A state \in OfConnection : state.serial <= shown.serial
Settles == <>[]Settled

\* A state that is due when it arrives is applied by the drain that takes it, unless a later one
\* is: after the drain, none due from the start is missing.
LatestDueIsShown ==
    At("tick") /\ ~IsPending(slot) /\ told = generation =>
        \A state \in OfConnection : state.time = 0 =>
            shown # NoState /\ shown.serial >= state.serial
=============================================================================
