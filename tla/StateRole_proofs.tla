--------------------------- MODULE StateRole_proofs ---------------------------
(***************************************************************************)
(* Proofs about StateRole for every value of its bounds: types, the        *)
(* inductive invariant, and that the role implements StateView.            *)
(***************************************************************************)
EXTENDS StateRole, TLAPS

-----------------------------------------------------------------------------
(* Types *)

\* A window the protocol task adds a state to stays well formed.
LEMMA MergedType ==
    ASSUME NEW p \in Pendings, NEW gen \in Nat, NEW state \in States
    PROVE  Merged(p, gen, state) \in Pendings
  <1>1. NoPending \in Pendings
    BY DEF NoPending, Pendings, MaybeState
  <1>2. [NoPending EXCEPT !.gen = gen] \in Pendings
    BY DEF NoPending, Pendings, MaybeState
  <1>3. state # NoState
    BY NoStateAssumption DEF States, Times
  <1>4. ASSUME NEW q \in Pendings PROVE Coalesced(q, state) \in Pendings
    BY <1>3 DEF Coalesced, IsPending, Pendings, MaybeState
  <1>5. p.gen \in Nat
    BY DEF Pendings
  <1>6. CASE IsPending(p) /\ p.gen > gen
    BY <1>5, <1>6 DEF Merged
  <1>7. CASE IsPending(p) /\ p.gen = gen
    BY <1>4, <1>5, <1>7 DEF Merged
  <1>8. CASE ~IsPending(p) \/ p.gen < gen
    BY <1>2, <1>4, <1>5, <1>8 DEF Merged
  <1> QED BY <1>5, <1>6, <1>7, <1>8

\* The conditional assignments of the main loop keep their types.
LEMMA KeptType ==
    ASSUME NEW p \in Pendings, NEW gen \in Nat
    PROVE  Kept(p, gen) \in Pendings
  BY DEF Kept, NoPending, Pendings, MaybeState

\* The events handed over are generations, whichever end is touched.
LEMMA NoEventsType == <<>> \in Seq(Nat)
  OBVIOUS

LEMMA OneEventType ==
    ASSUME NEW gen \in Nat
    PROVE  <<gen>> \in Seq(Nat)
  OBVIOUS

LEMMA EventsType ==
    ASSUME NEW s \in Seq(Nat), NEW gen \in Nat
    PROVE  Append(s, gen) \in Seq(Nat)
  OBVIOUS

LEMMA NextEventType ==
    ASSUME NEW s \in Seq(Nat), s # <<>>
    PROVE  Head(s) \in Nat /\ Tail(s) \in Seq(Nat)
  OBVIOUS

\* The clock's bound.
LEMMA MaxTimeType == MaxTime \in Nat
  BY BoundAssumption

LEMMA NextTime ==
    ASSUME NEW now \in Times, now < MaxTime
    PROVE  now + 1 \in Times
  BY MaxTimeType DEF Times

\* Every variable keeps its type: one case per action.
LEMMA TypeStep ==
    ASSUME TypeOK, [Next]_vars
    PROVE  TypeOK'
  <1> USE DEF TypeOK, server, inbox, view
  <1>1. NoPending \in Pendings
    BY DEF NoPending, Pendings, MaybeState
  <1>2. CASE HandleServerState
    <2>1. PICK time \in Times :
            /\ sent' = sent \cup {[serial |-> latest', gen |-> generation, time |-> time]}
            /\ slot' = Merged(slot, generation,
                              [serial |-> latest', gen |-> generation, time |-> time])
      BY <1>2 DEF HandleServerState
    <2>2. latest' \in Nat
      BY <1>2 DEF HandleServerState
    <2>3. [serial |-> latest', gen |-> generation, time |-> time] \in States
      BY <2>2 DEF States
    <2>4. slot' \in Pendings
      BY <2>1, <2>3, MergedType
    <2> QED BY <1>2, <2>1, <2>2, <2>3, <2>4 DEF HandleServerState
  <1>3. CASE BumpGeneration
    <2>1. cleared' \in Seq(Nat)
      BY <1>3, NoEventsType DEF BumpGeneration
    <2>2. proto.teardowns + 1 \in Nat
      OBVIOUS
    <2>3. proto' = [proto EXCEPT !.pc = "resetSlot", !.teardowns = proto.teardowns + 1]
      BY <1>3 DEF BumpGeneration
    <2>4. generation' \in Nat /\ UNCHANGED <<sent, latest, clock, slot, main, told, held, shown>>
      BY <1>3 DEF BumpGeneration
    <2> QED BY <2>1, <2>2, <2>3, <2>4
  <1>4. CASE FinishCleanup
    <2>1. CASE ResetSlot
      BY <2>1, <1>1 DEF ResetSlot
    <2>2. CASE PushCleared
      <3>1. Append(cleared, generation) \in Seq(Nat)
        BY EventsType
      <3> QED BY <2>2, <3>1 DEF PushCleared
    <2> QED BY <1>4, <2>1, <2>2 DEF FinishCleanup
  <1>5. CASE PublishClock
    <2>1. PICK b \in BOOLEAN : clock' = [clock EXCEPT !.published = b]
      <3>1. (~clock.published) \in BOOLEAN
        OBVIOUS
      <3> QED BY <1>5, <3>1 DEF PublishClock
    <2> QED BY <1>5, <2>1 DEF PublishClock
  <1>6. ASSUME NEW gen \in Nat, CatchUp(gen)
        PROVE  told' \in Nat /\ held' \in MaybeState /\ shown' \in MaybeState
    BY <1>6 DEF CatchUp, MaybeState
  <1>7. CASE MainCatchUp
    BY <1>7, <1>6 DEF MainCatchUp, Continue
  <1>8. CASE MainTakeEvents
    BY <1>8, NoEventsType DEF MainTakeEvents
  <1>9. CASE MainDispatch
    <2>1. main.batch \in Seq(Nat) /\ main.batch # <<>>
      BY <1>9 DEF MainDispatch
    <2>2. Head(main.batch) \in Nat /\ Tail(main.batch) \in Seq(Nat)
      BY <2>1, NextEventType
    <2> QED BY <1>9, <1>6, <2>2 DEF MainDispatch, Continue
  <1>10. CASE MainPoll
    BY <1>10 DEF MainPoll
  <1>11. CASE MainTake
    BY <1>11, <1>1 DEF MainTake
  <1>12. CASE MainLoadGeneration
    <2>1. Kept(main.taken, generation) \in Pendings
      BY KeptType
    <2> QED BY <1>12, <1>6, <2>1 DEF MainLoadGeneration, Continue
  <1>13. CASE MainAccept
    BY <1>13, <1>1 DEF MainAccept, Abandon
  <1>14. ASSUME NEW state \in MaybeState, ApplyDue(state)
         PROVE  held' \in MaybeState /\ shown' \in MaybeState
    BY <1>14 DEF ApplyDue, MaybeState
  <1>15. CASE MainFold
    <2>1. main.taken.oldest \in MaybeState
      BY DEF Pendings
    <2> QED BY <1>15, <1>14, <2>1 DEF MainFold, Continue
  <1>16. CASE MainRecheck
    BY <1>16, <1>1 DEF MainRecheck, Abandon
  <1>17. CASE MainApply
    <2>1. (IF main.taken.newest # NoState THEN main.taken.newest ELSE held) \in MaybeState
      BY DEF Pendings
    <2> QED BY <1>17, <1>14, <1>1, <2>1 DEF MainApply, Continue
  <1>18. CASE MainTearDown
    <2>1. generation + 1 \in Nat
      OBVIOUS
    <2>2. <<generation + 1>> \in Seq(Nat)
      BY <2>1, OneEventType
    <2>3. main' \in [pc : {"drain"}, batch : Seq(Nat), taken : Pendings, gen : Nat]
      BY <1>18, <1>1, NoEventsType DEF MainTearDown
    <2>4. proto' \in [pc : {"joined"}, teardowns : Nat, stops : Nat]
      <3>1. proto.stops + 1 \in Nat
        OBVIOUS
      <3>2. proto' = [proto EXCEPT !.pc = "joined", !.stops = proto.stops + 1]
        BY <1>18 DEF MainTearDown
      <3> QED BY <3>1, <3>2
    <2> QED BY <1>18, <1>1, <2>1, <2>2, <2>3, <2>4 DEF MainTearDown
  <1>19. CASE MainDrainTeardown
    <2>1. CatchUp(generation)
      BY <1>19 DEF MainDrainTeardown, DeliverClear
    <2>2. told' \in Nat /\ held' \in MaybeState /\ shown' \in MaybeState
      BY <2>1, <1>6
    <2> QED BY <1>19, <2>2, NoEventsType DEF MainDrainTeardown
  <1>20. CASE MainStop
    BY <1>20 DEF MainStop
  <1>21. CASE MainRestart
    BY <1>21 DEF MainRestart
  <1>22. CASE Tick
    <2>1. clock.now \in Times /\ clock.now < MaxTime
      BY <1>22 DEF Tick
    <2>2. clock.now + 1 \in Times
      BY <2>1, NextTime
    <2> QED BY <1>22, <2>2 DEF Tick
  <1>23. CASE UNCHANGED vars
    BY <1>23 DEF vars
  <1> QED
    BY <1>2, <1>3, <1>4, <1>5, <1>7, <1>8, <1>9, <1>10, <1>11, <1>12, <1>13, <1>15, <1>16,
       <1>17, <1>18, <1>19, <1>20, <1>21, <1>22, <1>23
       DEF Next, ProtocolTask, MainLoop, MainDrain

LEMMA TypeInit == Init => TypeOK
  BY BoundAssumption, NoEventsType DEF Init, TypeOK, NoPending, Pendings, MaybeState, Times

\* Every variable keeps its type, at every step of every behaviour.
THEOREM TypeCorrect == Spec => []TypeOK
  BY TypeInit, TypeStep, PTL DEF Spec

-----------------------------------------------------------------------------
(* The inductive invariant *)

\* A catch-up with a generation not ahead of the current one.
LEMMA CatchUpStamp ==
    ASSUME TypeOK, NEW gen \in Nat, gen <= generation, CatchUp(gen)
    PROVE  told' >= told /\ told' >= gen /\ (told <= generation => told' <= generation)
  BY DEF CatchUp, IsTeardown, TypeOK

\* The next event's generation is a natural number, and the events behind it are events of the
\* batch.
LEMMA BatchType ==
    ASSUME TypeOK, main.batch # <<>>, Stamped
    PROVE  /\ Head(main.batch) \in Nat /\ Head(main.batch) <= generation
           /\ \A i \in DOMAIN Tail(main.batch) : Tail(main.batch)[i] <= generation
  <1>1. main.batch \in Seq(Nat)
    BY DEF TypeOK
  <1>2. ASSUME NEW s \in Seq(Nat), s # <<>>, NEW bound \in Nat, \A i \in DOMAIN s : s[i] <= bound
        PROVE  /\ Head(s) \in Nat /\ Head(s) <= bound
               /\ \A i \in DOMAIN Tail(s) : Tail(s)[i] <= bound
    BY <1>2
  <1>3. generation \in Nat
    BY DEF TypeOK
  <1> QED BY <1>1, <1>2, <1>3 DEF Stamped

\* No stamp overtakes the generation.
LEMMA StampedStep ==
    ASSUME TypeOK, Stamped, [Next]_vars
    PROVE  Stamped'
  <1>1. told \in Nat /\ generation \in Nat /\ cleared \in Seq(Nat)
    BY DEF TypeOK
  <1>2. \A i \in DOMAIN <<>> : <<>>[i] <= generation
    OBVIOUS
  <1>3. CASE BumpGeneration
    <2>1. generation' = generation + 1 /\ UNCHANGED <<main, told>>
      BY <1>3 DEF BumpGeneration, view
    <2>2. CASE cleared' = <<>>
      BY <1>1, <2>1, <2>2, TypeStep DEF Stamped, TypeOK
    <2>3. CASE UNCHANGED cleared
      BY <1>1, <2>1, <2>3 DEF Stamped, TypeOK
    <2> QED BY <1>3, <2>2, <2>3 DEF BumpGeneration
  <1>4. CASE PushCleared
    <2>1. UNCHANGED <<generation, main, told>>
      BY <1>4 DEF PushCleared, view
    <2>2. CASE cleared' = Append(cleared, generation)
      <3>1. ASSUME NEW s \in Seq(Nat), NEW bound \in Nat, \A i \in DOMAIN s : s[i] <= bound
            PROVE  \A i \in DOMAIN Append(s, bound) : Append(s, bound)[i] <= bound
        BY <3>1
      <3>2. \A i \in DOMAIN Append(cleared, generation) :
                Append(cleared, generation)[i] <= generation
        BY <1>1, <3>1 DEF Stamped
      <3> QED BY <2>1, <2>2, <3>2 DEF Stamped
    <2>3. CASE UNCHANGED cleared
      BY <2>1, <2>3 DEF Stamped
    <2> QED BY <1>4, <2>2, <2>3 DEF PushCleared
  <1>5. CASE MainCatchUp
    <2>1. told' <= generation
      BY <1>1, <1>5, CatchUpStamp DEF MainCatchUp, Stamped
    <2>2. main'.batch = main.batch /\ UNCHANGED <<generation, cleared>>
      BY <1>5 DEF MainCatchUp, Continue, inbox, TypeOK
    <2> QED BY <2>1, <2>2 DEF Stamped
  <1>6. CASE MainTakeEvents
    <2>1. main'.batch = cleared /\ cleared' = <<>> /\ UNCHANGED <<generation, told>>
      BY <1>6 DEF MainTakeEvents, TypeOK
    <2> QED BY <1>1, <1>2, <2>1 DEF Stamped
  <1>7. CASE MainDispatch
    <2>1. main.batch # <<>> /\ CatchUp(Head(main.batch)) /\ UNCHANGED <<generation, cleared>>
      BY <1>7 DEF MainDispatch, inbox
    <2>2. told' <= generation
      BY <1>1, <2>1, BatchType, CatchUpStamp DEF Stamped
    <2>3. main'.batch = Tail(main.batch) \/ main'.batch = main.batch
      BY <1>7 DEF MainDispatch, Continue, TypeOK
    <2> QED BY <2>1, <2>2, <2>3, BatchType DEF Stamped
  <1>8. CASE MainLoadGeneration
    <2>1. told' <= generation
      BY <1>1, <1>8, CatchUpStamp DEF MainLoadGeneration, Stamped
    <2>2. main'.batch = main.batch /\ UNCHANGED <<generation, cleared>>
      BY <1>8 DEF MainLoadGeneration, Continue, inbox, TypeOK
    <2> QED BY <2>1, <2>2 DEF Stamped
  <1>9. CASE MainTearDown
    <2>1. /\ generation' = generation + 1 /\ cleared' = <<generation + 1>> /\ main'.batch = <<>>
          /\ UNCHANGED told
      BY <1>9 DEF MainTearDown, TypeOK
    <2> QED BY <1>1, <2>1 DEF Stamped
  <1>10. CASE MainDrainTeardown
    <2>1. told' <= generation
      BY <1>1, <1>10, CatchUpStamp DEF MainDrainTeardown, DeliverClear, Stamped
    <2>2. main'.batch = main.batch /\ cleared' = <<>> /\ UNCHANGED generation
      BY <1>10 DEF MainDrainTeardown, TypeOK
    <2> QED BY <1>2, <2>1, <2>2 DEF Stamped
  <1>11. ASSUME main'.batch = main.batch, UNCHANGED <<generation, cleared, told>>
         PROVE  Stamped'
    BY <1>11 DEF Stamped
  <1>12. CASE MainPoll \/ MainTake \/ MainAccept \/ MainFold \/ MainRecheck \/ MainApply \/ MainStop
    <2>1. main'.batch = main.batch
      BY <1>12 DEF MainPoll, MainTake, MainAccept, MainFold, MainRecheck, MainApply, MainStop,
                   Abandon, Continue, TypeOK
    <2>2. UNCHANGED <<generation, cleared, told>>
      BY <1>12 DEF MainPoll, MainTake, MainAccept, MainFold, MainRecheck, MainApply, MainStop, inbox
    <2> QED BY <1>11, <2>1, <2>2
  <1>13. CASE HandleServerState \/ ResetSlot \/ PublishClock \/ MainRestart \/ Tick \/ UNCHANGED vars
    BY <1>11, <1>13
       DEF HandleServerState, ResetSlot, PublishClock, MainRestart, Tick, vars, inbox, view
  <1> QED
    BY <1>3, <1>4, <1>5, <1>6, <1>7, <1>8, <1>9, <1>10, <1>12, <1>13
       DEF Next, ProtocolTask, FinishCleanup, MainLoop, MainDrain

\* An empty window holds nothing that was not sent.
LEMMA NoPendingSent == WasSent(NoPending)
  BY DEF WasSent, MaybeSent, NoPending, Precedes

\* A state is never taken for the absence of one.
LEMMA StateIsState ==
    ASSUME NEW state \in States
    PROVE  state # NoState
  BY NoStateAssumption DEF States, Times

\* A window a new state is merged into holds what was sent, of one generation, in order; its
\* oldest stays or is the new one.
LEMMA MergedSent ==
    ASSUME TypeOK, Known, HandleServerState
    PROVE  /\ WasSent(slot)' /\ sent \subseteq sent'
           /\ slot'.oldest = slot.oldest \/ slot'.oldest.serial = latest + 1
  <1> USE DEF MaybeSent, Precedes
  <1>1. PICK time \in Times :
          /\ sent' = sent \cup {[serial |-> latest + 1, gen |-> generation, time |-> time]}
          /\ slot' = Merged(slot, generation,
                            [serial |-> latest + 1, gen |-> generation, time |-> time])
    BY DEF HandleServerState
  <1> DEFINE new == [serial |-> latest + 1, gen |-> generation, time |-> time]
  <1>2. latest \in Nat /\ generation \in Nat /\ slot \in Pendings /\ sent \subseteq States
    BY DEF TypeOK
  <1>3. new \in States /\ new.serial = latest + 1 /\ new.gen = generation
    BY <1>2 DEF States
  <1>4. new # NoState
    BY <1>3, StateIsState
  <1>5. \A state \in sent : state # NoState /\ state.serial < new.serial
    BY <1>2, <1>3, StateIsState DEF Known, States
  <1>6. sent' = sent \cup {new} /\ slot' = Merged(slot, generation, new)
    BY <1>1
  <1> HIDE DEF new
  <1>7. CASE IsPending(slot) /\ slot.gen = generation
    <2>1. slot' = [slot EXCEPT !.newest = new]
      BY <1>2, <1>6, <1>7 DEF Merged, Coalesced
    <2>2. slot'.oldest = slot.oldest /\ slot'.newest = new /\ slot'.gen = generation
      BY <1>2, <1>7, <2>1 DEF Pendings
    <2>3. slot.oldest \in sent /\ slot.oldest.gen = generation
      BY <1>7 DEF Known, WasSent, IsPending
    <2> QED BY <1>3, <1>4, <1>5, <1>6, <2>2, <2>3 DEF WasSent
  <1>9. slot.gen \in Nat
    BY <1>2 DEF Pendings
  <1>8. CASE ~IsPending(slot) \/ slot.gen < generation
    <2>1. ~IsPending([NoPending EXCEPT !.gen = generation])
      BY DEF IsPending, NoPending
    <2>2. slot' = [[NoPending EXCEPT !.gen = generation] EXCEPT !.oldest = new]
      BY <1>2, <1>6, <1>8, <2>1, <1>9 DEF Merged, Coalesced
    <2>3. slot'.oldest = new /\ slot'.newest = NoState /\ slot'.gen = generation
      BY <2>2 DEF NoPending
    <2> QED BY <1>3, <1>4, <1>6, <2>3 DEF WasSent
  <1>10. CASE IsPending(slot) /\ slot.gen > generation
    <2>1. slot' = slot
      BY <1>2, <1>6, <1>9, <1>10 DEF Merged
    <2> QED BY <1>6, <2>1 DEF Known, WasSent
  <1> QED BY <1>2, <1>6, <1>7, <1>8, <1>9, <1>10

\* Whatever moves, it was sent.
LEMMA KnownStep ==
    ASSUME TypeOK, Known, [Next]_vars
    PROVE  Known'
  <1>1. generation \in Nat /\ latest \in Nat
    BY DEF TypeOK
  <1>2. CASE HandleServerState
    <2>1. WasSent(slot)' /\ sent \subseteq sent'
      BY <1>2, MergedSent
    <2>2. UNCHANGED <<generation, main, held, shown>> /\ latest' = latest + 1
      BY <1>2 DEF HandleServerState, view
    <2>3. WasSent(main.taken)' /\ MaybeSent(held)' /\ MaybeSent(shown)'
      BY <2>1, <2>2 DEF Known, WasSent, MaybeSent
    <2>4. \A state \in sent' : state.serial <= latest' /\ state.gen <= generation
      <3>1. PICK time \in Times :
              sent' = sent \cup {[serial |-> latest + 1, gen |-> generation, time |-> time]}
        BY <1>2 DEF HandleServerState
      <3>2. \A state \in sent : state.serial \in Nat /\ state.serial <= latest /\ state.gen <= generation
        BY DEF Known, TypeOK, States
      <3> QED BY <1>1, <2>2, <3>1, <3>2
    <2> QED BY <2>1, <2>2, <2>3, <2>4 DEF Known
  <1>3. ASSUME UNCHANGED <<sent, latest>>, generation' \in Nat, generation' >= generation,
               WasSent(slot)', WasSent(main.taken)', MaybeSent(held)', MaybeSent(shown)'
        PROVE  Known'
    <2>1. \A state \in sent : state.gen \in Nat
      BY DEF TypeOK, States
    <2> QED BY <1>1, <1>3, <2>1 DEF Known
  <1>4. ASSUME UNCHANGED sent, slot' = slot \/ slot' = NoPending PROVE WasSent(slot)'
    BY <1>4, NoPendingSent DEF Known, WasSent, MaybeSent
  <1>5. ASSUME UNCHANGED sent, main'.taken = main.taken \/ main'.taken = NoPending
        PROVE  WasSent(main.taken)'
    BY <1>5, NoPendingSent DEF Known, WasSent, MaybeSent
  <1>6. ASSUME UNCHANGED <<sent, held, shown>> PROVE MaybeSent(held)' /\ MaybeSent(shown)'
    BY <1>6 DEF Known, MaybeSent
  <1>7. ASSUME UNCHANGED sent, NEW gen, CatchUp(gen) PROVE MaybeSent(held)' /\ MaybeSent(shown)'
    BY <1>7 DEF Known, MaybeSent, CatchUp
  <1>8. CASE BumpGeneration \/ ResetSlot \/ MainTearDown
    <2>1. UNCHANGED <<sent, latest, held, shown>> /\ generation' >= generation
      BY <1>1, <1>8 DEF BumpGeneration, ResetSlot, MainTearDown, server, view
    <2>2. slot' = slot \/ slot' = NoPending
      BY <1>8 DEF BumpGeneration, ResetSlot, MainTearDown
    <2>3. main'.taken = main.taken \/ main'.taken = NoPending
      BY <1>8 DEF BumpGeneration, ResetSlot, MainTearDown, view, TypeOK
    <2> QED BY <1>3, <1>4, <1>5, <1>6, <2>1, <2>2, <2>3, TypeStep DEF TypeOK
  <1>9. CASE MainCatchUp \/ MainDispatch \/ MainLoadGeneration \/ MainDrainTeardown
    <2>1. UNCHANGED <<sent, latest, generation, slot>>
      BY <1>9 DEF MainCatchUp, MainDispatch, MainLoadGeneration, MainDrainTeardown, server, inbox
    <2>2. \E gen : CatchUp(gen)
      BY <1>9 DEF MainCatchUp, MainDispatch, MainLoadGeneration, MainDrainTeardown, DeliverClear
    <2>3. main'.taken = main.taken \/ main'.taken = NoPending
      BY <1>9 DEF MainCatchUp, MainDispatch, MainLoadGeneration, MainDrainTeardown, Continue, Kept,
                  TypeOK
    <2> QED BY <1>1, <1>3, <1>4, <1>5, <1>7, <2>1, <2>2, <2>3
  <1>10. CASE MainTake
    <2>1. main'.taken = slot /\ slot' = NoPending
          /\ UNCHANGED <<sent, latest, generation, held, shown>>
      BY <1>10 DEF MainTake, server, TypeOK
    <2>2. WasSent(main.taken)'
      BY <2>1 DEF Known, WasSent, MaybeSent
    <2> QED BY <1>1, <1>3, <1>4, <1>6, <2>1, <2>2
  <1>11. ASSUME UNCHANGED sent, NEW state, MaybeSent(state), ApplyDue(state)
         PROVE  MaybeSent(held)' /\ MaybeSent(shown)'
    BY <1>11 DEF Known, MaybeSent, ApplyDue
  <1>12. CASE MainFold \/ MainApply
    <2>1. UNCHANGED <<sent, latest, generation, slot>>
      BY <1>12 DEF MainFold, MainApply, server, inbox
    <2>2. main'.taken = main.taken \/ main'.taken = NoPending
      BY <1>12 DEF MainFold, MainApply, Continue, TypeOK
    <2>3. MaybeSent(held)' /\ MaybeSent(shown)'
      <3>1. MaybeSent(main.taken.oldest) /\ MaybeSent(main.taken.newest) /\ MaybeSent(held)
        BY DEF Known, WasSent
      <3>2. CASE MainFold
        BY <1>6, <1>11, <2>1, <3>1, <3>2 DEF MainFold
      <3>3. CASE MainApply
        BY <1>11, <2>1, <3>1, <3>3 DEF MainApply
      <3> QED BY <1>12, <3>2, <3>3
    <2> QED BY <1>1, <1>3, <1>4, <1>5, <2>1, <2>2, <2>3
  <1>13. CASE PushCleared \/ PublishClock \/ MainTakeEvents \/ MainPoll \/ MainAccept \/ MainRecheck
              \/ MainStop \/ MainRestart \/ Tick \/ UNCHANGED vars
    <2>1. UNCHANGED <<sent, latest, generation, slot, held, shown>>
      BY <1>13 DEF PushCleared, PublishClock, MainTakeEvents, MainPoll, MainAccept, MainRecheck,
                   MainStop, MainRestart, Tick, vars, server, inbox, view
    <2>2. main'.taken = main.taken \/ main'.taken = NoPending
      BY <1>13 DEF PushCleared, PublishClock, MainTakeEvents, MainPoll, MainAccept, MainRecheck,
                   MainStop, MainRestart, Tick, vars, view, Abandon, TypeOK
    <2> QED BY <1>1, <1>3, <1>4, <1>5, <1>6, <2>1, <2>2
  <1> QED
    BY <1>2, <1>8, <1>9, <1>10, <1>12, <1>13
       DEF Next, ProtocolTask, FinishCleanup, MainLoop, MainDrain

\* What is shown and held stays of the connection the listener was told of.
LEMMA CurrentStep ==
    ASSUME TypeOK, Stamped, Known, ShownIsCurrent, Current, [Next]_vars
    PROVE  ShownIsCurrent' /\ Current'
  <1> DEFINE Late == {"accept", "fold", "recheck", "final"}
  <1>1. told \in Nat /\ generation \in Nat /\ told <= generation
    BY DEF TypeOK, Stamped
  <1>2. ASSUME NEW gen \in Nat, CatchUp(gen) PROVE ShownIsCurrent'
    BY <1>2 DEF CatchUp, ShownIsCurrent
  <1>3. ASSUME UNCHANGED <<told, held, shown>> PROVE ShownIsCurrent'
    BY <1>3 DEF ShownIsCurrent
  <1>4. ASSUME main'.pc \notin Late PROVE Current'
    BY <1>4 DEF Current
  <1>5. ASSUME main.pc \in Late, main'.gen = main.gen, main'.taken = main.taken, UNCHANGED told
        PROVE  Current'
    BY <1>5 DEF Current
  <1>6. CASE MainCatchUp
    <2>1. main'.pc \notin Late
      BY <1>6 DEF MainCatchUp, Continue, TypeOK
    <2> QED BY <1>1, <1>2, <1>4, <1>6, <2>1 DEF MainCatchUp
  <1>7. CASE MainDispatch
    <2>1. main'.pc \notin Late
      BY <1>7 DEF MainDispatch, Continue, At, TypeOK
    <2>2. Head(main.batch) \in Nat
      BY <1>7, BatchType DEF MainDispatch
    <2> QED BY <1>2, <1>4, <1>7, <2>1, <2>2 DEF MainDispatch
  <1>8. CASE MainLoadGeneration
    <2>1. CatchUp(generation) /\ told' = generation
      BY <1>1, <1>8 DEF MainLoadGeneration, CatchUp, IsTeardown
    <2>2. CASE main'.pc = "stop"
      BY <1>1, <1>2, <1>4, <2>1, <2>2
    <2>3. CASE main'.gen = generation /\ main'.taken = Kept(main.taken, generation)
      <3>1. IsPending(main'.taken) => main'.taken.gen = generation
        BY <2>3 DEF Kept, IsPending, NoPending
      <3> QED BY <1>1, <1>2, <2>1, <2>3, <3>1 DEF Current
    <2> QED BY <1>8, <2>2, <2>3 DEF MainLoadGeneration, Continue, TypeOK
  <1>9. CASE MainDrainTeardown
    <2>1. main'.pc \notin Late
      BY <1>9 DEF MainDrainTeardown, TypeOK
    <2> QED BY <1>1, <1>2, <1>4, <1>9, <2>1 DEF MainDrainTeardown, DeliverClear
  <1>10. ASSUME UNCHANGED told, NEW state, ApplyDue(state), state # NoState => state.gen = told
         PROVE  ShownIsCurrent'
    BY <1>10 DEF ApplyDue, ShownIsCurrent, Applies
  <1>11. CASE MainFold
    <2>1. At("fold") /\ UNCHANGED told
      BY <1>11 DEF MainFold
    <2>2. main.taken.oldest # NoState => main.taken.oldest.gen = told
      BY <2>1 DEF Known, WasSent, Current, At, IsPending
    <2>3. ShownIsCurrent'
      BY <1>3, <1>10, <1>11, <2>1, <2>2 DEF MainFold
    <2>4. main'.pc = "stop" \/ (main'.gen = main.gen /\ main'.taken = main.taken)
      BY <1>11 DEF MainFold, Continue, TypeOK
    <2> QED BY <1>4, <1>5, <2>1, <2>3, <2>4 DEF At
  <1>12. CASE MainApply
    <2>1. At("final") /\ UNCHANGED told /\ main'.pc \notin Late
      BY <1>12 DEF MainApply, Continue, TypeOK
    <2>2. main.taken.newest # NoState => main.taken.newest.gen = told
      <3>1. main.taken \in Pendings
        BY DEF TypeOK
      <3>2. main.taken.newest # NoState => IsPending(main.taken)
        BY <3>1 DEF Pendings, IsPending
      <3> QED BY <2>1, <3>2 DEF Known, WasSent, Current, At
    <2>3. ShownIsCurrent'
      BY <1>10, <1>12, <2>1, <2>2 DEF MainApply, ShownIsCurrent
    <2> QED BY <1>4, <2>1, <2>3
  <1>13. CASE MainAccept \/ MainRecheck
    <2>1. main.pc \in Late /\ UNCHANGED <<told, held, shown>>
      BY <1>13 DEF MainAccept, MainRecheck, At
    <2>2. main'.pc = "tick" \/ (main'.gen = main.gen /\ main'.taken = main.taken)
      BY <1>13 DEF MainAccept, MainRecheck, Abandon, TypeOK
    <2> QED BY <1>3, <1>4, <1>5, <2>1, <2>2
  <1>14. CASE MainTakeEvents \/ MainPoll \/ MainTake \/ MainStop \/ MainTearDown
    <2>1. UNCHANGED <<told, held, shown>>
      BY <1>14 DEF MainTakeEvents, MainPoll, MainTake, MainStop, MainTearDown
    <2>2. main'.pc \notin Late
      BY <1>14 DEF MainTakeEvents, MainPoll, MainTake, MainStop, MainTearDown, TypeOK
    <2> QED BY <1>3, <1>4, <2>1, <2>2
  <1>15. CASE HandleServerState \/ BumpGeneration \/ FinishCleanup \/ PublishClock \/ MainRestart
              \/ Tick \/ UNCHANGED vars
    <2>1. UNCHANGED <<main, told, held, shown>>
      BY <1>15 DEF HandleServerState, BumpGeneration, FinishCleanup, ResetSlot, PushCleared,
                   PublishClock, MainRestart, Tick, vars, view
    <2> QED BY <1>3, <2>1 DEF Current
  <1> QED
    BY <1>6, <1>7, <1>8, <1>9, <1>11, <1>12, <1>13, <1>14, <1>15
       DEF Next, ProtocolTask, MainLoop, MainDrain

\* States keep their order on the way from the slot to the listener.
LEMMA OrderedStep ==
    ASSUME TypeOK, Known, Ordered, [Next]_vars
    PROVE  Ordered'
  <1> DEFINE Taken == {"load", "accept", "fold"}
             Late == {"load", "accept", "fold", "recheck", "final"}
             Ahead == {shown, held, main.taken.oldest, main.taken.newest}
  <1>1. /\ \A state \in sent : state \in States /\ state.serial \in Nat /\ state.serial <= latest
        /\ latest \in Nat /\ main.taken \in Pendings /\ slot \in Pendings
    BY DEF TypeOK, Known, States
  <1>2. \A state \in Ahead \cup {slot.oldest, slot.newest} : state \in sent \cup {NoState}
    BY DEF Known, WasSent, MaybeSent
  <1>3. \A a, b, c \in sent \cup {NoState} :
            b # NoState /\ Precedes(a, b) /\ Precedes(b, c) => Precedes(a, c)
    BY <1>1 DEF Precedes
  <1>4. \A state : Precedes(state, NoState) /\ Precedes(NoState, state)
    BY DEF Precedes
  <1>5. CASE HandleServerState
    <2>1. UNCHANGED <<main, held, shown>>
      BY <1>5 DEF HandleServerState, view
    <2>2. slot'.oldest = slot.oldest \/ slot'.oldest.serial = latest + 1
      BY <1>5, MergedSent
    <2>3. \A state \in Ahead : Precedes(state, slot'.oldest)
      <3>1. CASE slot'.oldest = slot.oldest
        BY <3>1 DEF Ordered
      <3>2. CASE slot'.oldest.serial = latest + 1
        BY <1>1, <1>2, <3>2 DEF Precedes
      <3> QED BY <2>2, <3>1, <3>2
    <2> QED BY <2>1, <2>3 DEF Ordered
  <1>6. ASSUME UNCHANGED <<main, held, shown>>, slot' = slot \/ slot' = NoPending
        PROVE  Ordered'
    BY <1>4, <1>6 DEF Ordered, NoPending
  <1>7. CASE BumpGeneration \/ ResetSlot \/ PushCleared \/ PublishClock \/ MainRestart \/ Tick
             \/ UNCHANGED vars
    <2>1. UNCHANGED <<main, held, shown>>
      BY <1>7 DEF BumpGeneration, ResetSlot, PushCleared, PublishClock, MainRestart, Tick, vars, view
    <2>2. slot' = slot \/ slot' = NoPending
      BY <1>7 DEF BumpGeneration, ResetSlot, PushCleared, PublishClock, MainRestart, Tick, vars,
                  inbox
    <2> QED BY <1>6, <2>1, <2>2
  <1>8. ASSUME main'.taken = main.taken \/ main'.taken = NoPending,
               slot' = slot \/ slot' = NoPending,
               held' = held \/ held' = NoState, shown' = shown \/ shown' = NoState,
               main'.pc \in Taken => main.pc \in Taken, main'.pc \in Late => main.pc \in Late
        PROVE  Ordered'
    BY <1>4, <1>8 DEF Ordered, NoPending
  <1>9. CASE MainCatchUp \/ MainDispatch \/ MainLoadGeneration \/ MainDrainTeardown
    <2>1. slot' = slot
      BY <1>9 DEF MainCatchUp, MainDispatch, MainLoadGeneration, MainDrainTeardown, inbox
    <2>2. (held' = held \/ held' = NoState) /\ (shown' = shown \/ shown' = NoState)
      BY <1>9 DEF MainCatchUp, MainDispatch, MainLoadGeneration, MainDrainTeardown, DeliverClear,
                  CatchUp
    <2>3. main'.taken = main.taken \/ main'.taken = NoPending
      BY <1>9 DEF MainCatchUp, MainDispatch, MainLoadGeneration, MainDrainTeardown, Continue, Kept,
                  TypeOK
    <2>4. (main'.pc \in Taken => main.pc \in Taken) /\ (main'.pc \in Late => main.pc \in Late)
      BY <1>9 DEF MainCatchUp, MainDispatch, MainLoadGeneration, MainDrainTeardown, Continue, At,
                  TypeOK
    <2> QED BY <1>8, <2>1, <2>2, <2>3, <2>4
  <1>10. CASE MainTakeEvents \/ MainPoll \/ MainAccept \/ MainRecheck \/ MainStop \/ MainTearDown
    <2>1. UNCHANGED <<held, shown>>
      BY <1>10 DEF MainTakeEvents, MainPoll, MainAccept, MainRecheck, MainStop, MainTearDown
    <2>2. slot' = slot \/ slot' = NoPending
      BY <1>10 DEF MainTakeEvents, MainPoll, MainAccept, MainRecheck, MainStop, MainTearDown, inbox
    <2>3. main'.taken = main.taken \/ main'.taken = NoPending
      BY <1>10 DEF MainTakeEvents, MainPoll, MainAccept, MainRecheck, MainStop, MainTearDown,
                   Abandon, TypeOK
    <2>4. (main'.pc \in Taken => main.pc \in Taken) /\ (main'.pc \in Late => main.pc \in Late)
      BY <1>10 DEF MainTakeEvents, MainPoll, MainAccept, MainRecheck, MainStop, MainTearDown,
                   Abandon, At, TypeOK
    <2> QED BY <1>8, <2>1, <2>2, <2>3, <2>4
  <1>11. CASE MainTake
    <2>1. main'.taken = slot /\ slot'.oldest = NoState /\ UNCHANGED <<held, shown>>
      BY <1>11 DEF MainTake, NoPending, TypeOK
    <2>2. \A state \in {shown, held} : Precedes(state, slot.oldest) /\ Precedes(state, slot.newest)
      <3>1. slot.oldest = NoState => slot.newest = NoState
        BY <1>1 DEF Pendings
      <3>2. Precedes(slot.oldest, slot.newest)
        BY DEF Known, WasSent
      <3> QED BY <1>2, <1>3, <1>4, <3>1, <3>2 DEF Ordered
    <2> QED BY <1>4, <2>1, <2>2 DEF Ordered
  <1>12. CASE MainFold
    <2>1. At("fold") /\ UNCHANGED slot
      BY <1>12 DEF MainFold, inbox
    <2>2. main'.taken = main.taken
      BY <1>12 DEF MainFold, Continue, TypeOK
    <2>3. main'.pc \notin Taken
      BY <1>12 DEF MainFold, Continue, TypeOK
    <2>4. CASE UNCHANGED <<held, shown>>
      BY <2>1, <2>2, <2>3, <2>4 DEF Ordered, At
    <2>5. CASE ApplyDue(main.taken.oldest) /\ main.taken.oldest # NoState
      <3>1. (held' = NoState /\ shown' = main.taken.oldest)
            \/ (held' = main.taken.oldest /\ shown' = shown)
        BY <2>5 DEF ApplyDue
      <3>2. Precedes(shown, main.taken.oldest) /\ Precedes(main.taken.oldest, main.taken.newest)
        BY <2>1 DEF Ordered, Known, WasSent, At
      <3> QED BY <1>4, <2>1, <2>2, <2>3, <3>1, <3>2 DEF Ordered, At
    <2> QED BY <1>12, <2>4, <2>5 DEF MainFold
  <1>13. CASE MainApply
    <2>1. At("final") /\ UNCHANGED slot
      BY <1>13 DEF MainApply, inbox
    <2>2. main'.taken = main.taken \/ main'.taken = NoPending
      BY <1>13 DEF MainApply, Continue, TypeOK
    <2>3. main'.pc \notin Late
      BY <1>13 DEF MainApply, Continue, TypeOK
    <2>4. ASSUME NEW last, last \in {main.taken.newest, held}, ApplyDue(last)
          PROVE  Ordered'
      <3>1. (held' = NoState /\ shown' = last) \/ (held' = last /\ shown' = shown)
        BY <2>4 DEF ApplyDue
      <3>2. Precedes(shown, last) /\ Precedes(last, slot.oldest)
        BY <2>1, <2>4 DEF Ordered, At
      <3> QED BY <1>4, <2>1, <2>2, <2>3, <3>1, <3>2 DEF Ordered, NoPending
    <2> QED BY <1>13, <2>4 DEF MainApply
  <1> QED
    BY <1>5, <1>7, <1>9, <1>10, <1>11, <1>12, <1>13
       DEF Next, ProtocolTask, FinishCleanup, MainLoop, MainDrain

\* stop() owes a clear until its drain has delivered it.
LEMMA JoinedStep ==
    ASSUME TypeOK, Stamped, Joined, [Next]_vars
    PROVE  Joined'
  <1> USE DEF StoppedIsCleared, At
  <1>1. told \in Nat /\ generation \in Nat /\ told <= generation
    BY DEF TypeOK, Stamped
  <1>2. CASE HandleServerState \/ BumpGeneration \/ ResetSlot \/ PushCleared
    <2>1. proto.pc # "joined" /\ proto'.pc # "joined" /\ UNCHANGED main
      BY <1>2 DEF HandleServerState, BumpGeneration, ResetSlot, PushCleared, view, TypeOK
    <2> QED BY <2>1 DEF Joined
  <1>3. CASE PublishClock \/ Tick \/ UNCHANGED vars
    BY <1>3 DEF Joined, PublishClock, Tick, vars, inbox, view
  <1>4. CASE \/ MainCatchUp \/ MainTakeEvents \/ MainDispatch \/ MainPoll \/ MainTake
             \/ MainLoadGeneration \/ MainAccept \/ MainFold \/ MainRecheck \/ MainApply \/ MainStop
    <2>1. proto.pc # "joined" /\ UNCHANGED proto
      BY <1>4 DEF MainCatchUp, MainTakeEvents, MainDispatch, MainPoll, MainTake, MainLoadGeneration,
                  MainAccept, MainFold, MainRecheck, MainApply, MainStop, MayStop, Joined
    <2>2. main'.pc # "drain"
      BY <1>4, <2>1
         DEF MainCatchUp, MainTakeEvents, MainDispatch, MainPoll, MainTake, MainLoadGeneration,
             MainAccept, MainFold, MainRecheck, MainApply, MainStop, Abandon, Continue, TypeOK
    <2> QED BY <2>1, <2>2 DEF Joined
  <1>5. CASE MainTearDown
    <2>1. main'.pc = "drain" /\ proto'.pc = "joined" /\ generation' = generation + 1
          /\ UNCHANGED told
      BY <1>5 DEF MainTearDown, TypeOK
    <2> QED BY <1>1, <2>1 DEF Joined
  <1>6. CASE MainDrainTeardown
    <2>1. told < generation /\ proto.pc = "joined"
      BY <1>6 DEF MainDrainTeardown, Joined
    <2>2. told' = generation /\ held' = NoState /\ shown' = NoState
      BY <1>1, <1>6, <2>1 DEF MainDrainTeardown, DeliverClear, CatchUp, IsTeardown
    <2>3. main'.pc = "tick" /\ UNCHANGED <<proto, generation>>
      BY <1>6 DEF MainDrainTeardown, TypeOK
    <2> QED BY <2>2, <2>3 DEF Joined
  <1>7. CASE MainRestart
    <2>1. proto'.pc = "ready" /\ UNCHANGED main /\ main.pc = "tick"
      BY <1>7 DEF MainRestart, view, TypeOK
    <2> QED BY <2>1 DEF Joined
  <1> QED
    BY <1>2, <1>3, <1>4, <1>5, <1>6, <1>7
       DEF Next, ProtocolTask, FinishCleanup, MainLoop, MainDrain

-----------------------------------------------------------------------------
(* Theorems *)

LEMMA InvInit == Init => Inv
  <1> SUFFICES ASSUME Init PROVE Inv
    OBVIOUS
  <1>1. TypeOK
    BY TypeInit
  <1>2. told = 0 /\ generation = 0 /\ cleared = <<>> /\ main.batch = <<>>
    BY DEF Init
  <1>3. Stamped
    BY <1>2 DEF Stamped
  <1>4. /\ held = NoState /\ shown = NoState /\ slot = NoPending /\ main.taken = NoPending
        /\ main.pc = "tick" /\ proto.pc = "ready" /\ sent = {}
    BY DEF Init
  <1>5. Known
    BY <1>4, NoPendingSent DEF Known, MaybeSent
  <1>6. ShownIsCurrent /\ Current
    BY <1>4 DEF ShownIsCurrent, Current
  <1>7. Ordered
    BY <1>4 DEF Ordered, Precedes, NoPending
  <1>8. Joined
    BY <1>4 DEF Joined, StoppedIsCleared, At
  <1> QED BY <1>1, <1>3, <1>5, <1>6, <1>7, <1>8 DEF Inv

\* The inductive invariant holds in every state of every behaviour.
THEOREM Invariance == Spec => []Inv
  <1>1. Inv /\ [Next]_vars => Inv'
    BY TypeStep, StampedStep, KnownStep, CurrentStep, OrderedStep, JoinedStep DEF Inv
  <1> QED BY InvInit, <1>1, PTL DEF Spec

\* No state of a torn-down connection is shown or held once the listener was told of the
\* teardown (catch_up_teardown(), drain_events()), however the two threads interleave.
THEOREM StatesAreCurrent == Spec => []ShownIsCurrent
  <1>1. Inv => ShownIsCurrent
    BY DEF Inv
  <1> QED BY Invariance, <1>1, PTL

\* A stopped client has delivered the clear of its last connection, from whatever callback
\* stop() was called.
THEOREM StopClears == Spec => []StoppedIsCleared
  <1>1. Inv => StoppedIsCleared
    BY DEF Inv, Joined
  <1> QED BY Invariance, <1>1, PTL

-----------------------------------------------------------------------------
(* The role implements StateView *)

\* A catch-up is a clear, or nothing the listener sees.
LEMMA CatchUpIsClear ==
    ASSUME TypeOK, Stamped, NEW gen \in Nat, gen <= generation, CatchUp(gen),
           UNCHANGED <<sent, latest, generation, clock>>
    PROVE  View!Clear \/ UNCHANGED View!viewVars
  <1>1. told \in Nat /\ generation \in Nat
    BY DEF TypeOK
  <1>2. CASE gen > told
    BY <1>1, <1>2 DEF CatchUp, IsTeardown, View!Clear
  <1>3. CASE ~(gen > told)
    BY <1>3 DEF CatchUp, IsTeardown, View!viewVars
  <1> QED BY <1>2, <1>3

\* Applying a state of the current connection, sent after the one shown, shows it once due.
LEMMA ApplyIsShow ==
    ASSUME NEW state, MaybeSent(state), ApplyDue(state),
           state # NoState => state.gen = told, Precedes(shown, state),
           UNCHANGED <<sent, latest, generation, told, clock>>
    PROVE  View!Show \/ UNCHANGED View!viewVars
  <1>1. CASE Applies(state)
    BY <1>1 DEF ApplyDue, Applies, IsDue, MaybeSent, Precedes, View!Show, View!IsDue
  <1>2. CASE ~Applies(state)
    BY <1>2 DEF ApplyDue, View!viewVars
  <1> QED BY <1>1, <1>2

\* Every step of the role is a step of what it promises, or one the listener does not see.
LEMMA ViewStep ==
    ASSUME Inv, [Next]_vars
    PROVE  [View!Next]_View!viewVars
  <1> USE DEF View!Next
  <1>0. TypeOK /\ Stamped /\ Known /\ ShownIsCurrent /\ Current /\ Ordered
    BY DEF Inv
  <1>1. /\ told \in Nat /\ generation \in Nat /\ latest \in Nat /\ told <= generation
        /\ clock.now \in Nat /\ clock.published \in BOOLEAN
    BY <1>0, MaxTimeType DEF TypeOK, Stamped, Times
  <1>2. CASE HandleServerState
    BY <1>2 DEF HandleServerState, view, View!Send, View!StateOf
  <1>3. CASE BumpGeneration \/ MainTearDown
    BY <1>3 DEF BumpGeneration, MainTearDown, server, view, View!TearDown
  <1>4. CASE PublishClock \/ MainRestart \/ Tick
    <2>1. clock \in [now : Nat, published : BOOLEAN]
      BY <1>0, MaxTimeType DEF TypeOK, Times
    <2>2. clock' \in [now : Nat, published : BOOLEAN] /\ clock'.now >= clock.now
      <3>1. CASE PublishClock \/ MainRestart
        <4>1. PICK b \in BOOLEAN : clock' = [clock EXCEPT !.published = b]
          BY <1>1, <3>1 DEF PublishClock, MainRestart
        <4> QED BY <1>1, <2>1, <4>1
      <3>2. CASE Tick
        <4>1. clock' = [clock EXCEPT !.now = clock.now + 1]
          BY <3>2 DEF Tick
        <4> QED BY <1>1, <2>1, <4>1
      <3> QED BY <1>4, <3>1, <3>2
    <2>3. UNCHANGED <<sent, latest, generation, told, shown>>
      BY <1>4 DEF PublishClock, MainRestart, Tick, inbox, view
    <2> QED BY <2>2, <2>3 DEF View!PassTime
  <1>5. CASE MainCatchUp \/ MainLoadGeneration \/ MainDrainTeardown
    <2>1. CatchUp(generation)
      BY <1>5 DEF MainCatchUp, MainLoadGeneration, MainDrainTeardown, DeliverClear
    <2>2. UNCHANGED <<sent, latest, generation, clock>>
      BY <1>5 DEF MainCatchUp, MainLoadGeneration, MainDrainTeardown, server, inbox
    <2> QED BY <1>0, <1>1, <2>1, <2>2, CatchUpIsClear
  <1>6. CASE MainDispatch
    <2>1. main.batch # <<>> /\ CatchUp(Head(main.batch))
          /\ UNCHANGED <<sent, latest, generation, clock>>
      BY <1>6 DEF MainDispatch, server, inbox
    <2> QED BY <1>0, <2>1, BatchType, CatchUpIsClear
  <1>7. CASE MainFold
    <2>1. At("fold") /\ UNCHANGED <<sent, latest, generation, told, clock>>
      BY <1>7 DEF MainFold, server, inbox
    <2>2. CASE ApplyDue(main.taken.oldest)
      <3>1. /\ MaybeSent(main.taken.oldest) /\ Precedes(shown, main.taken.oldest)
            /\ main.taken.oldest # NoState => main.taken.oldest.gen = told
        BY <1>0, <2>1 DEF Known, WasSent, Current, Ordered, At, IsPending
      <3> QED BY <2>1, <2>2, <3>1, ApplyIsShow
    <2>3. CASE UNCHANGED shown
      BY <2>1, <2>3 DEF View!viewVars
    <2> QED BY <1>7, <2>2, <2>3 DEF MainFold
  <1>8. CASE MainApply
    <2>1. At("final") /\ UNCHANGED <<sent, latest, generation, told, clock>>
      BY <1>8 DEF MainApply, server, inbox
    <2>2. CASE ApplyDue(main.taken.newest)
      <3>1. main.taken.newest # NoState => IsPending(main.taken)
        BY <1>0 DEF TypeOK, Pendings, IsPending
      <3>2. /\ MaybeSent(main.taken.newest) /\ Precedes(shown, main.taken.newest)
            /\ main.taken.newest # NoState => main.taken.newest.gen = told
        BY <1>0, <2>1, <3>1 DEF Known, WasSent, Current, Ordered, At
      <3> QED BY <2>1, <2>2, <3>2, ApplyIsShow
    <2>3. CASE ApplyDue(held)
      BY <1>0, <2>1, <2>3, ApplyIsShow DEF Known, Ordered, ShownIsCurrent
    <2> QED BY <1>8, <2>2, <2>3 DEF MainApply
  <1>9. CASE \/ FinishCleanup \/ MainTakeEvents \/ MainPoll \/ MainTake \/ MainAccept \/ MainRecheck
             \/ MainStop \/ UNCHANGED vars
    <2>1. UNCHANGED <<sent, latest, generation, told, shown, clock>>
      BY <1>9 DEF FinishCleanup, ResetSlot, PushCleared, MainTakeEvents, MainPoll, MainTake,
                  MainAccept, MainRecheck, MainStop, vars, server, inbox, view
    <2> QED BY <2>1 DEF View!viewVars
  <1> QED
    BY <1>2, <1>3, <1>4, <1>5, <1>6, <1>7, <1>8, <1>9
       DEF Next, ProtocolTask, MainLoop, MainDrain

\* The role implements StateView: the listener sees the states of one connection in the order
\* they were sent, none before its time, and a clear between two connections.
THEOREM ImplementsView == Spec => KeepsPromise
  <1>1. Init => View!Init
    BY DEF Init, View!Init
  <1> QED BY Invariance, ViewStep, <1>1, PTL DEF Spec, KeepsPromise, View!Spec
===============================================================================
