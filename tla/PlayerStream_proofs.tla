------------------------ MODULE PlayerStream_proofs ------------------------
(***************************************************************************)
(* Proofs about PlayerStream for every value of its bounds: types, the     *)
(* inductive invariant of what the three threads hold of each other, the   *)
(* order of the streams it gives (what is played was acknowledged and has  *)
(* not ended), and the markers of stream/clear.                            *)
(***************************************************************************)
EXTENDS PlayerStream, TLAPS

\* The next stream ordinal is one.
LEMMA NextOrdinal ==
    ASSUME NEW n \in Ordinals
    PROVE  NextCount(n, OrdinalSpan) \in Ordinals
  BY OrdinalAssumption DEF NextCount, Ordinals

\* A flag test is a truth value.
LEMMA SetType ==
    ASSUME NEW bits
    PROVE  Set(bits) \in BOOLEAN
  BY DEF Set

\* Where the sync task goes, and with what, keeps the type of its record.
LEMMA SyncGoesType ==
    ASSUME sync \in SyncRecords, NEW pc \in SyncPlaces, SyncGoes(pc)
    PROVE  sync' \in SyncRecords
  BY DEF SyncGoes, SyncRecords

LEMMA MaybeItems == NoItem \in MaybeItem /\ \A item \in Items : item \in MaybeItem
  BY DEF MaybeItem

LEMMA DiscardType ==
    ASSUME sync \in SyncRecords, NEW return \in {"idle", "loop", "ack"}, BeginDiscard(return)
    PROVE  sync' \in SyncRecords
  <1>1. PICK held \in MaybeItem :
          sync' = [sync EXCEPT !.pc = "discard", !.return = return, !.held = held]
    BY MaybeItems DEF BeginDiscard, SyncRecords
  <1> QED BY <1>1 DEF SyncRecords, SyncPlaces

\* An item taken from the list is one.
LEMMA TakenType ==
    ASSUME list \in Seq(Items), list # <<>>, list' = Tail(list)
    PROVE  Head(list) \in Items /\ Head(list) \in MaybeItem /\ list' \in Seq(Items)
  BY MaybeItems

\* The sync task's steps keep the type of its record, and give its shared state no other type.
LEMMA SyncRecordType ==
    ASSUME TypeOK, HeaderHeld, SyncTask
    PROVE  sync' \in SyncRecords
  <1> USE MaybeItems DEF SyncAt
  <1>0. sync \in SyncRecords /\ list \in Seq(Items)
    BY DEF TypeOK
  <1>1. CASE SyncSkipStale
    BY <1>1, <1>0 DEF SyncSkipStale
  <1>2. CASE SyncReadIdle
    BY <1>2, <1>0, SetType DEF SyncReadIdle, SyncRecords, SyncPlaces
  <1>3. CASE SyncClearIdle
    BY <1>3, <1>0, SyncGoesType DEF SyncClearIdle, SyncPlaces
  <1>4. CASE SyncEnterIdle
    <2>1. PICK pc \in {"gotHeader", "waitHeader"}, held \in MaybeItem :
            sync' = [Reset(sync) EXCEPT !.pc = pc, !.held = held]
      BY <1>4, <1>0 DEF SyncEnterIdle, SyncRecords
    <2> QED BY <2>1, <1>0 DEF Reset, SyncRecords, SyncPlaces
  <1>5. CASE SyncWaitHeader
    BY <1>5, <1>0, SetType DEF SyncWaitHeader, SyncRecords, SyncPlaces
  <1>6. CASE SyncTakeHeader
    <2>1. Head(list) \in MaybeItem
      BY <1>6, <1>0, TakenType DEF SyncTakeHeader, ItemReady
    <2>2. \/ sync' = [sync EXCEPT !.pc = "gotHeader", !.flag = FALSE, !.held = Head(list)]
          \/ sync' = [sync EXCEPT !.pc = "waitHeader", !.flag = FALSE]
      BY <1>6 DEF SyncTakeHeader
    <2>3. /\ [sync EXCEPT !.pc = "gotHeader", !.flag = FALSE, !.held = Head(list)] \in SyncRecords
          /\ [sync EXCEPT !.pc = "waitHeader", !.flag = FALSE] \in SyncRecords
      BY <2>1, <1>0 DEF SyncRecords, SyncPlaces
    <2> QED BY <2>2, <2>3
  <1>7. CASE SyncTakeNothing
    BY <1>7, <1>0 DEF SyncTakeNothing, SyncRecords, SyncPlaces
  <1>8. CASE SyncGotHeader
    BY <1>8, <1>0, SyncGoesType DEF SyncGotHeader, SyncPlaces
  <1>9. CASE SyncNoHeader
    BY <1>9, <1>0, SyncGoesType, DiscardType DEF SyncNoHeader, SyncPlaces
  <1>10. CASE SyncDiscard
    <2>1. Head(list) \in MaybeItem
      BY <1>10, <1>0, TakenType DEF SyncDiscard, ItemReady
    <2>2. PICK pc \in {"applyClear", "discard"}, held \in {Head(list), sync.held} :
            sync' = [sync EXCEPT !.pc = pc, !.held = held]
      BY <1>10 DEF SyncDiscard
    <2> QED BY <2>1, <2>2, <1>0 DEF SyncRecords, SyncPlaces
  <1>11. CASE SyncDiscardedAll
    BY <1>11, <1>0, SyncGoesType DEF SyncDiscardedAll, SyncPlaces
  <1>12. CASE SyncApplyClear
    <2>1. PICK pc \in SyncPlaces :
            sync' = [sync EXCEPT !.pc = pc, !.decoded = NoItem, !.return = "idle"]
      BY <1>12 DEF SyncApplyClear, SyncPlaces
    <2> QED BY <2>1, <1>0 DEF SyncRecords
  <1>13. CASE SyncAwaitAck
    BY <1>13, <1>0, SyncGoesType, DiscardType DEF SyncAwaitAck, SyncPlaces
  <1>14. CASE SyncClearStart
    BY <1>14, <1>0, SetType DEF SyncClearStart, SyncRecords, SyncPlaces
  <1>15. CASE SyncReadStarted
    BY <1>15, <1>0 DEF SyncReadStarted, SyncRecords, SyncPlaces
  <1>16. CASE SyncWakeAck
    BY <1>16, <1>0, SyncGoesType DEF SyncWakeAck, SyncPlaces
  <1>17. CASE SyncRelease
    <2>1. PICK next \in {sync.held, sync.next} :
            sync' = [sync EXCEPT !.pc = "left", !.held = NoItem, !.next = next]
      BY <1>17 DEF SyncRelease
    <2> QED BY <2>1, <1>0 DEF SyncRecords, SyncPlaces
  <1>18. CASE SyncLeft
    BY <1>18, <1>0, SyncGoesType DEF SyncLeft, SyncPlaces
  <1>19. CASE SyncActivate
    BY <1>19, <1>0 DEF SyncActivate, HeaderHeld, Items, SyncRecords, SyncPlaces
  <1>20. CASE SyncRun
    BY <1>20, <1>0 DEF SyncRun, SyncRecords, SyncPlaces
  <1>21. CASE SyncLoop
    BY <1>21, <1>0, SyncGoesType, DiscardType DEF SyncLoop, SyncPlaces
  <1>22. CASE SyncWrite
    <2>1. PICK rest \in {sync.decoded, NoItem} :
            sync' = [sync EXCEPT !.pc = "loop", !.decoded = rest]
      BY <1>22 DEF SyncWrite
    <2> QED BY <2>1, <1>0 DEF SyncRecords, SyncPlaces
  <1>23. CASE SyncLoad
    <2>1. Head(list) \in MaybeItem
      BY <1>23, <1>0, TakenType DEF SyncLoad, ItemReady
    <2>2. \/ sync' = [sync EXCEPT !.pc = "loop", !.next = Head(list)]
          \/ sync' = [sync EXCEPT !.pc = "decode", !.held = Head(list)]
      BY <1>23 DEF SyncLoad
    <2> QED BY <2>1, <2>2, <1>0 DEF SyncRecords, SyncPlaces
  <1>24. CASE SyncLoadNothing
    BY <1>24, <1>0, SyncGoesType DEF SyncLoadNothing, SyncPlaces
  <1>25. CASE SyncDecode
    <2>1. PICK failed \in BOOLEAN, decoded \in {NoItem, sync.held} :
            sync' = [sync EXCEPT !.pc = "loop", !.held = NoItem, !.abandoned = failed,
                                 !.decoded = decoded]
      BY <1>25 DEF SyncDecode
    <2> QED BY <2>1, <1>0 DEF SyncRecords, SyncPlaces
  <1>26. CASE SyncExit
    BY <1>26, <1>0 DEF SyncExit, SyncRecords, SyncPlaces
  <1> QED
    BY <1>1, <1>2, <1>3, <1>4, <1>5, <1>6, <1>7, <1>8, <1>9, <1>10, <1>11, <1>12, <1>13, <1>14,
       <1>15, <1>16, <1>17, <1>18, <1>19, <1>20, <1>21, <1>22, <1>23, <1>24, <1>25, <1>26
       DEF SyncTask

\* What the sync task changes of what it shares: it takes items, clears flags but for RUNNING, and
\* leaves notes.
LEMMA SyncChanges ==
    ASSUME SyncTask
    PROVE  /\ list' = list \/ (list # <<>> /\ list' = Tail(list))
           /\ flags' \subseteq flags \cup {"RUNNING"}
           /\ idleNote \in BOOLEAN => idleNote' \in BOOLEAN
           /\ UNCHANGED <<proto, main, generation, ended, started, params, events>>
  BY DEF SyncTask, SyncSkipStale, SyncReadIdle, SyncClearIdle, SyncEnterIdle, SyncWaitHeader,
     SyncTakeHeader, SyncTakeNothing, SyncGotHeader, SyncNoHeader, SyncDiscard, SyncDiscardedAll,
     SyncApplyClear, SyncAwaitAck, SyncClearStart, SyncReadStarted, SyncWakeAck, SyncRelease,
     SyncLeft, SyncActivate, SyncRun, SyncLoop, SyncWrite, SyncLoad, SyncLoadNothing, SyncDecode,
     SyncExit, ItemReady, shared, ButList, ButFlags, ButNote

LEMMA SyncType ==
    ASSUME TypeOK, HeaderHeld, SyncTask
    PROVE  TypeOK'
  <1>1. list' \in Seq(Items)
    BY SyncChanges, TakenType DEF TypeOK
  <1>2. flags' \subseteq FlagNames
    BY SyncChanges DEF TypeOK, FlagNames
  <1> QED BY <1>1, <1>2, SyncChanges, SyncRecordType DEF TypeOK

\* An event pushed onto the ring is one.
LEMMA PushType ==
    ASSUME events \in Seq(Events), NEW event \in Events, Push(event)
    PROVE  events' \in Seq(Events)
  BY DEF Push

LEMMA HandType ==
    ASSUME list \in Seq(Items), NEW kind \in {"header", "audio", "marker"}, NEW serial \in Ordinals,
           generation \in Nat, proto \in ProtoRecords, Hand(kind, serial)
    PROVE  list' \in Seq(Items)
  BY DEF Hand, Items, ProtoRecords

LEMMA ZeroOrdinal == 0 \in Ordinals
  BY OrdinalAssumption DEF Ordinals

\* The protocol task's steps keep the types.
LEMMA ProtocolType ==
    ASSUME TypeOK, ProtocolTask
    PROVE  TypeOK'
  <1> USE ZeroOrdinal DEF Step, ProtoPlaces, ButList, ButFlags, ButEnded, ButEvents
  <1>0. /\ proto \in ProtoRecords /\ list \in Seq(Items) /\ events \in Seq(Events)
        /\ generation \in Nat /\ proto.ordinal \in Ordinals
        /\ proto.messages + 1 \in Nat /\ proto.clears + 1 \in Nat /\ proto.teardowns + 1 \in Nat
    BY DEF TypeOK, ProtoRecords
  <1>1. CASE HandleBinary
    <2>1. proto' \in ProtoRecords
      BY <1>1, <1>0 DEF HandleBinary, Receive, ProtoRecords
    <2> QED BY <1>1, <1>0, <2>1, HandType DEF HandleBinary, TypeOK
  <1>2. CASE HandleStreamStart
    <2>1. NextCount(proto.ordinal, OrdinalSpan) \in Ordinals
      BY <1>0, NextOrdinal
    <2>2. proto' \in ProtoRecords
      BY <1>2, <1>0, <2>1 DEF HandleStreamStart, ProtoRecords
    <2> QED BY <1>2, <1>0, <2>1, <2>2, HandType DEF HandleStreamStart, TypeOK
  <1>3. CASE PublishStart
    <2>1. proto' \in ProtoRecords
      BY <1>3, <1>0 DEF PublishStart, ProtoRecords
    <2>2. Event("STREAM_START", proto.ordinal, generation) \in Events
      BY <1>0 DEF Event, Events
    <2>3. params' \in [gen : Nat, ordinal : Ordinals \cup {-1}]
      BY <1>3, <1>0 DEF PublishStart
    <2> QED BY <1>3, <1>0, <2>1, <2>2, <2>3, PushType DEF PublishStart, TypeOK
  <1>4. CASE HandleStreamEnd
    <2>1. proto' \in ProtoRecords
      BY <1>4, <1>0 DEF HandleStreamEnd, Receive, ProtoRecords
    <2> QED BY <1>4, <1>0, <2>1 DEF HandleStreamEnd, TypeOK
  <1>5. CASE SignalEnd
    <2>1. proto' \in ProtoRecords
      BY <1>5, <1>0 DEF SignalEnd, ProtoRecords
    <2> QED BY <1>5, <1>0, <2>1 DEF SignalEnd, TypeOK, FlagNames
  <1>6. CASE PublishEnd
    <2>1. proto' \in ProtoRecords
      BY <1>6, <1>0 DEF PublishEnd, ProtoRecords
    <2>2. Event("STREAM_END", 0, generation) \in Events
      BY <1>0 DEF Event, Events
    <2> QED BY <1>6, <1>0, <2>1, <2>2, PushType DEF PublishEnd, TypeOK
  <1>7. CASE HandleStreamClear
    <2>1. proto' \in ProtoRecords
      BY <1>7, <1>0 DEF HandleStreamClear, ProtoRecords
    <2> QED BY <1>7, <1>0, <2>1 DEF HandleStreamClear, TypeOK, FlagNames
  <1>8. CASE AppendMarker
    <2>1. PICK lost \in BOOLEAN : proto' = [proto EXCEPT !.pc = "ready", !.lost = lost]
      <3> DEFINE lost == (Len(list) >= ListRoom)
      <3>1. proto' = [proto EXCEPT !.pc = "ready", !.lost = lost]
        BY <1>8 DEF AppendMarker
      <3>2. lost \in BOOLEAN
        OBVIOUS
      <3> HIDE DEF lost
      <3> QED BY <3>1, <3>2
    <2>2. proto' \in ProtoRecords
      BY <2>1, <1>0 DEF ProtoRecords
    <2> QED BY <1>8, <1>0, <2>2, HandType DEF AppendMarker, TypeOK
  <1>9. CASE Cleanup
    <2>1. proto' \in ProtoRecords
      BY <1>9, <1>0 DEF Cleanup, ProtoRecords
    <2>2. <<>> \in Seq(Events)
      OBVIOUS
    <2>3. generation' = generation + 1 /\ (events' = <<>> \/ events' = events)
      BY <1>9 DEF Cleanup
    <2>4. generation' \in Nat
      BY <1>0, <2>3
    <2>5. events' \in Seq(Events)
      BY <1>0, <2>2, <2>3
    <2> QED BY <1>9, <2>1, <2>4, <2>5 DEF Cleanup, TypeOK
  <1>10. CASE RecallItems
    <2>1. proto' \in ProtoRecords
      BY <1>10, <1>0 DEF RecallItems, ProtoRecords
    <2> QED BY <1>10, <1>0, <2>1 DEF RecallItems, TypeOK
  <1>11. CASE PublishCleared
    <2>1. proto' \in ProtoRecords
      BY <1>11, <1>0 DEF PublishCleared, ProtoRecords
    <2>2. Event("CLEARED", 0, generation) \in Events
      BY <1>0 DEF Event, Events
    <2>3. params' \in [gen : Nat, ordinal : Ordinals \cup {-1}]
      BY <1>11 DEF PublishCleared, NoParams
    <2> QED BY <1>11, <1>0, <2>1, <2>2, <2>3, PushType DEF PublishCleared, TypeOK
  <1> QED
    BY <1>1, <1>2, <1>3, <1>4, <1>5, <1>6, <1>7, <1>8, <1>9, <1>10, <1>11
       DEF ProtocolTask, FinishHandler

\* The main loop's updates keep the type of its record.
LEMMA OwedType == OwedEnd \in Events /\ <<OwedEnd>> \in Seq(Events) /\ <<>> \in Seq(Events)
  <1>1. OwedEnd \in Events
    BY ZeroOrdinal DEF OwedEnd, Event, Events
  <1> QED BY <1>1

LEMMA CaughtUpType ==
    ASSUME NEW m \in MainRecords, NEW gen \in Nat
    PROVE  CaughtUp(m, gen) \in MainRecords
  BY OwedType DEF CaughtUp, MainRecords

LEMMA NextEventType ==
    ASSUME NEW s \in Seq(Events), s # <<>>
    PROVE  Head(s) \in Events /\ Tail(s) \in Seq(Events)
  OBVIOUS

LEMMA AppendType ==
    ASSUME NEW s \in Seq(Events), NEW event \in Events
    PROVE  Append(s, event) \in Seq(Events)
  OBVIOUS

LEMMA DispatchedType ==
    ASSUME NEW m \in MainRecords, NEW event \in Events
    PROVE  Dispatched(m, event) \in MainRecords
  <1>1. CaughtUp(m, event.gen) \in MainRecords
    BY CaughtUpType DEF Events
  <1>2. Append(CaughtUp(m, event.gen).awaiting, event) \in Seq(Events)
    BY <1>1, AppendType DEF MainRecords
  <1>3. [CaughtUp(m, event.gen) EXCEPT !.awaiting = Append(@, event)] \in MainRecords
    BY <1>1, <1>2 DEF MainRecords
  <1> QED BY <1>1, <1>3 DEF Dispatched

LEMMA EndWalkType ==
    ASSUME NEW m \in MainRecords, NEW pc \in MainPlaces
    PROVE  EndWalk(m, pc) \in MainRecords
  BY DEF EndWalk, MainRecords

\* The main loop's steps keep the type of its record.
LEMMA MainRecordType ==
    ASSUME TypeOK, StartWaits, MainLoop
    PROVE  main' \in MainRecords
  <1> USE DEF MainPlaces
  <1>0. /\ main \in MainRecords /\ generation \in Nat /\ events \in Seq(Events)
        /\ main.batch \in Seq(Events) /\ main.awaiting \in Seq(Events)
    BY DEF TypeOK, MainRecords
  <1>1. CaughtUp(main, generation) \in MainRecords
    BY <1>0, CaughtUpType
  <1>2. CASE MainCatchUp
    BY <1>2, <1>1 DEF MainCatchUp, MainRecords
  <1>3. CASE MainTakeEvents
    BY <1>3, <1>0 DEF MainTakeEvents, MainRecords
  <1>4. CASE MainDispatch
    <2>1. Head(main.batch) \in Events /\ Tail(main.batch) \in Seq(Events)
      BY <1>4, <1>0, NextEventType DEF MainDispatch
    <2>2. Dispatched(main, Head(main.batch)) \in MainRecords
      BY <1>0, <2>1, DispatchedType
    <2>3. Dispatched(main, Head(main.batch)).batch = main.batch
      BY <1>0, <2>1, CaughtUpType DEF Dispatched, CaughtUp, MainRecords, Events
    <2> QED BY <1>4, <2>1, <2>2, <2>3 DEF MainDispatch, MainRecords
  <1>5. CASE MainTakeMore
    BY <1>5, <1>0 DEF MainTakeMore, MainRecords
  <1>6. CASE MainDrainHead
    BY <1>6, <1>0, <1>1 DEF MainDrainHead, MainRecords
  <1>7. CASE MainNoDrain
    BY <1>7, <1>0 DEF MainNoDrain, MainRecords
  <1>8. CASE MainGate
    BY <1>8, <1>0, SetType DEF MainGate, SyncIdle, MainRecords
  <1>9. CASE MainEndWalk
    <2>1. [main EXCEPT !.awaitingIdle = (main.awaiting # <<>>)] \in MainRecords
      BY <1>0 DEF MainRecords
    <2> QED BY <1>9, <2>1, EndWalkType DEF MainEndWalk
  <1>10. CASE MainFireEnd
    <2>1. Tail(main.awaiting) \in Seq(Events)
      BY <1>10, <1>0, NextEventType DEF MainFireEnd, At
    <2>2. /\ Closed(main) \in MainRecords /\ Released(Closed(main)) \in MainRecords
          /\ [Released(Closed(main)) EXCEPT !.awaiting = Tail(@)] \in MainRecords
      BY <1>0, <2>1 DEF Closed, Released, MainRecords
    <2> QED BY <1>10, <2>2, EndWalkType DEF MainFireEnd, Resume, StopWithin
  <1>11. CASE MainFireStart
    <2>1. PICK ordinal \in Ordinals \cup {-1} :
            LET open == [main EXCEPT !.streamActive = TRUE, !.hpHeld = TRUE, !.params = ordinal] IN
            Resume(open, [open EXCEPT !.pc = "acknowledge"]) \/ StopWithin(open)
      <3>1. params.ordinal \in Ordinals \cup {-1} /\ main.params \in Ordinals \cup {-1}
        BY <1>0 DEF TypeOK, MainRecords
      <3> QED BY <1>11, <3>1 DEF MainFireStart
    <2> DEFINE open == [main EXCEPT !.streamActive = TRUE, !.hpHeld = TRUE, !.params = ordinal]
    <2>2. open \in MainRecords /\ [open EXCEPT !.pc = "acknowledge"] \in MainRecords
      BY <1>0 DEF MainRecords
    <2>3. Resume(open, [open EXCEPT !.pc = "acknowledge"]) \/ StopWithin(open)
      BY <2>1
    <2> HIDE DEF open
    <2> QED BY <2>2, <2>3, EndWalkType DEF Resume, StopWithin
  <1>12. CASE MainAcknowledge
    BY <1>12, <1>0 DEF MainAcknowledge, MainRecords
  <1>13. CASE MainWakeSync
    <2>1. Tail(main.awaiting) \in Seq(Events)
      BY <1>13, <1>0, NextEventType DEF MainWakeSync, StartWaits
    <2> QED BY <1>13, <1>0, <2>1 DEF MainWakeSync, Woken, MainRecords
  <1>14. CASE MainStop
    BY <1>14, <1>0 DEF MainStop, MainRecords
  <1>15. CASE MainJoinProtocol
    BY <1>15, <1>0 DEF MainJoinProtocol, MainRecords
  <1>16. CASE MainTearDown
    BY <1>16, <1>0, OwedType DEF MainTearDown, MainRecords
  <1>17. CASE MainRestart
    BY <1>17, <1>0 DEF MainRestart
  <1> QED
    BY <1>2, <1>3, <1>4, <1>5, <1>6, <1>7, <1>8, <1>9, <1>10, <1>11, <1>12, <1>13, <1>14, <1>15,
       <1>16, <1>17 DEF MainLoop, MainDrain

\* ... and so do those of what it shares.
LEMMA MainType ==
    ASSUME TypeOK, StartWaits, MainLoop
    PROVE  TypeOK'
  <1> USE ZeroOrdinal, OwedType DEF shared, ButNote, ButEvents, ButFlags
  <1>0. /\ proto \in ProtoRecords /\ sync \in SyncRecords /\ main \in MainRecords
        /\ generation \in Nat /\ proto.ordinal \in Ordinals
    BY DEF TypeOK, ProtoRecords
  <1>1. NoParams \in [gen : Nat, ordinal : Ordinals \cup {-1}]
    BY DEF NoParams
  <1>2. CASE MainAcknowledge
    <2>1. Head(main.awaiting).ordinal \in Ordinals
      BY <1>2, <1>0, NextEventType DEF MainAcknowledge, StartWaits, MainRecords, Events
    <2> QED BY <1>2, <2>1, MainRecordType DEF MainAcknowledge, TypeOK
  <1>3. CASE MainJoinProtocol
    <2>1. proto.stops + 1 \in Nat
      BY <1>0 DEF ProtoRecords
    <2>2. proto' \in ProtoRecords
      BY <1>3, <1>0, <2>1 DEF MainJoinProtocol, ProtoRecords, ProtoPlaces
    <2> QED BY <1>3, <2>2, MainRecordType DEF MainJoinProtocol, TypeOK, FlagNames
  <1>4. CASE MainTearDown
    <2>1. generation + 1 \in Nat
      BY <1>0
    <2>2. Event("CLEARED", 0, generation + 1) \in Events
      BY <2>1 DEF Event, Events
    <2>3. <<Event("CLEARED", 0, generation + 1)>> \in Seq(Events)
      BY <2>2
    <2>4. TornDownFlags \subseteq FlagNames /\ <<>> \in Seq(Items)
      BY DEF TypeOK, TornDownFlags, FlagNames
    <2> QED BY <1>4, <1>0, <1>1, <2>1, <2>3, <2>4, MainRecordType DEF MainTearDown, TypeOK
  <1>5. CASE MainRestart
    <2>1. proto' \in ProtoRecords
      BY <1>5, <1>0 DEF MainRestart, ProtoRecords, ProtoPlaces
    <2>2. sync' \in SyncRecords
      BY <1>5, <1>0, SyncGoesType DEF MainRestart, SyncPlaces
    <2> QED BY <1>5, <2>1, <2>2, MainRecordType DEF MainRestart, TypeOK
  <1>6. CASE MainDrain /\ ~MainAcknowledge /\ ~MainJoinProtocol /\ ~MainTearDown
    <2>1. /\ UNCHANGED <<proto, sync, generation, list, ended, started>>
          /\ flags' \in {flags, flags \cup {"START"}} /\ idleNote' \in {idleNote, FALSE}
          /\ params' \in {params, NoParams} /\ events' \in {events, <<>>}
      BY <1>6 DEF MainDrain, MainCatchUp, MainTakeEvents, MainDispatch, MainTakeMore,
         MainDrainHead, MainNoDrain, MainGate, MainEndWalk, MainFireEnd, MainFireStart,
         MainWakeSync
    <2> QED BY <2>1, <1>1, MainRecordType DEF TypeOK, FlagNames
  <1>7. CASE MainStop
    BY <1>7, MainRecordType DEF MainStop, TypeOK
  <1> QED BY <1>2, <1>3, <1>4, <1>5, <1>6, <1>7 DEF MainLoop, MainDrain

-----------------------------------------------------------------------------
(* The parts of the inductive invariant *)

\* A header reaches the acknowledgement only in hand: the wait found it, or the discarding kept it.
LEMMA HeaderHeldStep ==
    ASSUME TypeOK, HeaderHeld, [Next]_vars
    PROVE  HeaderHeld'
  <1> USE DEF HeaderHeld, SyncAt, SyncGoes
  <1>0. sync \in SyncRecords /\ list \in Seq(Items) /\ sync.held \in MaybeItem
        /\ sync.next \in MaybeItem
    BY DEF TypeOK, SyncRecords
  <1>1. \A item \in MaybeItem : item # NoItem => item \in Items
    BY DEF MaybeItem
  <1>2. CASE SyncTakeHeader
    <2>1. Head(list) \in Items
      BY <1>2, <1>0, TakenType DEF SyncTakeHeader, ItemReady
    <2> QED BY <1>2, <1>0, <2>1 DEF SyncTakeHeader, SyncRecords
  <1>3. CASE SyncEnterIdle
    <2>1. IsPendingHeader(sync.next) => sync.next \in Items
      BY <1>0, <1>1 DEF IsPendingHeader, NoItem
    <2> QED BY <1>3, <1>0, <2>1 DEF SyncEnterIdle, Reset, SyncRecords
  <1>4. CASE SyncApplyClear
    BY <1>4, <1>0, <1>1 DEF SyncApplyClear, SyncRecords
  <1>5. CASE SyncGotHeader \/ SyncAwaitAck \/ SyncClearStart \/ SyncReadStarted \/ SyncWakeAck
    BY <1>5, <1>0 DEF SyncGotHeader, SyncAwaitAck, SyncClearStart, SyncReadStarted, SyncWakeAck,
       BeginDiscard, SyncRecords
  <1>6. CASE SyncReadIdle \/ SyncWaitHeader \/ SyncTakeNothing
    <2>1. PICK pc \in {"exit", "clearIdle", "noHeader", "take", "waitHeader"} : sync'.pc = pc
      BY <1>6, <1>0 DEF SyncReadIdle, SyncWaitHeader, SyncTakeNothing, SyncRecords
    <2> QED BY <2>1
  <1>7. CASE SyncClearIdle
    BY <1>7, <1>0 DEF SyncClearIdle, SyncRecords
  <1>8. CASE SyncNoHeader
    BY <1>8, <1>0 DEF SyncNoHeader, BeginDiscard, SyncRecords
  <1>9. CASE SyncDiscard
    BY <1>9, <1>0 DEF SyncDiscard, SyncRecords
  <1>10. CASE SyncDiscardedAll \/ SyncRelease \/ SyncLeft
    BY <1>10, <1>0 DEF SyncDiscardedAll, SyncRelease, SyncLeft, SyncRecords
  <1>11. CASE SyncActivate \/ SyncRun \/ SyncLoop \/ SyncWrite \/ SyncLoad \/ SyncLoadNothing
             \/ SyncDecode \/ SyncExit
    <2>1. CASE SyncActivate \/ SyncRun \/ SyncExit
      BY <2>1, <1>0 DEF SyncActivate, SyncRun, SyncExit, SyncRecords
    <2>4. CASE SyncWrite \/ SyncDecode
      <3>1. sync'.pc = "loop"
        <4>1. CASE SyncWrite
          BY <4>1, <1>0 DEF SyncWrite, SyncRecords
        <4>2. CASE SyncDecode
          BY <4>2, <1>0 DEF SyncDecode, SyncRecords
        <4> QED BY <2>4, <4>1, <4>2
      <3> QED BY <3>1
    <2>2. CASE SyncLoop
      BY <2>2, <1>0 DEF SyncLoop, BeginDiscard, SyncRecords
    <2>3. CASE SyncLoad \/ SyncLoadNothing
      BY <2>3, <1>0 DEF SyncLoad, SyncLoadNothing, SyncRecords
    <2> QED BY <1>11, <2>1, <2>2, <2>3, <2>4
  <1>12. CASE SyncSkipStale
    BY <1>12 DEF SyncSkipStale
  <1>13. CASE MainRestart
    BY <1>13, <1>0 DEF MainRestart, SyncRecords
  <1>14. CASE ProtocolTask \/ MainDrain \/ MainStop \/ UNCHANGED vars
    <2>1. UNCHANGED sync
      BY <1>14 DEF ProtocolTask, HandleBinary, HandleStreamStart, HandleStreamEnd,
         HandleStreamClear, Cleanup, FinishHandler, PublishStart, SignalEnd, PublishEnd,
         AppendMarker, RecallItems, PublishCleared, MainDrain, MainCatchUp, MainTakeEvents,
         MainDispatch, MainTakeMore, MainDrainHead, MainNoDrain, MainGate, MainEndWalk,
         MainFireEnd, MainFireStart, MainAcknowledge, MainWakeSync, MainJoinProtocol,
         MainTearDown, MainStop, vars
    <2> QED BY <2>1
  <1> QED
    BY <1>2, <1>3, <1>4, <1>5, <1>6, <1>7, <1>8, <1>9, <1>10, <1>11, <1>12, <1>13, <1>14
       DEF Next, SyncTask, MainLoop

\* What the protocol task changes of what the main loop's part of the invariant speaks of.
LEMMA ProtocolChanges ==
    ASSUME proto \in ProtoRecords, ProtocolTask
    PROVE  /\ UNCHANGED <<main, sync>>
           /\ proto.pc # "joined" /\ proto'.pc # "joined"
  BY DEF ProtocolTask, HandleBinary, HandleStreamStart, HandleStreamEnd,
     HandleStreamClear, Cleanup, FinishHandler, PublishStart, SignalEnd, PublishEnd,
     AppendMarker, RecallItems, PublishCleared, Receive, Step, ProtoRecords

\* No action but the main loop's own takes events from it, and none but MainFireStart leaves the
\* walk at a start.
LEMMA StartWaitsStep ==
    ASSUME TypeOK, StartWaits, [Next]_vars
    PROVE  StartWaits'
  <1> USE DEF StartWaits
  <1>0. main \in MainRecords
    BY DEF TypeOK
  <1>1. CASE ProtocolTask \/ SyncTask \/ MainRestart \/ UNCHANGED vars
    BY <1>1, ProtocolChanges, SyncChanges DEF TypeOK, MainRestart, vars
  <1>2. CASE MainFireStart
    <2>1. main.awaiting # <<>> /\ Head(main.awaiting).type = "STREAM_START"
      BY <1>2 DEF MainFireStart, At
    <2> QED BY <1>2, <1>0, <2>1 DEF MainFireStart, At, Resume, StopWithin, EndWalk, MainRecords
  <1>3. CASE MainAcknowledge
    BY <1>3, <1>0 DEF MainAcknowledge, MainRecords
  <1>4. CASE MainDispatch
    BY <1>4, <1>0 DEF MainDispatch, Dispatched, CaughtUp, MainRecords
  <1>5. CASE MainCatchUp \/ MainDrainHead
    BY <1>5, <1>0 DEF MainCatchUp, MainDrainHead, CaughtUp, MainRecords
  <1>6. CASE MainGate
    BY <1>6, <1>0 DEF MainGate, MainRecords
  <1>7. CASE MainFireEnd
    BY <1>7, <1>0 DEF MainFireEnd, At, Resume, StopWithin, EndWalk, Closed, Released, MainRecords
  <1>8. CASE MainTakeEvents \/ MainTakeMore \/ MainNoDrain \/ MainEndWalk \/ MainWakeSync
             \/ MainJoinProtocol \/ MainTearDown \/ MainStop
    BY <1>8, <1>0 DEF MainTakeEvents, MainTakeMore, MainNoDrain, MainEndWalk, MainWakeSync,
       MainJoinProtocol, MainTearDown, MainStop, EndWalk, Woken, MainRecords
  <1> QED BY <1>1, <1>2, <1>3, <1>4, <1>5, <1>6, <1>7, <1>8 DEF Next, MainLoop, MainDrain

\* Stamps stay at or below the generation when it moves on, and when events come and go.
LEMMA NoneAheadLater ==
    ASSUME NEW s \in Seq(Events), NEW gen \in Nat, NEW later \in Nat, gen <= later,
           NoneAhead(s, gen)
    PROVE  NoneAhead(s, later)
  <1>1. ASSUME NEW i \in 1 .. Len(s) PROVE s[i].gen <= later
    <2>0. s[i] \in Events
      OBVIOUS
    <2>1. s[i].gen \in Nat
      BY <2>0 DEF Events
    <2>2. s[i].gen <= gen
      BY DEF NoneAhead
    <2> QED BY <2>1, <2>2
  <1> QED BY <1>1 DEF NoneAhead

LEMMA NoneAheadEmpty ==
    ASSUME NEW gen
    PROVE  NoneAhead(<<>>, gen)
  BY DEF NoneAhead

LEMMA NoneAheadAppend ==
    ASSUME NEW s \in Seq(Events), NEW gen \in Nat, NoneAhead(s, gen),
           NEW event \in Events, event.gen <= gen
    PROVE  NoneAhead(Append(s, event), gen)
  BY DEF NoneAhead

LEMMA NoneAheadNext ==
    ASSUME NEW s \in Seq(Events), s # <<>>, NEW gen \in Nat, NoneAhead(s, gen)
    PROVE  Head(s).gen <= gen /\ NoneAhead(Tail(s), gen)
  BY DEF NoneAhead

\* What a catch-up leaves of the main loop's record.
LEMMA CaughtUpFields ==
    ASSUME NEW m \in MainRecords, NEW gen \in Nat
    PROVE  /\ CaughtUp(m, gen).completed = IF gen > m.completed THEN gen ELSE m.completed
           /\ CaughtUp(m, gen).awaiting = IF gen > m.completed THEN <<OwedEnd>> ELSE m.awaiting
           /\ CaughtUp(m, gen).hpHeld = IF gen > m.completed THEN FALSE ELSE m.hpHeld
           /\ CaughtUp(m, gen).awaitingIdle = IF gen > m.completed THEN FALSE ELSE m.awaitingIdle
           /\ CaughtUp(m, gen).streamActive = m.streamActive
           /\ CaughtUp(m, gen).batch = m.batch
           /\ CaughtUp(m, gen).pc = m.pc
  BY DEF CaughtUp, MainRecords

LEMMA DispatchedFields ==
    ASSUME generation \in Nat, NEW m \in MainRecords, NEW event \in Events,
           m.completed <= generation, event.gen <= generation
    PROVE  /\ Dispatched(m, event).completed <= generation
           /\ Dispatched(m, event).batch = m.batch
           /\ Dispatched(m, event).pc = m.pc
  <1>1. event.gen \in Nat /\ m.completed \in Nat
    BY DEF Events, MainRecords
  <1>2. CaughtUp(m, event.gen) \in MainRecords
    BY <1>1, CaughtUpType
  <1> QED BY <1>1, <1>2, CaughtUpFields DEF Dispatched, MainRecords

LEMMA StampedStep ==
    ASSUME TypeOK, Stamped, [Next]_vars
    PROVE  Stamped'
  <1> USE DEF Stamped
  <1>0. /\ main \in MainRecords /\ generation \in Nat /\ events \in Seq(Events)
        /\ main.batch \in Seq(Events) /\ main.completed \in Nat /\ proto \in ProtoRecords
    BY DEF TypeOK, MainRecords
  <1>1. CASE PublishStart \/ PublishEnd \/ PublishCleared
    <2>1. PICK event \in Events : event.gen = generation /\ Push(event)
      <3>1. /\ Event("STREAM_START", proto.ordinal, generation) \in Events
            /\ Event("STREAM_END", 0, generation) \in Events
            /\ Event("CLEARED", 0, generation) \in Events
        BY <1>0, ZeroOrdinal DEF Event, Events, ProtoRecords
      <3> QED BY <1>1, <3>1 DEF PublishStart, PublishEnd, PublishCleared, Event
    <2>2. UNCHANGED <<main, generation>>
      BY <1>1 DEF PublishStart, PublishEnd, PublishCleared, ButEvents
    <2>3. NoneAhead(Append(events, event), generation)
      BY <2>1, <1>0, NoneAheadAppend
    <2>4. events' = events \/ events' = Append(events, event)
      BY <2>1 DEF Push
    <2> QED BY <2>2, <2>3, <2>4
  <1>2. CASE Cleanup
    <2>1. UNCHANGED main /\ generation' = generation + 1 /\ (events' = events \/ events' = <<>>)
      BY <1>2 DEF Cleanup
    <2>2. NoneAhead(main.batch, generation + 1) /\ NoneAhead(events, generation + 1)
      BY <1>0, NoneAheadLater
    <2>3. main.completed <= generation + 1 /\ (main.pc = "drain" => main.completed < generation + 1)
      BY <1>0
    <2> QED BY <2>1, <2>2, <2>3, NoneAheadEmpty
  <1>3. CASE ProtocolTask /\ ~PublishStart /\ ~PublishEnd /\ ~PublishCleared /\ ~Cleanup
    <2>1. UNCHANGED <<main, generation, events>>
      BY <1>3 DEF ProtocolTask, HandleBinary, HandleStreamStart, HandleStreamEnd,
         HandleStreamClear, FinishHandler, SignalEnd, AppendMarker, RecallItems, ButList,
         ButFlags, ButEnded
    <2> QED BY <2>1
  <1>4. CASE SyncTask \/ MainRestart \/ UNCHANGED vars
    BY <1>4, SyncChanges DEF MainRestart, vars, shared, ButFlags
  <1>5. CASE MainCatchUp \/ MainDrainHead
    <2>1. CaughtUp(main, generation) \in MainRecords
      BY <1>0, CaughtUpType
    <2>2. /\ main'.completed = CaughtUp(main, generation).completed
          /\ main'.batch = CaughtUp(main, generation).batch
          /\ main'.pc # "drain"
      BY <1>5, <2>1 DEF MainCatchUp, MainDrainHead, MainRecords
    <2>3. UNCHANGED <<generation, events>>
      BY <1>5 DEF MainCatchUp, MainDrainHead, shared, ButNote
    <2>4. /\ CaughtUp(main, generation).completed
               = IF generation > main.completed THEN generation ELSE main.completed
          /\ CaughtUp(main, generation).batch = main.batch
      BY <1>0, CaughtUpFields
    <2>5. main'.completed <= generation /\ main'.batch = main.batch
      BY <1>0, <2>2, <2>4
    <2> QED BY <2>2, <2>3, <2>5
  <1>6. CASE MainTakeEvents
    BY <1>6, <1>0, NoneAheadEmpty DEF MainTakeEvents, MainRecords, ButEvents
  <1>7. CASE MainDispatch
    <2>1. /\ Head(main.batch) \in Events /\ Head(main.batch).gen <= generation
          /\ NoneAhead(Tail(main.batch), generation)
      BY <1>7, <1>0, NextEventType, NoneAheadNext DEF MainDispatch
    <2>2. Dispatched(main, Head(main.batch)) \in MainRecords
      BY <1>0, <2>1, DispatchedType
    <2>3. /\ main' = [Dispatched(main, Head(main.batch)) EXCEPT
                        !.batch = Tail(Dispatched(main, Head(main.batch)).batch)]
          /\ main.pc = "dispatch" /\ UNCHANGED <<generation, events>>
      BY <1>7 DEF MainDispatch, shared
    <2> QED BY <1>0, <2>1, <2>2, <2>3, DispatchedFields DEF MainRecords
  <1>8. CASE MainTearDown
    <2>1. /\ main' = [main EXCEPT !.pc = "drain", !.batch = <<>>]
          /\ generation' = generation + 1 /\ events' = <<Event("CLEARED", 0, generation + 1)>>
      BY <1>8 DEF MainTearDown
    <2>2. NoneAhead(events', generation')
      BY <2>1, <1>0 DEF NoneAhead, Event
    <2> QED BY <1>0, <2>1, <2>2, NoneAheadEmpty DEF MainRecords
  <1>9. CASE MainLoop /\ ~MainCatchUp /\ ~MainTakeEvents /\ ~MainDispatch /\ ~MainDrainHead
             /\ ~MainTearDown /\ ~MainRestart
    <2>1. UNCHANGED <<generation, events>>
      BY <1>9 DEF MainLoop, MainDrain, MainTakeMore, MainNoDrain, MainGate, MainEndWalk,
         MainFireEnd, MainFireStart, MainAcknowledge, MainWakeSync, MainJoinProtocol, MainStop,
         shared, ButFlags
    <2>2. main'.completed = main.completed /\ main'.batch = main.batch /\ main'.pc # "drain"
      BY <1>9, <1>0 DEF MainLoop, MainDrain, MainTakeMore, MainNoDrain, MainGate, MainEndWalk,
         MainFireEnd, MainFireStart, MainAcknowledge, MainWakeSync, MainJoinProtocol, MainStop,
         At, Resume, StopWithin, EndWalk, Closed, Released, Woken, MainRecords
    <2> QED BY <2>1, <2>2
  <1> QED
    BY <1>1, <1>2, <1>3, <1>4, <1>5, <1>6, <1>7, <1>8, <1>9 DEF Next

\* The events waiting are of the connection caught up with, since a catch-up replaces them.
LEMMA AwaitingStep ==
    ASSUME TypeOK, StartWaits, Stamped, AwaitingIsCurrent, [Next]_vars
    PROVE  AwaitingIsCurrent'
  <1> DEFINE Fits(s, gen) == \A i \in 1 .. Len(s) : s[i] = OwedEnd \/ s[i].gen = gen
  <1> USE DEF AwaitingIsCurrent
  <1>0. /\ main \in MainRecords /\ generation \in Nat /\ main.completed \in Nat
        /\ main.awaiting \in Seq(Events) /\ main.batch \in Seq(Events)
    BY DEF TypeOK, MainRecords
  <1>1. Fits(main.awaiting, main.completed)
    OBVIOUS
  <1>2. ASSUME NEW gen \in Nat
        PROVE  Fits(CaughtUp(main, gen).awaiting, CaughtUp(main, gen).completed)
    <2>1. CASE gen > main.completed
      <3>1. CaughtUp(main, gen).awaiting = <<OwedEnd>>
        BY <2>1, <1>0, <1>2, CaughtUpFields
      <3> QED BY <3>1
    <2>2. CASE ~(gen > main.completed)
      <3>1. /\ CaughtUp(main, gen).awaiting = main.awaiting
            /\ CaughtUp(main, gen).completed = main.completed
        BY <2>2, <1>0, <1>2, CaughtUpFields
      <3> QED BY <3>1, <1>1
    <2> QED BY <2>1, <2>2
  <1>3. main.awaiting # <<>> => Fits(Tail(main.awaiting), main.completed)
    BY <1>0, <1>1
  <1>4. CASE ProtocolTask \/ SyncTask \/ MainRestart \/ UNCHANGED vars
    BY <1>4, ProtocolChanges, SyncChanges DEF TypeOK, MainRestart, vars
  <1>5. CASE MainCatchUp \/ MainDrainHead
    <2>1. CaughtUp(main, generation) \in MainRecords
      BY <1>0, CaughtUpType
    <2>2. /\ main'.completed = CaughtUp(main, generation).completed
          /\ main'.awaiting = CaughtUp(main, generation).awaiting
      BY <1>5, <2>1 DEF MainCatchUp, MainDrainHead, MainRecords
    <2> QED BY <1>0, <1>2, <2>2
  <1>6. CASE MainDispatch
    <2> DEFINE event == Head(main.batch)
    <2>1. event \in Events /\ event.gen \in Nat /\ event.gen <= generation
      BY <1>6, <1>0, NextEventType, NoneAheadNext DEF MainDispatch, Stamped, Events
    <2>2. CaughtUp(main, event.gen) \in MainRecords /\ Dispatched(main, event) \in MainRecords
      BY <1>0, <2>1, CaughtUpType, DispatchedType
    <2>3. /\ main'.completed = Dispatched(main, event).completed
          /\ main'.awaiting = Dispatched(main, event).awaiting
      BY <1>6, <2>2 DEF MainDispatch, MainRecords
    <2> HIDE DEF event
    <2>4. CASE event.type = "CLEARED"
      BY <2>1, <2>3, <2>4, <1>2 DEF Dispatched
    <2>5. CASE event.type # "CLEARED" /\ event.gen # generation
      BY <2>3, <2>5, <1>1 DEF Dispatched
    <2>6. CASE event.type # "CLEARED" /\ event.gen = generation
      <3> DEFINE waiting == CaughtUp(main, event.gen).awaiting
      <3>1. CaughtUp(main, event.gen).completed = event.gen
        <4>1. CaughtUp(main, event.gen).completed
                = IF event.gen > main.completed THEN event.gen ELSE main.completed
          BY <2>1, <1>0, CaughtUpFields
        <4>2. main.completed <= generation
          BY DEF Stamped
        <4> QED BY <2>1, <2>6, <1>0, <4>1, <4>2
      <3>2. /\ main'.completed = CaughtUp(main, event.gen).completed
            /\ main'.awaiting = Append(waiting, event)
        BY <2>2, <2>3, <2>6 DEF Dispatched, MainRecords
      <3>3. Fits(waiting, event.gen) /\ waiting \in Seq(Events)
        BY <1>2, <2>1, <2>2, <3>1 DEF MainRecords
      <3> HIDE DEF waiting
      <3>4. Fits(Append(waiting, event), event.gen)
        BY <2>1, <3>3
      <3> QED BY <3>1, <3>2, <3>4
    <2> QED BY <2>4, <2>5, <2>6
  <1>7. CASE MainFireEnd \/ MainWakeSync
    <2>1. main'.completed = main.completed /\ main.awaiting # <<>>
      BY <1>7, <1>0 DEF MainFireEnd, MainWakeSync, StartWaits, At, Resume, StopWithin, EndWalk,
         Closed, Released, Woken, MainRecords
    <2>2. main'.awaiting = main.awaiting \/ main'.awaiting = Tail(main.awaiting)
      BY <1>7, <1>0 DEF MainFireEnd, MainWakeSync, At, Resume, StopWithin, EndWalk, Closed,
         Released, Woken, MainRecords
    <2> QED BY <1>1, <1>3, <2>1, <2>2
  <1>8. CASE MainLoop /\ ~MainCatchUp /\ ~MainDispatch /\ ~MainDrainHead /\ ~MainFireEnd
             /\ ~MainWakeSync /\ ~MainRestart
    <2>1. main'.completed = main.completed /\ main'.awaiting = main.awaiting
      BY <1>8, <1>0 DEF MainLoop, MainDrain, MainTakeEvents, MainTakeMore, MainNoDrain, MainGate,
         MainEndWalk, MainFireStart, MainAcknowledge, MainJoinProtocol, MainTearDown, MainStop,
         Resume, StopWithin, EndWalk, MainRecords
    <2> QED BY <2>1
  <1> QED BY <1>4, <1>5, <1>6, <1>7, <1>8 DEF Next

\* A walk leaves the hold and the stream in agreement, and a catch-up restores it behind a stop().
LEMMA HoldStep ==
    ASSUME TypeOK, StartWaits, Stamped, HoldWalks, [Next]_vars
    PROVE  HoldWalks'
  <1> USE DEF HoldWalks
  <1>0. /\ main \in MainRecords /\ generation \in Nat /\ main.completed \in Nat
        /\ main.awaiting \in Seq(Events) /\ main.batch \in Seq(Events)
        /\ main.hpHeld \in BOOLEAN /\ main.streamActive \in BOOLEAN
    BY DEF TypeOK, MainRecords
  <1>1. ASSUME NEW gen \in Nat, HoldMatches(main) \/ gen > main.completed
        PROVE  HoldMatches(CaughtUp(main, gen))
    <2>1. CASE gen > main.completed
      <3>1. /\ CaughtUp(main, gen).awaiting = <<OwedEnd>> /\ CaughtUp(main, gen).hpHeld = FALSE
            /\ CaughtUp(main, gen).streamActive = main.streamActive
        BY <2>1, <1>0, CaughtUpFields
      <3>2. CASE main.streamActive = FALSE
        BY <3>1, <3>2 DEF HoldMatches
      <3>3. CASE main.streamActive = TRUE
        BY <3>1, <3>3 DEF HoldMatches
      <3> QED BY <1>0, <3>2, <3>3
    <2>2. CASE ~(gen > main.completed)
      BY <2>2, <1>0, <1>1, CaughtUpFields DEF HoldMatches
    <2> QED BY <2>1, <2>2
  <1>2. CASE ProtocolTask \/ SyncTask \/ MainRestart \/ UNCHANGED vars
    BY <1>2, ProtocolChanges, SyncChanges DEF TypeOK, MainRestart, vars
  <1>3. CASE MainCatchUp \/ MainDrainHead
    <2>1. CaughtUp(main, generation) \in MainRecords
      BY <1>0, CaughtUpType
    <2>2. /\ main'.hpHeld = CaughtUp(main, generation).hpHeld
          /\ main'.streamActive = CaughtUp(main, generation).streamActive
          /\ main'.awaiting = CaughtUp(main, generation).awaiting
      BY <1>3, <2>1 DEF MainCatchUp, MainDrainHead, MainRecords
    <2>3. main.pc \in {"drain", "tick", "dispatch"}
      BY <1>3 DEF MainCatchUp, MainDrainHead
    <2>4. HoldMatches(main) \/ generation > main.completed
      BY <1>0, <2>3 DEF Stamped
    <2>5. HoldMatches(CaughtUp(main, generation))
      BY <1>0, <1>1, <2>4
    <2> QED BY <2>2, <2>5 DEF HoldMatches
  <1>4. CASE MainDispatch
    <2> DEFINE event == Head(main.batch)
    <2>1. event \in Events /\ event.gen \in Nat
      BY <1>4, <1>0, NextEventType DEF MainDispatch, Events
    <2>2. CaughtUp(main, event.gen) \in MainRecords /\ Dispatched(main, event) \in MainRecords
      BY <1>0, <2>1, CaughtUpType, DispatchedType
    <2>3. /\ main'.hpHeld = Dispatched(main, event).hpHeld
          /\ main'.streamActive = Dispatched(main, event).streamActive
          /\ main'.awaiting = Dispatched(main, event).awaiting
          /\ main.pc = "dispatch"
      BY <1>4, <2>2 DEF MainDispatch, MainRecords
    <2> HIDE DEF event
    <2>4. HoldMatches(CaughtUp(main, event.gen))
      BY <1>1, <2>1, <2>3
    <2>5. HoldMatches(Dispatched(main, event))
      <3> DEFINE caught == CaughtUp(main, event.gen)
                 added == [caught EXCEPT !.awaiting = Append(caught.awaiting, event)]
      <3>1. caught.awaiting \in Seq(Events)
        BY <2>2 DEF MainRecords
      <3>2. /\ added.awaiting = Append(caught.awaiting, event)
            /\ added.hpHeld = caught.hpHeld /\ added.streamActive = caught.streamActive
        BY <2>2 DEF MainRecords
      <3>3. caught.awaiting # <<>>
              => added.awaiting # <<>> /\ Head(added.awaiting) = Head(caught.awaiting)
        BY <2>1, <3>1, <3>2
      <3> HIDE DEF caught, added
      <3>4. HoldMatches(caught) => HoldMatches(added)
        BY <3>2, <3>3 DEF HoldMatches
      <3>5. HoldMatches(added)
        BY <2>4, <3>4 DEF caught
      <3> QED BY <2>3, <2>4, <3>5 DEF Dispatched, added, caught
    <2> QED BY <2>3, <2>5 DEF HoldMatches
  <1>5. CASE MainFireEnd
    <2>1. \/ main'.hpHeld = FALSE /\ main'.streamActive = FALSE
          \/ main'.pc = "stop"
      BY <1>5, <1>0 DEF MainFireEnd, At, Resume, StopWithin, EndWalk, Closed, Released, MainRecords
    <2> QED BY <2>1 DEF HoldMatches
  <1>6. CASE MainFireStart
    <2>1. main'.hpHeld = TRUE /\ main'.streamActive = TRUE
      BY <1>6, <1>0 DEF MainFireStart, Resume, StopWithin, EndWalk, MainRecords
    <2> QED BY <2>1 DEF HoldMatches
  <1>7. CASE MainWakeSync
    <2>1. Head(main.awaiting) # OwedEnd
      BY <1>7 DEF MainWakeSync, StartWaits, OwedEnd, Event
    <2>2. main.hpHeld = main.streamActive
      BY <1>7, <2>1 DEF MainWakeSync, HoldMatches
    <2>3. main'.hpHeld = main.hpHeld /\ main'.streamActive = main.streamActive
      BY <1>7, <1>0 DEF MainWakeSync, Woken, MainRecords
    <2> QED BY <2>2, <2>3 DEF HoldMatches
  <1>8. CASE MainLoop /\ ~MainCatchUp /\ ~MainDispatch /\ ~MainDrainHead /\ ~MainFireEnd
             /\ ~MainFireStart /\ ~MainWakeSync /\ ~MainRestart
    <2>1. /\ main'.hpHeld = main.hpHeld /\ main'.streamActive = main.streamActive
          /\ main'.awaiting = main.awaiting
          /\ main.pc \in {"stop", "join", "drain"} => main'.pc \in {"stop", "join", "drain"}
      BY <1>8, <1>0 DEF MainLoop, MainDrain, MainTakeEvents, MainTakeMore, MainNoDrain, MainGate,
         MainEndWalk, MainAcknowledge, MainJoinProtocol, MainTearDown, MainStop, At, EndWalk,
         MainRecords
    <2> QED BY <2>1 DEF HoldMatches
  <1> QED BY <1>2, <1>3, <1>4, <1>5, <1>6, <1>7, <1>8 DEF Next

\* The protocol task stays joined until the drain of stop() is over.
LEMMA JoinedAtStep ==
    ASSUME TypeOK, JoinedAt, [Next]_vars
    PROVE  JoinedAt'
  <1> USE DEF JoinedAt
  <1>0. main \in MainRecords /\ proto \in ProtoRecords
    BY DEF TypeOK
  <1>1. CASE ProtocolTask \/ SyncTask \/ UNCHANGED vars
    BY <1>1, <1>0, ProtocolChanges, SyncChanges DEF vars
  <1>2. CASE MainJoinProtocol \/ MainRestart \/ MainTearDown
    BY <1>2, <1>0 DEF MainJoinProtocol, MainRestart, MainTearDown, MainRecords, ProtoRecords
  <1>3. CASE MainCatchUp \/ MainDrainHead \/ MainDispatch
    <2>1. generation \in Nat /\ main.batch \in Seq(Events)
      BY DEF TypeOK, MainRecords
    <2>2. CaughtUp(main, generation) \in MainRecords
      BY <1>0, <2>1, CaughtUpType
    <2>3. CASE MainDispatch
      <3>1. Head(main.batch) \in Events
        BY <2>1, <2>3, NextEventType DEF MainDispatch
      <3>2. /\ Dispatched(main, Head(main.batch)) \in MainRecords
            /\ Dispatched(main, Head(main.batch)).pc = main.pc
        <4> DEFINE event == Head(main.batch)
                   caught == CaughtUp(main, event.gen)
        <4>1. event.gen \in Nat
          BY <3>1 DEF Events
        <4>2. caught \in MainRecords /\ caught.pc = main.pc
          BY <1>0, <4>1, CaughtUpType, CaughtUpFields
        <4>3. [caught EXCEPT !.awaiting = Append(caught.awaiting, event)].pc = main.pc
          BY <4>2 DEF MainRecords
        <4>4. Dispatched(main, event)
                \in {main, caught, [caught EXCEPT !.awaiting = Append(caught.awaiting, event)]}
          BY DEF Dispatched
        <4>5. Dispatched(main, event) \in MainRecords
          BY <1>0, <3>1, DispatchedType
        <4> HIDE DEF caught
        <4> QED BY <4>2, <4>3, <4>4, <4>5
      <3> QED BY <2>3, <3>2 DEF MainDispatch, MainRecords
    <2> QED BY <1>3, <2>2, <2>3 DEF MainCatchUp, MainDrainHead, MainRecords
  <1>4. CASE MainLoop /\ ~MainJoinProtocol /\ ~MainRestart /\ ~MainTearDown /\ ~MainCatchUp
             /\ ~MainDrainHead /\ ~MainDispatch
    <2>1. UNCHANGED proto /\ main'.pc \notin {"join", "drain"}
      BY <1>4, <1>0 DEF MainLoop, MainDrain, MainTakeEvents, MainTakeMore, MainNoDrain, MainGate,
         MainEndWalk, MainFireEnd, MainFireStart, MainAcknowledge, MainWakeSync, MainStop, Resume,
         StopWithin, EndWalk, Closed, Released, Woken, At, MainRecords
    <2> QED BY <2>1
  <1> QED BY <1>1, <1>2, <1>3, <1>4 DEF Next

\* The sync task's thread is over once it has exited.
LEMMA SyncStopped ==
    ASSUME SyncTask
    PROVE  sync.pc # "stopped"
  BY DEF SyncTask, SyncSkipStale, SyncReadIdle, SyncClearIdle, SyncEnterIdle, SyncWaitHeader,
     SyncTakeHeader, SyncTakeNothing, SyncGotHeader, SyncNoHeader, SyncDiscard, SyncDiscardedAll,
     SyncApplyClear, SyncAwaitAck, SyncClearStart, SyncReadStarted, SyncWakeAck, SyncRelease,
     SyncLeft, SyncActivate, SyncRun, SyncLoop, SyncWrite, SyncLoad, SyncLoadNothing, SyncDecode,
     SyncExit, SyncAt

\* With the protocol task joined, an action is one of the sync task's last or the drain's next.
LEMMA JoinedStep ==
    ASSUME TypeOK, StartWaits, Stamped, Joined, JoinedAt, [Next]_vars
    PROVE  Joined'
  <1> DEFINE OnlyCleared(s) == \A i \in 1 .. Len(s) : s[i].type = "CLEARED"
  <1>0. /\ main \in MainRecords /\ proto \in ProtoRecords /\ generation \in Nat
        /\ main.completed \in Nat /\ events \in Seq(Events)
        /\ main.awaiting \in Seq(Events) /\ main.batch \in Seq(Events)
    BY DEF TypeOK, MainRecords
  <1>1. CASE ProtocolTask
    BY <1>1, <1>0, ProtocolChanges DEF Joined
  <1>2. CASE SyncTask
    BY <1>2, SyncChanges, SyncStopped DEF Joined
  <1>3. CASE UNCHANGED vars
    BY <1>3 DEF vars, shared, Joined, DrainsOfStop, Closes
  <1>4. CASE MainJoinProtocol
    BY <1>4, <1>0 DEF MainJoinProtocol, Joined, MainRecords
  <1>5. CASE MainRestart
    BY <1>5, <1>0 DEF MainRestart, Joined, ProtoRecords
  <1>6. CASE MainTearDown
    <2>1. /\ main' = [main EXCEPT !.pc = "drain", !.batch = <<>>]
          /\ sync'.pc = "stopped" /\ "RUNNING" \notin flags'
          /\ events' = <<Event("CLEARED", 0, generation + 1)>>
      BY <1>6 DEF MainTearDown, TornDownFlags, SyncAt
    <2>2. OnlyCleared(events')
      BY <2>1 DEF Event
    <2>3. main'.pc = "drain" /\ main'.batch = <<>>
      BY <2>1, <1>0 DEF MainRecords
    <2> QED BY <2>1, <2>2, <2>3 DEF Joined, DrainsOfStop
  <1>7. CASE MainLoop /\ ~MainJoinProtocol /\ ~MainRestart /\ ~MainTearDown
    <2>1. UNCHANGED <<proto, sync, generation>>
      BY <1>7 DEF MainLoop, MainDrain, MainCatchUp, MainTakeEvents, MainDispatch, MainTakeMore,
         MainDrainHead, MainNoDrain, MainGate, MainEndWalk, MainFireEnd, MainFireStart,
         MainAcknowledge, MainWakeSync, MainStop, shared, ButNote, ButEvents, ButFlags
    <2>2. SUFFICES ASSUME proto.pc = "joined"
                   PROVE  Joined'
      BY <2>1 DEF Joined
    <2>3. main.pc # "join"
      BY <1>7, <2>2 DEF MainLoop, MainDrain, MainCatchUp, MainTakeEvents, MainDispatch,
         MainTakeMore, MainDrainHead, MainNoDrain, MainGate, MainEndWalk, MainFireEnd,
         MainFireStart, MainAcknowledge, MainWakeSync, MainStop, At
    <2>4. /\ sync.pc = "stopped" /\ "RUNNING" \notin flags
          /\ OnlyCleared(events) /\ OnlyCleared(main.batch) /\ DrainsOfStop
      BY <2>2, <2>3 DEF Joined
    <2>5. UNCHANGED flags
      BY <1>7, <2>4 DEF MainLoop, MainDrain, MainCatchUp, MainTakeEvents, MainDispatch,
         MainTakeMore, MainDrainHead, MainNoDrain, MainGate, MainEndWalk, MainFireEnd,
         MainFireStart, MainAcknowledge, MainWakeSync, MainStop, shared, ButNote, ButEvents,
         DrainsOfStop
    <2>6. SUFFICES OnlyCleared(events') /\ OnlyCleared(main'.batch) /\ DrainsOfStop'
      BY <2>1, <2>4, <2>5 DEF Joined
    <2>7. \/ MainCatchUp /\ main.pc = "drain"
          \/ MainTakeEvents \/ MainDispatch \/ MainTakeMore \/ MainDrainHead \/ MainNoDrain
          \/ MainGate \/ MainEndWalk \/ MainFireEnd
      <3>1. ~MainStop
        BY <2>2 DEF MainStop, MayStop
      <3>2. ~MainAcknowledge /\ ~MainWakeSync
        BY <2>4 DEF MainAcknowledge, MainWakeSync, DrainsOfStop
      <3>3. ~MainFireStart
        BY <2>4 DEF MainFireStart, At, DrainsOfStop, OwedEnd, Event, Closes
      <3>4. MainCatchUp => main.pc = "drain"
        BY <2>2 DEF MainCatchUp
      <3> QED BY <1>7, <3>1, <3>2, <3>3, <3>4 DEF MainLoop, MainDrain
    <2>8. ASSUME NEW gen \in Nat, gen <= main.completed
          PROVE  CaughtUp(main, gen) = main
      BY <2>8, <1>0 DEF CaughtUp
    <2>9. CASE MainCatchUp /\ main.pc = "drain"
      <3>1. main' = [CaughtUp(main, generation) EXCEPT !.pc = "ring"] /\ UNCHANGED events
        BY <2>9 DEF MainCatchUp, shared
      <3>2. main.completed < generation
        BY <2>9 DEF Stamped
      <3>3. main' = [main EXCEPT !.completed = generation, !.awaiting = <<OwedEnd>>,
                                 !.awaitingIdle = FALSE, !.hpHeld = FALSE, !.pc = "ring"]
        BY <1>0, <3>1, <3>2 DEF CaughtUp, MainRecords
      <3> QED BY <1>0, <2>1, <2>4, <3>1, <3>3 DEF DrainsOfStop, MainRecords
    <2>10. CASE MainTakeEvents
      BY <2>10, <1>0, <2>1, <2>4 DEF MainTakeEvents, DrainsOfStop, Closes, MainRecords
    <2>11. CASE MainDispatch
      <3>1. Head(main.batch) \in Events /\ Head(main.batch).type = "CLEARED"
        <4>1. main.batch # <<>>
          BY <2>11 DEF MainDispatch
        <4> QED BY <1>0, <2>4, <4>1
      <3>2. Head(main.batch).gen \in Nat /\ Head(main.batch).gen <= main.completed
        <4>1. Head(main.batch).gen <= generation
          BY <2>11, <1>0, NoneAheadNext DEF MainDispatch, Stamped
        <4> QED BY <2>11, <2>4, <3>1, <4>1 DEF MainDispatch, DrainsOfStop, Events
      <3>3. Dispatched(main, Head(main.batch)) = main
        BY <2>8, <3>1, <3>2 DEF Dispatched
      <3>4. main' = [main EXCEPT !.batch = Tail(main.batch)] /\ UNCHANGED events
        BY <2>11, <3>3 DEF MainDispatch, shared
      <3>5. OnlyCleared(Tail(main.batch))
        <4>1. main.batch # <<>>
          BY <2>11 DEF MainDispatch
        <4> QED BY <1>0, <2>4, <4>1
      <3> QED BY <1>0, <2>1, <2>4, <3>4, <3>5 DEF DrainsOfStop, Closes, MainRecords
    <2>12. CASE MainTakeMore
      BY <2>12, <1>0, <2>1, <2>4 DEF MainTakeMore, DrainsOfStop, Closes, MainRecords, shared
    <2>13. CASE MainDrainHead
      <3>1. main.pc = "dispatch" /\ main.completed = generation
        BY <2>13, <2>4 DEF MainDrainHead, DrainsOfStop
      <3>2. main' = [main EXCEPT !.pc = "gate", !.gen = generation] /\ UNCHANGED events
        <4>1. CaughtUp(main, generation) = main
          BY <1>0, <2>8, <3>1
        <4> QED BY <2>13, <4>1 DEF MainDrainHead, ButNote
      <3> QED BY <1>0, <2>1, <2>4, <3>1, <3>2 DEF DrainsOfStop, Closes, MainRecords
    <2>14. CASE MainNoDrain
      <3>1. main.pc = "dispatch" /\ main.awaiting = <<>> /\ UNCHANGED events
        BY <2>14, <2>4 DEF MainNoDrain, NeedsDrain, DrainsOfStop, shared
      <3> QED BY <2>14, <1>0, <2>1, <2>4, <3>1 DEF MainNoDrain, DrainsOfStop, Closes, MainRecords
    <2>15. CASE MainGate
      <3>1. main.pc = "gate" /\ main.gen = generation /\ SyncIdle
        BY <2>15, <2>4 DEF MainGate, DrainsOfStop, SyncIdle, Set
      <3>2. SyncIdle = TRUE
        BY <3>1 DEF SyncIdle, Set
      <3>3. main' = [main EXCEPT !.pc = "walk", !.awaitingIdle = FALSE, !.syncIdle = TRUE]
            /\ UNCHANGED events
        BY <2>15, <3>1, <3>2 DEF MainGate, shared
      <3> QED BY <1>0, <2>1, <2>4, <3>1, <3>3 DEF DrainsOfStop, Closes, MainRecords
    <2>16. CASE MainEndWalk
      <3>1. main.pc = "walk" /\ main.awaiting = <<>> /\ UNCHANGED events
        BY <2>16, <2>4 DEF MainEndWalk, At, DrainsOfStop, shared
      <3> QED BY <2>16, <1>0, <2>1, <2>4, <3>1
              DEF MainEndWalk, EndWalk, DrainsOfStop, Closes, MainRecords
    <2>17. CASE MainFireEnd
      <3>1. main.pc = "walk" /\ main.awaiting = <<OwedEnd>> /\ main.gen = generation
        BY <2>17, <2>4 DEF MainFireEnd, At, DrainsOfStop, Closes
      <3>2. main' = [Released(Closed(main)) EXCEPT !.awaiting = Tail(@)] /\ UNCHANGED events
        BY <2>17, <2>2, <3>1 DEF MainFireEnd, Resume, StopWithin, MayStop, shared
      <3>3. Tail(<<OwedEnd>>) = <<>>
        OBVIOUS
      <3> QED BY <1>0, <2>1, <2>4, <3>1, <3>2, <3>3
              DEF Released, Closed, DrainsOfStop, Closes, MainRecords
    <2> QED BY <2>7, <2>9, <2>10, <2>11, <2>12, <2>13, <2>14, <2>15, <2>16, <2>17
  <1> QED BY <1>1, <1>2, <1>3, <1>4, <1>5, <1>6, <1>7 DEF Next, MainLoop, MainDrain

-----------------------------------------------------------------------------
(* The theorems *)

LEMMA InitInv == Init => Inv
  <1> SUFFICES ASSUME Init PROVE Inv
    OBVIOUS
  <1> USE DEF Init
  <1>0. FirstOrdinal \in Ordinals
    BY OrdinalAssumption DEF Ordinals
  <1>1. proto \in ProtoRecords
    BY <1>0 DEF ProtoRecords, ProtoPlaces
  <1>2. sync \in SyncRecords
    BY <1>0, MaybeItems DEF SyncRecords, SyncPlaces
  <1>3. main \in MainRecords
    BY OwedType DEF MainRecords, MainPlaces
  <1>4. params \in [gen : Nat, ordinal : Ordinals \cup {-1}]
    BY DEF NoParams
  <1>5. list \in Seq(Items) /\ events \in Seq(Events)
    OBVIOUS
  <1>6. TypeOK
    BY <1>0, <1>1, <1>2, <1>3, <1>4, <1>5 DEF TypeOK
  <1> QED
    BY <1>6 DEF Inv, HeaderHeld, StartWaits, Stamped, NoneAhead, AwaitingIsCurrent, HoldWalks,
       HoldMatches, Joined, JoinedAt

LEMMA StepInv == Inv /\ [Next]_vars => Inv'
  <1> SUFFICES ASSUME Inv, [Next]_vars PROVE Inv'
    OBVIOUS
  <1>1. TypeOK'
    <2>1. CASE UNCHANGED vars
      BY <2>1 DEF Inv, TypeOK, vars, shared
    <2> QED BY <2>1, ProtocolType, SyncType, MainType DEF Inv, Next
  <1> QED
    BY <1>1, HeaderHeldStep, StartWaitsStep, StampedStep, AwaitingStep, HoldStep, JoinedStep,
       JoinedAtStep DEF Inv

\* The inductive invariant holds throughout: what the three threads hold of each other stays of
\* one connection, whatever the sizes and the numbers of messages, teardowns and stops.
THEOREM Invariance == Spec => []Inv
  BY InitInv, StepInv, PTL DEF Spec

\* Each thread's record and everything shared keeps its type.
THEOREM TypeCorrect == Spec => []TypeOK
  <1>1. Inv => TypeOK
    BY DEF Inv
  <1> QED BY <1>1, Invariance, PTL

\* The events held for the listener are of the connection last caught up with
\* (on_stream_ring_event(), complete_teardown()).
THEOREM AwaitsOneConnection == Spec => []AwaitingIsCurrent
  <1>1. Inv => AwaitingIsCurrent
    BY DEF Inv
  <1> QED BY <1>1, Invariance, PTL

\* Between two ticks the playback hold is held exactly while a stream is open, or its end owed
\* (release_high_performance() in drain_events() and complete_teardown()).
THEOREM HoldIsPaired == Spec => []HoldMatchesStream
  <1>1. Inv => HoldMatchesStream
    BY DEF Inv, HoldWalks, HoldMatchesStream
  <1> QED BY <1>1, Invariance, PTL

\* stop() leaves no open stream, no hold and no waiting event (SendspinClient::stop()).
THEOREM StopCloses == Spec => []StoppedIsClosed
  <1>1. Inv => StoppedIsClosed
    BY DEF Inv, Joined, DrainsOfStop, Closes, StoppedIsClosed
  <1> QED BY <1>1, Invariance, PTL

-----------------------------------------------------------------------------
(* The order of the ordinals *)

\* An ordinal's place in the order the streams were started in, counted from the first observed.
Half == OrdinalSpan \div 2
Pos(o) == IF o >= FirstOrdinal THEN o - FirstOrdinal ELSE o - FirstOrdinal + OrdinalSpan

LEMMA SmallRemainder ==
    ASSUME NEW n \in Nat, n < OrdinalSpan
    PROVE  n % OrdinalSpan = n /\ (n - OrdinalSpan) % OrdinalSpan = n
  BY OrdinalAssumption

LEMMA PosType ==
    ASSUME NEW o \in Ordinals
    PROVE  Pos(o) \in 0 .. OrdinalSpan - 1
  BY OrdinalAssumption DEF Ordinals, Pos

LEMMA PosNext ==
    ASSUME NEW o \in Ordinals, Pos(o) + 1 < OrdinalSpan
    PROVE  Pos(NextCount(o, OrdinalSpan)) = Pos(o) + 1
  <1>1. o \in 0 .. OrdinalSpan - 1
    BY DEF Ordinals
  <1>2. CASE o + 1 < OrdinalSpan
    <2>1. NextCount(o, OrdinalSpan) = o + 1
      BY <1>1, <1>2, SmallRemainder, OrdinalAssumption DEF NextCount
    <2> QED BY <1>1, <2>1, OrdinalAssumption DEF Pos
  <1>3. CASE o + 1 = OrdinalSpan
    <2>1. NextCount(o, OrdinalSpan) = 0
      BY <1>1, <1>3, OrdinalAssumption DEF NextCount
    <2> QED BY <1>1, <1>3, <2>1, OrdinalAssumption DEF Pos
  <1> QED BY <1>1, <1>2, <1>3, OrdinalAssumption

\* Within half the ordinals, the signed difference is the order of the places.
LEMMA AfterIsLater ==
    ASSUME NEW a \in Ordinals, NEW b \in Ordinals, Pos(a) < Half, Pos(b) < Half
    PROVE  After(a, b) <=> Pos(b) < Pos(a)
  <1> DEFINE d == (a - b) % OrdinalSpan
  <1>0. /\ OrdinalSpan \in Nat /\ OrdinalSpan > 3 /\ FirstOrdinal \in 0 .. OrdinalSpan - 1
        /\ a \in 0 .. OrdinalSpan - 1 /\ b \in 0 .. OrdinalSpan - 1
    BY OrdinalAssumption DEF Ordinals
  <1>1. Half \in Nat /\ Half + Half <= OrdinalSpan
    BY <1>0 DEF Half
  <1>2. After(a, b) <=> 0 < d /\ d < Half
    BY DEF After, CountAfter, Half
  <1>3. CASE a >= b
    <2>1. d = a - b
      <3>1. a - b \in Nat /\ a - b < OrdinalSpan
        BY <1>0, <1>3
      <3> QED BY <3>1, SmallRemainder
    <2> HIDE DEF d, Half
    <2> QED BY <1>0, <1>1, <1>2, <1>3, <2>1 DEF Pos
  <1>4. CASE a < b
    <2>1. d = a - b + OrdinalSpan
      <3>1. a - b + OrdinalSpan \in Nat /\ a - b + OrdinalSpan < OrdinalSpan
        BY <1>0, <1>4
      <3>2. (a - b + OrdinalSpan) - OrdinalSpan = a - b
        BY <1>0
      <3> QED BY <3>1, <3>2, SmallRemainder
    <2> HIDE DEF d, Half
    <2> QED BY <1>0, <1>1, <1>2, <1>4, <2>1 DEF Pos
  <1> QED BY <1>0, <1>3, <1>4

-----------------------------------------------------------------------------
(* The order of the streams: what a step of the sync task does to what it holds *)

HeldPlaces == {"gotHeader", "ack", "ackClear", "ackRead", "ackWait", "activate"}
LeftPlaces == {"leave", "left", "idle", "clearIdle", "noteIdle", "exit"}

\* Nothing in hand changes; nor anything but the header, the one kept for IDLE or the chunk decoded.
KeepsAll == /\ sync'.held = sync.held /\ sync'.next = sync.next /\ sync'.decoded = sync.decoded
            /\ sync'.active = sync.active /\ sync'.return = sync.return
KeepsButHeld == /\ sync'.next = sync.next /\ sync'.decoded = sync.decoded
                /\ sync'.active = sync.active
Takes == list # <<>> /\ list' = Tail(list)
Pending == IsPendingHeader(Head(list))

\* The places between two streams, and the way there.
Leaves == /\ sync.pc \in {"idle", "clearIdle", "gotHeader", "noHeader", "left", "loop"}
          /\ sync'.pc \in LeftPlaces /\ KeepsAll /\ list' = list
Waits == /\ \/ sync.pc \in {"waitHeader", "take"} /\ sync'.pc \in {"waitHeader", "take", "noHeader"}
            \/ sync.pc = "ack" /\ sync'.pc = "ackRefused"
         /\ KeepsAll
         /\ \/ list' = list
            \/ sync.pc = "take" /\ sync'.pc = "waitHeader" /\ Takes
Skips == sync' = sync /\ Takes /\ Head(list).gen # generation
Enters ==
    /\ sync.pc = "noteIdle" /\ sync'.next = NoItem /\ sync'.decoded = NoItem /\ list' = list
    /\ sync'.active = sync.active
    /\ \/ sync'.pc = "gotHeader" /\ IsPendingHeader(sync.next) /\ sync'.held = sync.next
       \/ sync'.pc = "waitHeader" /\ sync'.held = NoItem
TakesHeader == /\ sync.pc = "take" /\ sync'.pc = "gotHeader" /\ Takes /\ Pending
               /\ sync'.held = Head(list) /\ KeepsButHeld
\* A header held on to, up to its acknowledgement.
Holds == /\ sync.pc \in HeldPlaces /\ sync'.pc \in HeldPlaces /\ KeepsAll /\ list' = list
         /\ sync'.pc = "activate" => sync.pc = "ackRead" /\ ~After(sync.held.serial, started)
Begins == /\ sync'.pc = "discard" /\ "STREAM_CLEAR" \in flags /\ KeepsButHeld /\ list' = list
          /\ \/ sync.pc = "noHeader" /\ sync'.return = "idle"
             \/ sync.pc = "ack" /\ sync'.return = "ack"
             \/ sync.pc = "loop" /\ sync'.return = "loop"
          /\ \/ IsPendingHeader(sync.held) /\ sync'.held = sync.held
             \/ sync'.held = NoItem
Discards == /\ sync.pc = "discard" /\ sync'.pc \in {"discard", "applyClear"} /\ Takes
            /\ Head(list).gen = generation
            /\ sync'.pc = "discard" => Head(list).kind # "marker"
            /\ KeepsButHeld /\ sync'.return = sync.return
            /\ \/ Pending /\ sync'.held = Head(list)
               \/ sync'.held = sync.held
DiscardedAll == /\ sync.pc = "discard" /\ sync'.pc = "applyClear" /\ list = <<>> /\ list' = list
                /\ KeepsAll
Applies ==
    /\ sync.pc = "applyClear" /\ list' = list
    /\ sync'.held = sync.held /\ sync'.next = sync.next /\ sync'.active = sync.active
    /\ sync'.decoded = NoItem /\ sync'.return = "idle"
    /\ \/ sync.return = "loop" /\ sync'.pc = "loop"
       \/ sync.return # "loop" /\ sync.held # NoItem /\ sync'.pc \in {"ack", "ackClear"}
       \/ sync'.pc \in {"idle", "ackRefused"}
Releases == /\ sync.pc \in {"ackRefused", "leave"} /\ sync'.pc = "left" /\ list' = list
            /\ sync'.held = NoItem /\ sync'.decoded = sync.decoded /\ sync'.active = sync.active
            /\ \/ sync'.next = sync.next
               \/ IsPendingHeader(sync.held) /\ sync'.next = sync.held
\* A stream played.
Activates == /\ sync.pc = "activate" /\ sync'.pc = "run" /\ sync'.active = sync.held.serial
             /\ sync'.held = sync.held /\ sync'.next = sync.next /\ sync'.decoded = sync.decoded
             /\ list' = list
Starts == /\ sync.pc = "run" /\ sync'.pc = "loop" /\ sync'.held = NoItem /\ KeepsButHeld
          /\ list' = list /\ "RUNNING" \in flags'
Turns == /\ sync.pc \in {"loop", "load"} /\ sync'.pc \in {"loop", "write", "load", "decode"}
         /\ KeepsAll /\ list' = list
         /\ sync'.pc = "write" =>
              sync.pc = "loop" /\ flags \cap {"STOP", "STREAM_END", "STREAM_CLEAR"} = {}
         /\ sync'.pc = "decode" => sync.pc = "load" /\ sync.held # NoItem
Writes == /\ sync.pc = "write" /\ sync'.pc = "loop" /\ list' = list
          /\ sync'.held = sync.held /\ sync'.next = sync.next /\ sync'.active = sync.active
          /\ sync'.decoded \in {sync.decoded, NoItem}
Loads == /\ sync.pc = "load" /\ Takes
         /\ sync'.decoded = sync.decoded /\ sync'.active = sync.active
         /\ \/ /\ sync'.pc = "loop" /\ Head(list).kind = "header" /\ sync'.next = Head(list)
               /\ sync'.held = sync.held
            \/ sync'.pc = "decode" /\ sync'.held = Head(list) /\ sync'.next = sync.next
Decodes == /\ sync.pc = "decode" /\ sync'.pc = "loop" /\ list' = list /\ sync'.held = NoItem
           /\ sync'.next = sync.next /\ sync'.active = sync.active
           /\ \/ sync'.decoded = NoItem
              \/ sync.held.kind = "audio" /\ sync'.decoded = sync.held
Exits == /\ sync.pc = "exit" /\ sync'.pc = "stopped" /\ list' = list
         /\ sync'.held = NoItem /\ sync'.next = NoItem /\ sync'.decoded = NoItem
         /\ sync'.active = sync.active

SyncMoves ==
    \/ Leaves \/ Waits \/ Skips \/ Enters \/ TakesHeader \/ Holds \/ Begins \/ Discards
    \/ DiscardedAll \/ Applies \/ Releases \/ Activates \/ Starts \/ Turns \/ Writes \/ Loads
    \/ Decodes \/ Exits

\* Each action of the sync task is one of these moves.
LEMMA SyncEffect ==
    ASSUME TypeOK, SyncTask
    PROVE  SyncMoves
  <1> USE DEF SyncAt, SyncGoes, ButList, ButFlags, ButNote, shared, ItemReady
  <1>0. sync \in SyncRecords /\ list \in Seq(Items)
    BY DEF TypeOK
  <1>1. CASE SyncSkipStale
    BY <1>1 DEF SyncSkipStale, Skips, Takes, SyncMoves
  <1>2. CASE SyncReadIdle
    <2>1. Leaves
      BY <1>2, <1>0 DEF SyncReadIdle, SyncRecords, Leaves, LeftPlaces, KeepsAll
    <2> QED BY <2>1 DEF SyncMoves
  <1>3. CASE SyncClearIdle
    <2>1. Leaves
      BY <1>3, <1>0 DEF SyncClearIdle, SyncRecords, Leaves, LeftPlaces, KeepsAll
    <2> QED BY <2>1 DEF SyncMoves
  <1>4. CASE SyncEnterIdle
    <2>1. Enters
      BY <1>4, <1>0 DEF SyncEnterIdle, SyncRecords, Enters, Reset
    <2> QED BY <2>1 DEF SyncMoves
  <1>5. CASE SyncWaitHeader
    <2>1. Waits
      BY <1>5, <1>0 DEF SyncWaitHeader, SyncRecords, Waits, KeepsAll
    <2> QED BY <2>1 DEF SyncMoves
  <1>6. CASE SyncTakeHeader
    <2>1. CASE IsPendingHeader(Head(list))
      <3>1. sync' = [sync EXCEPT !.pc = "gotHeader", !.flag = FALSE, !.held = Head(list)]
        BY <1>6, <2>1 DEF SyncTakeHeader
      <3>2. TakesHeader
        BY <1>6, <1>0, <2>1, <3>1
           DEF SyncTakeHeader, SyncRecords, TakesHeader, Takes, Pending, KeepsButHeld
      <3> QED BY <3>2 DEF SyncMoves
    <2>2. CASE ~IsPendingHeader(Head(list))
      <3>1. sync' = [sync EXCEPT !.pc = "waitHeader", !.flag = FALSE]
        BY <1>6, <2>2 DEF SyncTakeHeader
      <3>2. Waits
        BY <1>6, <1>0, <3>1 DEF SyncTakeHeader, SyncRecords, Waits, Takes, KeepsAll
      <3> QED BY <3>2 DEF SyncMoves
    <2> QED BY <2>1, <2>2
  <1>7. CASE SyncTakeNothing
    <2>1. Waits
      BY <1>7, <1>0 DEF SyncTakeNothing, SyncRecords, Waits, KeepsAll
    <2> QED BY <2>1 DEF SyncMoves
  <1>8. CASE SyncGotHeader
    <2>1. Leaves \/ Holds
      BY <1>8, <1>0 DEF SyncGotHeader, SyncRecords, Leaves, Holds, LeftPlaces, HeldPlaces, KeepsAll
    <2> QED BY <2>1 DEF SyncMoves
  <1>9. CASE SyncNoHeader
    <2>1. CASE ~Set({"STOP"}) /\ Set({"STREAM_CLEAR"})
      <3>1. Begins
        BY <1>9, <2>1, <1>0 DEF SyncNoHeader, BeginDiscard, SyncRecords, Begins, KeepsButHeld, Set
      <3> QED BY <3>1 DEF SyncMoves
    <2>2. CASE ~(~Set({"STOP"}) /\ Set({"STREAM_CLEAR"}))
      <3>1. Leaves
        BY <1>9, <2>2, <1>0 DEF SyncNoHeader, SyncRecords, Leaves, LeftPlaces, KeepsAll
      <3> QED BY <3>1 DEF SyncMoves
    <2> QED BY <2>1, <2>2
  <1>10. CASE SyncDiscard
    <2>1. Discards
      BY <1>10, <1>0 DEF SyncDiscard, EndsDiscard, SyncRecords, Discards, Takes, Pending,
         KeepsButHeld
    <2> QED BY <2>1 DEF SyncMoves
  <1>11. CASE SyncDiscardedAll
    <2>1. DiscardedAll
      BY <1>11, <1>0 DEF SyncDiscardedAll, SyncRecords, DiscardedAll, KeepsAll
    <2> QED BY <2>1 DEF SyncMoves
  <1>12. CASE SyncApplyClear
    <2>1. Applies
      BY <1>12, <1>0 DEF SyncApplyClear, SyncRecords, Applies
    <2> QED BY <2>1 DEF SyncMoves
  <1>13. CASE SyncAwaitAck
    <2>1. CASE ~Set({"STOP", "STREAM_END"}) /\ Set({"STREAM_CLEAR"})
      <3>1. Begins
        BY <1>13, <2>1, <1>0 DEF SyncAwaitAck, BeginDiscard, SyncRecords, Begins, KeepsButHeld, Set
      <3> QED BY <3>1 DEF SyncMoves
    <2>2. CASE ~(~Set({"STOP", "STREAM_END"}) /\ Set({"STREAM_CLEAR"}))
      <3>1. Waits \/ Holds
        BY <1>13, <2>2, <1>0 DEF SyncAwaitAck, SyncRecords, Waits, Holds, HeldPlaces, KeepsAll
      <3> QED BY <3>1 DEF SyncMoves
    <2> QED BY <2>1, <2>2
  <1>14. CASE SyncClearStart
    <2>1. Holds
      BY <1>14, <1>0 DEF SyncClearStart, SyncRecords, Holds, HeldPlaces, KeepsAll
    <2> QED BY <2>1 DEF SyncMoves
  <1>15. CASE SyncReadStarted
    <2>1. Holds
      BY <1>15, <1>0 DEF SyncReadStarted, Acknowledged, SyncRecords, Holds, HeldPlaces, KeepsAll
    <2> QED BY <2>1 DEF SyncMoves
  <1>16. CASE SyncWakeAck
    <2>1. Holds
      BY <1>16, <1>0 DEF SyncWakeAck, SyncRecords, Holds, HeldPlaces, KeepsAll
    <2> QED BY <2>1 DEF SyncMoves
  <1>17. CASE SyncRelease
    <2>1. Releases
      BY <1>17, <1>0 DEF SyncRelease, SyncRecords, Releases
    <2> QED BY <2>1 DEF SyncMoves
  <1>18. CASE SyncLeft
    <2>1. Leaves
      BY <1>18, <1>0 DEF SyncLeft, SyncRecords, Leaves, LeftPlaces, KeepsAll
    <2> QED BY <2>1 DEF SyncMoves
  <1>19. CASE SyncActivate
    <2>1. Activates
      BY <1>19, <1>0 DEF SyncActivate, SyncRecords, Activates
    <2> QED BY <2>1 DEF SyncMoves
  <1>20. CASE SyncRun
    <2>1. Starts
      BY <1>20, <1>0 DEF SyncRun, SyncRecords, Starts, KeepsButHeld
    <2> QED BY <2>1 DEF SyncMoves
  <1>21. CASE SyncLoop
    <2>1. CASE Set({"STOP", "STREAM_END"}) \/ sync.next # NoItem \/ sync.abandoned
      <3>1. SyncGoes("leave") /\ UNCHANGED <<proto, main, shared>> /\ sync.pc = "loop"
        BY <1>21, <2>1 DEF SyncLoop
      <3>2. Leaves
        BY <3>1, <1>0 DEF SyncRecords, Leaves, LeftPlaces, KeepsAll
      <3> QED BY <3>2 DEF SyncMoves
    <2>2. CASE ~(Set({"STOP", "STREAM_END"}) \/ sync.next # NoItem \/ sync.abandoned)
               /\ Set({"STREAM_CLEAR"})
      <3>1. BeginDiscard("loop") /\ UNCHANGED <<proto, main, shared>> /\ sync.pc = "loop"
        BY <1>21, <2>2 DEF SyncLoop
      <3>2. Begins
        BY <2>2, <3>1, <1>0 DEF BeginDiscard, SyncRecords, Begins, KeepsButHeld, Set
      <3> QED BY <3>2 DEF SyncMoves
    <2>3. CASE ~(Set({"STOP", "STREAM_END"}) \/ sync.next # NoItem \/ sync.abandoned)
               /\ ~Set({"STREAM_CLEAR"})
      <3>1. /\ SyncGoes("write") \/ SyncGoes("load")
            /\ UNCHANGED <<proto, main, shared>> /\ sync.pc = "loop"
        BY <1>21, <2>3 DEF SyncLoop
      <3>2. flags \cap {"STOP", "STREAM_END", "STREAM_CLEAR"} = {}
        BY <2>3 DEF Set
      <3>3. Turns
        BY <3>1, <3>2, <1>0 DEF SyncRecords, Turns, KeepsAll
      <3> QED BY <3>3 DEF SyncMoves
    <2> QED BY <2>1, <2>2, <2>3
  <1>22. CASE SyncWrite
    <2>1. Writes
      BY <1>22, <1>0 DEF SyncWrite, SyncRecords, Writes
    <2> QED BY <2>1 DEF SyncMoves
  <1>23. CASE SyncLoad
    <2>1. Loads
      BY <1>23, <1>0 DEF SyncLoad, SyncRecords, Loads, Takes
    <2> QED BY <2>1 DEF SyncMoves
  <1>24. CASE SyncLoadNothing
    <2>1. Turns
      BY <1>24, <1>0 DEF SyncLoadNothing, SyncRecords, Turns, KeepsAll
    <2> QED BY <2>1 DEF SyncMoves
  <1>25. CASE SyncDecode
    <2>1. PICK failed \in BOOLEAN, decoded \in {NoItem, sync.held} :
            /\ sync' = [sync EXCEPT !.pc = "loop", !.held = NoItem, !.abandoned = failed,
                                    !.decoded = decoded]
            /\ decoded = NoItem \/ (sync.held.kind = "audio" /\ decoded = sync.held)
      BY <1>25 DEF SyncDecode
    <2>2. list' = list /\ sync.pc = "decode"
      BY <1>25 DEF SyncDecode
    <2>3. Decodes
      BY <2>1, <2>2, <1>0 DEF SyncRecords, Decodes
    <2> QED BY <2>3 DEF SyncMoves
  <1>26. CASE SyncExit
    <2>1. Exits
      BY <1>26, <1>0 DEF SyncExit, SyncRecords, Exits
    <2> QED BY <2>1 DEF SyncMoves
  <1> QED
    BY <1>1, <1>2, <1>3, <1>4, <1>5, <1>6, <1>7, <1>8, <1>9, <1>10, <1>11, <1>12, <1>13, <1>14,
       <1>15, <1>16, <1>17, <1>18, <1>19, <1>20, <1>21, <1>22, <1>23, <1>24, <1>25, <1>26
       DEF SyncTask

\* What it does to the flags: it clears a flag only where it has read it.
LEMMA SyncFlags ==
    ASSUME SyncTask
    PROVE  \/ flags' = flags
           \/ sync.pc = "clearIdle" /\ flags' = flags \ StreamBits
           \/ sync.pc = "applyClear" /\ flags' = flags \ {"STREAM_CLEAR"}
           \/ sync.pc \in {"ackClear", "activate"} /\ flags' = flags \ {"START"}
           \/ sync.pc = "run" /\ flags' = flags \cup {"RUNNING"}
           \/ sync.pc = "decode" /\ sync.held.kind = "marker" /\ flags' = flags \ {"STREAM_CLEAR"}
  BY DEF SyncTask, SyncSkipStale, SyncReadIdle, SyncClearIdle, SyncEnterIdle, SyncWaitHeader,
     SyncTakeHeader, SyncTakeNothing, SyncGotHeader, SyncNoHeader, SyncDiscard, SyncDiscardedAll,
     SyncApplyClear, SyncAwaitAck, SyncClearStart, SyncReadStarted, SyncWakeAck, SyncRelease,
     SyncLeft, SyncActivate, SyncRun, SyncLoop, SyncWrite, SyncLoad, SyncLoadNothing, SyncDecode,
     SyncExit, shared, ButList, ButFlags, ButNote, SyncAt

-----------------------------------------------------------------------------
(* The stream the sync task is on *)

Playing == \/ sync.pc \in {"run", "loop", "write", "load", "decode"}
           \/ sync.pc \in {"discard", "applyClear"} /\ sync.return = "loop"
Holding == \/ sync.pc \in HeldPlaces
           \/ /\ sync.pc \in {"discard", "applyClear"} /\ sync.return # "loop"
              /\ sync.held # NoItem
OnStream == Playing \/ Holding
Stream == IF Playing THEN sync.active ELSE sync.held.serial

\* What kind of item each hand holds, and where a chunk may be decoded already.
InHand ==
    /\ sync.next # NoItem => sync.next.kind = "header"
    /\ sync.decoded # NoItem => sync.decoded.kind = "audio"
    /\ sync.pc \in HeldPlaces => sync.held.kind = "header"
    /\ sync.pc \in {"discard", "applyClear"} /\ sync.held # NoItem => sync.held.kind = "header"
    /\ sync.decoded # NoItem => (Playing /\ sync.pc # "run") \/ sync.pc \in LeftPlaces

\* Only the sync task and a restart, from the stopped task, write its record.
LEMMA OthersOfSync ==
    ASSUME TypeOK, Joined, [Next]_vars
    PROVE  \/ SyncTask
           \/ UNCHANGED sync
           \/ MainRestart /\ sync.pc = "stopped" /\ proto.pc = "joined"
              /\ sync' = [sync EXCEPT !.pc = "noteIdle"]
  <1>1. CASE MainRestart
    BY <1>1 DEF MainRestart, Joined, SyncGoes
  <1>2. CASE ProtocolTask \/ MainDrain \/ MainStop \/ UNCHANGED vars
    BY <1>2 DEF ProtocolTask, HandleBinary, HandleStreamStart, HandleStreamEnd,
         HandleStreamClear, Cleanup, FinishHandler, PublishStart, SignalEnd, PublishEnd,
         AppendMarker, RecallItems, PublishCleared, MainDrain, MainCatchUp, MainTakeEvents,
         MainDispatch, MainTakeMore, MainDrainHead, MainNoDrain, MainGate, MainEndWalk,
         MainFireEnd, MainFireStart, MainAcknowledge, MainWakeSync, MainJoinProtocol,
         MainTearDown, MainStop, vars
  <1> QED BY <1>1, <1>2 DEF Next, MainLoop

LEMMA PendingKind ==
    ASSUME NEW item, IsPendingHeader(item)
    PROVE  item.kind = "header" /\ item # NoItem /\ After(item.serial, ended)
  BY DEF IsPendingHeader, NoItem

LEMMA InHandSync ==
    ASSUME TypeOK, InHand, SyncTask
    PROVE  InHand'
  <1> USE DEF HeldPlaces, LeftPlaces
  <1>0. SyncMoves
    BY SyncEffect
  <1>1. NoItem.kind = "none"
    BY DEF NoItem
  <1>2. CASE Leaves \/ Waits \/ Holds
    BY <1>2, <1>1 DEF InHand, Playing, Leaves, Waits, Holds, KeepsAll
  <1>3. CASE Skips
    BY <1>3 DEF InHand, Playing, Skips
  <1>4. CASE Enters \/ TakesHeader
    BY <1>4, <1>1, PendingKind DEF InHand, Playing, Enters, TakesHeader, Pending, KeepsButHeld
  <1>5. CASE Begins
    BY <1>5, <1>1, PendingKind DEF InHand, Playing, Begins, KeepsButHeld
  <1>6. CASE Discards
    BY <1>6, <1>1, PendingKind DEF InHand, Playing, Discards, Pending, KeepsButHeld
  <1>7. CASE DiscardedAll
    BY <1>7 DEF InHand, Playing, DiscardedAll, KeepsAll
  <1>8. CASE Applies
    BY <1>8 DEF InHand, Playing, Applies
  <1>9. CASE Releases
    BY <1>9, PendingKind DEF InHand, Playing, Releases
  <1>10. CASE Activates \/ Starts
    BY <1>10 DEF InHand, Playing, Activates, Starts, KeepsButHeld
  <1>11. CASE Turns
    BY <1>11 DEF InHand, Playing, Turns, KeepsAll
  <1>12. CASE Writes \/ Loads \/ Decodes \/ Exits
    BY <1>12 DEF InHand, Playing, Writes, Loads, Decodes, Exits
  <1> QED
    BY <1>0, <1>2, <1>3, <1>4, <1>5, <1>6, <1>7, <1>8, <1>9, <1>10, <1>11, <1>12 DEF SyncMoves

LEMMA InHandStep ==
    ASSUME TypeOK, Joined, InHand, [Next]_vars
    PROVE  InHand'
  <1>1. CASE SyncTask
    BY <1>1, InHandSync
  <1>2. CASE UNCHANGED sync
    BY <1>2 DEF InHand, Playing
  <1>3. CASE sync.pc = "stopped" /\ sync' = [sync EXCEPT !.pc = "noteIdle"]
    <2>1. sync \in SyncRecords
      BY DEF TypeOK
    <2> QED BY <1>3, <2>1 DEF InHand, Playing, SyncRecords, LeftPlaces, HeldPlaces
  <1> QED BY <1>1, <1>2, <1>3, OthersOfSync

\* How the sync task comes to be on a stream: with a header whose stream has not ended.
LEMMA StreamMoves ==
    ASSUME TypeOK, InHand, SyncTask, OnStream'
    PROVE  \/ OnStream /\ Stream' = Stream
           \/ sync'.held.kind = "header" /\ After(sync'.held.serial, ended)
                /\ Stream' = sync'.held.serial
  <1> USE DEF HeldPlaces, LeftPlaces
  <1>0. SyncMoves
    BY SyncEffect
  <1>1. NoItem.kind = "none"
    BY DEF NoItem
  <1>2. CASE Leaves \/ Waits \/ Holds
    BY <1>2 DEF Playing, Holding, OnStream, Stream, Leaves, Waits, Holds, KeepsAll
  <1>3. CASE Skips
    BY <1>3 DEF Playing, Holding, OnStream, Stream, Skips
  <1>4. CASE Enters \/ TakesHeader
    BY <1>4, PendingKind
       DEF Playing, Holding, OnStream, Stream, Enters, TakesHeader, Pending, KeepsButHeld
  <1>5. CASE Begins
    BY <1>5, PendingKind DEF Playing, Holding, OnStream, Stream, Begins, KeepsButHeld
  <1>6. CASE Discards
    BY <1>6, PendingKind DEF Playing, Holding, OnStream, Stream, Discards, Pending, KeepsButHeld
  <1>7. CASE DiscardedAll
    BY <1>7 DEF Playing, Holding, OnStream, Stream, DiscardedAll, KeepsAll
  <1>8. CASE Applies
    BY <1>8 DEF Playing, Holding, OnStream, Stream, Applies
  <1>9. CASE Releases \/ Exits
    BY <1>9 DEF Playing, Holding, OnStream, Stream, Releases, Exits
  <1>10. CASE Activates \/ Starts
    BY <1>10 DEF Playing, Holding, OnStream, Stream, Activates, Starts, KeepsButHeld
  <1>11. CASE Turns
    BY <1>11 DEF Playing, Holding, OnStream, Stream, Turns, KeepsAll
  <1>12. CASE Writes \/ Loads \/ Decodes
    BY <1>12 DEF Playing, Holding, OnStream, Stream, Writes, Loads, Decodes
  <1> QED
    BY <1>0, <1>2, <1>3, <1>4, <1>5, <1>6, <1>7, <1>8, <1>9, <1>10, <1>11, <1>12 DEF SyncMoves

\* A stream is played from its acknowledgement on.
PlaysOrWill == Playing \/ sync.pc = "activate"
LEMMA PlayMoves ==
    ASSUME TypeOK, InHand, SyncTask, PlaysOrWill'
    PROVE  \/ PlaysOrWill /\ Stream' = Stream
           \/ ~After(Stream', started)
  <1> USE DEF HeldPlaces, LeftPlaces
  <1>0. SyncMoves
    BY SyncEffect
  <1>2. CASE Leaves \/ Waits \/ Holds
    BY <1>2 DEF Playing, PlaysOrWill, Stream, Leaves, Waits, Holds, KeepsAll
  <1>3. CASE Skips
    BY <1>3 DEF Playing, PlaysOrWill, Stream, Skips
  <1>4. CASE Enters \/ TakesHeader
    BY <1>4 DEF Playing, PlaysOrWill, Stream, Enters, TakesHeader
  <1>5. CASE Begins
    BY <1>5 DEF Playing, PlaysOrWill, Stream, Begins, KeepsButHeld
  <1>6. CASE Discards
    BY <1>6 DEF Playing, PlaysOrWill, Stream, Discards, KeepsButHeld
  <1>7. CASE DiscardedAll
    BY <1>7 DEF Playing, PlaysOrWill, Stream, DiscardedAll, KeepsAll
  <1>8. CASE Applies
    BY <1>8 DEF Playing, PlaysOrWill, Stream, Applies
  <1>9. CASE Releases \/ Exits
    BY <1>9 DEF Playing, PlaysOrWill, Stream, Releases, Exits
  <1>10. CASE Activates \/ Starts
    BY <1>10 DEF Playing, PlaysOrWill, Stream, Activates, Starts, KeepsButHeld
  <1>11. CASE Turns
    BY <1>11 DEF Playing, PlaysOrWill, Stream, Turns, KeepsAll
  <1>12. CASE Writes \/ Loads \/ Decodes
    BY <1>12 DEF Playing, PlaysOrWill, Stream, Writes, Loads, Decodes
  <1> QED
    BY <1>0, <1>2, <1>3, <1>4, <1>5, <1>6, <1>7, <1>8, <1>9, <1>10, <1>11, <1>12 DEF SyncMoves

\* RUNNING is set while a stream is played.
Runs == Playing /\ sync.pc # "run" => "RUNNING" \in flags

-----------------------------------------------------------------------------
(* What a step of the main loop does to the events on their way to the listener *)

MainKeeps == /\ main'.awaiting = main.awaiting /\ main'.batch = main.batch
             /\ main'.completed = main.completed /\ main'.streamActive = main.streamActive
             /\ UNCHANGED <<generation, events, started>>
\* A catch-up with `gen`: the end it owes replaces what was waiting.
CatchesUp(gen) ==
    \/ gen > main.completed /\ main'.completed = gen /\ main'.awaiting = <<OwedEnd>>
    \/ gen <= main.completed /\ main'.completed = main.completed
         /\ main'.awaiting = main.awaiting
MainCatches == /\ CatchesUp(generation) /\ main'.batch = main.batch
               /\ main'.streamActive = main.streamActive
               /\ UNCHANGED <<generation, events, started>>
MainTakes == /\ main'.batch = events /\ events' = <<>> /\ main'.awaiting = main.awaiting
             /\ main'.completed = main.completed /\ main'.streamActive = main.streamActive
             /\ UNCHANGED <<generation, started>>
MainMovesOn ==
    /\ main.batch # <<>> /\ main'.batch = Tail(main.batch)
    /\ main'.streamActive = main.streamActive /\ UNCHANGED <<generation, events, started>>
    /\ \/ CatchesUp(Head(main.batch).gen) /\ Head(main.batch).type = "CLEARED"
       \/ main'.completed = main.completed /\ main'.awaiting = main.awaiting
       \/ /\ Head(main.batch).gen = generation /\ Head(main.batch).type # "CLEARED"
          /\ main'.completed = generation
          /\ \/ main.completed < generation
                  /\ main'.awaiting = Append(<<OwedEnd>>, Head(main.batch))
             \/ main.completed = generation
                  /\ main'.awaiting = Append(main.awaiting, Head(main.batch))
MainCloses == /\ main.pc = "walk" /\ main.syncIdle
              /\ main.awaiting # <<>> /\ Head(main.awaiting).type = "STREAM_END"
              /\ main'.awaiting \in {main.awaiting, Tail(main.awaiting)}
              /\ main'.batch = main.batch /\ main'.completed = main.completed
              /\ main'.streamActive = FALSE /\ UNCHANGED <<generation, events, started>>
MainOpens == /\ main'.awaiting = main.awaiting /\ main'.batch = main.batch
             /\ main'.completed = main.completed /\ main'.streamActive = TRUE
             /\ UNCHANGED <<generation, events, started>>
MainTells == /\ main.pc = "acknowledge" /\ started' = Head(main.awaiting).ordinal
             /\ main'.awaiting = main.awaiting /\ main'.batch = main.batch
             /\ main'.completed = main.completed /\ main'.streamActive = main.streamActive
             /\ UNCHANGED <<generation, events>>
MainWakes == /\ main.pc = "wake" /\ main'.awaiting = Tail(main.awaiting)
             /\ main'.batch = main.batch
             /\ main'.completed = main.completed /\ main'.streamActive = main.streamActive
             /\ UNCHANGED <<generation, events, started>>
MainTears == /\ sync.pc = "stopped" /\ proto.pc = "joined"
             /\ main'.awaiting = main.awaiting /\ main'.batch = <<>>
             /\ main'.completed = main.completed /\ main'.streamActive = main.streamActive
             /\ events' = <<Event("CLEARED", 0, generation + 1)>>
             /\ generation' = generation + 1 /\ ended' = proto.ordinal /\ UNCHANGED started
             /\ list' = <<>>

MainMoves == \/ MainKeeps \/ MainCatches \/ MainTakes \/ MainMovesOn \/ MainCloses \/ MainOpens
             \/ MainTells \/ MainWakes \/ MainTears

LEMMA CatchUpMoves ==
    ASSUME NEW gen \in Nat, main \in MainRecords, main'.completed = CaughtUp(main, gen).completed,
           main'.awaiting = CaughtUp(main, gen).awaiting
    PROVE  CatchesUp(gen)
  <1>1. main.completed \in Nat
    BY DEF MainRecords
  <1>2. /\ main'.completed = IF gen > main.completed THEN gen ELSE main.completed
        /\ main'.awaiting = IF gen > main.completed THEN <<OwedEnd>> ELSE main.awaiting
    BY CaughtUpFields
  <1>3. CASE gen > main.completed
    BY <1>2, <1>3 DEF CatchesUp
  <1>4. CASE gen <= main.completed
    BY <1>1, <1>2, <1>4 DEF CatchesUp
  <1> QED BY <1>1, <1>3, <1>4

LEMMA MainEffect ==
    ASSUME TypeOK, StartWaits, Stamped, JoinedAt, MainLoop
    PROVE  MainMoves
  <1> USE DEF shared, ButEvents, ButNote, ButFlags
  <1>0. /\ main \in MainRecords /\ generation \in Nat /\ main.completed \in Nat
        /\ main.batch \in Seq(Events) /\ main.awaiting \in Seq(Events)
        /\ main.completed <= generation
    BY DEF TypeOK, MainRecords, Stamped
  <1>1. CASE MainCatchUp \/ MainDrainHead
    <2>1. CaughtUp(main, generation) \in MainRecords
      BY <1>0, CaughtUpType
    <2>2. /\ main'.completed = CaughtUp(main, generation).completed
          /\ main'.awaiting = CaughtUp(main, generation).awaiting
          /\ main'.batch = CaughtUp(main, generation).batch
          /\ main'.streamActive = CaughtUp(main, generation).streamActive
          /\ UNCHANGED <<generation, events, started>>
      BY <1>1, <2>1 DEF MainCatchUp, MainDrainHead, MainRecords
    <2>3. CatchesUp(generation)
      BY <1>0, <2>2, CatchUpMoves
    <2>4. MainCatches
      BY <1>0, <2>2, <2>3, CaughtUpFields DEF MainCatches
    <2> QED BY <2>4 DEF MainMoves
  <1>2. CASE MainTakeEvents
    <2>1. MainTakes
      BY <1>2, <1>0 DEF MainTakeEvents, MainTakes, MainRecords
    <2> QED BY <2>1 DEF MainMoves
  <1>3. CASE MainDispatch
    <2> DEFINE event == Head(main.batch)
               caught == CaughtUp(main, event.gen)
               added == [caught EXCEPT !.awaiting = Append(caught.awaiting, event)]
    <2>1. event \in Events /\ event.gen \in Nat /\ event.gen <= generation
      BY <1>3, <1>0, NextEventType, NoneAheadNext DEF MainDispatch, Stamped, Events
    <2>2. caught \in MainRecords /\ Dispatched(main, event) \in MainRecords
      BY <1>0, <2>1, CaughtUpType, DispatchedType
    <2>3. /\ main.batch # <<>> /\ main'.completed = Dispatched(main, event).completed
          /\ main'.awaiting = Dispatched(main, event).awaiting
          /\ main'.batch = Tail(Dispatched(main, event).batch)
          /\ main'.streamActive = Dispatched(main, event).streamActive
          /\ UNCHANGED <<generation, events, started>>
      BY <1>3, <2>2 DEF MainDispatch, MainRecords
    <2>4. /\ caught.streamActive = main.streamActive /\ caught.batch = main.batch
          /\ caught.completed = IF event.gen > main.completed THEN event.gen ELSE main.completed
          /\ caught.awaiting = IF event.gen > main.completed THEN <<OwedEnd>> ELSE main.awaiting
      BY <1>0, <2>1, CaughtUpFields
    <2>5. /\ added.streamActive = caught.streamActive /\ added.batch = caught.batch
          /\ added.completed = caught.completed
          /\ added.awaiting = Append(caught.awaiting, event)
      BY <2>2 DEF MainRecords
    <2>6. Dispatched(main, event) = IF event.type = "CLEARED" THEN caught
                                    ELSE IF event.gen # generation THEN main ELSE added
      BY DEF Dispatched
    <2> HIDE DEF event, caught, added
    <2>7. main'.streamActive = main.streamActive /\ main'.batch = Tail(main.batch)
      BY <2>3, <2>4, <2>5, <2>6
    <2>8. CASE event.type = "CLEARED"
      <3>1. CatchesUp(event.gen)
        BY <1>0, <2>1, <2>3, <2>4, <2>6, <2>8 DEF CatchesUp
      <3>2. MainMovesOn
        BY <2>3, <2>7, <2>8, <3>1 DEF MainMovesOn, event
      <3> QED BY <3>2 DEF MainMoves
    <2>9. CASE event.type # "CLEARED" /\ event.gen # generation
      <3>1. main'.completed = main.completed /\ main'.awaiting = main.awaiting
        BY <2>3, <2>6, <2>9
      <3>2. MainMovesOn
        BY <2>3, <2>7, <3>1 DEF MainMovesOn
      <3> QED BY <3>2 DEF MainMoves
    <2>10. CASE event.type # "CLEARED" /\ event.gen = generation
      <3>1. /\ main'.completed = generation
            /\ \/ main.completed < generation /\ main'.awaiting = Append(<<OwedEnd>>, event)
               \/ main.completed = generation /\ main'.awaiting = Append(main.awaiting, event)
        BY <1>0, <2>1, <2>3, <2>4, <2>5, <2>6, <2>10
      <3>2. MainMovesOn
        BY <2>3, <2>7, <2>10, <3>1 DEF MainMovesOn, event
      <3> QED BY <3>2 DEF MainMoves
    <2> QED BY <2>8, <2>9, <2>10
  <1>4. CASE MainFireEnd
    <2>1. MainCloses
      BY <1>4, <1>0 DEF MainFireEnd, At, Resume, StopWithin, EndWalk, Closed, Released, MainCloses,
         MainRecords
    <2> QED BY <2>1 DEF MainMoves
  <1>5. CASE MainFireStart
    <2>1. MainOpens
      BY <1>5, <1>0 DEF MainFireStart, Resume, StopWithin, EndWalk, MainOpens, MainRecords
    <2> QED BY <2>1 DEF MainMoves
  <1>6. CASE MainAcknowledge
    <2>1. MainTells
      BY <1>6, <1>0 DEF MainAcknowledge, MainTells, MainRecords
    <2> QED BY <2>1 DEF MainMoves
  <1>7. CASE MainWakeSync
    <2>1. MainWakes
      BY <1>7, <1>0 DEF MainWakeSync, Woken, MainWakes, MainRecords
    <2> QED BY <2>1 DEF MainMoves
  <1>8. CASE MainTearDown
    <2>1. MainTears
      BY <1>8, <1>0 DEF MainTearDown, MainTears, MainRecords, SyncAt, JoinedAt
    <2> QED BY <2>1 DEF MainMoves
  <1>9. CASE MainTakeMore \/ MainNoDrain \/ MainGate \/ MainEndWalk \/ MainJoinProtocol
             \/ MainStop \/ MainRestart
    <2>1. MainKeeps
      BY <1>9, <1>0 DEF MainTakeMore, MainNoDrain, MainGate, MainEndWalk, EndWalk,
         MainJoinProtocol, MainStop, MainRestart, MainKeeps, MainRecords
    <2> QED BY <2>1 DEF MainMoves
  <1> QED
    BY <1>1, <1>2, <1>3, <1>4, <1>5, <1>6, <1>7, <1>8, <1>9 DEF MainLoop, MainDrain

\* Nothing of it is written by the other two threads, but for the events the protocol task pushes.
LEMMA OthersOfMain ==
    ASSUME TypeOK, ProtocolTask \/ SyncTask \/ UNCHANGED vars
    PROVE  main' = main /\ started' = started
  BY ProtocolChanges, SyncChanges DEF TypeOK, vars, shared, ProtocolTask, HandleBinary,
     HandleStreamStart, HandleStreamEnd, HandleStreamClear, Cleanup, FinishHandler, PublishStart,
     SignalEnd, PublishEnd, AppendMarker, RecallItems, PublishCleared, ButList, ButFlags,
     ButEnded, ButEvents

-----------------------------------------------------------------------------
(* The events of a list: the streams it starts, and those it starts and ends *)

Opening(e) == e.type = "STREAM_START"
StartsOf(s) == {o \in Ordinals : \E i \in 1 .. Len(s) : Opening(s[i]) /\ s[i].ordinal = o}
HasEnd(s) == \E i \in 1 .. Len(s) : s[i].type = "STREAM_END"
Passed(s) == {o \in Ordinals : \E i, j \in 1 .. Len(s) :
                /\ i < j /\ Opening(s[i]) /\ s[i].ordinal = o /\ s[j].type = "STREAM_END"}
InOrder(s) == \A i, j \in 1 .. Len(s) :
                i < j /\ Opening(s[i]) /\ Opening(s[j]) => Pos(s[i].ordinal) <= Pos(s[j].ordinal)
NoLater(S, T) == \A a \in S, b \in T : Pos(a) <= Pos(b)

LEMMA EmptyEvents ==
    /\ StartsOf(<<>>) = {} /\ ~HasEnd(<<>>) /\ Passed(<<>>) = {} /\ InOrder(<<>>)
  BY DEF StartsOf, HasEnd, Passed, InOrder

LEMMA OneEvent ==
    ASSUME NEW e \in Events, ~Opening(e)
    PROVE  /\ StartsOf(<<e>>) = {} /\ Passed(<<e>>) = {} /\ InOrder(<<e>>)
           /\ HasEnd(<<e>>) => e.type = "STREAM_END"
  BY DEF StartsOf, HasEnd, Passed, InOrder

LEMMA MoreEvents ==
    ASSUME NEW s \in Seq(Events), NEW e \in Events
    PROVE  /\ StartsOf(Append(s, e)) \subseteq StartsOf(s) \cup {o \in {e.ordinal} : Opening(e)}
           /\ HasEnd(Append(s, e)) => HasEnd(s) \/ e.type = "STREAM_END"
           /\ Passed(Append(s, e))
                \subseteq Passed(s) \cup {o \in StartsOf(s) : e.type = "STREAM_END"}
           /\ InOrder(s) /\ (Opening(e) => NoLater(StartsOf(s), {e.ordinal}))
                => InOrder(Append(s, e))
  <1>1. /\ Len(Append(s, e)) = Len(s) + 1 /\ Append(s, e)[Len(s) + 1] = e /\ Len(s) \in Nat
        /\ \A i \in 1 .. Len(s) : Append(s, e)[i] = s[i] /\ s[i] \in Events
    OBVIOUS
  <1>2. \A i \in 1 .. Len(s) + 1 : i \in 1 .. Len(s) \/ i = Len(s) + 1
    BY <1>1
  <1>3. StartsOf(Append(s, e)) \subseteq StartsOf(s) \cup {o \in {e.ordinal} : Opening(e)}
    BY <1>1, <1>2 DEF StartsOf
  <1>4. HasEnd(Append(s, e)) => HasEnd(s) \/ e.type = "STREAM_END"
    BY <1>1, <1>2 DEF HasEnd
  <1>5. ASSUME NEW o \in Passed(Append(s, e))
        PROVE  o \in Passed(s) \/ (o \in StartsOf(s) /\ e.type = "STREAM_END")
    <2>1. PICK i \in 1 .. Len(s) + 1, j \in 1 .. Len(s) + 1 :
            /\ i < j /\ Opening(Append(s, e)[i]) /\ Append(s, e)[i].ordinal = o
            /\ Append(s, e)[j].type = "STREAM_END"
      BY <1>1, <1>5 DEF Passed
    <2>2. o \in Ordinals
      BY <1>5 DEF Passed
    <2>3. i \in 1 .. Len(s) /\ Opening(s[i]) /\ s[i].ordinal = o
      BY <1>1, <2>1
    <2>4. CASE j = Len(s) + 1
      BY <1>1, <2>1, <2>2, <2>3, <2>4 DEF StartsOf
    <2>5. CASE j \in 1 .. Len(s)
      BY <1>1, <2>1, <2>2, <2>3, <2>5 DEF Passed
    <2> QED BY <1>2, <2>4, <2>5
  <1>6. ASSUME InOrder(s), Opening(e) => NoLater(StartsOf(s), {e.ordinal}),
               NEW i \in 1 .. Len(s) + 1, NEW j \in 1 .. Len(s) + 1,
               i < j, Opening(Append(s, e)[i]), Opening(Append(s, e)[j])
        PROVE  Pos(Append(s, e)[i].ordinal) <= Pos(Append(s, e)[j].ordinal)
    <2>1. i \in 1 .. Len(s) /\ Append(s, e)[i] = s[i] /\ s[i] \in Events
      BY <1>1, <1>6
    <2>2. CASE j \in 1 .. Len(s)
      BY <1>1, <1>6, <2>1, <2>2 DEF InOrder
    <2>3. CASE j = Len(s) + 1
      <3>1. s[i].ordinal \in StartsOf(s)
        BY <1>6, <2>1 DEF StartsOf, Events
      <3> QED BY <1>1, <1>6, <2>1, <2>3, <3>1 DEF NoLater
    <2> QED BY <1>2, <2>2, <2>3
  <1>7. InOrder(s) /\ (Opening(e) => NoLater(StartsOf(s), {e.ordinal})) => InOrder(Append(s, e))
    BY <1>1, <1>6 DEF InOrder
  <1> QED BY <1>3, <1>4, <1>5, <1>7

LEMMA FewerEvents ==
    ASSUME NEW s \in Seq(Events), s # <<>>
    PROVE  /\ StartsOf(Tail(s)) \subseteq StartsOf(s)
           /\ HasEnd(Tail(s)) => HasEnd(s)
           /\ Passed(Tail(s)) \subseteq Passed(s)
           /\ InOrder(s) => InOrder(Tail(s))
           /\ Head(s).type = "STREAM_END" => HasEnd(s)
           /\ Opening(Head(s)) => Head(s).ordinal \in StartsOf(s)
           /\ Opening(Head(s)) /\ HasEnd(s) => Head(s).ordinal \in Passed(s)
           /\ Opening(Head(s)) /\ InOrder(s) => NoLater({Head(s).ordinal}, StartsOf(s))
  <1>1. /\ Len(Tail(s)) = Len(s) - 1 /\ Head(s) = s[1] /\ Len(s) \in Nat \ {0}
        /\ \A i \in 1 .. Len(s) - 1 : Tail(s)[i] = s[i + 1] /\ i + 1 \in 1 .. Len(s)
        /\ \A i \in 1 .. Len(s) : s[i] \in Events
    OBVIOUS
  <1>0. 1 \in 1 .. Len(s) /\ s[1] \in Events
    BY <1>1
  <1>2. StartsOf(Tail(s)) \subseteq StartsOf(s)
    BY <1>1 DEF StartsOf
  <1>3. HasEnd(Tail(s)) => HasEnd(s)
    BY <1>1 DEF HasEnd
  <1>4. Passed(Tail(s)) \subseteq Passed(s)
    <2>1. ASSUME NEW o \in Passed(Tail(s)) PROVE o \in Passed(s)
      <3>1. PICK i \in 1 .. Len(s) - 1, j \in 1 .. Len(s) - 1 :
              /\ i < j /\ Opening(Tail(s)[i]) /\ Tail(s)[i].ordinal = o
              /\ Tail(s)[j].type = "STREAM_END"
        BY <1>1, <2>1 DEF Passed
      <3>2. i + 1 < j + 1 /\ i + 1 \in 1 .. Len(s) /\ j + 1 \in 1 .. Len(s)
        BY <1>1, <3>1
      <3> QED BY <1>1, <2>1, <3>1, <3>2 DEF Passed
    <2> QED BY <2>1
  <1>5. InOrder(s) => InOrder(Tail(s))
    <2>1. ASSUME InOrder(s), NEW i \in 1 .. Len(s) - 1, NEW j \in 1 .. Len(s) - 1, i < j,
                 Opening(Tail(s)[i]), Opening(Tail(s)[j])
          PROVE  Pos(Tail(s)[i].ordinal) <= Pos(Tail(s)[j].ordinal)
      <3>1. i + 1 < j + 1 /\ i + 1 \in 1 .. Len(s) /\ j + 1 \in 1 .. Len(s)
            /\ Tail(s)[i] = s[i + 1] /\ Tail(s)[j] = s[j + 1]
        BY <1>1, <2>1
      <3> QED BY <2>1, <3>1 DEF InOrder
    <2> QED BY <1>1, <2>1 DEF InOrder
  <1>6. Head(s).type = "STREAM_END" => HasEnd(s)
    BY <1>0, <1>1 DEF HasEnd
  <1>7. Opening(Head(s)) => Head(s).ordinal \in StartsOf(s)
    BY <1>0, <1>1 DEF StartsOf, Events
  <1>8. ASSUME Opening(Head(s)), HasEnd(s) PROVE Head(s).ordinal \in Passed(s)
    <2>1. PICK j \in 1 .. Len(s) : s[j].type = "STREAM_END"
      BY <1>8 DEF HasEnd
    <2>2. 1 < j
      BY <1>0, <1>1, <1>8, <2>1 DEF Opening
    <2>3. s[1].ordinal \in Ordinals
      BY <1>0 DEF Events
    <2> QED BY <1>0, <1>1, <1>8, <2>1, <2>2, <2>3 DEF Passed
  <1>9. ASSUME Opening(Head(s)), InOrder(s) PROVE NoLater({Head(s).ordinal}, StartsOf(s))
    <2>1. ASSUME NEW o \in StartsOf(s) PROVE Pos(Head(s).ordinal) <= Pos(o)
      <3>1. PICK i \in 1 .. Len(s) : Opening(s[i]) /\ s[i].ordinal = o
        BY <2>1 DEF StartsOf
      <3>2. CASE i = 1
        <4>1. Pos(o) \in Int
          BY <2>1, PosType DEF StartsOf
        <4> QED BY <1>1, <3>1, <3>2, <4>1
      <3>3. CASE 1 < i
        BY <1>0, <1>1, <1>9, <3>1, <3>3 DEF InOrder
      <3> QED BY <1>1, <3>2, <3>3
    <2> QED BY <2>1 DEF NoLater
  <1> QED BY <1>2, <1>3, <1>4, <1>5, <1>6, <1>7, <1>8, <1>9

-----------------------------------------------------------------------------
(* What a step of the protocol task hands over *)

\* An item of the latest stream, or a marker, appended; or nothing; or everything taken back.
LEMMA ProtocolHands ==
    ASSUME TypeOK, ProtocolTask
    PROVE  \/ list' = list
           \/ list' = <<>> /\ proto.pc = "recall"
           \/ \E item \in Items :
                /\ list' = Append(list, item) /\ item.gen = generation /\ item.clear = proto.clears
                /\ item.kind # "marker" => item.serial = proto'.ordinal /\ proto.pc = "ready"
                /\ item.kind = "marker" => proto.pc = "marker"
  <1> USE DEF ButFlags, ButEnded, ButEvents, Step
  <1>0. /\ proto \in ProtoRecords /\ generation \in Nat /\ proto.ordinal \in Ordinals
        /\ proto.clears \in Nat /\ NextCount(proto.ordinal, OrdinalSpan) \in Ordinals
    BY NextOrdinal DEF TypeOK, ProtoRecords
  <1>1. ASSUME NEW kind \in {"header", "audio", "marker"}, NEW serial \in Ordinals,
               Hand(kind, serial),
               kind # "marker" => serial = proto'.ordinal /\ proto.pc = "ready",
               kind = "marker" => proto.pc = "marker"
        PROVE  \E item \in Items :
                /\ list' = Append(list, item) /\ item.gen = generation /\ item.clear = proto.clears
                /\ item.kind # "marker" => item.serial = proto'.ordinal /\ proto.pc = "ready"
                /\ item.kind = "marker" => proto.pc = "marker"
    <2> DEFINE item == [kind |-> kind, serial |-> serial, gen |-> generation,
                        clear |-> proto.clears]
    <2>1. item \in Items /\ list' = Append(list, item)
      BY <1>0, <1>1 DEF Items, Hand
    <2> QED BY <1>1, <2>1
  <1>2. CASE HandleBinary
    <2>1. Hand("audio", proto.ordinal) /\ proto.pc = "ready" /\ proto'.ordinal = proto.ordinal
      BY <1>2, <1>0 DEF HandleBinary, Receive, ProtoRecords
    <2> QED BY <1>0, <1>1, <2>1
  <1>3. CASE HandleStreamStart
    <2> DEFINE ordinal == NextCount(proto.ordinal, OrdinalSpan)
    <2>1. Hand("header", ordinal) /\ proto.pc = "ready" /\ proto'.ordinal = ordinal
      BY <1>3, <1>0 DEF HandleStreamStart, ProtoRecords
    <2> HIDE DEF ordinal
    <2>2. ordinal \in Ordinals
      BY <1>0 DEF ordinal
    <2> QED BY <1>1, <2>1, <2>2
  <1>4. CASE AppendMarker
    <2>1. list' = list \/ (Hand("marker", 0) /\ proto.pc = "marker")
      BY <1>4 DEF AppendMarker
    <2> QED BY <1>1, <2>1, ZeroOrdinal
  <1>5. CASE RecallItems
    BY <1>5 DEF RecallItems
  <1>6. CASE HandleStreamEnd \/ HandleStreamClear \/ Cleanup \/ PublishStart \/ SignalEnd
             \/ PublishEnd \/ PublishCleared
    BY <1>6 DEF HandleStreamEnd, HandleStreamClear, Cleanup, PublishStart, SignalEnd, PublishEnd,
       PublishCleared
  <1> QED BY <1>2, <1>3, <1>4, <1>5, <1>6 DEF ProtocolTask, FinishHandler

\* An event pushed, or lost, or all of them wiped.
LEMMA ProtocolPushes ==
    ASSUME TypeOK, ProtocolTask
    PROVE  \/ events' = events
           \/ events' = <<>>
           \/ \E e \in Events :
                /\ events' = Append(events, e)
                /\ Opening(e) => e.ordinal = proto.ordinal
                /\ e.type = "STREAM_END" => proto.pc = "endPush"
  <1> USE DEF ButFlags, ButEnded, ButEvents, ButList, Step, Opening
  <1>0. /\ proto \in ProtoRecords /\ generation \in Nat /\ proto.ordinal \in Ordinals
    BY DEF TypeOK, ProtoRecords
  <1>1. CASE PublishStart
    <2> DEFINE e == Event("STREAM_START", proto.ordinal, generation)
    <2>1. e \in Events /\ e.ordinal = proto.ordinal /\ e.type # "STREAM_END"
      BY <1>0 DEF Event, Events
    <2>2. events' = events \/ events' = Append(events, e)
      BY <1>1 DEF PublishStart, Push
    <2> HIDE DEF e
    <2> QED BY <2>1, <2>2
  <1>2. CASE PublishEnd
    <2> DEFINE e == Event("STREAM_END", 0, generation)
    <2>1. e \in Events /\ ~Opening(e)
      BY <1>0, ZeroOrdinal DEF Event, Events
    <2>2. (events' = events \/ events' = Append(events, e)) /\ proto.pc = "endPush"
      BY <1>2 DEF PublishEnd, Push
    <2> HIDE DEF e
    <2> QED BY <2>1, <2>2
  <1>3. CASE PublishCleared
    <2> DEFINE e == Event("CLEARED", 0, generation)
    <2>1. e \in Events /\ ~Opening(e) /\ e.type # "STREAM_END"
      BY <1>0, ZeroOrdinal DEF Event, Events
    <2>2. events' = events \/ events' = Append(events, e)
      BY <1>3 DEF PublishCleared, Push
    <2> HIDE DEF e
    <2> QED BY <2>1, <2>2
  <1>4. CASE HandleBinary \/ HandleStreamStart \/ HandleStreamEnd \/ HandleStreamClear \/ Cleanup
             \/ SignalEnd \/ AppendMarker \/ RecallItems
    BY <1>4 DEF HandleBinary, HandleStreamStart, HandleStreamEnd, HandleStreamClear, Cleanup,
       SignalEnd, AppendMarker, RecallItems
  <1> QED BY <1>1, <1>2, <1>3, <1>4 DEF ProtocolTask, FinishHandler

\* The list is the main loop's to empty once both threads are joined.
LEMMA MainList ==
    ASSUME MainLoop
    PROVE  list' = list \/ list' = <<>>
  BY DEF MainLoop, MainDrain, MainCatchUp, MainTakeEvents, MainDispatch,
         MainTakeMore, MainDrainHead, MainNoDrain, MainGate, MainEndWalk, MainFireEnd,
         MainFireStart, MainAcknowledge, MainWakeSync, MainStop, MainJoinProtocol, MainTearDown,
         MainRestart, shared, ButNote, ButEvents, ButFlags

-----------------------------------------------------------------------------
(* The streams told apart: no ordinal is ahead of the latest, which has not come round *)

\* As many messages as half the ordinals: a signed difference of two of them is their order.
HalfSpan == MaxMessages < Half

SentBy(latest) == {o \in Ordinals : Pos(o) <= Pos(latest)}
Ordered(item) == item.kind \in {"header", "audio"}
SentItem(item, latest) == Ordered(item) => item.serial \in SentBy(latest)

Counts == proto.messages <= MaxMessages /\ Pos(proto.ordinal) <= proto.messages
SentOrdinals == {ended, started, sync.active} \subseteq SentBy(proto.ordinal)
SentInHand == /\ SentItem(sync.held, proto.ordinal) /\ SentItem(sync.next, proto.ordinal)
              /\ SentItem(sync.decoded, proto.ordinal)
SentList == \A i \in 1 .. Len(list) : SentItem(list[i], proto.ordinal)
SentEvents == /\ StartsOf(events) \subseteq SentBy(proto.ordinal)
              /\ StartsOf(main.batch) \subseteq SentBy(proto.ordinal)
              /\ StartsOf(main.awaiting) \subseteq SentBy(proto.ordinal)
Numbered == Counts /\ SentOrdinals /\ SentInHand /\ SentList /\ SentEvents

\* Where the protocol task's ordinal and its count of messages go.
LEMMA OrdinalMoves ==
    ASSUME TypeOK, [Next]_vars
    PROVE  \/ proto'.ordinal = proto.ordinal /\ proto'.messages = proto.messages
           \/ /\ proto.messages < MaxMessages /\ proto'.messages = proto.messages + 1
              /\ proto'.ordinal \in {proto.ordinal, NextCount(proto.ordinal, OrdinalSpan)}
  <1>0. proto \in ProtoRecords
    BY DEF TypeOK
  <1>1. CASE HandleBinary \/ HandleStreamStart \/ HandleStreamEnd \/ HandleStreamClear \/ Cleanup
    BY <1>1, <1>0 DEF HandleBinary, HandleStreamStart, HandleStreamEnd, HandleStreamClear,
       Cleanup, Receive, ProtoRecords
  <1>2. CASE FinishHandler
    BY <1>2, <1>0 DEF FinishHandler, PublishStart, SignalEnd, PublishEnd, AppendMarker,
       RecallItems, PublishCleared, Step, ProtoRecords
  <1>3. CASE MainJoinProtocol \/ MainRestart
    BY <1>3, <1>0 DEF MainJoinProtocol, MainRestart, ProtoRecords
  <1>4. CASE SyncTask \/ UNCHANGED vars
    BY <1>4, SyncChanges DEF vars
  <1>5. CASE MainLoop /\ ~MainJoinProtocol /\ ~MainRestart
    BY <1>5 DEF MainLoop, MainDrain, MainCatchUp, MainTakeEvents, MainDispatch,
         MainTakeMore, MainDrainHead, MainNoDrain, MainGate, MainEndWalk, MainFireEnd,
         MainFireStart, MainAcknowledge, MainWakeSync, MainStop, MainTearDown
  <1> QED BY <1>1, <1>2, <1>3, <1>4, <1>5 DEF Next, ProtocolTask

LEMMA LatestMoves ==
    ASSUME HalfSpan, TypeOK, TypeOK', Counts, [Next]_vars
    PROVE  /\ Counts' /\ SentBy(proto.ordinal) \subseteq SentBy(proto'.ordinal)
           /\ Pos(proto'.ordinal) < Half
  <1>a. /\ proto.ordinal \in Ordinals /\ proto'.ordinal \in Ordinals
        /\ proto.messages \in Nat /\ proto'.messages \in Nat
    BY DEF TypeOK, ProtoRecords
  <1>b. /\ MaxMessages \in Nat
        /\ Half \in Nat /\ Half + Half <= OrdinalSpan /\ OrdinalSpan \in Nat
    BY BoundAssumption, OrdinalAssumption DEF Half
  <1>0. /\ proto.ordinal \in Ordinals /\ proto'.ordinal \in Ordinals
        /\ proto.messages \in Nat /\ proto'.messages \in Nat /\ MaxMessages \in Nat
        /\ Half \in Nat /\ Half + Half <= OrdinalSpan /\ OrdinalSpan \in Nat
    BY <1>a, <1>b
  <1>1. Pos(proto.ordinal) \in Nat /\ Pos(proto'.ordinal) \in Nat
    BY <1>0, PosType
  <1>2. Pos(proto.ordinal) <= proto.messages /\ proto.messages <= MaxMessages /\ MaxMessages < Half
    BY DEF Counts, HalfSpan
  <1>3. CASE proto'.ordinal = proto.ordinal /\ proto'.messages = proto.messages
    BY <1>0, <1>1, <1>2, <1>3 DEF Counts, SentBy
  <1>4. CASE proto.messages < MaxMessages /\ proto'.messages = proto.messages + 1
             /\ proto'.ordinal = proto.ordinal
    BY <1>0, <1>1, <1>2, <1>4 DEF Counts, SentBy
  <1>5. CASE proto.messages < MaxMessages /\ proto'.messages = proto.messages + 1
             /\ proto'.ordinal = NextCount(proto.ordinal, OrdinalSpan)
    <2>1. Pos(proto'.ordinal) = Pos(proto.ordinal) + 1
      <3>1. Pos(proto.ordinal) + 1 < OrdinalSpan
        BY <1>0, <1>1, <1>2
      <3> QED BY <1>0, <1>5, <3>1, PosNext
    <2>2. \A o \in Ordinals : Pos(o) \in Nat
      BY PosType
    <2>3. Counts' /\ Pos(proto'.ordinal) < Half
      BY <1>0, <1>1, <1>2, <1>5, <2>1 DEF Counts
    <2>4. SentBy(proto.ordinal) \subseteq SentBy(proto'.ordinal)
      BY <1>1, <2>1, <2>2 DEF SentBy
    <2> QED BY <2>3, <2>4
  <1> QED BY <1>3, <1>4, <1>5, OrdinalMoves

LEMMA LatestIsSent ==
    ASSUME NEW o \in Ordinals
    PROVE  o \in SentBy(o)
  <1>1. Pos(o) \in Nat
    BY PosType
  <1> QED BY <1>1 DEF SentBy

\* What the sync task and the others keep in hand comes from the list.
LEMMA SyncHandMoves ==
    ASSUME TypeOK, InHand, SyncTask
    PROVE  /\ sync'.held \in {sync.held, sync.next, NoItem} \/ (Takes /\ sync'.held = Head(list))
           /\ sync'.next \in {sync.next, sync.held, NoItem} \/ (Takes /\ sync'.next = Head(list))
           /\ sync'.decoded \in {sync.decoded, sync.held, NoItem}
           /\ \/ sync'.active = sync.active
              \/ sync'.active = sync.held.serial /\ sync.held.kind = "header"
           /\ list' = list \/ Takes
  <1>0. SyncMoves
    BY SyncEffect
  <1>1. CASE Leaves \/ Waits \/ Holds \/ DiscardedAll \/ Turns
    BY <1>1 DEF Leaves, Waits, Holds, DiscardedAll, Turns, KeepsAll
  <1>2. CASE Skips
    BY <1>2 DEF Skips
  <1>3. CASE Enters \/ TakesHeader \/ Begins \/ Discards \/ Starts
    BY <1>3 DEF Enters, TakesHeader, Begins, Discards, Starts, KeepsButHeld, Takes
  <1>4. CASE Applies \/ Releases
    BY <1>4 DEF Applies, Releases
  <1>5. CASE Activates
    BY <1>5 DEF Activates, InHand, HeldPlaces
  <1>6. CASE Writes \/ Loads \/ Decodes \/ Exits
    BY <1>6 DEF Writes, Loads, Decodes, Exits
  <1> QED BY <1>0, <1>1, <1>2, <1>3, <1>4, <1>5, <1>6 DEF SyncMoves

LEMMA SentLater ==
    ASSUME NEW item, NEW a, NEW b, SentBy(a) \subseteq SentBy(b), SentItem(item, a)
    PROVE  SentItem(item, b)
  BY DEF SentItem

LEMMA SentNone ==
    ASSUME NEW a
    PROVE  SentItem(NoItem, a)
  BY DEF SentItem, Ordered, NoItem

LEMMA SentListNext ==
    ASSUME list \in Seq(Items), list # <<>>, NEW a,
           \A i \in 1 .. Len(list) : SentItem(list[i], a)
    PROVE  SentItem(Head(list), a) /\ \A i \in 1 .. Len(Tail(list)) : SentItem(Tail(list)[i], a)
  <1>1. /\ Len(Tail(list)) = Len(list) - 1 /\ Head(list) = list[1] /\ Len(list) \in Nat \ {0}
        /\ \A i \in 1 .. Len(list) - 1 : Tail(list)[i] = list[i + 1] /\ i + 1 \in 1 .. Len(list)
    OBVIOUS
  <1> QED BY <1>1

LEMMA NumberedSync ==
    ASSUME TypeOK, InHand, Numbered, SyncTask
    PROVE  SentOrdinals' /\ SentInHand' /\ SentList' /\ SentEvents'
  <1>0. UNCHANGED <<proto, main, generation, ended, started, params, events>>
    BY SyncChanges
  <1>1. SentEvents'
    BY <1>0 DEF Numbered, SentEvents
  <1>2. list \in Seq(Items)
    BY DEF TypeOK
  <1>3. Takes => SentItem(Head(list), proto.ordinal)
                  /\ \A i \in 1 .. Len(Tail(list)) : SentItem(Tail(list)[i], proto.ordinal)
    BY <1>2, SentListNext DEF Takes, Numbered, SentList
  <1>4. SentList'
    <2>1. CASE list' = list
      BY <1>0, <2>1 DEF Numbered, SentList
    <2>2. CASE Takes
      BY <1>0, <1>3, <2>2 DEF Takes, SentList
    <2> QED BY <2>1, <2>2, SyncHandMoves
  <1>5. SentItem(sync'.held, proto.ordinal)
    BY <1>3, SyncHandMoves, SentNone DEF Numbered, SentInHand
  <1>6. SentItem(sync'.next, proto.ordinal)
    BY <1>3, SyncHandMoves, SentNone DEF Numbered, SentInHand
  <1>7. SentItem(sync'.decoded, proto.ordinal)
    BY <1>3, SyncHandMoves, SentNone DEF Numbered, SentInHand
  <1>8. SentInHand'
    BY <1>0, <1>5, <1>6, <1>7 DEF SentInHand
  <1>9. SentOrdinals'
    <2>1. sync'.active \in SentBy(proto.ordinal)
      BY SyncHandMoves DEF Numbered, SentOrdinals, SentInHand, SentItem, Ordered
    <2> QED BY <1>0, <2>1 DEF Numbered, SentOrdinals
  <1> QED BY <1>1, <1>4, <1>8, <1>9

LEMMA NumberedProtocol ==
    ASSUME TypeOK, TypeOK', Numbered, ProtocolTask,
           SentBy(proto.ordinal) \subseteq SentBy(proto'.ordinal)
    PROVE  SentOrdinals' /\ SentInHand' /\ SentList' /\ SentEvents'
  <1>0. /\ proto \in ProtoRecords /\ list \in Seq(Items) /\ events \in Seq(Events)
        /\ proto.ordinal \in Ordinals /\ proto'.ordinal \in Ordinals
    BY DEF TypeOK, ProtoRecords
  <1>1. UNCHANGED <<main, sync>> /\ started' = started
    BY <1>0, ProtocolChanges, OthersOfMain
  <1>2. ended' = ended \/ ended' = proto.ordinal
    BY DEF ProtocolTask, HandleBinary, HandleStreamStart, HandleStreamEnd,
     HandleStreamClear, Cleanup, FinishHandler, PublishStart, SignalEnd, PublishEnd,
     AppendMarker, RecallItems, PublishCleared, ButList, ButFlags, ButEnded, ButEvents
  <1>3. proto.ordinal \in SentBy(proto'.ordinal) /\ proto'.ordinal \in SentBy(proto'.ordinal)
    BY <1>0, LatestIsSent
  <1>4. SentOrdinals'
    BY <1>1, <1>2, <1>3 DEF Numbered, SentOrdinals
  <1>5. SentInHand'
    BY <1>1, SentLater DEF Numbered, SentInHand
  <1>6. \A i \in 1 .. Len(list) : SentItem(list[i], proto'.ordinal)
    BY SentLater DEF Numbered, SentList
  <1>7. SentList'
    <2>1. CASE list' = list
      BY <1>6, <2>1 DEF SentList
    <2>2. CASE list' = <<>>
      BY <2>2 DEF SentList
    <2>3. ASSUME NEW item \in Items, list' = Append(list, item),
                 item.kind # "marker" => item.serial = proto'.ordinal
          PROVE  SentList'
      <3>1. SentItem(item, proto'.ordinal)
        BY <1>3, <2>3 DEF SentItem, Ordered
      <3>2. \A i \in 1 .. Len(Append(list, item)) : SentItem(Append(list, item)[i], proto'.ordinal)
        BY <1>0, <1>6, <3>1
      <3> QED BY <2>3, <3>2 DEF SentList
    <2> QED BY <2>1, <2>2, <2>3, ProtocolHands
  <1>8. SentEvents'
    <2>1. StartsOf(events) \subseteq SentBy(proto'.ordinal)
      BY DEF Numbered, SentEvents
    <2>2. StartsOf(events') \subseteq SentBy(proto'.ordinal)
      <3>1. CASE events' = events
        BY <2>1, <3>1
      <3>2. CASE events' = <<>>
        BY <3>2, EmptyEvents
      <3>3. ASSUME NEW e \in Events, events' = Append(events, e),
                   Opening(e) => e.ordinal = proto.ordinal
            PROVE  StartsOf(events') \subseteq SentBy(proto'.ordinal)
        BY <1>0, <1>3, <2>1, <3>3, MoreEvents
      <3> QED BY <3>1, <3>2, <3>3, ProtocolPushes
    <2> QED BY <1>1, <2>2 DEF Numbered, SentEvents
  <1> QED BY <1>4, <1>5, <1>7, <1>8

\* The end a teardown owes starts no stream.
LEMMA OwedIsEnd ==
    /\ OwedEnd \in Events /\ ~Opening(OwedEnd) /\ OwedEnd.type = "STREAM_END"
    /\ <<OwedEnd>> \in Seq(Events)
  BY OwedType DEF OwedEnd, Event, Opening

\* Streams come to the listener's list from the batch, and to the batch from the ring.
LEMMA MainStarts ==
    ASSUME TypeOK, StartWaits, MainMoves
    PROVE  /\ StartsOf(events') \subseteq StartsOf(events)
           /\ StartsOf(main'.batch) \subseteq StartsOf(main.batch) \cup StartsOf(events)
           /\ StartsOf(main'.awaiting) \subseteq StartsOf(main.awaiting) \cup StartsOf(main.batch)
           /\ started' \in {started} \cup StartsOf(main.awaiting)
  <1>0. /\ main.batch \in Seq(Events) /\ main.awaiting \in Seq(Events) /\ generation \in Nat
        /\ events \in Seq(Events)
    BY DEF TypeOK, MainRecords
  <1>1. StartsOf(<<OwedEnd>>) = {}
    BY OwedIsEnd, OneEvent
  <1>2. CASE MainKeeps \/ MainTakes \/ MainOpens
    BY <1>2, EmptyEvents DEF MainKeeps, MainTakes, MainOpens
  <1>3. CASE MainCatches
    BY <1>1, <1>3 DEF MainCatches, CatchesUp
  <1>4. CASE MainMovesOn
    <2> DEFINE e == Head(main.batch)
    <2>1. /\ main.batch # <<>> /\ main'.batch = Tail(main.batch) /\ events' = events
          /\ started' = started
      BY <1>4 DEF MainMovesOn
    <2>2. e \in Events /\ StartsOf(Tail(main.batch)) \subseteq StartsOf(main.batch)
          /\ {o \in {e.ordinal} : Opening(e)} \subseteq StartsOf(main.batch)
      <3>1. e \in Events /\ StartsOf(Tail(main.batch)) \subseteq StartsOf(main.batch)
        BY <1>0, <2>1, FewerEvents, NextEventType
      <3>2. Opening(e) => e.ordinal \in StartsOf(main.batch)
        BY <1>0, <2>1, FewerEvents
      <3> QED BY <3>1, <3>2
    <2>3. ASSUME NEW s \in Seq(Events), StartsOf(s) \subseteq StartsOf(main.awaiting),
                 main'.awaiting = Append(s, e)
          PROVE  StartsOf(main'.awaiting)
                   \subseteq StartsOf(main.awaiting) \cup StartsOf(main.batch)
      <3> HIDE DEF e
      <3>1. StartsOf(Append(s, e)) \subseteq StartsOf(s) \cup {o \in {e.ordinal} : Opening(e)}
        BY <2>2, MoreEvents
      <3> QED BY <2>2, <2>3, <3>1
    <2>4. \/ main'.awaiting \in {main.awaiting, <<OwedEnd>>}
          \/ main'.awaiting = Append(<<OwedEnd>>, e)
          \/ main'.awaiting = Append(main.awaiting, e)
      BY <1>4 DEF MainMovesOn, CatchesUp
    <2> HIDE DEF e
    <2>5. StartsOf(main'.awaiting) \subseteq StartsOf(main.awaiting) \cup StartsOf(main.batch)
      <3>1. CASE main'.awaiting \in {main.awaiting, <<OwedEnd>>}
        BY <1>1, <3>1
      <3>2. CASE main'.awaiting = Append(<<OwedEnd>>, e)
        BY <1>1, <2>3, <3>2, OwedIsEnd
      <3>3. CASE main'.awaiting = Append(main.awaiting, e)
        BY <1>0, <2>3, <3>3
      <3> QED BY <2>4, <3>1, <3>2, <3>3
    <2> QED BY <2>1, <2>2, <2>5
  <1>5. CASE MainCloses \/ MainWakes
    <2>1. /\ main.awaiting # <<>> /\ main'.awaiting \in {main.awaiting, Tail(main.awaiting)}
          /\ main'.batch = main.batch /\ events' = events /\ started' = started
      BY <1>5 DEF MainCloses, MainWakes, StartWaits
    <2> QED BY <1>0, <2>1, FewerEvents
  <1>6. CASE MainTells
    <2>1. /\ main.awaiting # <<>> /\ Opening(Head(main.awaiting))
          /\ started' = Head(main.awaiting).ordinal
          /\ main'.awaiting = main.awaiting /\ main'.batch = main.batch /\ events' = events
      BY <1>6 DEF MainTells, StartWaits, Opening
    <2>2. Head(main.awaiting).ordinal \in StartsOf(main.awaiting)
      BY <1>0, <2>1, FewerEvents
    <2> QED BY <2>1, <2>2
  <1>7. CASE MainTears
    <2> DEFINE e == Event("CLEARED", 0, generation + 1)
    <2>1. e \in Events /\ ~Opening(e)
      BY <1>0, ZeroOrdinal DEF Event, Events, Opening
    <2>2. StartsOf(<<e>>) = {}
      BY <2>1, OneEvent
    <2>3. events' = <<e>> /\ main'.batch = <<>> /\ main'.awaiting = main.awaiting
          /\ started' = started
      BY <1>7 DEF MainTears
    <2> HIDE DEF e
    <2> QED BY <2>2, <2>3, EmptyEvents
  <1> QED BY <1>2, <1>3, <1>4, <1>5, <1>6, <1>7 DEF MainMoves

LEMMA NumberedMain ==
    ASSUME TypeOK, TypeOK', StartWaits, Stamped, JoinedAt, Numbered, MainLoop,
           SentBy(proto.ordinal) \subseteq SentBy(proto'.ordinal)
    PROVE  SentOrdinals' /\ SentInHand' /\ SentList' /\ SentEvents'
  <1>0. proto.ordinal \in Ordinals /\ sync \in SyncRecords
    BY DEF TypeOK, ProtoRecords
  <1>1. proto.ordinal \in SentBy(proto'.ordinal)
    BY <1>0, LatestIsSent
  <1>2. MainMoves
    BY MainEffect
  <1>3. SentEvents'
    BY <1>2, MainStarts DEF Numbered, SentEvents
  <1>4. /\ sync'.held = sync.held /\ sync'.next = sync.next /\ sync'.decoded = sync.decoded
        /\ sync'.active = sync.active /\ ended' \in {ended, proto.ordinal}
    BY <1>0 DEF MainLoop, MainDrain, MainCatchUp, MainTakeEvents, MainDispatch,
         MainTakeMore, MainDrainHead, MainNoDrain, MainGate, MainEndWalk, MainFireEnd,
         MainFireStart, MainAcknowledge, MainWakeSync, MainStop, MainJoinProtocol, MainTearDown,
         MainRestart, shared, ButNote, ButEvents, ButFlags, SyncGoes, SyncRecords
  <1>5. SentOrdinals'
    <2>1. started' \in SentBy(proto.ordinal)
      BY <1>2, MainStarts DEF Numbered, SentEvents, SentOrdinals
    <2> QED BY <1>1, <1>4, <2>1 DEF Numbered, SentOrdinals
  <1>6. SentInHand'
    BY <1>4, SentLater DEF Numbered, SentInHand
  <1>7. SentList'
    <2>1. \A i \in 1 .. Len(list) : SentItem(list[i], proto'.ordinal)
      BY SentLater DEF Numbered, SentList
    <2>2. CASE list' = list
      BY <2>1, <2>2 DEF SentList
    <2>3. CASE list' = <<>>
      BY <2>3 DEF SentList
    <2> QED BY <2>2, <2>3, MainList
  <1> QED BY <1>3, <1>5, <1>6, <1>7

LEMMA NumberedStep ==
    ASSUME HalfSpan, TypeOK, TypeOK', StartWaits, Stamped, JoinedAt, InHand, Numbered, [Next]_vars
    PROVE  Numbered'
  <1>1. Counts' /\ SentBy(proto.ordinal) \subseteq SentBy(proto'.ordinal)
    BY LatestMoves DEF Numbered
  <1>2. SentOrdinals' /\ SentInHand' /\ SentList' /\ SentEvents'
    <2>1. CASE UNCHANGED vars
      BY <2>1 DEF vars, shared, Numbered, SentOrdinals, SentInHand, SentList, SentEvents
    <2> QED BY <1>1, <2>1, NumberedSync, NumberedProtocol, NumberedMain DEF Next
  <1> QED BY <1>1, <1>2 DEF Numbered

-----------------------------------------------------------------------------
(* The order of the list: what is taken later was sent no earlier *)

Ahead(o, s) == \A i \in 1 .. Len(s) : Ordered(s[i]) => Pos(o) <= Pos(s[i].serial)
Sorted(s) == \A i, j \in 1 .. Len(s) :
               i < j /\ Ordered(s[i]) /\ Ordered(s[j]) => Pos(s[i].serial) <= Pos(s[j].serial)

ListOrder ==
    /\ Sorted(list)
    /\ Ordered(sync.held) => Ahead(sync.held.serial, list)
    /\ Ordered(sync.next) => Ahead(sync.next.serial, list)
    /\ Playing => Ahead(sync.active, list)
    /\ Playing /\ sync.held.kind = "audio" => Pos(sync.active) <= Pos(sync.held.serial)
    /\ Playing /\ sync.decoded # NoItem => Pos(sync.active) <= Pos(sync.decoded.serial)

LEMMA ListNext ==
    ASSUME NEW s \in Seq(Items), s # <<>>
    PROVE  /\ \A o : Ahead(o, s) => Ahead(o, Tail(s))
           /\ \A o : Ahead(o, s) /\ Ordered(Head(s)) => Pos(o) <= Pos(Head(s).serial)
           /\ Sorted(s) => Sorted(Tail(s))
           /\ Sorted(s) /\ Ordered(Head(s)) => Ahead(Head(s).serial, Tail(s))
  <1>1. /\ Len(Tail(s)) = Len(s) - 1 /\ Head(s) = s[1] /\ Len(s) \in Nat \ {0}
        /\ \A i \in 1 .. Len(s) - 1 : Tail(s)[i] = s[i + 1] /\ i + 1 \in 1 .. Len(s) /\ 1 < i + 1
        /\ 1 \in 1 .. Len(s)
    OBVIOUS
  <1>2. \A o : Ahead(o, s) => Ahead(o, Tail(s))
    BY <1>1 DEF Ahead
  <1>3. \A o : Ahead(o, s) /\ Ordered(Head(s)) => Pos(o) <= Pos(Head(s).serial)
    BY <1>1 DEF Ahead
  <1>4. Sorted(s) => Sorted(Tail(s))
    <2>1. ASSUME Sorted(s), NEW i \in 1 .. Len(s) - 1, NEW j \in 1 .. Len(s) - 1, i < j,
                 Ordered(Tail(s)[i]), Ordered(Tail(s)[j])
          PROVE  Pos(Tail(s)[i].serial) <= Pos(Tail(s)[j].serial)
      <3>1. i + 1 < j + 1 /\ i + 1 \in 1 .. Len(s) /\ j + 1 \in 1 .. Len(s)
            /\ Tail(s)[i] = s[i + 1] /\ Tail(s)[j] = s[j + 1]
        BY <1>1, <2>1
      <3> QED BY <2>1, <3>1 DEF Sorted
    <2> QED BY <1>1, <2>1 DEF Sorted
  <1>5. ASSUME Sorted(s), Ordered(Head(s)) PROVE Ahead(Head(s).serial, Tail(s))
    BY <1>1, <1>5 DEF Sorted, Ahead
  <1> QED BY <1>2, <1>3, <1>4, <1>5

LEMMA ListMore ==
    ASSUME NEW s \in Seq(Items), NEW item \in Items
    PROVE  /\ \A o : Ahead(o, s) /\ (Ordered(item) => Pos(o) <= Pos(item.serial))
                       => Ahead(o, Append(s, item))
           /\ Sorted(s) /\ (\A i \in 1 .. Len(s) : Ordered(s[i]) /\ Ordered(item)
                                => Pos(s[i].serial) <= Pos(item.serial))
                => Sorted(Append(s, item))
  <1>1. /\ Len(Append(s, item)) = Len(s) + 1 /\ Append(s, item)[Len(s) + 1] = item
        /\ Len(s) \in Nat
        /\ \A i \in 1 .. Len(s) : Append(s, item)[i] = s[i]
    OBVIOUS
  <1>2. \A i \in 1 .. Len(s) + 1 : i \in 1 .. Len(s) \/ i = Len(s) + 1
    BY <1>1
  <1>3. \A o : Ahead(o, s) /\ (Ordered(item) => Pos(o) <= Pos(item.serial))
                 => Ahead(o, Append(s, item))
    BY <1>1, <1>2 DEF Ahead
  <1>4. ASSUME Sorted(s), \A i \in 1 .. Len(s) : Ordered(s[i]) /\ Ordered(item)
                                => Pos(s[i].serial) <= Pos(item.serial),
               NEW i \in 1 .. Len(s) + 1, NEW j \in 1 .. Len(s) + 1, i < j,
               Ordered(Append(s, item)[i]), Ordered(Append(s, item)[j])
        PROVE  Pos(Append(s, item)[i].serial) <= Pos(Append(s, item)[j].serial)
    <2>1. i \in 1 .. Len(s) /\ Append(s, item)[i] = s[i]
      BY <1>1, <1>4
    <2>2. CASE j \in 1 .. Len(s)
      BY <1>1, <1>4, <2>1, <2>2 DEF Sorted
    <2>3. CASE j = Len(s) + 1
      BY <1>1, <1>4, <2>1, <2>3
    <2> QED BY <1>2, <2>2, <2>3
  <1> QED BY <1>1, <1>3, <1>4 DEF Sorted

LEMMA EmptyList ==
    Sorted(<<>>) /\ \A o : Ahead(o, <<>>)
  BY DEF Sorted, Ahead

\* A stream played goes on with what it held, or what it takes.
LEMMA PlayingMoves ==
    ASSUME TypeOK, InHand, SyncTask, Playing'
    PROVE  \/ /\ Playing /\ sync'.active = sync.active
              /\ \/ sync'.held \in {sync.held, NoItem} \/ sync'.held.kind = "header"
                 \/ Takes /\ sync'.held = Head(list)
              /\ \/ sync'.decoded \in {sync.decoded, NoItem}
                 \/ sync.held.kind = "audio" /\ sync'.decoded = sync.held
           \/ /\ sync'.active = sync.held.serial /\ sync'.held = sync.held /\ list' = list
              /\ sync.held.kind = "header" /\ sync'.decoded = NoItem
  <1> USE DEF HeldPlaces, LeftPlaces
  <1>0. SyncMoves
    BY SyncEffect
  <1>1. CASE Leaves \/ Waits \/ Holds
    BY <1>1 DEF Playing, Leaves, Waits, Holds, KeepsAll
  <1>2. CASE Skips
    BY <1>2 DEF Playing, Skips
  <1>3. CASE Enters \/ TakesHeader \/ Releases \/ Exits
    BY <1>3 DEF Playing, Enters, TakesHeader, Releases, Exits
  <1>4. CASE Begins
    BY <1>4 DEF Playing, Begins, KeepsButHeld
  <1>5. CASE Discards
    BY <1>5 DEF Playing, Discards, KeepsButHeld
  <1>6. CASE DiscardedAll \/ Turns
    BY <1>6 DEF Playing, DiscardedAll, Turns, KeepsAll
  <1>7. CASE Applies \/ Writes \/ Loads \/ Decodes
    BY <1>7 DEF Playing, Applies, Writes, Loads, Decodes
  <1>8. CASE Activates
    BY <1>8 DEF Playing, Activates, InHand
  <1>9. CASE Starts
    BY <1>9 DEF Playing, Starts, KeepsButHeld
  <1> QED BY <1>0, <1>1, <1>2, <1>3, <1>4, <1>5, <1>6, <1>7, <1>8, <1>9 DEF SyncMoves

LEMMA ListOrderSync ==
    ASSUME TypeOK, InHand, ListOrder, SyncTask
    PROVE  ListOrder'
  <1>0. list \in Seq(Items)
    BY DEF TypeOK
  <1>1. Takes => /\ list # <<>> /\ list' = Tail(list) /\ Sorted(Tail(list))
                 /\ \A o : Ahead(o, list) => Ahead(o, Tail(list))
                 /\ \A o : Ahead(o, list) /\ Ordered(Head(list)) => Pos(o) <= Pos(Head(list).serial)
                 /\ Ordered(Head(list)) => Ahead(Head(list).serial, Tail(list))
    BY <1>0, ListNext DEF Takes, ListOrder
  <1>2. list' = list \/ Takes
    BY SyncHandMoves
  <1>3. Sorted(list')
    BY <1>1, <1>2 DEF ListOrder
  <1>4. \A o : Ahead(o, list) => Ahead(o, list')
    BY <1>1, <1>2
  <1>5. ~Ordered(NoItem)
    BY DEF Ordered, NoItem
  <1>6. Ordered(sync'.held) => Ahead(sync'.held.serial, list')
    <2>1. CASE sync'.held \in {sync.held, sync.next, NoItem}
      BY <1>4, <1>5, <2>1 DEF ListOrder
    <2>2. CASE Takes /\ sync'.held = Head(list)
      BY <1>1, <2>2
    <2> QED BY <2>1, <2>2, SyncHandMoves
  <1>7. Ordered(sync'.next) => Ahead(sync'.next.serial, list')
    <2>1. CASE sync'.next \in {sync.held, sync.next, NoItem}
      BY <1>4, <1>5, <2>1 DEF ListOrder
    <2>2. CASE Takes /\ sync'.next = Head(list)
      BY <1>1, <2>2
    <2> QED BY <2>1, <2>2, SyncHandMoves
  <1>8. ASSUME Playing'
        PROVE  /\ Ahead(sync'.active, list')
               /\ sync'.held.kind = "audio" => Pos(sync'.active) <= Pos(sync'.held.serial)
               /\ sync'.decoded # NoItem => Pos(sync'.active) <= Pos(sync'.decoded.serial)
    <2>1. CASE /\ sync'.active = sync.held.serial /\ sync'.held = sync.held /\ list' = list
               /\ sync.held.kind = "header" /\ sync'.decoded = NoItem
      BY <2>1 DEF ListOrder, Ordered
    <2>2. CASE /\ Playing /\ sync'.active = sync.active
               /\ \/ sync'.held \in {sync.held, NoItem} \/ sync'.held.kind = "header"
                  \/ Takes /\ sync'.held = Head(list)
               /\ \/ sync'.decoded \in {sync.decoded, NoItem}
                  \/ sync.held.kind = "audio" /\ sync'.decoded = sync.held
      <3>1. Ahead(sync'.active, list')
        BY <1>4, <2>2 DEF ListOrder
      <3>2. sync'.held.kind = "audio" => Pos(sync'.active) <= Pos(sync'.held.serial)
        <4>1. CASE sync'.held \in {sync.held, NoItem} \/ sync'.held.kind = "header"
          BY <2>2, <4>1 DEF ListOrder, NoItem
        <4>2. CASE Takes /\ sync'.held = Head(list)
          BY <1>1, <2>2, <4>2 DEF ListOrder, Ordered
        <4> QED BY <2>2, <4>1, <4>2
      <3>3. sync'.decoded # NoItem => Pos(sync'.active) <= Pos(sync'.decoded.serial)
        BY <2>2 DEF ListOrder
      <3> QED BY <3>1, <3>2, <3>3
    <2> QED BY <1>8, <2>1, <2>2, PlayingMoves
  <1> QED BY <1>3, <1>6, <1>7, <1>8 DEF ListOrder

LEMMA ListOrderProtocol ==
    ASSUME TypeOK, Numbered, Numbered', ListOrder, ProtocolTask
    PROVE  ListOrder'
  <1>0. list \in Seq(Items) /\ proto \in ProtoRecords
    BY DEF TypeOK
  <1>1. sync' = sync
    BY <1>0, ProtocolChanges
  <1>2. Playing' <=> Playing
    BY <1>1 DEF Playing
  <1>3. CASE list' = list
    BY <1>1, <1>2, <1>3 DEF ListOrder
  <1>4. CASE list' = <<>>
    BY <1>1, <1>2, <1>4, EmptyList DEF ListOrder
  <1>5. ASSUME NEW item \in Items, list' = Append(list, item),
               item.kind # "marker" => item.serial = proto'.ordinal
        PROVE  ListOrder'
    <2>1. ASSUME NEW o \in SentBy(proto'.ordinal) PROVE Ordered(item) => Pos(o) <= Pos(item.serial)
      BY <1>5, <2>1 DEF SentBy, Ordered
    <2>2. /\ Ordered(sync.held) => sync.held.serial \in SentBy(proto'.ordinal)
          /\ Ordered(sync.next) => sync.next.serial \in SentBy(proto'.ordinal)
          /\ sync.active \in SentBy(proto'.ordinal)
      BY <1>1 DEF Numbered, SentInHand, SentOrdinals, SentItem
    <2>3. \A i \in 1 .. Len(list) : Ordered(list[i]) => list[i].serial \in SentBy(proto'.ordinal)
      <3>1. \A i \in 1 .. Len(list) : list'[i] = list[i] /\ i \in 1 .. Len(list')
        BY <1>0, <1>5
      <3> QED BY <3>1 DEF Numbered, SentList, SentItem
    <2>4. Sorted(list')
      BY <1>0, <1>5, <2>1, <2>3, ListMore DEF ListOrder
    <2>5. ASSUME NEW o \in SentBy(proto'.ordinal), Ahead(o, list) PROVE Ahead(o, list')
      BY <1>0, <1>5, <2>1, <2>5, ListMore
    <2> QED BY <1>1, <1>2, <2>2, <2>4, <2>5 DEF ListOrder
  <1> QED BY <1>3, <1>4, <1>5, ProtocolHands

LEMMA ListOrderStep ==
    ASSUME TypeOK, Joined, InHand, Numbered, Numbered', ListOrder, [Next]_vars
    PROVE  ListOrder'
  <1>0. sync \in SyncRecords
    BY DEF TypeOK
  <1>1. CASE SyncTask
    BY <1>1, ListOrderSync
  <1>2. CASE ProtocolTask
    BY <1>2, ListOrderProtocol
  <1>3. CASE (MainLoop \/ UNCHANGED vars) /\ ~SyncTask
    <2>1. list' = list \/ list' = <<>>
      BY <1>3, MainList DEF vars, shared
    <2>2. /\ sync'.held = sync.held /\ sync'.next = sync.next /\ sync'.active = sync.active
          /\ sync'.decoded = sync.decoded /\ (Playing' => Playing)
      <3>1. CASE UNCHANGED sync
        BY <3>1 DEF Playing
      <3>2. CASE sync' = [sync EXCEPT !.pc = "noteIdle"]
        BY <1>0, <3>2 DEF Playing, SyncRecords
      <3> QED BY <1>3, <3>1, <3>2, OthersOfSync
    <2> QED BY <2>1, <2>2, EmptyList DEF ListOrder
  <1> QED BY <1>1, <1>2, <1>3 DEF Next

-----------------------------------------------------------------------------
(* The stream played has not ended, and has been acknowledged *)

Near == Pos(proto.ordinal) < Half

LEMMA LatestIsNear ==
    ASSUME HalfSpan, TypeOK, Numbered
    PROVE  Near
  <1>1. proto.ordinal \in Ordinals /\ proto.messages \in Nat
    BY DEF TypeOK, ProtoRecords
  <1>2. Half \in Nat /\ MaxMessages \in Nat
    BY BoundAssumption, OrdinalAssumption DEF Half
  <1>3. Pos(proto.ordinal) \in Nat
    BY <1>1, PosType
  <1>4. Pos(proto.ordinal) <= proto.messages /\ proto.messages <= MaxMessages /\ MaxMessages < Half
    BY DEF HalfSpan, Numbered, Counts
  <1> QED BY <1>1, <1>2, <1>3, <1>4 DEF Near

\* Two ordinals sent are compared as their places.
LEMMA SentOrder ==
    ASSUME NEW latest \in Ordinals, Pos(latest) < Half,
           NEW a \in SentBy(latest), NEW b \in SentBy(latest)
    PROVE  After(a, b) <=> Pos(b) < Pos(a)
  <1>1. a \in Ordinals /\ b \in Ordinals /\ Pos(a) <= Pos(latest) /\ Pos(b) <= Pos(latest)
    BY DEF SentBy
  <1>2. Pos(a) \in Nat /\ Pos(b) \in Nat /\ Pos(latest) \in Nat /\ Half \in Nat
    BY <1>1, PosType, OrdinalAssumption DEF Half
  <1>3. Pos(a) < Half /\ Pos(b) < Half
    BY <1>1, <1>2
  <1> QED BY <1>1, <1>3, AfterIsLater

LEMMA StreamSent ==
    ASSUME InHand, Numbered, OnStream
    PROVE  Stream \in SentBy(proto.ordinal)
  <1>1. CASE Playing
    BY <1>1 DEF Stream, Numbered, SentOrdinals
  <1>2. CASE ~Playing
    <2>1. sync.held.kind = "header"
      BY <1>2 DEF OnStream, Holding, InHand
    <2> QED BY <1>2, <2>1 DEF Stream, Numbered, SentInHand, SentItem, Ordered
  <1> QED BY <1>1, <1>2

Ending == proto.pc \in {"endFlag", "cleanupFlag"} \/ "STREAM_END" \in flags
NotEnded == OnStream /\ ~Ending => Pos(ended) < Pos(Stream)

\* The sync task forgets a STREAM_END on its way back to IDLE only.
LEMMA EndForgotten ==
    ASSUME TypeOK, SyncTask, OnStream', "STREAM_END" \in flags
    PROVE  "STREAM_END" \in flags'
  <1>1. CASE sync.pc = "clearIdle"
    <2>0. SyncMoves
      BY SyncEffect
    <2>1. sync'.pc \in LeftPlaces
      BY <1>1, <2>0 DEF SyncMoves, HeldPlaces, LeftPlaces, Leaves, Waits, Skips, Enters,
         TakesHeader, Holds, Begins, Discards, DiscardedAll, Applies, Releases, Activates, Starts,
         Turns, Writes, Loads, Decodes, Exits
    <2> QED BY <2>1 DEF OnStream, Playing, Holding, HeldPlaces, LeftPlaces
  <1>2. CASE sync.pc # "clearIdle"
    BY <1>2, SyncFlags
  <1> QED BY <1>1, <1>2

\* What the protocol task and the main loop do to the end of a stream.
LEMMA ProtocolEnds ==
    ASSUME TypeOK, ProtocolTask
    PROVE  /\ Ending => Ending'
           /\ ended' = ended \/ (ended' = proto.ordinal /\ Ending')
           /\ flags \subseteq flags'
  <1> USE DEF ButFlags, ButEnded, ButEvents, ButList, Step, Ending
  <1>0. proto \in ProtoRecords
    BY DEF TypeOK
  <1>1. CASE HandleBinary \/ HandleStreamStart \/ HandleStreamClear \/ Cleanup
    BY <1>1, <1>0 DEF HandleBinary, HandleStreamStart, HandleStreamClear, Cleanup, Receive,
       ProtoRecords
  <1>2. CASE HandleStreamEnd
    BY <1>2, <1>0 DEF HandleStreamEnd, Receive, ProtoRecords
  <1>3. CASE RecallItems
    BY <1>3, <1>0 DEF RecallItems, ProtoRecords
  <1>4. CASE SignalEnd
    BY <1>4, <1>0 DEF SignalEnd, ProtoRecords
  <1>5. CASE PublishStart \/ PublishEnd \/ PublishCleared \/ AppendMarker
    BY <1>5, <1>0 DEF PublishStart, PublishEnd, PublishCleared, AppendMarker, ProtoRecords
  <1> QED BY <1>1, <1>2, <1>3, <1>4, <1>5 DEF ProtocolTask, FinishHandler

LEMMA MainEnds ==
    ASSUME TypeOK, Joined, MainLoop
    PROVE  \/ /\ ended' = ended /\ sync' = sync /\ flags \subseteq flags'
              /\ proto' = proto \/ (proto.pc = "ready" /\ proto'.pc = "joined")
           \/ sync.pc = "stopped" /\ sync'.pc \in {"stopped", "noteIdle"}
  <1>0. proto \in ProtoRecords /\ sync \in SyncRecords
    BY DEF TypeOK
  <1>1. CASE MainTearDown \/ MainRestart
    BY <1>0, <1>1 DEF MainTearDown, MainRestart, SyncAt, SyncGoes, Joined, SyncRecords
  <1>2. CASE MainJoinProtocol
    BY <1>0, <1>2 DEF MainJoinProtocol, ButFlags, ProtoRecords
  <1>3. CASE MainCatchUp \/ MainTakeEvents \/ MainDispatch \/ MainTakeMore \/ MainDrainHead
             \/ MainNoDrain \/ MainGate \/ MainEndWalk \/ MainFireEnd \/ MainFireStart
             \/ MainAcknowledge \/ MainWakeSync \/ MainStop
    BY <1>3 DEF MainCatchUp, MainTakeEvents, MainDispatch,
         MainTakeMore, MainDrainHead, MainNoDrain, MainGate, MainEndWalk, MainFireEnd,
         MainFireStart, MainAcknowledge, MainWakeSync, MainStop, shared, ButNote, ButEvents,
         ButFlags
  <1> QED BY <1>1, <1>2, <1>3 DEF MainLoop, MainDrain

LEMMA NotEndedStep ==
    ASSUME HalfSpan, TypeOK, TypeOK', Joined, InHand, InHand', Numbered, Numbered', NotEnded,
           [Next]_vars
    PROVE  NotEnded'
  <1>0. proto.ordinal \in Ordinals /\ Pos(proto.ordinal) < Half
    BY LatestIsNear DEF TypeOK, ProtoRecords, Near
  <1>1. CASE SyncTask
    <2>1. UNCHANGED <<proto, ended>>
      BY <1>1, SyncChanges
    <2>2. OnStream' /\ Ending => Ending'
      BY <1>1, <2>1, EndForgotten DEF Ending
    <2>3. ASSUME OnStream', ~Ending' PROVE Pos(ended') < Pos(Stream')
      <3>1. CASE OnStream /\ Stream' = Stream
        BY <2>1, <2>2, <2>3, <3>1 DEF NotEnded
      <3>2. CASE /\ sync'.held.kind = "header" /\ After(sync'.held.serial, ended)
                 /\ Stream' = sync'.held.serial
        <4>1. sync'.held.serial \in SentBy(proto.ordinal) /\ ended \in SentBy(proto.ordinal)
          BY <2>1, <3>2 DEF Numbered, SentInHand, SentItem, Ordered, SentOrdinals
        <4> QED BY <1>0, <2>1, <3>2, <4>1, SentOrder
      <3> QED BY <1>1, <2>3, <3>1, <3>2, StreamMoves
    <2> QED BY <2>3 DEF NotEnded
  <1>2. CASE ProtocolTask
    <2>1. sync' = sync
      BY <1>2, ProtocolChanges DEF TypeOK
    <2>2. (OnStream' <=> OnStream) /\ Stream' = Stream
      BY <2>1 DEF OnStream, Playing, Holding, Stream
    <2> QED BY <1>2, <2>2, ProtocolEnds DEF NotEnded
  <1>3. CASE MainLoop
    <2>1. CASE /\ ended' = ended /\ sync' = sync /\ flags \subseteq flags'
               /\ proto' = proto \/ (proto.pc = "ready" /\ proto'.pc = "joined")
      <3>1. (OnStream' <=> OnStream) /\ Stream' = Stream
        BY <2>1 DEF OnStream, Playing, Holding, Stream
      <3>2. Ending => Ending'
        BY <2>1 DEF Ending
      <3> QED BY <2>1, <3>1, <3>2 DEF NotEnded
    <2>2. CASE sync'.pc \in {"stopped", "noteIdle"}
      BY <2>2 DEF NotEnded, OnStream, Playing, Holding, HeldPlaces
    <2> QED BY <1>3, <2>1, <2>2, MainEnds
  <1>4. CASE UNCHANGED vars
    BY <1>4 DEF vars, shared, NotEnded, OnStream, Playing, Holding, Stream, Ending
  <1> QED BY <1>1, <1>2, <1>3, <1>4 DEF Next

\* Events come in the order of the streams they start, from the one acknowledged last to the ring.
EventOrder ==
    /\ InOrder(main.awaiting) /\ InOrder(main.batch) /\ InOrder(events)
    /\ NoLater({started}, StartsOf(main.awaiting))
    /\ NoLater({started} \cup StartsOf(main.awaiting), StartsOf(main.batch))
    /\ NoLater({started} \cup StartsOf(main.awaiting) \cup StartsOf(main.batch), StartsOf(events))

LEMMA FewerNoLater ==
    ASSUME NEW S, NEW T, NEW U, NEW V, NoLater(S, T), U \subseteq S, V \subseteq T
    PROVE  NoLater(U, V)
  BY DEF NoLater

LEMMA EventOrderMain ==
    ASSUME TypeOK, StartWaits, EventOrder, MainMoves
    PROVE  /\ EventOrder'
           /\ NoLater({started}, {started'}) \/ started' = started
  <1> DEFINE A == StartsOf(main.awaiting)
             B == StartsOf(main.batch)
             E == StartsOf(events)
  <1>0. /\ main.batch \in Seq(Events) /\ main.awaiting \in Seq(Events) /\ generation \in Nat
        /\ events \in Seq(Events)
    BY DEF TypeOK, MainRecords
  <1>1. StartsOf(<<OwedEnd>>) = {} /\ InOrder(<<OwedEnd>>)
    BY OwedIsEnd, OneEvent
  <1>2. CASE MainKeeps \/ MainOpens
    BY <1>2 DEF MainKeeps, MainOpens, EventOrder
  <1>3. CASE MainCatches
    BY <1>1, <1>3, FewerNoLater DEF MainCatches, CatchesUp, EventOrder, NoLater
  <1>4. CASE MainTakes
    <2>1. NoLater({started} \cup A, E)
      BY DEF EventOrder, NoLater
    <2>2. NoLater({started} \cup A \cup E, {})
      BY DEF NoLater
    <2> QED BY <1>4, <2>1, <2>2, EmptyEvents DEF MainTakes, EventOrder
  <1>5. CASE MainMovesOn
    <2> DEFINE e == Head(main.batch)
    <2>1. /\ main.batch # <<>> /\ main'.batch = Tail(main.batch) /\ events' = events
          /\ started' = started
      BY <1>5 DEF MainMovesOn
    <2>2. \/ main'.awaiting \in {main.awaiting, <<OwedEnd>>}
          \/ main'.awaiting = Append(<<OwedEnd>>, e)
          \/ main'.awaiting = Append(main.awaiting, e)
      BY <1>5 DEF MainMovesOn, CatchesUp
    <2>3. /\ e \in Events
          /\ StartsOf(Tail(main.batch)) \subseteq B /\ InOrder(Tail(main.batch))
          /\ Opening(e) => e.ordinal \in B
          /\ Opening(e) => NoLater({e.ordinal}, B)
      BY <1>0, <2>1, FewerEvents, NextEventType DEF EventOrder
    <2> HIDE DEF e
    <2> DEFINE A2 == A \cup {o \in {e.ordinal} : Opening(e)}
    <2>4. /\ StartsOf(main'.awaiting) \subseteq A2 /\ InOrder(main'.awaiting)
      <3>1. CASE main'.awaiting \in {main.awaiting, <<OwedEnd>>}
        BY <1>1, <3>1 DEF EventOrder
      <3>2. ASSUME NEW s \in Seq(Events), StartsOf(s) \subseteq A, InOrder(s),
                   main'.awaiting = Append(s, e)
            PROVE  StartsOf(main'.awaiting) \subseteq A2 /\ InOrder(main'.awaiting)
        <4>1. Opening(e) => NoLater(StartsOf(s), {e.ordinal})
          BY <2>3, <3>2 DEF EventOrder, NoLater
        <4>2. /\ StartsOf(Append(s, e)) \subseteq StartsOf(s) \cup {o \in {e.ordinal} : Opening(e)}
              /\ InOrder(Append(s, e))
          BY <2>3, <3>2, <4>1, MoreEvents
        <4> QED BY <3>2, <4>2
      <3>3. CASE main'.awaiting = Append(<<OwedEnd>>, e)
        BY <1>1, <3>2, <3>3, OwedIsEnd
      <3>4. CASE main'.awaiting = Append(main.awaiting, e)
        BY <1>0, <3>2, <3>4 DEF EventOrder
      <3> QED BY <2>2, <3>1, <3>3, <3>4
    <2>5. NoLater({started}, A2)
      BY <2>3 DEF EventOrder, NoLater
    <2>6. NoLater({started} \cup A2, B)
      BY <2>3 DEF EventOrder, NoLater
    <2>7. NoLater({started} \cup A2 \cup B, E)
      BY <2>3 DEF EventOrder, NoLater
    <2> HIDE DEF A2
    <2> QED
      BY <2>1, <2>3, <2>4, <2>5, <2>6, <2>7 DEF EventOrder, NoLater
  <1>6. CASE MainCloses \/ MainWakes
    <2>1. /\ main.awaiting # <<>> /\ main'.awaiting \in {main.awaiting, Tail(main.awaiting)}
          /\ main'.batch = main.batch /\ events' = events /\ started' = started
      BY <1>6 DEF MainCloses, MainWakes, StartWaits
    <2>2. StartsOf(main'.awaiting) \subseteq A /\ InOrder(main'.awaiting)
      BY <1>0, <2>1, FewerEvents DEF EventOrder
    <2> QED BY <2>1, <2>2 DEF EventOrder, NoLater
  <1>7. CASE MainTells
    <2>1. /\ main.awaiting # <<>> /\ Opening(Head(main.awaiting))
          /\ started' = Head(main.awaiting).ordinal
          /\ main'.awaiting = main.awaiting /\ main'.batch = main.batch /\ events' = events
      BY <1>7 DEF MainTells, StartWaits, Opening
    <2>2. started' \in A /\ NoLater({started'}, A)
      BY <1>0, <2>1, FewerEvents DEF EventOrder
    <2> QED BY <2>1, <2>2 DEF EventOrder, NoLater
  <1>8. CASE MainTears
    <2> DEFINE e == Event("CLEARED", 0, generation + 1)
    <2>1. e \in Events /\ ~Opening(e)
      BY <1>0, ZeroOrdinal DEF Event, Events, Opening
    <2>2. StartsOf(<<e>>) = {} /\ InOrder(<<e>>)
      BY <2>1, OneEvent
    <2>3. events' = <<e>> /\ main'.batch = <<>> /\ main'.awaiting = main.awaiting
          /\ started' = started
      BY <1>8 DEF MainTears
    <2> HIDE DEF e
    <2> QED BY <2>2, <2>3, EmptyEvents DEF EventOrder, NoLater
  <1> QED BY <1>2, <1>3, <1>4, <1>5, <1>6, <1>7, <1>8 DEF MainMoves

LEMMA EventOrderProtocol ==
    ASSUME TypeOK, Numbered, EventOrder, ProtocolTask
    PROVE  EventOrder'
  <1>0. events \in Seq(Events) /\ proto.ordinal \in Ordinals
    BY DEF TypeOK, ProtoRecords
  <1>1. main' = main /\ started' = started
    BY OthersOfMain
  <1>2. CASE events' = events
    BY <1>1, <1>2 DEF EventOrder
  <1>3. CASE events' = <<>>
    BY <1>1, <1>3, EmptyEvents DEF EventOrder, NoLater
  <1>4. ASSUME NEW e \in Events, events' = Append(events, e),
               Opening(e) => e.ordinal = proto.ordinal
        PROVE  EventOrder'
    <2> DEFINE S == {started} \cup StartsOf(main.awaiting) \cup StartsOf(main.batch)
    <2>1. NoLater(S \cup StartsOf(events), {proto.ordinal})
      BY DEF Numbered, SentOrdinals, SentEvents, SentBy, NoLater
    <2>2. /\ StartsOf(events') \subseteq StartsOf(events) \cup {proto.ordinal}
          /\ InOrder(events')
      <3>1. Opening(e) => NoLater(StartsOf(events), {e.ordinal})
        BY <1>4, <2>1 DEF NoLater
      <3> QED BY <1>0, <1>4, <3>1, MoreEvents DEF EventOrder
    <2>3. NoLater(S, StartsOf(events'))
      BY <2>1, <2>2 DEF EventOrder, NoLater
    <2> HIDE DEF S
    <2> QED BY <1>1, <2>2, <2>3 DEF EventOrder, S
  <1> QED BY <1>2, <1>3, <1>4, ProtocolPushes

LEMMA EventOrderStep ==
    ASSUME TypeOK, StartWaits, Stamped, JoinedAt, Numbered, EventOrder, [Next]_vars
    PROVE  EventOrder'
  <1>1. CASE SyncTask \/ UNCHANGED vars
    <2>1. UNCHANGED <<main, started, events>>
      BY <1>1, SyncChanges DEF vars, shared
    <2> QED BY <2>1 DEF EventOrder
  <1> QED BY <1>1, EventOrderMain, EventOrderProtocol, MainEffect DEF Next

\* The sync task plays what the main loop has acknowledged.
Acked == PlaysOrWill => Pos(Stream) <= Pos(started)

LEMMA AckedStep ==
    ASSUME HalfSpan, TypeOK, TypeOK', Joined, StartWaits, Stamped, JoinedAt, InHand, InHand',
           Numbered, Numbered', EventOrder, Acked, [Next]_vars
    PROVE  Acked'
  <1>0. /\ proto.ordinal \in Ordinals /\ Pos(proto.ordinal) < Half
        /\ started \in Ordinals /\ started' \in Ordinals
    BY LatestIsNear DEF TypeOK, ProtoRecords, Near
  <1>1. CASE SyncTask
    <2>1. proto' = proto /\ started' = started
      BY <1>1, SyncChanges
    <2>2. ASSUME PlaysOrWill', ~After(Stream', started) PROVE Pos(Stream') <= Pos(started)
      <3>1. Stream' \in SentBy(proto.ordinal)
        <4>1. CASE Playing'
          BY <2>1, <4>1 DEF Stream, Numbered, SentOrdinals
        <4>2. CASE ~Playing'
          <5>1. sync'.held.kind = "header"
            BY <2>2, <4>2 DEF PlaysOrWill, InHand, HeldPlaces
          <5> QED BY <2>1, <4>2, <5>1 DEF Stream, Numbered, SentInHand, SentItem, Ordered
        <4> QED BY <4>1, <4>2
      <3>2. started \in SentBy(proto.ordinal)
        BY DEF Numbered, SentOrdinals
      <3>3. ~(Pos(started) < Pos(Stream'))
        BY <1>0, <2>2, <3>1, <3>2, SentOrder
      <3>4. Pos(started) \in Nat /\ Pos(Stream') \in Nat
        BY <3>1, <3>2, PosType DEF SentBy
      <3> QED BY <3>3, <3>4
    <2> QED BY <1>1, <2>1, <2>2, PlayMoves DEF Acked
  <1>2. CASE ProtocolTask \/ UNCHANGED vars
    <2>1. sync' = sync /\ started' = started
      BY <1>2, ProtocolChanges, OthersOfMain DEF TypeOK, vars, shared
    <2> QED BY <2>1 DEF Acked, PlaysOrWill, Playing, Stream
  <1>3. CASE MainLoop
    <2>1. NoLater({started}, {started'}) \/ started' = started
      BY <1>3, EventOrderMain, MainEffect
    <2>2. CASE sync' = sync
      <3>1. (PlaysOrWill' <=> PlaysOrWill) /\ Stream' = Stream
        BY <2>2 DEF PlaysOrWill, Playing, Stream
      <3>2. ASSUME PlaysOrWill PROVE Pos(Stream) <= Pos(started')
        <4>1. Stream \in SentBy(proto.ordinal)
          BY <3>2, StreamSent DEF PlaysOrWill, OnStream, Holding, HeldPlaces
        <4>2. Pos(Stream) \in Nat /\ Pos(started) \in Nat /\ Pos(started') \in Nat
          BY <1>0, <4>1, PosType DEF SentBy
        <4>3. Pos(Stream) <= Pos(started)
          BY <3>2 DEF Acked
        <4>4. Pos(started) <= Pos(started')
          BY <2>1, <4>2 DEF NoLater
        <4> QED BY <4>2, <4>3, <4>4
      <3> QED BY <3>1, <3>2 DEF Acked
    <2>3. CASE sync'.pc \in {"stopped", "noteIdle"}
      BY <2>3 DEF Acked, PlaysOrWill, Playing
    <2> QED BY <1>3, <2>2, <2>3, MainEnds
  <1> QED BY <1>1, <1>2, <1>3 DEF Next

-----------------------------------------------------------------------------
(* The streams the listener has been told the end of, or will be *)

OpenWhileAcked == main.pc \in {"acknowledge", "wake"} => main.streamActive
EndsAtLatest == proto.pc \in {"endFlag", "endPush"} => ended = proto.ordinal
Behind == main.completed < generation

\* The stream acknowledged last, or one on its way to the listener, with an end behind it.
Over(o) ==
    \/ o = started /\ ~main.streamActive
    \/ /\ o \in {started} \cup StartsOf(main.awaiting)
       /\ Behind \/ HasEnd(main.batch) \/ HasEnd(events)
    \/ o = started /\ HasEnd(main.awaiting)
    \/ o \in StartsOf(main.batch) /\ HasEnd(events)
    \/ o \in Passed(main.awaiting) \cup Passed(main.batch) \cup Passed(events)

\* Such a stream has ended, and unless the sync task is being told of it, it is not on it.
OverEnded == proto.pc # "recall" => \A o \in Ordinals : Over(o) => Pos(o) <= Pos(ended)
Recalled == "STREAM_END" \in flags \/ proto.pc \in {"recall", "cleanupFlag"}
OverOff == OnStream /\ ~Recalled => \A o \in Ordinals : Over(o) => Pos(o) < Pos(Stream)

LEMMA PassedStarts ==
    ASSUME NEW s
    PROVE  Passed(s) \subseteq StartsOf(s)
  BY DEF Passed, StartsOf

LEMMA OverSent ==
    ASSUME Numbered', NEW o \in Ordinals, Over(o)'
    PROVE  Pos(o) <= Pos(proto'.ordinal)
  <1>1. /\ StartsOf(events') \subseteq SentBy(proto'.ordinal)
        /\ StartsOf(main'.batch) \subseteq SentBy(proto'.ordinal)
        /\ StartsOf(main'.awaiting) \subseteq SentBy(proto'.ordinal)
        /\ started' \in SentBy(proto'.ordinal)
    BY DEF Numbered, SentEvents, SentOrdinals
  <1>2. o \in SentBy(proto'.ordinal)
    BY <1>1, PassedStarts DEF Over
  <1> QED BY <1>2 DEF SentBy

\* The main loop tells the listener of ends it has been told of: no stream is over by its doing,
\* but for its teardown.
LEMMA OverMain ==
    ASSUME TypeOK, StartWaits, Stamped, OpenWhileAcked, MainMoves, ~MainTears,
           NEW o \in Ordinals, Over(o)'
    PROVE  Over(o)
  <1> DEFINE A == StartsOf(main.awaiting)
             B == StartsOf(main.batch)
  <1>0. /\ main.batch \in Seq(Events) /\ main.awaiting \in Seq(Events) /\ generation \in Nat
        /\ events \in Seq(Events) /\ main.completed \in Nat /\ main.streamActive \in BOOLEAN
        /\ main.completed <= generation
    BY DEF TypeOK, MainRecords, Stamped
  <1>1. StartsOf(<<OwedEnd>>) = {} /\ Passed(<<OwedEnd>>) = {}
    BY OwedIsEnd, OneEvent
  <1>2. CASE MainKeeps
    BY <1>2 DEF MainKeeps, Over, Behind
  <1>3. CASE MainOpens
    BY <1>3 DEF MainOpens, Over, Behind
  <1>4. CASE MainCatches
    <2>1. CASE generation > main.completed /\ main'.completed = generation
               /\ main'.awaiting = <<OwedEnd>>
      <3>1. Behind
        BY <1>0, <2>1 DEF Behind
      <3> QED BY <1>1, <1>4, <2>1, <3>1 DEF MainCatches, Over
    <2>2. CASE main'.completed = main.completed /\ main'.awaiting = main.awaiting
      BY <1>4, <2>2 DEF MainCatches, Over, Behind
    <2> QED BY <1>4, <2>1, <2>2 DEF MainCatches, CatchesUp
  <1>5. CASE MainTakes
    BY <1>5, EmptyEvents DEF MainTakes, Over, Behind
  <1>6. CASE MainMovesOn
    <2> DEFINE e == Head(main.batch)
    <2>1. /\ main.batch # <<>> /\ main'.batch = Tail(main.batch) /\ events' = events
          /\ started' = started /\ generation' = generation
          /\ main'.streamActive = main.streamActive
      BY <1>6 DEF MainMovesOn
    <2>2. /\ e \in Events
          /\ StartsOf(Tail(main.batch)) \subseteq B
          /\ HasEnd(Tail(main.batch)) => HasEnd(main.batch)
          /\ Passed(Tail(main.batch)) \subseteq Passed(main.batch)
          /\ e.type = "STREAM_END" => HasEnd(main.batch)
          /\ Opening(e) => e.ordinal \in B
          /\ Opening(e) /\ HasEnd(main.batch) => e.ordinal \in Passed(main.batch)
      BY <1>0, <2>1, FewerEvents, NextEventType
    <2>3. CASE main'.completed = main.completed /\ main'.awaiting = main.awaiting
      BY <2>1, <2>2, <2>3 DEF Over, Behind
    <2>4. CASE e.gen > main.completed /\ main'.completed = e.gen /\ main'.awaiting = <<OwedEnd>>
               /\ e.type = "CLEARED"
      <3>0. NoneAhead(main.batch, generation)
        BY DEF Stamped
      <3>1. e.gen <= generation
        BY <1>0, <2>1, <3>0, NoneAheadNext
      <3>2. e.gen \in Nat
        BY <2>2 DEF Events
      <3>3. Behind
        BY <1>0, <2>4, <3>1, <3>2 DEF Behind
      <3> QED BY <1>1, <2>1, <2>2, <2>4, <3>3 DEF Over
    <2>5. ASSUME NEW s \in Seq(Events), main'.awaiting = Append(s, e),
                 main'.completed = generation,
                 \/ s = main.awaiting
                 \/ Behind /\ StartsOf(s) = {} /\ Passed(s) = {}
          PROVE  Over(o)
      <3> HIDE DEF e
      <3>1. /\ StartsOf(main'.awaiting) \subseteq StartsOf(s) \cup {x \in {e.ordinal} : Opening(e)}
            /\ HasEnd(main'.awaiting) => HasEnd(s) \/ e.type = "STREAM_END"
            /\ Passed(main'.awaiting) \subseteq
                 Passed(s) \cup {x \in StartsOf(s) : e.type = "STREAM_END"}
        <4>1. e \in Events /\ s \in Seq(Events) /\ main'.awaiting = Append(s, e)
          BY <2>2, <2>5
        <4>2. /\ StartsOf(Append(s, e)) \subseteq StartsOf(s) \cup {x \in {e.ordinal} : Opening(e)}
              /\ HasEnd(Append(s, e)) => HasEnd(s) \/ e.type = "STREAM_END"
              /\ Passed(Append(s, e)) \subseteq
                   Passed(s) \cup {x \in StartsOf(s) : e.type = "STREAM_END"}
          BY <4>1, MoreEvents
        <4> QED BY <4>1, <4>2
      <3>2. ~Behind'
        BY <1>0, <2>1, <2>5 DEF Behind
      <3>3. CASE o = started /\ ~main.streamActive
        BY <3>3 DEF Over
      <3>4. CASE /\ o \in {started} \cup StartsOf(main'.awaiting)
                 /\ HasEnd(main'.batch) \/ HasEnd(events)
        <4>1. CASE o \in {started} \cup A
          BY <2>1, <2>2, <3>4, <4>1 DEF Over
        <4>2. CASE o = e.ordinal /\ Opening(e)
          BY <2>1, <2>2, <3>4, <4>2 DEF Over
        <4> QED BY <2>5, <3>1, <3>4, <4>1, <4>2
      <3>5. CASE o = started /\ HasEnd(main'.awaiting)
        BY <2>2, <2>5, <3>1, <3>5 DEF Over
      <3>6. CASE o \in StartsOf(main'.batch) /\ HasEnd(events)
        BY <2>1, <2>2, <3>6 DEF Over
      <3>7. CASE o \in Passed(main'.awaiting)
        BY <2>2, <2>5, <3>1, <3>7 DEF Over
      <3>8. CASE o \in Passed(main'.batch) \cup Passed(events)
        BY <2>1, <2>2, <3>8 DEF Over
      <3> QED BY <2>1, <3>2, <3>3, <3>4, <3>5, <3>6, <3>7, <3>8 DEF Over
    <2>6. CASE /\ main'.completed = generation
               /\ \/ main.completed < generation /\ main'.awaiting = Append(<<OwedEnd>>, e)
                  \/ main'.awaiting = Append(main.awaiting, e)
      BY <1>0, <1>1, <2>5, <2>6, OwedIsEnd DEF Behind
    <2> QED BY <1>6, <2>3, <2>4, <2>6 DEF MainMovesOn, CatchesUp
  <1>7. CASE MainCloses
    <2>1. /\ main.awaiting # <<>> /\ main'.awaiting \in {main.awaiting, Tail(main.awaiting)}
          /\ Head(main.awaiting).type = "STREAM_END"
          /\ main'.batch = main.batch /\ events' = events /\ started' = started
          /\ generation' = generation /\ main'.completed = main.completed
      BY <1>7 DEF MainCloses
    <2>2. /\ StartsOf(main'.awaiting) \subseteq A /\ HasEnd(main.awaiting)
          /\ Passed(main'.awaiting) \subseteq Passed(main.awaiting)
      BY <1>0, <2>1, FewerEvents
    <2> QED BY <2>1, <2>2 DEF Over, Behind
  <1>8. CASE MainTells
    <2>1. /\ main.awaiting # <<>> /\ Opening(Head(main.awaiting))
          /\ started' = Head(main.awaiting).ordinal
          /\ main'.awaiting = main.awaiting /\ main'.batch = main.batch /\ events' = events
          /\ generation' = generation /\ main'.completed = main.completed
          /\ main.streamActive /\ main'.streamActive = main.streamActive
      BY <1>8 DEF MainTells, StartWaits, Opening, OpenWhileAcked
    <2>2. /\ started' \in A
          /\ HasEnd(main.awaiting) => started' \in Passed(main.awaiting)
      BY <1>0, <2>1, FewerEvents
    <2> QED BY <2>1, <2>2 DEF Over, Behind
  <1>9. CASE MainWakes
    <2>1. /\ main.awaiting # <<>> /\ main'.awaiting = Tail(main.awaiting)
          /\ main'.batch = main.batch /\ events' = events /\ started' = started
          /\ generation' = generation /\ main'.completed = main.completed
          /\ main'.streamActive = main.streamActive
      BY <1>9 DEF MainWakes, StartWaits
    <2>2. /\ StartsOf(main'.awaiting) \subseteq A
          /\ HasEnd(main'.awaiting) => HasEnd(main.awaiting)
      BY <1>0, <2>1, FewerEvents
    <2>3. Passed(main'.awaiting) \subseteq Passed(main.awaiting)
      BY <1>0, <2>1, FewerEvents
    <2> QED BY <2>1, <2>2, <2>3 DEF Over, Behind
  <1> QED BY <1>2, <1>3, <1>4, <1>5, <1>6, <1>7, <1>8, <1>9 DEF MainMoves

\* While a start is acknowledged the stream is open, and an end is pushed for the latest stream.
LEMMA OpenWhileAckedStep ==
    ASSUME TypeOK, OpenWhileAcked, [Next]_vars
    PROVE  OpenWhileAcked'
  <1> USE DEF OpenWhileAcked
  <1>0. /\ main \in MainRecords /\ generation \in Nat
        /\ main.awaiting \in Seq(Events) /\ main.batch \in Seq(Events)
    BY DEF TypeOK, MainRecords
  <1>1. CASE ProtocolTask \/ SyncTask \/ UNCHANGED vars
    BY <1>1, OthersOfMain
  <1>2. CASE MainFireStart
    BY <1>2, <1>0 DEF MainFireStart, Resume, StopWithin, EndWalk, MainRecords
  <1>3. CASE MainAcknowledge
    BY <1>3, <1>0 DEF MainAcknowledge, MainRecords
  <1>4. CASE MainCatchUp \/ MainDrainHead
    <2>1. CaughtUp(main, generation) \in MainRecords
      BY <1>0, CaughtUpType
    <2> QED BY <1>4, <2>1 DEF MainCatchUp, MainDrainHead, MainRecords
  <1>5. CASE MainDispatch
    <2>1. Dispatched(main, Head(main.batch)) \in MainRecords
          /\ Dispatched(main, Head(main.batch)).pc = main.pc
      <3>1. Head(main.batch) \in Events /\ Head(main.batch).gen \in Nat
        BY <1>0, <1>5, NextEventType DEF MainDispatch, Events
      <3>2. CaughtUp(main, Head(main.batch).gen) \in MainRecords
            /\ CaughtUp(main, Head(main.batch).gen).pc = main.pc
        BY <1>0, <3>1, CaughtUpType DEF CaughtUp, MainRecords
      <3>3. Dispatched(main, Head(main.batch)) \in MainRecords
        BY <1>0, <3>1, DispatchedType
      <3> QED BY <3>2, <3>3 DEF Dispatched, MainRecords
    <2> QED BY <1>5, <2>1 DEF MainDispatch, MainRecords
  <1>6. CASE MainTakeEvents \/ MainTakeMore \/ MainNoDrain \/ MainGate \/ MainEndWalk
             \/ MainFireEnd \/ MainWakeSync \/ MainStop \/ MainJoinProtocol \/ MainTearDown
             \/ MainRestart
    BY <1>6, <1>0 DEF MainTakeEvents, MainTakeMore, MainNoDrain, MainGate, MainEndWalk,
       MainFireEnd, Resume, StopWithin, EndWalk, Closed, Released, MainWakeSync, Woken, MainStop,
       MainJoinProtocol, MainTearDown, MainRestart, At, MainRecords
  <1> QED BY <1>1, <1>2, <1>3, <1>4, <1>5, <1>6 DEF Next, MainLoop, MainDrain

LEMMA EndsAtLatestStep ==
    ASSUME TypeOK, JoinedAt, EndsAtLatest, [Next]_vars
    PROVE  EndsAtLatest'
  <1> USE DEF EndsAtLatest, Step
  <1>0. proto \in ProtoRecords
    BY DEF TypeOK
  <1>1. CASE SyncTask \/ UNCHANGED vars
    BY <1>1, SyncChanges DEF vars, shared
  <1>2. CASE HandleBinary \/ HandleStreamStart \/ HandleStreamEnd \/ HandleStreamClear \/ Cleanup
    BY <1>2, <1>0 DEF HandleBinary, HandleStreamStart, HandleStreamEnd, HandleStreamClear,
       Cleanup, Receive, ProtoRecords
  <1>3. CASE FinishHandler
    BY <1>3, <1>0 DEF FinishHandler, PublishStart, SignalEnd, PublishEnd, AppendMarker,
       RecallItems, PublishCleared, ButFlags, ProtoRecords
  <1>4. CASE MainJoinProtocol \/ MainRestart \/ MainTearDown
    BY <1>4, <1>0 DEF MainJoinProtocol, MainRestart, MainTearDown, JoinedAt, ProtoRecords
  <1>5. CASE MainLoop /\ ~MainJoinProtocol /\ ~MainRestart /\ ~MainTearDown
    BY <1>5 DEF MainLoop, MainDrain, MainCatchUp, MainTakeEvents, MainDispatch,
         MainTakeMore, MainDrainHead, MainNoDrain, MainGate, MainEndWalk, MainFireEnd,
         MainFireStart, MainAcknowledge, MainWakeSync, MainStop, shared, ButNote, ButEvents,
         ButFlags
  <1> QED BY <1>1, <1>2, <1>3, <1>4, <1>5 DEF Next, ProtocolTask

\* What a handler may do to the streams that are over: it ends the latest, or it wipes the events.
LEMMA OverProtocol ==
    ASSUME TypeOK, Numbered, Numbered', EndsAtLatest, ProtocolTask, NEW o \in Ordinals, Over(o)'
    PROVE  \/ proto'.pc = "recall"
           \/ ended' = proto'.ordinal /\ (proto.pc = "endPush" \/ Ending' \/ Recalled')
           \/ ended' = ended /\ Over(o)
  <1> USE DEF ButFlags, ButEnded, ButEvents, ButList
  <1>0. proto \in ProtoRecords /\ events \in Seq(Events) /\ generation \in Nat
    BY DEF TypeOK
  <1>1. main' = main /\ started' = started
    BY OthersOfMain
  <1>2. CASE Cleanup
    BY <1>2, <1>0 DEF Cleanup, ProtoRecords
  <1>3. CASE HandleStreamEnd \/ RecallItems
    BY <1>3, <1>0 DEF HandleStreamEnd, RecallItems, Receive, Step, Recalled, Ending, ProtoRecords
  <1>4. CASE PublishEnd
    BY <1>4, <1>0 DEF PublishEnd, Step, EndsAtLatest, ProtoRecords
  <1>5. ASSUME generation' = generation, ended' = ended,
               NEW e \in Events, e.type # "STREAM_END",
               events' = events \/ events' = Append(events, e)
        PROVE  Over(o)
    <2>1. CASE events' = events
      BY <1>1, <1>5, <2>1 DEF Over, Behind
    <2>2. CASE events' = Append(events, e)
      <3>1. (HasEnd(events') => HasEnd(events)) /\ Passed(events') \subseteq Passed(events)
        BY <1>0, <1>5, <2>2, MoreEvents
      <3> QED BY <1>1, <1>5, <3>1 DEF Over, Behind
    <2> QED BY <1>5, <2>1, <2>2
  <1>6. CASE PublishStart
    <2> DEFINE e == Event("STREAM_START", proto.ordinal, generation)
    <2>1. e \in Events /\ e.type # "STREAM_END"
      BY <1>0 DEF Event, Events, ProtoRecords
    <2>2. generation' = generation /\ ended' = ended
          /\ (events' = events \/ events' = Append(events, e))
      BY <1>6 DEF PublishStart, Push
    <2> HIDE DEF e
    <2> QED BY <1>5, <2>1, <2>2
  <1>7. CASE PublishCleared
    <2> DEFINE e == Event("CLEARED", 0, generation)
    <2>1. e \in Events /\ e.type # "STREAM_END"
      BY <1>0, ZeroOrdinal DEF Event, Events
    <2>2. generation' = generation /\ ended' = ended
          /\ (events' = events \/ events' = Append(events, e))
      BY <1>7 DEF PublishCleared, Push
    <2> HIDE DEF e
    <2> QED BY <1>5, <2>1, <2>2
  <1>8. CASE HandleBinary \/ HandleStreamStart \/ HandleStreamClear \/ SignalEnd \/ AppendMarker
    <2>1. generation' = generation /\ ended' = ended /\ events' = events
      BY <1>8 DEF HandleBinary, HandleStreamStart, HandleStreamClear, SignalEnd, AppendMarker
    <2> QED BY <1>1, <2>1 DEF Over, Behind
  <1> QED BY <1>2, <1>3, <1>4, <1>6, <1>7, <1>8 DEF ProtocolTask, FinishHandler

LEMMA OverEndedStep ==
    ASSUME TypeOK, StartWaits, Stamped, JoinedAt, Joined, OpenWhileAcked, EndsAtLatest,
           Numbered, Numbered', OverEnded, [Next]_vars
    PROVE  OverEnded'
  <1>0. proto \in ProtoRecords
    BY DEF TypeOK
  <1>1. CASE SyncTask \/ UNCHANGED vars
    <2>1. UNCHANGED <<proto, main, generation, ended, started, events>>
      BY <1>1, SyncChanges DEF vars, shared
    <2> QED BY <2>1 DEF OverEnded, Over, Behind
  <1>2. CASE ProtocolTask
    <2>1. CASE proto.pc = "recall"
      <3>1. RecallItems \/ proto'.pc = "recall"
        BY <1>2, <2>1, <1>0 DEF ProtocolTask, HandleBinary, HandleStreamStart, HandleStreamEnd,
           HandleStreamClear, Cleanup, FinishHandler, PublishStart, SignalEnd, PublishEnd,
           AppendMarker, PublishCleared, Step, Receive, ProtoRecords
      <3>2. CASE RecallItems
        <4>1. ended' = proto'.ordinal
          BY <3>2, <1>0 DEF RecallItems, Step, ProtoRecords
        <4> QED BY <4>1, OverSent DEF OverEnded
      <3> QED BY <3>1, <3>2 DEF OverEnded
    <2>2. CASE proto.pc # "recall"
      <3>1. ASSUME NEW o \in Ordinals, Over(o)', proto'.pc # "recall"
            PROVE  Pos(o) <= Pos(ended')
        <4>1. CASE ended' = proto'.ordinal
          BY <3>1, <4>1, OverSent
        <4>2. CASE ended' = ended /\ Over(o)
          BY <2>2, <3>1, <4>2 DEF OverEnded
        <4> QED BY <1>2, <3>1, <4>1, <4>2, OverProtocol
      <3> QED BY <3>1 DEF OverEnded
    <2> QED BY <2>1, <2>2
  <1>3. CASE MainLoop
    <2>0. MainMoves
      BY <1>3, MainEffect
    <2>1. CASE MainTears
      <3>1. proto'.ordinal = proto.ordinal
        BY <1>3, <1>0 DEF MainLoop, MainDrain, MainCatchUp, MainTakeEvents, MainDispatch,
         MainTakeMore, MainDrainHead, MainNoDrain, MainGate, MainEndWalk, MainFireEnd,
         MainFireStart, MainAcknowledge, MainWakeSync, MainStop, MainJoinProtocol, MainTearDown,
         MainRestart, ProtoRecords
      <3>2. ended' = proto'.ordinal
        BY <2>1, <3>1 DEF MainTears
      <3> QED BY <3>2, OverSent DEF OverEnded
    <2>2. CASE ~MainTears
      <3>1. ended' = ended /\ (proto.pc = "recall" => proto'.pc = "recall")
        <4>1. CASE MainTearDown
          <5>1. MainTears
            BY <4>1, <1>0 DEF MainTearDown, MainTears, SyncAt, JoinedAt, TypeOK, MainRecords
          <5> QED BY <2>2, <5>1
        <4>2. CASE MainJoinProtocol \/ MainRestart
          BY <4>2, <1>0 DEF MainJoinProtocol, MainRestart, ButFlags, ProtoRecords
        <4>3. CASE ~MainTearDown /\ ~MainJoinProtocol /\ ~MainRestart
          BY <1>3, <4>3 DEF MainLoop, MainDrain, MainCatchUp, MainTakeEvents, MainDispatch,
             MainTakeMore, MainDrainHead, MainNoDrain, MainGate, MainEndWalk, MainFireEnd,
             MainFireStart, MainAcknowledge, MainWakeSync, MainStop, shared, ButNote, ButEvents,
             ButFlags
        <4> QED BY <4>1, <4>2, <4>3
      <3>2. \A o \in Ordinals : Over(o)' => Over(o)
        BY <2>0, <2>2, OverMain
      <3> QED BY <3>1, <3>2 DEF OverEnded
    <2> QED BY <2>1, <2>2
  <1> QED BY <1>1, <1>2, <1>3 DEF Next

LEMMA OverOffStep ==
    ASSUME HalfSpan, TypeOK, TypeOK', StartWaits, Stamped, JoinedAt, Joined, OpenWhileAcked,
           EndsAtLatest, InHand, Numbered, Numbered', NotEnded, OverEnded, OverOff, [Next]_vars
    PROVE  OverOff'
  <1>0. /\ proto \in ProtoRecords /\ proto.ordinal \in Ordinals /\ Pos(proto.ordinal) < Half
        /\ ended \in Ordinals
    BY LatestIsNear DEF TypeOK, ProtoRecords, Near
  <1>1. CASE SyncTask
    <2>1. UNCHANGED <<proto, main, generation, ended, started, events>>
      BY <1>1, SyncChanges
    <2>2. \A o \in Ordinals : Over(o)' => Over(o)
      BY <2>1 DEF Over, Behind
    <2>3. ASSUME OnStream', ~Recalled', NEW o \in Ordinals, Over(o) PROVE Pos(o) < Pos(Stream')
      <3>0. ~Recalled
        BY <1>1, <2>1, <2>3, EndForgotten DEF Recalled
      <3>1. CASE OnStream /\ Stream' = Stream
        BY <2>3, <3>0, <3>1 DEF OverOff
      <3>2. CASE /\ sync'.held.kind = "header" /\ After(sync'.held.serial, ended)
                 /\ Stream' = sync'.held.serial
        <4>1. Stream' \in SentBy(proto.ordinal) /\ ended \in SentBy(proto.ordinal)
          BY <2>1, <3>2 DEF Numbered, SentInHand, SentItem, Ordered, SentOrdinals
        <4>2. Pos(ended) < Pos(Stream')
          BY <1>0, <3>2, <4>1, SentOrder
        <4>3. Pos(o) <= Pos(ended)
          BY <2>3, <3>0 DEF OverEnded, Recalled
        <4>4. Pos(o) \in Nat /\ Pos(ended) \in Nat /\ Pos(Stream') \in Nat
          BY <1>0, <2>3, <4>1, PosType DEF SentBy
        <4> QED BY <4>2, <4>3, <4>4
      <3> QED BY <1>1, <2>3, <3>1, <3>2, StreamMoves
    <2> QED BY <2>2, <2>3 DEF OverOff
  <1>2. CASE ProtocolTask
    <2>1. sync' = sync
      BY <1>2, ProtocolChanges DEF TypeOK
    <2>2. (OnStream' <=> OnStream) /\ Stream' = Stream
      BY <2>1 DEF OnStream, Playing, Holding, Stream
    <2>3. ASSUME OnStream, ~Recalled', NEW o \in Ordinals, Over(o)' PROVE Pos(o) < Pos(Stream)
      <3>1. flags \subseteq flags'
        BY <1>2, ProtocolEnds
      <3>2. ~Recalled
        <4>1. CASE proto.pc \in {"recall", "cleanupFlag"}
          <5>1. RecallItems \/ SignalEnd
            BY <1>2, <4>1, <1>0 DEF ProtocolTask, HandleBinary, HandleStreamStart,
               HandleStreamEnd, HandleStreamClear, Cleanup, FinishHandler, PublishStart,
               PublishEnd, AppendMarker, PublishCleared, Step, Receive
          <5>2. Recalled'
            BY <5>1, <1>0 DEF RecallItems, SignalEnd, Step, Recalled, ProtoRecords
          <5> QED BY <2>3, <5>2
        <4> QED BY <2>3, <3>1, <4>1 DEF Recalled
      <3>3. CASE Over(o)
        BY <2>3, <3>2, <3>3 DEF OverOff
      <3>4. CASE ~Over(o)
        <4>1. proto.pc = "endPush" \/ Ending'
          BY <1>2, <2>3, <3>4, OverProtocol DEF Recalled
        <4>2. CASE proto.pc = "endPush"
          <5>1. ~Ending /\ ended = proto.ordinal
            BY <3>2, <4>2 DEF Ending, Recalled, EndsAtLatest
          <5>2. Pos(ended) < Pos(Stream)
            BY <2>3, <5>1 DEF NotEnded
          <5>3. Stream \in SentBy(proto.ordinal)
            BY <2>3, StreamSent
          <5>4. Pos(Stream) <= Pos(proto.ordinal) /\ Pos(Stream) \in Nat /\ Pos(ended) \in Nat
            BY <1>0, <5>3, PosType DEF SentBy
          <5> QED BY <5>1, <5>2, <5>4
        <4>3. CASE proto.pc # "endPush" /\ Ending'
          <5>1. proto'.pc = "endFlag"
            BY <2>3, <4>3 DEF Ending, Recalled
          <5>2. UNCHANGED <<main, started, generation, events>>
            BY <1>2, <5>1, <1>0 DEF ProtocolTask, HandleBinary, HandleStreamStart,
               HandleStreamEnd, HandleStreamClear, Cleanup, FinishHandler, PublishStart,
               SignalEnd, PublishEnd, AppendMarker, RecallItems, PublishCleared, Step, Receive,
               ButList, ButEnded, ButFlags, ButEvents, ProtoRecords
          <5>3. Over(o)
            BY <2>3, <5>2 DEF Over, Behind
          <5> QED BY <3>4, <5>3
        <4> QED BY <4>1, <4>2, <4>3
      <3> QED BY <3>3, <3>4
    <2> QED BY <2>2, <2>3 DEF OverOff
  <1>3. CASE MainLoop
    <2>1. CASE sync'.pc \in {"stopped", "noteIdle"}
      BY <2>1 DEF OverOff, OnStream, Playing, Holding, HeldPlaces
    <2>2. CASE /\ ended' = ended /\ sync' = sync /\ flags \subseteq flags'
               /\ proto' = proto \/ (proto.pc = "ready" /\ proto'.pc = "joined")
               /\ sync'.pc # "stopped"
      <3>1. (OnStream' <=> OnStream) /\ Stream' = Stream
        BY <2>2 DEF OnStream, Playing, Holding, Stream
      <3>2. Recalled => Recalled'
        BY <2>2 DEF Recalled
      <3>3. ~MainTears
        BY <2>2 DEF MainTears
      <3>4. \A o \in Ordinals : Over(o)' => Over(o)
        BY <1>3, <3>3, OverMain, MainEffect
      <3> QED BY <3>1, <3>2, <3>4 DEF OverOff
    <2> QED BY <1>3, <2>1, <2>2, MainEnds
  <1>4. CASE UNCHANGED vars
    BY <1>4 DEF vars, shared, OverOff, OnStream, Playing, Holding, Stream, Recalled, Over, Behind
  <1> QED BY <1>1, <1>2, <1>3, <1>4 DEF Next

-----------------------------------------------------------------------------
(* Without a teardown, the stream stays open while audio is written *)

LEMMA RunsStep ==
    ASSUME TypeOK, Joined, Runs, [Next]_vars
    PROVE  Runs'
  <1>1. CASE SyncTask
    <2>0. SyncMoves
      BY <1>1, SyncEffect
    <2>1. ASSUME Playing', sync'.pc # "run"
          PROVE  (Playing /\ sync.pc # "run") \/ "RUNNING" \in flags'
      BY <2>0, <2>1 DEF Playing, SyncMoves, HeldPlaces, LeftPlaces, Leaves, Waits, Skips, Enters,
         TakesHeader, Holds, Begins, Discards, DiscardedAll, Applies, Releases, Activates,
         Starts, Turns, Writes, Loads, Decodes, Exits, KeepsAll, KeepsButHeld
    <2>2. ASSUME Playing, sync.pc # "run", "RUNNING" \in flags PROVE "RUNNING" \in flags'
      BY <1>1, <2>2, SyncFlags DEF Playing
    <2> QED BY <2>1, <2>2 DEF Runs
  <1>2. CASE ProtocolTask
    BY <1>2, ProtocolEnds, ProtocolChanges DEF Runs, Playing, TypeOK
  <1>3. CASE MainLoop
    BY <1>3, MainEnds DEF Runs, Playing
  <1>4. CASE UNCHANGED vars
    BY <1>4 DEF vars, shared, Runs, Playing
  <1> QED BY <1>1, <1>2, <1>3, <1>4 DEF Next

NoTeardown ==
    /\ proto.teardowns <= MaxTeardowns
    /\ proto.pc \in {"recall", "cleanupFlag"} => proto.teardowns > 0

LEMMA NoTeardownStep ==
    ASSUME TypeOK, NoTeardown, [Next]_vars
    PROVE  NoTeardown'
  <1> USE DEF NoTeardown, Step
  <1>0. proto \in ProtoRecords /\ proto.teardowns \in Nat
    BY DEF TypeOK, ProtoRecords
  <1>1. CASE SyncTask \/ UNCHANGED vars
    BY <1>1, SyncChanges DEF vars
  <1>2. CASE HandleBinary \/ HandleStreamStart \/ HandleStreamEnd \/ HandleStreamClear
    BY <1>2, <1>0 DEF HandleBinary, HandleStreamStart, HandleStreamEnd, HandleStreamClear,
       Receive, ProtoRecords
  <1>3. CASE Cleanup
    <2>1. proto'.teardowns = proto.teardowns + 1 /\ proto.teardowns < MaxTeardowns
      BY <1>3, <1>0 DEF Cleanup, ProtoRecords
    <2> QED BY <1>0, <2>1, BoundAssumption
  <1>4. CASE FinishHandler
    BY <1>4, <1>0 DEF FinishHandler, PublishStart, SignalEnd, PublishEnd, AppendMarker,
       RecallItems, PublishCleared, ProtoRecords
  <1>5. CASE MainJoinProtocol \/ MainRestart
    BY <1>5, <1>0 DEF MainJoinProtocol, MainRestart, ProtoRecords
  <1>6. CASE MainLoop /\ ~MainJoinProtocol /\ ~MainRestart
    BY <1>6 DEF MainLoop, MainDrain, MainCatchUp, MainTakeEvents, MainDispatch,
         MainTakeMore, MainDrainHead, MainNoDrain, MainGate, MainEndWalk, MainFireEnd,
         MainFireStart, MainAcknowledge, MainWakeSync, MainStop, MainTearDown
  <1> QED BY <1>1, <1>2, <1>3, <1>4, <1>5, <1>6 DEF Next, ProtocolTask

\* The listener is open, and the walk over its events has no end it would fire.
Listening == main.streamActive /\ (main.pc = "walk" /\ main.syncIdle => ~HasEnd(main.awaiting))
Open == SyncAt("write") /\ MaxTeardowns = 0 => Listening

LEMMA WriteMoves ==
    ASSUME TypeOK, SyncTask, SyncAt("write")'
    PROVE  sync' = sync \/ (sync.pc = "loop" /\ "STREAM_END" \notin flags)
  <1>0. SyncMoves
    BY SyncEffect
  <1> QED
    BY <1>0 DEF SyncMoves, SyncAt, HeldPlaces, LeftPlaces, Leaves, Waits, Skips, Enters,
       TakesHeader, Holds, Begins, Discards, DiscardedAll, Applies, Releases, Activates, Starts,
       Turns, Writes, Loads, Decodes, Exits, KeepsAll

LEMMA BeginsWriteMoves ==
    ASSUME TypeOK, Joined, [Next]_vars, BeginsWrite
    PROVE  SyncTask /\ Playing /\ "STREAM_END" \notin flags /\ Stream = sync.active
  <1>1. sync.pc = "loop" /\ sync'.pc = "write"
    BY DEF BeginsWrite, SyncAt
  <1>2. SyncTask
    BY <1>1, OthersOfSync
  <1> QED BY <1>1, <1>2, WriteMoves DEF Playing, Stream, SyncAt

\* A stream the main loop has acknowledged, and whose end nobody has been told of, is open.
LEMMA PlayedIsOpen ==
    ASSUME TypeOK, InHand, Numbered, Acked, OverOff, Playing, ~Recalled
    PROVE  main.streamActive /\ ~HasEnd(main.awaiting)
  <1>1. Stream \in Ordinals /\ started \in Ordinals
    BY StreamSent DEF SentBy, OnStream, TypeOK
  <1>2. Pos(Stream) \in Nat /\ Pos(started) \in Nat
    BY <1>1, PosType
  <1>3. Pos(Stream) <= Pos(started)
    BY DEF Acked, PlaysOrWill
  <1>4. ~Over(started)
    BY <1>1, <1>2, <1>3 DEF OverOff, OnStream
  <1> QED BY <1>4 DEF Over

LEMMA MainListens ==
    ASSUME TypeOK, StartWaits, Stamped, JoinedAt, Joined, MainLoop, "RUNNING" \in flags,
           sync.pc # "stopped", Listening
    PROVE  Listening'
  <1>0. /\ main \in MainRecords /\ generation \in Nat
        /\ main.awaiting \in Seq(Events) /\ main.batch \in Seq(Events)
    BY DEF TypeOK, MainRecords
  <1>1. main'.streamActive
    <2>1. ~MainCloses
      <3>1. SUFFICES ASSUME MainCloses PROVE FALSE
        OBVIOUS
      <3>2. main.pc = "walk" /\ main.syncIdle /\ HasEnd(main.awaiting)
        BY <1>0, <3>1, FewerEvents DEF MainCloses
      <3> QED BY <3>2 DEF Listening
    <2> QED
      BY <2>1, MainEffect DEF MainMoves, MainKeeps, MainCatches, MainTakes, MainMovesOn,
         MainOpens, MainTells, MainWakes, MainTears, Listening
  <1>2. ASSUME main'.pc = "walk", main'.syncIdle PROVE ~HasEnd(main'.awaiting)
    <2>1. CASE MainGate
      BY <1>0, <1>2, <2>1 DEF MainGate, SyncIdle, Set, MainRecords
    <2>2. CASE MainFireEnd
      <3>1. main.pc = "walk" /\ main.syncIdle /\ HasEnd(main.awaiting)
        BY <1>0, <2>2, FewerEvents DEF MainFireEnd, At
      <3> QED BY <3>1 DEF Listening
    <2>3. CASE MainWakeSync
      BY <1>0, <1>2, <2>3 DEF MainWakeSync, Woken, MainRecords
    <2>4. CASE MainDispatch
      <3>1. Dispatched(main, Head(main.batch)) \in MainRecords
            /\ Dispatched(main, Head(main.batch)).pc = main.pc
        <4>1. Head(main.batch) \in Events /\ Head(main.batch).gen \in Nat
          BY <1>0, <2>4, NextEventType DEF MainDispatch, Events
        <4>2. CaughtUp(main, Head(main.batch).gen) \in MainRecords
              /\ CaughtUp(main, Head(main.batch).gen).pc = main.pc
          BY <1>0, <4>1, CaughtUpType DEF CaughtUp, MainRecords
        <4>3. Dispatched(main, Head(main.batch)) \in MainRecords
          BY <1>0, <4>1, DispatchedType
        <4> QED BY <4>2, <4>3 DEF Dispatched, MainRecords
      <3> QED BY <1>2, <2>4, <3>1 DEF MainDispatch, MainRecords
    <2>5. CASE MainCatchUp \/ MainDrainHead
      <3>1. CaughtUp(main, generation) \in MainRecords
        BY <1>0, CaughtUpType
      <3>2. main'.pc # "walk"
        BY <2>5, <3>1 DEF MainCatchUp, MainDrainHead, MainRecords
      <3> QED BY <1>2, <3>2
    <2>6. CASE MainRestart
      BY <2>6 DEF MainRestart, Joined
    <2>7. CASE MainTakeEvents \/ MainTakeMore \/ MainNoDrain \/ MainAcknowledge \/ MainStop
               \/ MainJoinProtocol \/ MainTearDown
      <3>1. main'.pc # "walk"
        BY <1>0, <2>7 DEF MainTakeEvents, MainTakeMore, MainNoDrain, MainAcknowledge, MainStop,
           MainJoinProtocol, MainTearDown, MainRecords
      <3> QED BY <1>2, <3>1
    <2>8. CASE MainFireStart
      <3>1. main'.pc # "walk"
        BY <1>0, <2>8 DEF MainFireStart, Resume, StopWithin, EndWalk, MainRecords
      <3> QED BY <1>2, <3>1
    <2>9. CASE MainEndWalk
      <3> DEFINE waits == main.awaiting # <<>>
      <3>1. main' = EndWalk([main EXCEPT !.awaitingIdle = waits], "tick") /\ waits \in BOOLEAN
        BY <2>9 DEF MainEndWalk
      <3> HIDE DEF waits
      <3>2. main'.pc # "walk"
        BY <1>0, <3>1 DEF EndWalk, MainRecords
      <3> QED BY <1>2, <3>2
    <2> QED BY <2>1, <2>2, <2>3, <2>4, <2>5, <2>6, <2>7, <2>8, <2>9 DEF MainLoop, MainDrain
  <1> QED BY <1>1, <1>2 DEF Listening

LEMMA OpenStep ==
    ASSUME TypeOK, StartWaits, Stamped, JoinedAt, Joined, InHand, Numbered, Acked, OverOff, Runs,
           NoTeardown, Open, [Next]_vars
    PROVE  Open'
  <1> SUFFICES ASSUME sync'.pc = "write", MaxTeardowns = 0 PROVE Listening'
    BY DEF Open, SyncAt
  <1>0. proto.teardowns \in Nat
    BY DEF TypeOK, ProtoRecords
  <1>1. CASE SyncTask
    <2>1. main' = main
      BY <1>1, SyncChanges
    <2>2. CASE sync' = sync
      BY <2>1, <2>2 DEF Open, Listening, SyncAt
    <2>3. CASE sync.pc = "loop" /\ "STREAM_END" \notin flags
      <3>1. ~Recalled
        BY <1>0, <2>3 DEF Recalled, NoTeardown
      <3> QED BY <2>1, <2>3, <3>1, PlayedIsOpen DEF Playing, Listening
    <2> QED BY <1>1, <2>2, <2>3, WriteMoves DEF SyncAt
  <1>2. CASE ProtocolTask \/ UNCHANGED vars
    <2>1. main' = main /\ sync' = sync
      BY <1>2, ProtocolChanges, OthersOfMain DEF TypeOK, vars
    <2> QED BY <2>1 DEF Open, Listening, SyncAt
  <1>3. CASE MainLoop
    <2>1. sync' = sync /\ sync.pc = "write"
      BY <1>3, MainEnds
    <2>2. "RUNNING" \in flags /\ Listening
      BY <2>1 DEF Runs, Playing, Open, SyncAt
    <2> QED BY <1>3, <2>1, <2>2, MainListens
  <1> QED BY <1>1, <1>2, <1>3 DEF Next

-----------------------------------------------------------------------------
(* What follows for what is written *)

\* The order of the streams: what the sync task plays, among what was started, ended and told.
OrderInv ==
    /\ InHand /\ Numbered /\ NotEnded /\ EventOrder /\ Acked /\ ListOrder
    /\ OpenWhileAcked /\ EndsAtLatest /\ OverEnded /\ OverOff /\ Runs /\ NoTeardown /\ Open

LEMMA OrderInit ==
    ASSUME Init
    PROVE  OrderInv
  <1>1. /\ proto.pc = "ready" /\ proto.ordinal = FirstOrdinal /\ proto.messages = 0
        /\ proto.teardowns = 0
        /\ sync.pc = "noteIdle" /\ sync.held = NoItem /\ sync.next = NoItem
        /\ sync.decoded = NoItem /\ sync.active = FirstOrdinal
        /\ main.pc = "tick" /\ main.batch = <<>> /\ main.awaiting = <<>> /\ main.completed = 0
        /\ generation = 0 /\ list = <<>> /\ events = <<>> /\ flags = {}
        /\ ended = FirstOrdinal /\ started = FirstOrdinal
    BY DEF Init
  <1>2. FirstOrdinal \in Ordinals /\ Pos(FirstOrdinal) = 0
    BY OrdinalAssumption DEF Ordinals, Pos
  <1>3. {MaxMessages, MaxTeardowns} \subseteq Nat
    BY BoundAssumption
  <1>4. ~Playing /\ ~OnStream /\ ~PlaysOrWill
    BY <1>1 DEF Playing, OnStream, Holding, PlaysOrWill, HeldPlaces
  <1>5. ~Ordered(NoItem) /\ NoItem.kind = "none"
    BY DEF Ordered, NoItem
  <1>6. InHand
    BY <1>1, <1>4, <1>5 DEF InHand, HeldPlaces
  <1>7. FirstOrdinal \in SentBy(FirstOrdinal)
    BY <1>2, LatestIsSent
  <1>8. Numbered
    BY <1>1, <1>2, <1>3, <1>5, <1>7, EmptyEvents
       DEF Numbered, Counts, SentOrdinals, SentInHand, SentList, SentEvents, SentItem
  <1>9. NotEnded /\ Acked /\ OverOff
    BY <1>4 DEF NotEnded, Acked, OverOff
  <1>10. EventOrder
    BY <1>1, EmptyEvents DEF EventOrder, NoLater
  <1>11. ListOrder
    BY <1>1, <1>4, <1>5, EmptyList DEF ListOrder
  <1>12. OverEnded
    <2>1. ASSUME NEW o \in Ordinals, Over(o) PROVE o = FirstOrdinal
      BY <1>1, <2>1, EmptyEvents DEF Over
    <2> QED BY <1>1, <1>2, <2>1 DEF OverEnded
  <1>13. OpenWhileAcked /\ EndsAtLatest /\ Runs /\ Open
    BY <1>1, <1>4 DEF OpenWhileAcked, EndsAtLatest, Runs, Open, SyncAt
  <1>14. NoTeardown
    BY <1>1, <1>3 DEF NoTeardown
  <1> QED BY <1>6, <1>8, <1>9, <1>10, <1>11, <1>12, <1>13, <1>14 DEF OrderInv

LEMMA OrderStep ==
    ASSUME HalfSpan, Inv, TypeOK', OrderInv, [Next]_vars
    PROVE  OrderInv'
  <1> USE DEF Inv, OrderInv
  <1>1. InHand'
    BY InHandStep
  <1>2. Numbered'
    BY NumberedStep
  <1>3. NotEnded'
    BY <1>1, <1>2, NotEndedStep
  <1>4. EventOrder'
    BY EventOrderStep
  <1>5. Acked'
    BY <1>1, <1>2, AckedStep
  <1>6. ListOrder'
    BY <1>2, ListOrderStep
  <1>7. OpenWhileAcked' /\ EndsAtLatest'
    BY OpenWhileAckedStep, EndsAtLatestStep
  <1>8. OverEnded'
    BY <1>2, OverEndedStep
  <1>9. OverOff'
    BY <1>2, OverOffStep
  <1>10. Runs' /\ NoTeardown'
    BY RunsStep, NoTeardownStep
  <1>11. Open'
    BY OpenStep
  <1> QED BY <1>1, <1>2, <1>3, <1>4, <1>5, <1>6, <1>7, <1>8, <1>9, <1>10, <1>11

LEMMA OrderSafe ==
    ASSUME HalfSpan
    PROVE  Spec => [](Inv /\ OrderInv)
  <1>1. Init => OrderInv
    BY OrderInit
  <1>2. Inv /\ Inv' /\ OrderInv /\ [Next]_vars => OrderInv'
    BY OrderStep DEF Inv
  <1>3. Spec => []Inv
    BY Invariance
  <1> QED BY <1>1, <1>2, <1>3, PTL DEF Spec

\* What SyncTask::thread_entry() writes belongs to a stream whose on_stream_start() has returned:
\* the ordinal acknowledged is not behind the one played, whichever wakes were left over.
THEOREM PlaysOnlyAcknowledged ==
    ASSUME HalfSpan
    PROVE  Spec => PlaysAcknowledged
  <1>1. Inv /\ OrderInv /\ [Next]_vars => [BeginsWrite => ~After(sync.active, started)]_vars
    <2>1. SUFFICES ASSUME Inv, OrderInv, [Next]_vars, BeginsWrite
                   PROVE  ~After(sync.active, started)
      OBVIOUS
    <2>2. TypeOK /\ Joined /\ InHand /\ Numbered /\ Acked
      BY <2>1 DEF Inv, OrderInv
    <2>3. Playing /\ Stream = sync.active
      BY <2>1, <2>2, BeginsWriteMoves
    <2>4. Pos(sync.active) <= Pos(started)
      BY <2>2, <2>3 DEF Acked, PlaysOrWill
    <2>5. /\ sync.active \in SentBy(proto.ordinal) /\ started \in SentBy(proto.ordinal)
          /\ proto.ordinal \in Ordinals /\ Pos(proto.ordinal) < Half
      BY <2>2, LatestIsNear DEF Numbered, SentOrdinals, TypeOK, ProtoRecords, Near
    <2>6. Pos(sync.active) \in Nat /\ Pos(started) \in Nat
      BY <2>5, PosType DEF SentBy
    <2> QED BY <2>4, <2>5, <2>6, SentOrder
  <1>2. Spec => []Inv /\ []OrderInv
    BY OrderSafe, PTL
  <1> QED BY <1>1, <1>2, PTL DEF Spec, PlaysAcknowledged

\* No chunk of a stream whose stream/end or teardown SyncTask::signal_stream_end() has signalled is
\* written: neither one decoded already nor one a kept header carries into a later stream.
THEOREM EndedIsNotPlayed ==
    ASSUME HalfSpan
    PROVE  Spec => NoAudioOfAnEndedStream
  <1>1. Inv /\ OrderInv /\ [Next]_vars =>
          [BeginsWrite /\ sync.decoded # NoItem =>
             \/ After(sync.decoded.serial, ended)
             \/ proto.pc \in {"endFlag", "cleanupFlag"}]_vars
    <2>1. SUFFICES ASSUME Inv, OrderInv, [Next]_vars, BeginsWrite, sync.decoded # NoItem,
                          proto.pc \notin {"endFlag", "cleanupFlag"}
                   PROVE  After(sync.decoded.serial, ended)
      OBVIOUS
    <2>2. TypeOK /\ Joined /\ InHand /\ Numbered /\ NotEnded /\ ListOrder
      BY <2>1 DEF Inv, OrderInv
    <2>3. Playing /\ Stream = sync.active /\ "STREAM_END" \notin flags
      BY <2>1, <2>2, BeginsWriteMoves
    <2>4. Pos(ended) < Pos(sync.active) /\ Pos(sync.active) <= Pos(sync.decoded.serial)
      BY <2>1, <2>2, <2>3 DEF NotEnded, Ending, OnStream, ListOrder
    <2>5. Ordered(sync.decoded)
      BY <2>1, <2>2 DEF InHand, Ordered
    <2>6. /\ sync.decoded.serial \in SentBy(proto.ordinal) /\ ended \in SentBy(proto.ordinal)
          /\ sync.active \in SentBy(proto.ordinal)
          /\ proto.ordinal \in Ordinals /\ Pos(proto.ordinal) < Half
      BY <2>2, <2>5, LatestIsNear
         DEF Numbered, SentOrdinals, SentInHand, SentItem, TypeOK, ProtoRecords, Near
    <2>7. Pos(sync.decoded.serial) \in Nat /\ Pos(ended) \in Nat /\ Pos(sync.active) \in Nat
      BY <2>6, PosType DEF SentBy
    <2>8. Pos(ended) < Pos(sync.decoded.serial)
      BY <2>4, <2>7
    <2> QED BY <2>6, <2>8, SentOrder
  <1>2. Spec => []Inv /\ []OrderInv
    BY OrderSafe, PTL
  <1> QED BY <1>1, <1>2, PTL DEF Spec, NoAudioOfAnEndedStream

\* Outside PlayerRole::Impl::cleanup(), a write begins only between on_stream_start() and
\* on_stream_end(), however teardowns, ends and the main loop's walk over the events interleave.
THEOREM WritesBeginOpen ==
    ASSUME HalfSpan
    PROVE  Spec => WritesOnlyWhileOpenOrTornDown
  <1>1. Inv /\ OrderInv /\ [Next]_vars =>
          [BeginsWrite => main.streamActive \/ proto.pc \in {"recall", "cleanupFlag"}]_vars
    <2>1. SUFFICES ASSUME Inv, OrderInv, [Next]_vars, BeginsWrite,
                          proto.pc \notin {"recall", "cleanupFlag"}
                   PROVE  main.streamActive
      OBVIOUS
    <2>2. TypeOK /\ Joined /\ InHand /\ Numbered /\ Acked /\ OverOff
      BY <2>1 DEF Inv, OrderInv
    <2>3. Playing /\ ~Recalled
      BY <2>1, <2>2, BeginsWriteMoves DEF Recalled
    <2> QED BY <2>2, <2>3, PlayedIsOpen
  <1>2. Spec => []Inv /\ []OrderInv
    BY OrderSafe, PTL
  <1> QED BY <1>1, <1>2, PTL DEF Spec, WritesOnlyWhileOpenOrTornDown

\* With no teardown on the protocol task, SyncTask::thread_entry() writes only while the listener's
\* stream is open: the main loop fires on_stream_end() once the task has left the stream.
THEOREM WritesStayOpen ==
    ASSUME HalfSpan, MaxTeardowns = 0
    PROVE  Spec => []WritesOnlyWhileOpen
  <1>1. OrderInv => WritesOnlyWhileOpen
    BY DEF OrderInv, Open, Listening, WritesOnlyWhileOpen
  <1> QED BY <1>1, OrderSafe, PTL

-----------------------------------------------------------------------------
(* The markers of stream/clear *)

Within(s, n) == \A i \in 1 .. Len(s) : s[i].clear <= n
Before(s, n) == \A i \in 1 .. Len(s) : s[i].clear < n
MarkersInOrder(s) == \A i, j \in 1 .. Len(s) :
                       i < j /\ s[j].kind = "marker" => s[i].clear < s[j].clear
MarkerIn(s, n) == \E i \in 1 .. Len(s) : s[i].kind = "marker" /\ s[i].clear = n
FreshMarkers(s, n, gen) ==
    \A i \in 1 .. Len(s) : s[i].kind = "marker" /\ s[i].clear = n => s[i].gen = gen

\* The sync task has taken the marker, or has nothing a clear could discard.
Reached ==
    \/ sync.pc \in {"waitHeader", "noHeader", "applyClear", "exit", "stopped"}
    \/ sync.pc = "discard" /\ sync.return = "idle"
    \/ sync.pc = "decode" /\ sync.held.kind = "marker"

\* A clear the sync task is told of has its marker ahead, unless it is lost or has been reached.
MarkerInv ==
    /\ Within(list, proto.clears) /\ MarkersInOrder(list)
    /\ proto.pc = "marker" => Before(list, proto.clears)
    /\ ~proto.lost => FreshMarkers(list, proto.clears, generation)
    /\ proto.pc = "recall" /\ MarkerIn(list, proto.clears) => proto.lost
    /\ "STREAM_CLEAR" \in flags /\ proto.pc # "marker"
         => proto.lost \/ MarkerIn(list, proto.clears) \/ Reached
    /\ sync.pc = "discard" /\ sync.return # "idle" => "STREAM_CLEAR" \in flags

LEMMA MarkersNext ==
    ASSUME NEW s \in Seq(Items), s # <<>>, NEW n, NEW gen
    PROVE  /\ Within(s, n) => Within(Tail(s), n)
           /\ Before(s, n) => Before(Tail(s), n)
           /\ MarkersInOrder(s) => MarkersInOrder(Tail(s))
           /\ FreshMarkers(s, n, gen) => FreshMarkers(Tail(s), n, gen)
           /\ MarkerIn(Tail(s), n) => MarkerIn(s, n)
           /\ MarkerIn(s, n) => \/ MarkerIn(Tail(s), n)
                                \/ Head(s).kind = "marker" /\ Head(s).clear = n
           /\ FreshMarkers(s, n, gen) /\ Head(s).kind = "marker" /\ Head(s).clear = n
                => Head(s).gen = gen
           /\ MarkersInOrder(s) /\ MarkerIn(s, n) => Head(s).kind = "marker" \/ Head(s).clear < n
  <1>1. /\ Len(Tail(s)) = Len(s) - 1 /\ Head(s) = s[1] /\ Len(s) \in Nat \ {0}
        /\ \A i \in 1 .. Len(s) - 1 : Tail(s)[i] = s[i + 1] /\ i + 1 \in 1 .. Len(s)
        /\ 1 \in 1 .. Len(s)
    OBVIOUS
  <1>2. /\ Within(s, n) => Within(Tail(s), n)
        /\ Before(s, n) => Before(Tail(s), n)
        /\ FreshMarkers(s, n, gen) => FreshMarkers(Tail(s), n, gen)
    BY <1>1 DEF Within, Before, FreshMarkers
  <1>3. MarkersInOrder(s) => MarkersInOrder(Tail(s))
    <2>1. ASSUME MarkersInOrder(s), NEW i \in 1 .. Len(s) - 1, NEW j \in 1 .. Len(s) - 1, i < j,
                 Tail(s)[j].kind = "marker"
          PROVE  Tail(s)[i].clear < Tail(s)[j].clear
      <3>1. i + 1 < j + 1 /\ i + 1 \in 1 .. Len(s) /\ j + 1 \in 1 .. Len(s)
            /\ Tail(s)[i] = s[i + 1] /\ Tail(s)[j] = s[j + 1]
        BY <1>1, <2>1
      <3> QED BY <2>1, <3>1 DEF MarkersInOrder
    <2> QED BY <1>1, <2>1 DEF MarkersInOrder
  <1>4. MarkerIn(Tail(s), n) => MarkerIn(s, n)
    BY <1>1 DEF MarkerIn
  <1>5. ASSUME MarkerIn(s, n)
        PROVE  MarkerIn(Tail(s), n) \/ (Head(s).kind = "marker" /\ Head(s).clear = n)
    <2>1. PICK i \in 1 .. Len(s) : s[i].kind = "marker" /\ s[i].clear = n
      BY <1>5 DEF MarkerIn
    <2>2. CASE i = 1
      BY <1>1, <2>1, <2>2
    <2>3. CASE i > 1
      <3>1. i - 1 \in 1 .. Len(s) - 1 /\ (i - 1) + 1 = i
        BY <1>1, <2>3
      <3>2. Tail(s)[i - 1] = s[i]
        BY <1>1, <3>1
      <3> QED BY <1>1, <2>1, <3>1, <3>2 DEF MarkerIn
    <2> QED BY <1>1, <2>2, <2>3
  <1>6. FreshMarkers(s, n, gen) /\ Head(s).kind = "marker" /\ Head(s).clear = n => Head(s).gen = gen
    BY <1>1 DEF FreshMarkers
  <1>7. ASSUME MarkersInOrder(s), MarkerIn(s, n), Head(s).kind # "marker" PROVE Head(s).clear < n
    <2>1. PICK i \in 1 .. Len(s) : s[i].kind = "marker" /\ s[i].clear = n
      BY <1>7 DEF MarkerIn
    <2>2. 1 < i
      BY <1>1, <1>7, <2>1
    <2> QED BY <1>1, <1>7, <2>1, <2>2 DEF MarkersInOrder
  <1> QED BY <1>2, <1>3, <1>4, <1>5, <1>6, <1>7

LEMMA ClearsCounted ==
    ASSUME NEW s \in Seq(Items)
    PROVE  \A i \in 1 .. Len(s) : s[i].clear \in Nat
  <1>1. \A i \in 1 .. Len(s) : s[i] \in Items
    OBVIOUS
  <1> QED BY <1>1 DEF Items

LEMMA MarkersMore ==
    ASSUME NEW s \in Seq(Items), NEW item \in Items, NEW n, item.clear = n, n \in Nat,
           NEW gen, item.gen = gen, Within(s, n), item.kind = "marker" => Before(s, n),
           MarkersInOrder(s)
    PROVE  /\ Within(Append(s, item), n)
           /\ MarkersInOrder(Append(s, item))
           /\ FreshMarkers(s, n, gen) \/ Before(s, n) => FreshMarkers(Append(s, item), n, gen)
           /\ MarkerIn(s, n) \/ item.kind = "marker" => MarkerIn(Append(s, item), n)
  <1>1. /\ Len(Append(s, item)) = Len(s) + 1 /\ Append(s, item)[Len(s) + 1] = item
        /\ Len(s) \in Nat
        /\ \A i \in 1 .. Len(s) : Append(s, item)[i] = s[i] /\ s[i].clear \in Nat
    BY ClearsCounted
  <1>2. \A i \in 1 .. Len(s) + 1 : i \in 1 .. Len(s) \/ i = Len(s) + 1
    BY <1>1
  <1>3. Within(Append(s, item), n)
    BY <1>1, <1>2 DEF Within
  <1>4. ASSUME NEW i \in 1 .. Len(s) + 1, NEW j \in 1 .. Len(s) + 1, i < j,
               Append(s, item)[j].kind = "marker"
        PROVE  Append(s, item)[i].clear < Append(s, item)[j].clear
    <2>1. i \in 1 .. Len(s) /\ Append(s, item)[i] = s[i]
      BY <1>1, <1>4
    <2>2. CASE j \in 1 .. Len(s)
      BY <1>1, <1>4, <2>1, <2>2 DEF MarkersInOrder
    <2>3. CASE j = Len(s) + 1
      BY <1>1, <1>4, <2>1, <2>3 DEF Before
    <2> QED BY <1>2, <2>2, <2>3
  <1>5. MarkersInOrder(Append(s, item))
    BY <1>1, <1>4 DEF MarkersInOrder
  <1>6. FreshMarkers(s, n, gen) \/ Before(s, n) => FreshMarkers(Append(s, item), n, gen)
    BY <1>1, <1>2 DEF FreshMarkers, Before
  <1>7. MarkerIn(s, n) \/ item.kind = "marker" => MarkerIn(Append(s, item), n)
    BY <1>1, <1>2 DEF MarkerIn
  <1> QED BY <1>3, <1>5, <1>6, <1>7

LEMMA NoMarkers ==
    ASSUME NEW n, NEW gen
    PROVE  /\ Within(<<>>, n) /\ Before(<<>>, n) /\ MarkersInOrder(<<>>)
           /\ FreshMarkers(<<>>, n, gen) /\ ~MarkerIn(<<>>, n)
  BY DEF Within, Before, MarkersInOrder, FreshMarkers, MarkerIn

\* Where the sync task goes with a clear it has no marker ahead for.
LEMMA StaysReached ==
    ASSUME TypeOK, SyncTask, Reached, "STREAM_CLEAR" \in flags'
    PROVE  Reached'
  <1> USE DEF SyncAt, SyncGoes, ButList, ButFlags, ButNote, shared, Set
  <1>0. sync \in SyncRecords
    BY DEF TypeOK
  <1>1. CASE SyncSkipStale
    BY <1>1 DEF SyncSkipStale, Reached
  <1>2. CASE SyncWaitHeader
    BY <1>0, <1>2 DEF SyncWaitHeader, LeaveBits, Reached, SyncRecords
  <1>3. CASE SyncNoHeader
    BY <1>0, <1>3 DEF SyncNoHeader, BeginDiscard, Reached, SyncRecords
  <1>4. CASE SyncDiscard \/ SyncDiscardedAll
    BY <1>0, <1>4 DEF SyncDiscard, SyncDiscardedAll, Reached, SyncRecords
  <1>5. CASE SyncApplyClear \/ SyncDecode
    BY <1>5 DEF SyncApplyClear, SyncDecode, Reached
  <1>6. CASE SyncExit
    BY <1>0, <1>6 DEF SyncExit, Reached, SyncRecords
  <1>7. CASE \/ SyncReadIdle \/ SyncClearIdle \/ SyncEnterIdle \/ SyncTakeHeader
             \/ SyncTakeNothing \/ SyncGotHeader \/ SyncAwaitAck \/ SyncClearStart
             \/ SyncReadStarted \/ SyncWakeAck \/ SyncRelease \/ SyncLeft \/ SyncActivate
             \/ SyncRun \/ SyncLoop \/ SyncWrite \/ SyncLoad \/ SyncLoadNothing
    <2>1. sync.pc \in {"idle", "clearIdle", "noteIdle", "take", "gotHeader", "ack", "ackClear",
            "ackRead", "ackWait", "ackRefused", "leave", "left", "activate", "run", "loop",
            "write", "load"}
      BY <1>7 DEF SyncReadIdle, SyncClearIdle, SyncEnterIdle, SyncTakeHeader,
         SyncTakeNothing, SyncGotHeader, SyncAwaitAck, SyncClearStart, SyncReadStarted,
         SyncWakeAck, SyncRelease, SyncLeft, SyncActivate, SyncRun, SyncLoop, SyncWrite,
         SyncLoad, SyncLoadNothing
    <2> QED BY <2>1 DEF Reached
  <1> QED BY <1>1, <1>2, <1>3, <1>4, <1>5, <1>6, <1>7 DEF SyncTask

\* A marker taken is reached, and a discarding for a stream begins and goes on with a clear.
LEMMA TakesMarker ==
    ASSUME TypeOK, SyncTask, Takes, Head(list).kind = "marker", Head(list).gen = generation,
           list' # list
    PROVE  Reached'
  <1>0. SyncMoves
    BY SyncEffect
  <1>1. ~Pending
    BY DEF Pending, IsPendingHeader
  <1> QED
    BY <1>0, <1>1 DEF SyncMoves, Reached, Leaves, Waits, Skips, Enters, TakesHeader, Holds,
       Begins, Discards, DiscardedAll, Applies, Releases, Activates, Starts, Turns, Writes,
       Loads, Decodes, Exits

LEMMA DiscardsForClear ==
    ASSUME TypeOK, SyncTask, sync'.pc = "discard", sync'.return # "idle",
           sync.pc = "discard" /\ sync.return # "idle" => "STREAM_CLEAR" \in flags
    PROVE  "STREAM_CLEAR" \in flags'
  <1>0. SyncMoves
    BY SyncEffect
  <1>1. /\ "STREAM_CLEAR" \in flags
        /\ sync.pc \in {"discard", "noHeader", "ack", "loop"}
    BY <1>0 DEF SyncMoves, HeldPlaces, LeftPlaces, Leaves, Waits, Skips, Enters, TakesHeader,
       Holds, Begins, Discards, DiscardedAll, Applies, Releases, Activates, Starts, Turns, Writes,
       Loads, Decodes, Exits
  <1> QED BY <1>1, SyncFlags

LEMMA MarkerSync ==
    ASSUME TypeOK, InHand, MarkerInv, SyncTask
    PROVE  MarkerInv'
  <1>0. UNCHANGED <<proto, generation>> /\ list \in Seq(Items)
    BY SyncChanges DEF TypeOK
  <1>1. list' = list \/ (Takes /\ list # <<>> /\ list' = Tail(list))
    BY SyncHandMoves DEF Takes
  <1>2. /\ Within(list', proto.clears) /\ MarkersInOrder(list')
        /\ proto.pc = "marker" => Before(list', proto.clears)
        /\ ~proto.lost => FreshMarkers(list', proto.clears, generation)
        /\ proto.pc = "recall" /\ MarkerIn(list', proto.clears) => proto.lost
    <2>1. CASE list' = list
      BY <2>1 DEF MarkerInv
    <2>2. CASE list # <<>> /\ list' = Tail(list)
      <3>1. /\ Within(Tail(list), proto.clears) /\ MarkersInOrder(Tail(list))
            /\ Before(list, proto.clears) => Before(Tail(list), proto.clears)
            /\ FreshMarkers(list, proto.clears, generation)
                 => FreshMarkers(Tail(list), proto.clears, generation)
            /\ MarkerIn(Tail(list), proto.clears) => MarkerIn(list, proto.clears)
        BY <1>0, <2>2, MarkersNext DEF MarkerInv
      <3> QED BY <2>2, <3>1 DEF MarkerInv
    <2> QED BY <1>1, <2>1, <2>2
  <1>3. ASSUME "STREAM_CLEAR" \in flags', proto.pc # "marker", ~proto.lost,
               ~MarkerIn(list', proto.clears)
        PROVE  Reached'
    <2>1. "STREAM_CLEAR" \in flags
      BY <1>3, SyncFlags
    <2>2. CASE MarkerIn(list, proto.clears)
      <3>1. list' # list
        BY <1>3, <2>2
      <3>2. Takes /\ list # <<>> /\ list' = Tail(list)
        BY <1>1, <3>1
      <3>3. Head(list).kind = "marker" /\ Head(list).clear = proto.clears
        BY <1>0, <1>3, <2>2, <3>2, MarkersNext
      <3>4. Head(list).gen = generation
        BY <1>0, <1>3, <3>2, <3>3, MarkersNext DEF MarkerInv
      <3> QED BY <3>1, <3>2, <3>3, <3>4, TakesMarker
    <2>3. CASE ~MarkerIn(list, proto.clears)
      <3>1. Reached
        BY <1>3, <2>1, <2>3 DEF MarkerInv
      <3> QED BY <1>3, <3>1, StaysReached
    <2> QED BY <2>2, <2>3
  <1>4. sync'.pc = "discard" /\ sync'.return # "idle" => "STREAM_CLEAR" \in flags'
    BY DiscardsForClear DEF MarkerInv
  <1> QED BY <1>0, <1>2, <1>3, <1>4 DEF MarkerInv

LEMMA MarkerProtocol ==
    ASSUME TypeOK, MarkerInv, ProtocolTask
    PROVE  MarkerInv'
  <1> USE DEF ButFlags, ButEnded, ButEvents, ButList, Step, Receive
  <1>0. /\ proto \in ProtoRecords /\ list \in Seq(Items) /\ generation \in Nat
        /\ proto.clears \in Nat /\ proto.ordinal \in Ordinals
        /\ NextCount(proto.ordinal, OrdinalSpan) \in Ordinals
    BY NextOrdinal DEF TypeOK, ProtoRecords
  <1>1. sync' = sync
    BY <1>0, ProtocolChanges
  <1>2. Reached' <=> Reached
    BY <1>1 DEF Reached
  <1>3. CASE HandleStreamEnd \/ PublishStart \/ SignalEnd \/ PublishEnd \/ PublishCleared
    <2>1. /\ list' = list /\ generation' = generation
          /\ proto'.clears = proto.clears /\ proto'.lost = proto.lost
          /\ proto.pc # "marker" /\ proto'.pc \notin {"marker", "recall"}
          /\ "STREAM_CLEAR" \in flags' => "STREAM_CLEAR" \in flags
          /\ flags \subseteq flags'
      BY <1>0, <1>3 DEF HandleStreamEnd, PublishStart, SignalEnd, PublishEnd, PublishCleared,
         ProtoRecords
    <2> QED BY <1>1, <1>2, <2>1 DEF MarkerInv
  <1>4. CASE HandleBinary \/ HandleStreamStart
    <2>1. /\ flags' = flags /\ generation' = generation
          /\ proto'.clears = proto.clears /\ proto'.lost = proto.lost
          /\ proto.pc = "ready" /\ proto'.pc \notin {"marker", "recall"}
      BY <1>0, <1>4 DEF HandleBinary, HandleStreamStart, ProtoRecords
    <2>2. \E item \in Items : /\ list' = Append(list, item) /\ item.gen = generation
                              /\ item.clear = proto.clears /\ item.kind # "marker"
      <3>1. ASSUME NEW kind \in {"header", "audio"}, NEW serial \in Ordinals, Hand(kind, serial)
            PROVE  \E item \in Items : /\ list' = Append(list, item) /\ item.gen = generation
                                       /\ item.clear = proto.clears /\ item.kind # "marker"
        <4> DEFINE item == [kind |-> kind, serial |-> serial, gen |-> generation,
                            clear |-> proto.clears]
        <4>1. item \in Items /\ list' = Append(list, item)
          BY <1>0, <3>1 DEF Items, Hand
        <4> QED BY <3>1, <4>1
      <3> QED BY <1>0, <1>4, <3>1 DEF HandleBinary, HandleStreamStart
    <2>3. PICK item \in Items : /\ list' = Append(list, item) /\ item.gen = generation
                                /\ item.clear = proto.clears /\ item.kind # "marker"
      BY <2>2
    <2>4. /\ Within(list', proto.clears) /\ MarkersInOrder(list')
          /\ FreshMarkers(list, proto.clears, generation)
               => FreshMarkers(list', proto.clears, generation)
          /\ MarkerIn(list, proto.clears) => MarkerIn(list', proto.clears)
      BY <1>0, <2>3, MarkersMore DEF MarkerInv
    <2> QED BY <1>1, <1>2, <2>1, <2>4 DEF MarkerInv
  <1>5. CASE HandleStreamClear
    <2>1. /\ proto'.clears = proto.clears + 1 /\ proto'.lost = proto.lost /\ proto'.pc = "marker"
          /\ list' = list /\ generation' = generation /\ flags \subseteq flags'
      BY <1>0, <1>5 DEF HandleStreamClear, ProtoRecords
    <2>2. \A i \in 1 .. Len(list) : list[i].clear \in Nat
      BY <1>0, ClearsCounted
    <2>3. Within(list, proto'.clears) /\ Before(list, proto'.clears)
      BY <1>0, <2>1, <2>2 DEF MarkerInv, Within, Before
    <2>4. FreshMarkers(list, proto'.clears, generation)
      BY <2>1, <1>0, <2>2, <2>3 DEF Before, FreshMarkers
    <2> QED BY <1>1, <2>1, <2>3, <2>4 DEF MarkerInv
  <1>6. CASE AppendMarker /\ Len(list) < ListRoom
    <2> DEFINE item == [kind |-> "marker", serial |-> 0, gen |-> generation,
                        clear |-> proto.clears]
    <2>1. /\ item \in Items /\ item.kind = "marker" /\ item.gen = generation
          /\ item.clear = proto.clears /\ list' = Append(list, item)
      BY <1>0, <1>6, ZeroOrdinal DEF Items, Hand, AppendMarker
    <2>2. /\ proto.pc = "marker" /\ proto'.pc = "ready" /\ proto'.clears = proto.clears
          /\ flags' = flags /\ generation' = generation
      BY <1>0, <1>6 DEF AppendMarker, ProtoRecords
    <2> HIDE DEF item
    <2>3. Within(list, proto.clears) /\ Before(list, proto.clears) /\ MarkersInOrder(list)
      BY <2>2 DEF MarkerInv
    <2>4. /\ Within(list', proto.clears) /\ MarkersInOrder(list')
          /\ FreshMarkers(list', proto.clears, generation) /\ MarkerIn(list', proto.clears)
      BY <1>0, <2>1, <2>3, MarkersMore
    <2> QED BY <1>1, <2>2, <2>4 DEF MarkerInv
  <1>7. CASE AppendMarker /\ ~(Len(list) < ListRoom)
    <2> DEFINE full == Len(list) >= ListRoom
    <2>1. full /\ full \in BOOLEAN
      BY <1>0, <1>7, BoundAssumption
    <2>2. proto' = [proto EXCEPT !.pc = "ready", !.lost = full] /\ proto.pc = "marker"
          /\ list' = list /\ flags' = flags /\ generation' = generation
      BY <1>7 DEF AppendMarker
    <2> HIDE DEF full
    <2>3. proto'.pc = "ready" /\ proto'.lost = TRUE /\ proto'.clears = proto.clears
      BY <1>0, <2>1, <2>2 DEF ProtoRecords
    <2> QED BY <1>1, <2>2, <2>3 DEF MarkerInv
  <1>8. CASE Cleanup
    <2> DEFINE gone == proto.lost \/ MarkerWaits
    <2>0. proto' = [proto EXCEPT !.pc = "recall", !.messages = @ + 1, !.teardowns = @ + 1,
                                 !.lost = gone]
      BY <1>8 DEF Cleanup
    <2>1. gone \in BOOLEAN /\ (gone <=> proto.lost \/ MarkerIn(list, proto.clears))
      BY <1>0 DEF MarkerWaits, MarkerIn, ProtoRecords
    <2> HIDE DEF gone
    <2>2. proto'.pc = "recall" /\ proto'.lost = gone /\ proto'.clears = proto.clears
      BY <1>0, <2>0 DEF ProtoRecords
    <2>3. proto.pc = "ready" /\ list' = list /\ flags' = flags
      BY <1>8 DEF Cleanup
    <2>4. ~gone => FreshMarkers(list, proto.clears, generation')
      BY <2>1 DEF MarkerIn, FreshMarkers
    <2> QED BY <1>1, <1>2, <2>1, <2>2, <2>3, <2>4 DEF MarkerInv
  <1>9. CASE RecallItems
    <2>1. /\ proto.pc = "recall" /\ proto'.pc = "cleanupFlag" /\ proto'.clears = proto.clears
          /\ proto'.lost = proto.lost /\ list' = <<>> /\ flags' = flags
      BY <1>0, <1>9 DEF RecallItems, ProtoRecords
    <2> QED BY <1>1, <1>2, <2>1, NoMarkers DEF MarkerInv
  <1> QED BY <1>3, <1>4, <1>5, <1>6, <1>7, <1>8, <1>9 DEF ProtocolTask, FinishHandler

LEMMA MarkerMain ==
    ASSUME TypeOK, Joined, JoinedAt, MarkerInv, MainLoop
    PROVE  MarkerInv'
  <1>0. /\ proto \in ProtoRecords /\ list \in Seq(Items) /\ generation \in Nat
        /\ sync \in SyncRecords
    BY DEF TypeOK
  <1>1. CASE MainTearDown
    <2>1. /\ sync' = sync /\ sync.pc = "stopped" /\ proto' = proto /\ proto.pc = "joined"
          /\ list' = <<>>
      BY <1>1 DEF MainTearDown, SyncAt, JoinedAt
    <2> QED BY <2>1, NoMarkers DEF MarkerInv, Reached
  <1>2. CASE MainRestart
    <2>1. /\ sync'.pc = "noteIdle" /\ flags' = {} /\ list' = list /\ generation' = generation
          /\ proto.pc = "joined" /\ proto'.pc = "ready" /\ proto'.clears = proto.clears
          /\ proto'.lost = proto.lost
      BY <1>0, <1>2 DEF MainRestart, SyncGoes, ButFlags, ProtoRecords, SyncRecords
    <2> QED BY <2>1 DEF MarkerInv
  <1>3. CASE MainLoop /\ ~MainTearDown /\ ~MainRestart
    <2>1. /\ sync' = sync /\ list' = list /\ generation' = generation
          /\ flags' \in {flags, flags \cup {"START"}, flags \cup {"STOP"}}
      BY <1>3 DEF MainLoop, MainDrain, MainCatchUp, MainTakeEvents, MainDispatch,
         MainTakeMore, MainDrainHead, MainNoDrain, MainGate, MainEndWalk, MainFireEnd,
         MainFireStart, MainAcknowledge, MainWakeSync, MainStop, MainJoinProtocol, shared,
         ButNote, ButEvents, ButFlags
    <2>2. \/ proto' = proto
          \/ /\ proto.pc = "ready" /\ proto'.pc = "joined" /\ proto'.clears = proto.clears
             /\ proto'.lost = proto.lost
      BY <1>0, <1>3 DEF MainLoop, MainDrain, MainCatchUp, MainTakeEvents, MainDispatch,
         MainTakeMore, MainDrainHead, MainNoDrain, MainGate, MainEndWalk, MainFireEnd,
         MainFireStart, MainAcknowledge, MainWakeSync, MainStop, MainJoinProtocol, ProtoRecords
    <2>3. ("STREAM_CLEAR" \in flags' <=> "STREAM_CLEAR" \in flags) /\ (Reached' <=> Reached)
      BY <2>1 DEF Reached
    <2> QED BY <2>1, <2>2, <2>3 DEF MarkerInv
  <1> QED BY <1>1, <1>2, <1>3

LEMMA MarkerSafe ==
    Spec => [](Inv /\ InHand /\ MarkerInv)
  <1>1. Init => InHand /\ MarkerInv
    <2>1. ASSUME Init
          PROVE  /\ list = <<>> /\ flags = {} /\ proto.pc = "ready" /\ sync.pc = "noteIdle"
                 /\ sync.held = NoItem /\ sync.next = NoItem /\ sync.decoded = NoItem
      BY <2>1 DEF Init
    <2> QED BY <2>1, NoMarkers DEF InHand, MarkerInv, HeldPlaces
  <1>2. Inv /\ InHand /\ MarkerInv /\ [Next]_vars => InHand' /\ MarkerInv'
    <2>1. SUFFICES ASSUME Inv, InHand, MarkerInv, [Next]_vars PROVE InHand' /\ MarkerInv'
      OBVIOUS
    <2>2. TypeOK /\ Joined /\ JoinedAt
      BY <2>1 DEF Inv
    <2>3. InHand'
      BY <2>1, <2>2, InHandStep
    <2>4. MarkerInv'
      <3>1. CASE UNCHANGED vars
        BY <2>1, <3>1 DEF vars, shared, MarkerInv, Reached
      <3> QED BY <2>1, <2>2, <3>1, MarkerSync, MarkerProtocol, MarkerMain DEF Next
    <2> QED BY <2>3, <2>4
  <1>3. Spec => []Inv
    BY Invariance
  <1> QED BY <1>1, <1>2, <1>3, PTL DEF Spec

\* SyncTask::discard_to_clear_marker(), run for the stream being played or about to be, throws away
\* no chunk sent after the last stream/clear: the marker stands between the old audio and the new,
\* unless handle_stream_clear() found no room for it or a teardown took it back.
THEOREM SeekKeepsNewAudio == Spec => SeekSparesNewAudio
  <1>1. Inv /\ InHand /\ MarkerInv /\ [Next]_vars =>
          [DiscardsNewAudio => sync.return = "idle" \/ proto.lost]_vars
    <2>1. SUFFICES ASSUME Inv, MarkerInv, DiscardsNewAudio, sync.return # "idle", ~proto.lost
                   PROVE  FALSE
      OBVIOUS
    <2>2. /\ sync.pc = "discard" /\ list # <<>> /\ Head(list).kind = "audio"
          /\ Head(list).clear = proto.clears
      BY <2>1 DEF DiscardsNewAudio, SyncDiscard, SyncAt, ItemReady
    <2>3. list \in Seq(Items) /\ proto.clears \in Nat /\ 1 \in 1 .. Len(list)
          /\ Head(list) = list[1]
      BY <2>1, <2>2 DEF Inv, TypeOK, ProtoRecords
    <2>4. proto.pc # "marker"
      BY <2>1, <2>2, <2>3 DEF MarkerInv, Before
    <2>5. ~MarkerIn(list, proto.clears)
      BY <2>1, <2>2, <2>3, MarkersNext DEF MarkerInv
    <2>6. "STREAM_CLEAR" \in flags
      BY <2>1, <2>2 DEF MarkerInv
    <2>7. Reached
      BY <2>1, <2>4, <2>5, <2>6 DEF MarkerInv
    <2> QED BY <2>1, <2>2, <2>7 DEF Reached
  <1>2. Spec => []Inv /\ []InHand /\ []MarkerInv
    BY MarkerSafe, PTL
  <1> QED BY <1>1, <1>2, PTL DEF Spec, SeekSparesNewAudio
=============================================================================
