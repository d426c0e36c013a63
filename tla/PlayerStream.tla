---------------------------- MODULE PlayerStream ----------------------------
(***************************************************************************)
(* The player's stream lifecycle across its three threads.                 *)
(*                                                                         *)
(*   protocol task   handles stream/start, stream/end, stream/clear, audio *)
(*                   and the role's teardown (PlayerRole::Impl),           *)
(*   sync task       takes the items handed to it, waits for the main      *)
(*                   loop's acknowledgement of a codec header, decodes and *)
(*                   writes audio (SyncTask::thread_entry),                *)
(*   main loop       drains the inbox and fires on_stream_start() and      *)
(*                   on_stream_end() (drain_inbox, drain_events).          *)
(*                                                                         *)
(* A step ends where the code touches state another thread writes: setting *)
(* and clearing event flags are steps of their own, and a read a decision  *)
(* is taken on is a step apart from the writes that follow from it. Reads  *)
(* of two flags next to each other share one. A definition whose name ends *)
(* in Mutant is a deliberate mistake the properties are tested against.    *)
(***************************************************************************)
EXTENDS ModularCount, Sequences

CONSTANTS
    OrdinalSpan,    \* values of a stream ordinal: 2^16 in the code
    FirstOrdinal,   \* the latest stream ordinal when the model starts observing
    EventCapacity,  \* Inbox::EVENT_CAPACITY
    ListRoom,       \* items the inbound ring has room for
    MaxMessages,    \* bound: messages the protocol task handles
    MaxClears,      \* bound: stream/clear among them
    MaxTeardowns,   \* bound: teardowns among them
    MaxStops        \* bound: SendspinClient::stop() calls

ASSUME OrdinalAssumption ==
    /\ OrdinalSpan \in Nat /\ OrdinalSpan > 3
    /\ FirstOrdinal \in 0 .. OrdinalSpan - 1
ASSUME BoundAssumption ==
    {EventCapacity, ListRoom, MaxMessages, MaxClears, MaxTeardowns, MaxStops} \subseteq Nat

VARIABLES
    proto,       \* the protocol task: its place in a handler, stream_ordinal, messages so far, and
                 \* (history) whether the latest clear's marker is lost to the sync task
    sync,        \* the sync task: its place in thread_entry() and its SyncContext
    main,        \* the main loop: its place in the drain and what only it touches
    generation,  \* RoleTeardown::cleanup_generation
    list,        \* the sync task's InboundItemList
    flags,       \* SyncTask::event_flags_
    ended,       \* SyncTask::ended_ordinal_
    started,     \* SyncTask::started_ordinal_
    idleNote,    \* whether sync_idle_slot holds a note
    params,      \* stream_params_slot
    events       \* the inbox event ring

shared == <<generation, list, flags, ended, started, idleNote, params, events>>
vars == <<proto, sync, main, shared>>

\* The shared state but for one part of it.
ButList   == <<generation, flags, ended, started, idleNote, params, events>>
ButFlags  == <<generation, list, ended, started, idleNote, params, events>>
ButEnded  == <<generation, list, flags, started, idleNote, params, events>>
ButNote   == <<generation, list, flags, ended, started, params, events>>
ButEvents == <<generation, list, flags, ended, started, idleNote, params>>

-----------------------------------------------------------------------------
Ordinals == 0 .. OrdinalSpan - 1
After(a, b) == CountAfter(a, b, OrdinalSpan)

\* EventGroupBits. TASK_IDLE and TASK_STOPPED serve start() and the join only.
FlagNames  == {"STOP", "STREAM_END", "STREAM_CLEAR", "START", "RUNNING"}
LeaveBitsMutant == {"STREAM_END", "STREAM_CLEAR"}
LeaveBits  == {"STOP", "STREAM_END", "STREAM_CLEAR"}
StreamBits == {"RUNNING", "STREAM_END", "STREAM_CLEAR", "START"}
Set(bits)  == flags \cap bits # {}

\* An item handed to the sync task. `serial` is the ordinal of a codec header and, as history, of
\* the stream an audio chunk was sent in; `clear` (history) counts the stream/clears before it.
Items == [kind : {"header", "audio", "marker"}, serial : Ordinals, gen : Nat, clear : Nat]
NoItem == [kind |-> "none"]

Events == [type : {"STREAM_START", "STREAM_END", "CLEARED"}, ordinal : Ordinals, gen : Nat]
Event(type, ordinal, gen) == [type |-> type, ordinal |-> ordinal, gen |-> gen]

NoParams == [gen |-> 0, ordinal |-> -1]

\* SyncTask::is_pending_header(): a codec header whose stream has not ended.
IsPendingHeader(item) == item.kind = "header" /\ After(item.serial, ended)

\* Inbox::push_event(): a full ring drops the event.
Push(event) == events' = IF Len(events) < EventCapacity THEN Append(events, event) ELSE events

\* InboundConsumer::take() keeps an item of the current generation; ahead of it, it returns the
\* ones handed over before a teardown, one at a time (SyncSkipStale).
ItemReady == list # <<>> /\ Head(list).gen = generation

-----------------------------------------------------------------------------
\* SyncTask::start() returns once the task has reached IDLE and cleared its flags.
Init ==
    /\ proto = [pc |-> "ready", ordinal |-> FirstOrdinal,
                messages |-> 0, clears |-> 0, teardowns |-> 0, stops |-> 0, lost |-> FALSE]
    /\ sync = [pc |-> "noteIdle", flag |-> FALSE, held |-> NoItem, next |-> NoItem,
               active |-> FirstOrdinal, decoded |-> NoItem, abandoned |-> FALSE,
               return |-> "idle"]
    /\ main = [pc |-> "tick", batch |-> <<>>, gen |-> 0, completed |-> 0, awaiting |-> <<>>,
               awaitingIdle |-> FALSE, syncIdle |-> FALSE, streamActive |-> FALSE,
               hpHeld |-> FALSE, params |-> -1]
    /\ generation = 0
    /\ list = <<>>
    /\ flags = {}
    /\ ended = FirstOrdinal
    /\ started = FirstOrdinal
    /\ idleNote = FALSE
    /\ params = NoParams
    /\ events = <<>>

-----------------------------------------------------------------------------
(* Protocol task: PlayerRole::Impl's handlers *)

\* The next message: between two handlers, until stop() joins the task. It leads to `pc`.
Receive(pc) ==
    /\ proto.pc = "ready"
    /\ proto.messages < MaxMessages
    /\ proto' = [proto EXCEPT !.pc = pc, !.messages = @ + 1]

\* The handler's next step.
Step(from, to) == proto.pc = from /\ proto' = [proto EXCEPT !.pc = to]

\* InboundConsumer::hand().
Hand(kind, serial) ==
    list' = Append(list, [kind |-> kind, serial |-> serial, gen |-> generation,
                          clear |-> proto.clears])

\* handle_binary(): one audio chunk, dropped when there is no room or it is over the quota.
HandleBinary ==
    /\ Len(list) < ListRoom
    /\ Receive("ready")
    /\ Hand("audio", proto.ordinal)
    /\ UNCHANGED <<sync, main, ButList>>

\* handle_stream_start(): the codec header carries the next ordinal, adopted once handed over ...
HandleStreamStart ==
    /\ Len(list) < ListRoom
    /\ proto.pc = "ready" /\ proto.messages < MaxMessages
    /\ LET ordinal == NextCount(proto.ordinal, OrdinalSpan) IN
        /\ proto' = [proto EXCEPT !.pc = "start", !.ordinal = ordinal, !.messages = @ + 1]
        /\ Hand("header", ordinal)
    /\ UNCHANGED <<sync, main, ButList>>

\* ... then its params and STREAM_START.
PublishStart ==
    /\ Step("start", "ready")
    /\ params' = [gen |-> generation, ordinal |-> proto.ordinal]
    /\ Push(Event("STREAM_START", proto.ordinal, generation))
    /\ UNCHANGED <<sync, main, generation, list, flags, ended, started, idleNote>>

\* handle_stream_end(): signal_stream_end() stores the ordinal and sets the flag, then the event
\* is pushed. A stream/start whose header is refused ends the latest stream the same way.
HandleStreamEnd ==
    /\ Receive("endFlag")
    /\ ended' = proto.ordinal
    /\ UNCHANGED <<sync, main, ButEnded>>

SignalEnd ==
    /\ Step("endFlag", "endPush") \/ Step("cleanupFlag", "cleared")
    /\ flags' = flags \cup {"STREAM_END"}
    /\ UNCHANGED <<sync, main, ButFlags>>

PublishEnd ==
    /\ Step("endPush", "ready")
    /\ Push(Event("STREAM_END", 0, generation))
    /\ UNCHANGED <<sync, main, ButEvents>>

\* handle_stream_clear(): the flag, then the marker behind the audio it discards, when there is
\* room for one.
HandleStreamClear ==
    /\ proto.pc = "ready" /\ proto.messages < MaxMessages /\ proto.clears < MaxClears
    /\ proto' = [proto EXCEPT !.pc = "marker", !.messages = @ + 1, !.clears = @ + 1]
    /\ flags' = flags \cup {"STREAM_CLEAR"}
    /\ UNCHANGED <<sync, main, ButFlags>>

AppendMarker ==
    /\ proto.pc = "marker"
    /\ proto' = [proto EXCEPT !.pc = "ready", !.lost = (Len(list) >= ListRoom)]
    /\ IF Len(list) < ListRoom THEN Hand("marker", 0) ELSE UNCHANGED list
    /\ UNCHANGED <<sync, main, ButList>>

\* The latest clear's marker is still to be reached. A teardown takes it back with the rest.
MarkerWaits == \E i \in 1 .. Len(list) : list[i].kind = "marker" /\ list[i].clear = proto.clears

\* cleanup(): a teardown on the protocol task. One that covers every role wipes the event ring
\* first (cleanup_connection_state()); a server/activate that removes the role does not.
Cleanup ==
    /\ proto.pc = "ready" /\ proto.messages < MaxMessages /\ proto.teardowns < MaxTeardowns
    /\ proto' = [proto EXCEPT !.pc = "recall", !.messages = @ + 1, !.teardowns = @ + 1,
                             !.lost = (@ \/ MarkerWaits)]
    /\ generation' = generation + 1
    /\ events' = <<>> \/ UNCHANGED events
    /\ UNCHANGED <<sync, main, list, flags, ended, started, idleNote, params>>

RecallItemsMutant ==
    /\ Step("recall", "cleanupFlag")
    /\ list' = <<>>
    /\ UNCHANGED <<sync, main, ButList>>

RecallItems ==
    /\ Step("recall", "cleanupFlag")
    /\ list' = <<>>
    /\ ended' = proto.ordinal
    /\ UNCHANGED <<sync, main, generation, flags, started, idleNote, params, events>>

PublishCleared ==
    /\ Step("cleared", "ready")
    /\ params' = NoParams
    /\ Push(Event("CLEARED", 0, generation))
    /\ UNCHANGED <<sync, main, generation, list, flags, ended, started, idleNote>>

\* What is left of a handler once it has begun.
FinishHandler ==
    PublishStart \/ SignalEnd \/ PublishEnd \/ AppendMarker \/ RecallItems \/ PublishCleared

ProtocolTask ==
    \/ HandleBinary \/ HandleStreamStart \/ HandleStreamEnd \/ HandleStreamClear \/ Cleanup
    \/ FinishHandler

-----------------------------------------------------------------------------
(* Sync task: SyncTask::thread_entry() *)

SyncAt(pc) == sync.pc = pc
SyncGoes(pc) == sync' = [sync EXCEPT !.pc = pc]

\* take() walks past items of a torn-down generation.
SyncSkipStale ==
    /\ sync.pc \in {"take", "discard", "load"}
    /\ list # <<>> /\ ~ItemReady
    /\ list' = Tail(list)
    /\ UNCHANGED <<proto, sync, main, ButList>>

\* IDLE: whether a stream was running or being started is read before the bits are cleared.
SyncReadIdle ==
    /\ SyncAt("idle")
    /\ sync' = [sync EXCEPT !.pc = IF Set({"STOP"}) THEN "exit" ELSE "clearIdle",
                            !.flag = Set(StreamBits)]
    /\ UNCHANGED <<proto, main, shared>>

SyncClearIdle ==
    /\ SyncAt("clearIdle")
    /\ flags' = flags \ StreamBits
    /\ SyncGoes("noteIdle")
    /\ UNCHANGED <<proto, main, ButFlags>>

\* reset_context().
ResetMutant(s) == [s EXCEPT !.flag = FALSE, !.next = NoItem, !.abandoned = FALSE]
Reset(s) == [s EXCEPT !.flag = FALSE, !.next = NoItem, !.decoded = NoItem, !.abandoned = FALSE]

\* note_sync_idle() and reset_context(), then the header load_next_chunk() kept for IDLE, started
\* from unless its stream has ended since.
SyncEnterIdle ==
    /\ SyncAt("noteIdle")
    /\ idleNote' = (idleNote \/ sync.flag)
    /\ LET kept == IsPendingHeader(sync.next) IN
        sync' = [Reset(sync) EXCEPT !.pc = IF kept THEN "gotHeader" ELSE "waitHeader",
                                    !.held = IF kept THEN sync.next ELSE NoItem]
    /\ UNCHANGED <<proto, main, ButNote>>

\* wait_for_codec_header(): a command ends the wait; a start acknowledged meanwhile makes the take
\* a non-blocking one.
SyncWaitHeader ==
    /\ SyncAt("waitHeader")
    /\ sync' = [sync EXCEPT !.pc = IF Set(LeaveBits) THEN "noHeader" ELSE "take",
                            !.flag = Set({"START"})]
    /\ UNCHANGED <<proto, main, shared>>

SyncTakeHeader ==
    /\ SyncAt("take") /\ ItemReady
    /\ list' = Tail(list)
    /\ sync' = IF IsPendingHeader(Head(list))
               THEN [sync EXCEPT !.pc = "gotHeader", !.flag = FALSE, !.held = Head(list)]
               ELSE [sync EXCEPT !.pc = "waitHeader", !.flag = FALSE]
    /\ UNCHANGED <<proto, main, ButList>>

\* Nothing to take: a start acknowledged already is stale, which ends the wait; otherwise the task
\* sleeps until it is woken.
SyncTakeNothing ==
    /\ SyncAt("take") /\ list = <<>>
    /\ sync.flag \/ Set(LeaveBits \cup {"START"})
    /\ sync' = [sync EXCEPT !.pc = IF sync.flag THEN "noHeader" ELSE "waitHeader",
                            !.flag = FALSE]
    /\ UNCHANGED <<proto, main, shared>>

SyncGotHeader ==
    /\ SyncAt("gotHeader")
    /\ SyncGoes(IF Set({"STOP"}) THEN "exit" ELSE "ack")
    /\ UNCHANGED <<proto, main, shared>>

\* discard_to_clear_marker() starts with the item held: a pending header survives.
BeginDiscard(return) ==
    sync' = [sync EXCEPT !.pc = "discard", !.return = return,
                         !.held = IF IsPendingHeader(@) THEN @ ELSE NoItem]

\* No header: a stream/clear discards up to its marker, anything else goes back to IDLE.
SyncNoHeader ==
    /\ SyncAt("noHeader")
    /\ IF ~Set({"STOP"}) /\ Set({"STREAM_CLEAR"})
       THEN BeginDiscard("idle")
       ELSE SyncGoes(IF Set({"STOP"}) THEN "exit" ELSE "idle")
    /\ UNCHANGED <<proto, main, shared>>

\* The marker ends the discarding, and so does stop().
EndsDiscardMutant(item) == Set({"STOP"})
EndsDiscard(item) == item.kind = "marker" \/ Set({"STOP"})

\* Each item up to the marker is discarded, but for the newest pending header.
SyncDiscard ==
    /\ SyncAt("discard") /\ ItemReady
    /\ list' = Tail(list)
    /\ sync' = [sync EXCEPT !.pc = IF EndsDiscard(Head(list)) THEN "applyClear" ELSE "discard",
                            !.held = IF IsPendingHeader(Head(list)) THEN Head(list) ELSE @]
    /\ UNCHANGED <<proto, main, ButList>>

SyncDiscardedAll ==
    /\ SyncAt("discard") /\ list = <<>>
    /\ SyncGoes("applyClear")
    /\ UNCHANGED <<proto, main, shared>>

\* apply_stream_clear(), then each caller's use of the header that was kept.
SyncApplyClear ==
    /\ SyncAt("applyClear")
    /\ flags' = flags \ {"STREAM_CLEAR"}
    /\ LET after == CASE sync.return = "loop" -> "loop"
                      [] sync.return = "idle" -> IF sync.held = NoItem THEN "idle" ELSE "ack"
                      [] OTHER -> IF sync.held = NoItem THEN "ackRefused" ELSE "ackClear" IN
        sync' = [sync EXCEPT !.pc = after, !.decoded = NoItem, !.return = "idle"]
    /\ UNCHANGED <<proto, main, ButFlags>>

\* wait_for_start_acknowledgement(): a command first, then the wake is cleared before the
\* acknowledged ordinal is read.
SyncAwaitAck ==
    /\ SyncAt("ack")
    /\ IF ~Set({"STOP", "STREAM_END"}) /\ Set({"STREAM_CLEAR"})
       THEN BeginDiscard("ack")
       ELSE SyncGoes(IF Set({"STOP", "STREAM_END"}) THEN "ackRefused" ELSE "ackClear")
    /\ UNCHANGED <<proto, main, shared>>

SyncClearStart ==
    /\ SyncAt("ackClear")
    /\ flags' = flags \ {"START"}
    /\ sync' = [sync EXCEPT !.pc = "ackRead", !.flag = Set({"START"})]
    /\ UNCHANGED <<proto, main, ButFlags>>

\* Acknowledged: the header's stream or a later one. A wake for an earlier one owes its idle note.
AcknowledgedMutant(header) == sync.flag
Acknowledged(header) == ~After(header.serial, started)

StaleWakeMutant(header) == FALSE
StaleWake(header) == sync.flag /\ ~Acknowledged(header)

SyncReadStarted ==
    /\ SyncAt("ackRead")
    /\ idleNote' = (idleNote \/ StaleWake(sync.held))
    /\ sync' = [sync EXCEPT !.pc = IF Acknowledged(sync.held) THEN "activate" ELSE "ackWait",
                            !.flag = FALSE]
    /\ UNCHANGED <<proto, main, ButNote>>

SyncWakeAck ==
    /\ SyncAt("ackWait")
    /\ Set(LeaveBits \cup {"START"})
    /\ SyncGoes("ack")
    /\ UNCHANGED <<proto, main, shared>>

\* release_held_item(): a header still pending belongs to a later stream and is kept for IDLE.
SyncRelease ==
    /\ sync.pc \in {"ackRefused", "leave"}
    /\ LET kept == sync.next = NoItem /\ IsPendingHeader(sync.held) IN
        sync' = [sync EXCEPT !.pc = "left", !.held = NoItem,
                             !.next = IF kept THEN sync.held ELSE @]
    /\ UNCHANGED <<proto, main, shared>>

SyncLeft ==
    /\ SyncAt("left")
    /\ SyncGoes(IF Set({"STOP"}) THEN "exit" ELSE "idle")
    /\ UNCHANGED <<proto, main, shared>>

\* ACTIVE: TASK_RUNNING is set, then the header is decoded, which may fail to allocate.
SyncActivate ==
    /\ SyncAt("activate")
    /\ flags' = flags \ {"START"}
    /\ sync' = [sync EXCEPT !.pc = "run", !.active = sync.held.serial]
    /\ UNCHANGED <<proto, main, ButFlags>>

SyncRun ==
    /\ SyncAt("run")
    /\ flags' = flags \cup {"RUNNING"}
    /\ \E failed \in BOOLEAN :
        sync' = [sync EXCEPT !.pc = "loop", !.held = NoItem, !.abandoned = failed]
    /\ UNCHANGED <<proto, main, ButFlags>>

\* The inner loop: each turn reads the flags, then writes audio or silence, or loads a chunk.
SyncLoop ==
    /\ SyncAt("loop")
    /\ IF Set({"STOP", "STREAM_END"}) \/ sync.next # NoItem \/ sync.abandoned
       THEN SyncGoes("leave")
       ELSE IF Set({"STREAM_CLEAR"})
       THEN BeginDiscard("loop")
       ELSE SyncGoes("write") \/ (sync.decoded = NoItem /\ SyncGoes("load"))
    /\ UNCHANGED <<proto, main, shared>>

\* on_audio_write(): the sink takes silence, or the decoded chunk whole or in part.
SyncWrite ==
    /\ SyncAt("write")
    /\ \E rest \in {sync.decoded, NoItem} :
        sync' = [sync EXCEPT !.pc = "loop", !.decoded = rest]
    /\ UNCHANGED <<proto, main, shared>>

\* load_next_chunk(): a header taken once the active stream has ended is kept for IDLE.
SyncLoad ==
    /\ SyncAt("load") /\ sync.held = NoItem /\ ItemReady
    /\ list' = Tail(list)
    /\ sync' = IF Head(list).kind = "header" /\ ~After(sync.active, ended)
               THEN [sync EXCEPT !.pc = "loop", !.next = Head(list)]
               ELSE [sync EXCEPT !.pc = "decode", !.held = Head(list)]
    /\ UNCHANGED <<proto, main, ButList>>

SyncLoadNothing ==
    /\ SyncAt("load") /\ (sync.held # NoItem \/ list = <<>>)
    /\ SyncGoes(IF sync.held = NoItem THEN "loop" ELSE "decode")
    /\ UNCHANGED <<proto, main, shared>>

\* decode_chunk(): the marker applies a clear, a header changes the format, a chunk is decoded or
\* skipped. A failed allocation abandons the stream.
SyncDecode ==
    /\ SyncAt("decode")
    /\ flags' = IF sync.held.kind = "marker" THEN flags \ {"STREAM_CLEAR"} ELSE flags
    /\ \E result \in {"done", "skipped", "failed"} :
        /\ result = "failed" => sync.held.kind # "marker"
        /\ sync' = [sync EXCEPT
             !.pc = "loop", !.held = NoItem, !.abandoned = (result = "failed"),
             !.decoded = IF result = "done" /\ sync.held.kind = "audio" THEN sync.held ELSE NoItem]
    /\ UNCHANGED <<proto, main, ButFlags>>

\* The thread's exit hands back what it holds.
SyncExit ==
    /\ SyncAt("exit")
    /\ sync' = [sync EXCEPT !.pc = "stopped", !.held = NoItem, !.next = NoItem,
                            !.decoded = NoItem, !.abandoned = FALSE, !.flag = FALSE]
    /\ UNCHANGED <<proto, main, shared>>

SyncTask ==
    \/ SyncSkipStale
    \/ SyncReadIdle \/ SyncClearIdle \/ SyncEnterIdle
    \/ SyncWaitHeader \/ SyncTakeHeader \/ SyncTakeNothing \/ SyncGotHeader \/ SyncNoHeader
    \/ SyncDiscard \/ SyncDiscardedAll \/ SyncApplyClear
    \/ SyncAwaitAck \/ SyncClearStart \/ SyncReadStarted \/ SyncWakeAck
    \/ SyncRelease \/ SyncLeft
    \/ SyncActivate \/ SyncRun \/ SyncLoop \/ SyncWrite \/ SyncLoad \/ SyncLoadNothing
    \/ SyncDecode \/ SyncExit

-----------------------------------------------------------------------------
(* Main loop: SendspinClient::drain_inbox() and PlayerRole::Impl::drain_events() *)

\* The STREAM_END a teardown owes the listener.
OwedEnd == Event("STREAM_END", 0, 0)

\* catch_up_teardown(): a generation not caught up with yet runs complete_teardown() once.
CaughtUpMutant(m, gen) ==
    IF gen > m.completed
    THEN [m EXCEPT !.completed = gen, !.awaiting = Append(@, OwedEnd), !.awaitingIdle = FALSE,
                   !.hpHeld = FALSE]
    ELSE m
CaughtUp(m, gen) ==
    IF gen > m.completed
    THEN [m EXCEPT !.completed = gen, !.awaiting = <<OwedEnd>>, !.awaitingIdle = FALSE,
                   !.hpHeld = FALSE]
    ELSE m

\* The head of the drain: loop(), which does nothing while the client is stopped, or stop().
MainCatchUp ==
    /\ main.pc = "drain" \/ (main.pc = "tick" /\ proto.pc # "joined")
    /\ main' = [CaughtUp(main, generation) EXCEPT !.pc = "ring"]
    /\ UNCHANGED <<proto, sync, shared>>

MainTakeEvents ==
    /\ main.pc = "ring"
    /\ main' = [main EXCEPT !.pc = "dispatch", !.batch = events]
    /\ events' = <<>>
    /\ UNCHANGED <<proto, sync, ButEvents>>

\* A *_CLEARED only catches the role up. A stream event waits behind the teardown it follows, and
\* one of a torn-down generation is dropped.
Dispatched(m, event) ==
    IF event.type = "CLEARED" THEN CaughtUp(m, event.gen)
    ELSE IF event.gen # generation THEN m
    ELSE LET caught == CaughtUp(m, event.gen) IN
         [caught EXCEPT !.awaiting = Append(@, event)]

MainDispatch ==
    /\ main.pc = "dispatch" /\ main.batch # <<>>
    /\ main' = [Dispatched(main, Head(main.batch)) EXCEPT !.batch = Tail(@)]
    /\ UNCHANGED <<proto, sync, shared>>

\* The ring is taken batch by batch: a full batch is followed by another.
MainTakeMore ==
    /\ main.pc = "dispatch" /\ main.batch = <<>> /\ events # <<>>
    /\ main' = [main EXCEPT !.pc = "ring"]
    /\ UNCHANGED <<proto, sync, shared>>

\* needs_drain(): an idle note, or events not held for the sync task.
NeedsDrainMutant == main.awaiting # <<>> /\ ~main.awaitingIdle
NeedsDrain == idleNote \/ (main.awaiting # <<>> /\ ~main.awaitingIdle)

\* The head of drain_events(): the note is taken before is_running() is read (MainGate). A server
\* command runs the drain as well.
MainDrainHead ==
    /\ main.pc = "dispatch" /\ main.batch = <<>>
    /\ idleNote' = FALSE
    /\ main' = [CaughtUp(main, generation) EXCEPT !.pc = "gate", !.gen = generation]
    /\ UNCHANGED <<proto, sync, ButNote>>

MainNoDrain ==
    /\ main.pc = "dispatch" /\ main.batch = <<>> /\ ~NeedsDrain
    /\ main' = [main EXCEPT !.pc = "tick"]
    /\ UNCHANGED <<proto, sync, shared>>

\* is_running() is read, unless a teardown was seen to move the generation on.
SyncIdleMutant == TRUE
SyncIdle == ~Set({"RUNNING"})

MainGate ==
    /\ main.pc = "gate"
    /\ \/ main' = [main EXCEPT !.pc = "walk", !.awaitingIdle = FALSE,
                                !.syncIdle = SyncIdle]
       \/ generation # main.gen /\ main' = [main EXCEPT !.pc = "tick"]
    /\ UNCHANGED <<proto, sync, shared>>

\* The walk over the events ends behind the last one, or at a STREAM_END the sync task has not
\* reached, which waits for its idle note with everything behind it.
At(type) == main.pc = "walk" /\ main.awaiting # <<>> /\ Head(main.awaiting).type = type
EndWalk(m, pc) == [m EXCEPT !.pc = pc, !.syncIdle = FALSE]

MainEndWalk ==
    /\ \/ main.pc = "walk" /\ main.awaiting = <<>>
       \/ At("STREAM_END") /\ ~main.syncIdle
    /\ main' = EndWalk([main EXCEPT !.awaitingIdle = (main.awaiting # <<>>)], "tick")
    /\ UNCHANGED <<proto, sync, shared>>

\* Behind a callback the walk goes on, unless a teardown moved the generation on: then the rest is
\* abandoned, the event itself still queued. The callback may also call stop().
MayStop == proto.stops < MaxStops /\ proto.pc # "joined"
Resume(m, goesOn) == main' = IF generation = main.gen THEN goesOn ELSE EndWalk(m, "tick")
StopWithin(m) == MayStop /\ main' = EndWalk(m, "stop")

\* on_stream_end(), then the playback hold's release.
Closed(m) == [m EXCEPT !.streamActive = FALSE]
ReleasedMutant(m) == m
Released(m) == [m EXCEPT !.hpHeld = FALSE]

MainFireEnd ==
    /\ At("STREAM_END") /\ main.syncIdle
    /\ \/ Resume(Released(Closed(main)), [Released(Closed(main)) EXCEPT !.awaiting = Tail(@)])
       \/ main.streamActive /\ StopWithin(Closed(main))
    /\ UNCHANGED <<proto, sync, shared>>

\* STREAM_START: the playback hold, the params if their stamp is current, on_stream_start().
MainFireStart ==
    /\ At("STREAM_START")
    /\ params' = NoParams
    /\ LET applies == params # NoParams /\ params.gen = main.gen
           open == [main EXCEPT !.streamActive = TRUE, !.hpHeld = TRUE,
                                !.params = IF applies THEN params.ordinal ELSE @] IN
        Resume(open, [open EXCEPT !.pc = "acknowledge"]) \/ StopWithin(open)
    /\ UNCHANGED <<proto, sync, generation, list, flags, ended, started, idleNote, events>>

\* signal_stream_start(): the ordinal before the flag. The snapshot of is_running() is stale now.
MainAcknowledge ==
    /\ main.pc = "acknowledge"
    /\ started' = Head(main.awaiting).ordinal
    /\ main' = [main EXCEPT !.pc = "wake"]
    /\ UNCHANGED <<proto, sync, generation, list, flags, ended, idleNote, params, events>>

Woken(m) == [m EXCEPT !.pc = "walk", !.awaiting = Tail(@), !.syncIdle = FALSE]

MainWakeSync ==
    /\ main.pc = "wake"
    /\ flags' = flags \cup {"START"}
    /\ main' = Woken(main)
    /\ UNCHANGED <<proto, sync, ButFlags>>

\* stop(), between two ticks or from another callback the drain fires: the protocol task is joined
\* between two handlers, the sync task after it.
MainStop ==
    /\ main.pc \in {"tick", "dispatch", "gate"} /\ MayStop
    /\ main' = [main EXCEPT !.pc = "stop"]
    /\ UNCHANGED <<proto, sync, shared>>

MainJoinProtocol ==
    /\ main.pc = "stop" /\ proto.pc = "ready"
    /\ proto' = [proto EXCEPT !.pc = "joined", !.stops = @ + 1]
    /\ flags' = flags \cup {"STOP"}
    /\ main' = [main EXCEPT !.pc = "join"]
    /\ UNCHANGED <<sync, ButFlags>>

\* With both threads joined: the tail of SyncTask::stop(), cleanup_connection_state() and
\* cleanup(), then the drain that delivers what the teardown owes.
TornDownFlagsMutant == flags \cup {"STREAM_END"}
TornDownFlags == (flags \ {"RUNNING"}) \cup {"STREAM_END"}

MainTearDown ==
    /\ main.pc = "join" /\ SyncAt("stopped")
    /\ flags' = TornDownFlags
    /\ list' = <<>>
    /\ ended' = proto.ordinal
    /\ generation' = generation + 1
    /\ params' = NoParams
    /\ events' = <<Event("CLEARED", 0, generation + 1)>>
    /\ main' = [main EXCEPT !.pc = "drain", !.batch = <<>>]
    /\ UNCHANGED <<proto, sync, started, idleNote>>

\* start() after a stop(): SyncTask::start() clears every flag and waits for IDLE.
MainRestart ==
    /\ main.pc = "tick" /\ proto.pc = "joined"
    /\ proto' = [proto EXCEPT !.pc = "ready"]
    /\ SyncGoes("noteIdle")
    /\ flags' = {}
    /\ UNCHANGED <<main, ButFlags>>

\* loop() called again and again, and a stop() already begun.
MainDrain ==
    \/ MainCatchUp \/ MainTakeEvents \/ MainDispatch \/ MainTakeMore
    \/ MainDrainHead \/ MainNoDrain
    \/ MainGate \/ MainEndWalk \/ MainFireEnd \/ MainFireStart \/ MainAcknowledge \/ MainWakeSync
    \/ MainJoinProtocol \/ MainTearDown
MainLoop == MainDrain \/ MainStop \/ MainRestart

-----------------------------------------------------------------------------
Next == ProtocolTask \/ SyncTask \/ MainLoop

Spec == Init /\ [][Next]_vars

\* Each thread keeps running: a handler finishes what it began, the sync task is never parked
\* with something to do, and loop() is called again and again. Messages and stop() are free.
Fairness == WF_vars(FinishHandler) /\ WF_vars(SyncTask) /\ WF_vars(MainDrain)
FairSpec == Spec /\ Fairness

-----------------------------------------------------------------------------
(* Properties *)

ProtoPlaces == {"ready", "start", "endFlag", "endPush", "marker", "recall", "cleanupFlag",
                "cleared", "joined"}
SyncPlaces == {"idle", "clearIdle", "noteIdle", "waitHeader", "take", "gotHeader", "noHeader",
               "discard", "applyClear", "ack", "ackClear", "ackRead", "ackWait", "ackRefused",
               "left", "activate", "run", "loop", "leave", "write", "load", "decode", "exit",
               "stopped"}
MainPlaces == {"tick", "ring", "dispatch", "gate", "walk", "acknowledge", "wake", "stop", "join",
               "drain"}
MaybeItem == Items \cup {NoItem}

ProtoRecords == [pc : ProtoPlaces, ordinal : Ordinals,
                 messages : Nat, clears : Nat, teardowns : Nat, stops : Nat, lost : BOOLEAN]
SyncRecords == [pc : SyncPlaces, flag : BOOLEAN, held : MaybeItem, next : MaybeItem,
                active : Ordinals, decoded : MaybeItem, abandoned : BOOLEAN,
                return : {"idle", "loop", "ack"}]
MainRecords == [pc : MainPlaces, batch : Seq(Events), gen : Nat, completed : Nat,
                awaiting : Seq(Events), awaitingIdle : BOOLEAN, syncIdle : BOOLEAN,
                streamActive : BOOLEAN, hpHeld : BOOLEAN, params : Ordinals \cup {-1}]

\* Types of the three threads' records and of what they share.
TypeOK ==
    /\ proto \in ProtoRecords /\ sync \in SyncRecords /\ main \in MainRecords
    /\ generation \in Nat
    /\ list \in Seq(Items)
    /\ flags \subseteq FlagNames
    /\ ended \in Ordinals /\ started \in Ordinals
    /\ idleNote \in BOOLEAN
    /\ params \in [gen : Nat, ordinal : Ordinals \cup {-1}]
    /\ events \in Seq(Events)

\* Audio is written only between on_stream_start() and on_stream_end(): the main loop fires the end
\* only once the sync task has left the stream, and the sync task starts only once it is told to.
WritesOnlyWhileOpen == SyncAt("write") => main.streamActive

\* The sync task begins a write.
BeginsWrite == SyncAt("loop") /\ sync'.pc = "write"

\* With teardowns the same holds of every write begun outside cleanup(): once it has signalled the
\* sync task, the listener is open whenever audio is written.
WritesOnlyWhileOpenOrTornDown ==
    [][BeginsWrite => main.streamActive \/ proto.pc \in {"recall", "cleanupFlag"}]_vars

\* No chunk of a stream that has ended is written, once its end has been signalled: leaving ACTIVE
\* drops what was decoded, and no wake or leftover header carries it into a later stream.
NoAudioOfAnEndedStream ==
    [][BeginsWrite /\ sync.decoded # NoItem =>
         \/ After(sync.decoded.serial, ended)
         \/ proto.pc \in {"endFlag", "cleanupFlag"}]_vars

\* What the sync task plays has been acknowledged by the main loop: a wake left over from an
\* earlier stream never starts a later one.
PlaysAcknowledged ==
    [][BeginsWrite => ~After(sync.active, started)]_vars

\* The events held for the listener are of the connection the role last caught up with, so a
\* STREAM_START of a torn-down one is never fired behind the end the teardown owes, however the
\* walk over the events was cut short.
AwaitingIsCurrent ==
    \A i \in 1 .. Len(main.awaiting) :
        main.awaiting[i] = OwedEnd \/ main.awaiting[i].gen = main.completed

HoldMatches(m) ==
    \/ m.hpHeld = m.streamActive
    \/ m.streamActive /\ m.awaiting # <<>> /\ Head(m.awaiting) = OwedEnd

\* Between two ticks the playback hold on high-performance networking is held exactly while a
\* stream is open to the listener, but for one whose teardown still owes its end.
HoldMatchesStream == main.pc = "tick" => HoldMatches(main)

\* stop() returns with nothing left over: the listener has been told of the end, the hold is
\* released, no event is waiting.
StoppedIsClosed ==
    proto.pc = "joined" /\ main.pc = "tick"
        => ~main.streamActive /\ ~main.hpHeld /\ main.awaiting = <<>>

\* A header waiting for its acknowledgement, or acknowledged, is held.
HeaderHeld ==
    sync.pc \in {"gotHeader", "ack", "ackClear", "ackRead", "ackWait", "activate"}
        => sync.held \in Items

\* The start being acknowledged is still the first of the events waiting.
StartWaits ==
    main.pc \in {"acknowledge", "wake"}
        => main.awaiting # <<>> /\ Head(main.awaiting).type = "STREAM_START"

\* No stamp is ahead of the generation, and a teardown by stop() is still to be caught up with.
NoneAhead(s, gen) == \A i \in 1 .. Len(s) : s[i].gen <= gen
Stamped ==
    /\ main.completed <= generation
    /\ NoneAhead(events, generation) /\ NoneAhead(main.batch, generation)
    /\ main.pc = "drain" => main.completed < generation

\* The hold and the stream agree; only a stop() called in on_stream_end() may leave the hold behind,
\* for its own drain to release.
HoldWalks == main.pc \notin {"stop", "join", "drain"} => HoldMatches(main)

\* The listener knows of no open stream.
Closes == ~main.streamActive /\ ~main.hpHeld /\ main.awaiting = <<>>

\* The drain of stop(), with both threads joined: it catches up with the teardown, finds the sync
\* task idle and fires the end it owes.
DrainsOfStop ==
    \/ main.pc = "drain"
    \/ /\ main.pc \in {"ring", "dispatch", "gate", "walk"}
       /\ main.completed = generation /\ ~main.awaitingIdle
       /\ main.awaiting = <<OwedEnd>> \/ Closes
       /\ main.pc \in {"gate", "walk"} => main.gen = generation
       /\ main.pc = "walk" => main.syncIdle
    \/ main.pc = "tick" /\ Closes
Joined ==
    proto.pc = "joined" =>
        \/ main.pc = "join"
        \/ /\ sync.pc = "stopped" /\ "RUNNING" \notin flags
           /\ \A i \in 1 .. Len(events) : events[i].type = "CLEARED"
           /\ \A i \in 1 .. Len(main.batch) : main.batch[i].type = "CLEARED"
           /\ DrainsOfStop
JoinedAt == main.pc \in {"join", "drain"} => proto.pc = "joined"

\* The inductive invariant: what the three threads hold of each other.
Inv ==
    /\ TypeOK /\ HeaderHeld /\ StartWaits /\ Stamped /\ AwaitingIsCurrent /\ HoldWalks
    /\ Joined /\ JoinedAt

\* on_stream_start() finds the params of its own stream, or of a later one.
StartFindsItsParams ==
    main.pc = "acknowledge"
        => main.params # -1 /\ ~After(Head(main.awaiting).ordinal, main.params)

\* A stream/clear discards every chunk sent before it: none is written once the sync task has been
\* told of the clear.
ClearDiscards ==
    [][BeginsWrite /\ sync.decoded # NoItem => sync.decoded.clear = proto.clears]_vars

\* The sync task discards a chunk sent after the last stream/clear, of a stream that has not ended.
DiscardsNewAudio ==
    /\ SyncDiscard /\ Head(list).kind = "audio"
    /\ Head(list).clear = proto.clears /\ After(Head(list).serial, ended)

\* A stream/clear is a seek in the stream being played, or about to be: it discards no chunk sent
\* after it, unless its marker found no room or was taken back by a teardown.
SeekSparesNewAudio == [][DiscardsNewAudio => sync.return = "idle" \/ proto.lost]_vars

\* The marker says where the old audio ends and the new begins, whatever the sync task was doing.
ClearSparesNewAudio == [][~DiscardsNewAudio]_vars

\* Once messages stop arriving, the listener is left open exactly if the latest stream has not
\* ended.
ListenerSettles == <>[](main.streamActive = After(proto.ordinal, ended))

\* No wait for an acknowledgement is left unanswered.
HeaderWaitEnds == SyncAt("ackWait") ~> ~SyncAt("ackWait")

\* stop() returns, whatever the sync task was waiting for.
StopReturns == main.pc = "stop" ~> main.pc = "tick"
=============================================================================
