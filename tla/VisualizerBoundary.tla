-------------------------- MODULE VisualizerBoundary --------------------------
(***************************************************************************)
(* The visualizer role: frames on their way from the protocol task through *)
(* the drain thread, which holds one until it is due, and the streams as   *)
(* the listener hears of them from the main loop. Every stream command and *)
(* every teardown is a boundary: frames of before it are returned, whether *)
(* listed or held.                                                         *)
(*                                                                         *)
(* A definition whose name ends in Mutant is a deliberate mistake the      *)
(* properties are tested against.                                          *)
(***************************************************************************)
EXTENDS Integers, Sequences, FiniteSetsExt

CONSTANTS
    MaxBoundaries,   \* bound: stream commands, teardowns and lost events
    MaxFrames        \* bound: frames listed at a time

ASSUME VisualizerAssumption == {MaxBoundaries, MaxFrames} \subseteq Nat

VARIABLES
    vis,         \* the protocol task's half of the role, see VisStream
    shape,       \* spectrum_bin_count and tracks_downbeats, by the stream they are of
    frames,      \* the drain thread's list
    visBits,     \* its command bits
    watcher,     \* the drain thread: its place, the frame it holds, and history: the boundaries
                 \* there had been when its wait ended
    configSlot,  \* config_slot: the stream and its stamp
    visEvents,   \* the role's events in the inbox
    hearing      \* the main loop: the role's life, the teardown it caught up with, the event it
                 \* acts on, and the stream its listener was told of, 0 for none

visualizerVars == <<vis, shape, frames, visBits, watcher, configSlot, visEvents, hearing>>

protocolHalf == <<vis, shape, configSlot>>

\* at is the rest of the handler, doing what it handles; spectrum tells whether the stream has been
\* admitted with spectrum; lost, history, whether an event of this generation was.
VisStream ==
    [active : BOOLEAN, spectrum : BOOLEAN, streams : Nat, gen : Nat, seq : Nat, lost : BOOLEAN,
     at : {"idle", "recall", "seq", "signal", "slot", "event"},
     doing : {"none", "start", "end", "clear", "cleared"}]

Kinds == {"beat", "spectrum"}

NoFrame  == [stream |-> 0, seq |-> 0, gen |-> 0, kind |-> "beat"]
NoConfig == [stream |-> 0, gen |-> 0]
NoEvent  == [kind |-> "none", gen |-> 0]

-----------------------------------------------------------------------------
(* The protocol task *)

\* It runs until the main loop joins it.
Handling(place) ==
    /\ hearing.life \in {"up", "closing"} /\ vis.at = place
    /\ UNCHANGED <<watcher, hearing>>

\* handle_binary(): the types of the stream only
AdmittedKinds == IF vis.spectrum THEN Kinds ELSE {"beat"}

VisFrame ==
    /\ Handling("idle") /\ vis.active /\ Len(frames) < MaxFrames
    /\ \E kind \in AdmittedKinds :
          frames' = Append(frames, [stream |-> vis.streams, seq |-> vis.seq, gen |-> vis.gen,
                                    kind |-> kind])
    /\ UNCHANGED <<protocolHalf, visBits, visEvents>>

\* The config is written ahead of the boundary.
VisStart ==
    /\ Handling("idle") /\ vis.seq < MaxBoundaries
    /\ \E spectrum \in BOOLEAN :
          vis' = [vis EXCEPT !.active = TRUE, !.spectrum = spectrum, !.streams = @ + 1,
                             !.at = "recall", !.doing = "start"]
    /\ shape' = [stream |-> vis'.streams, spectrum |-> vis'.spectrum]
    /\ UNCHANGED <<frames, visBits, configSlot, visEvents>>

VisEnd ==
    /\ Handling("idle") /\ vis.seq < MaxBoundaries
    /\ vis' = [vis EXCEPT !.active = FALSE, !.at = "recall", !.doing = "end"]
    /\ UNCHANGED <<shape, frames, visBits, configSlot, visEvents>>

VisClear ==
    /\ Handling("idle") /\ vis.seq < MaxBoundaries
    /\ vis' = [vis EXCEPT !.at = "recall", !.doing = "clear"]
    /\ UNCHANGED <<shape, frames, visBits, configSlot, visEvents>>

\* cleanup(), of a role the server removes or of a lost connection, which wipes the event ring
VisCleanup ==
    /\ Handling("idle") /\ vis.seq < MaxBoundaries
    /\ vis' = [vis EXCEPT !.active = FALSE, !.gen = @ + 1, !.lost = FALSE,
                          !.at = "recall", !.doing = "cleared"]
    /\ \E lost \in BOOLEAN : visEvents' = IF lost THEN <<>> ELSE visEvents
    /\ UNCHANGED <<shape, frames, visBits, configSlot>>

\* signal_boundary(): what is listed is returned, the sequence moves on, the thread is woken.
VisRecall ==
    /\ Handling("recall")
    /\ frames' = <<>> /\ vis' = [vis EXCEPT !.at = "seq"]
    /\ UNCHANGED <<shape, visBits, configSlot, visEvents>>

VisMoveOn ==
    /\ Handling("seq")
    /\ vis' = [vis EXCEPT !.seq = @ + 1, !.at = "signal"]
    /\ UNCHANGED <<shape, frames, visBits, configSlot, visEvents>>

\* The thread is left to the end of its wait.
SignalledMutant == visBits

Signalled == visBits \cup {"BOUNDARY"}

VisSignal ==
    /\ Handling("signal")
    /\ visBits' = Signalled
    /\ vis' = [vis EXCEPT !.at = IF vis.doing \in {"start", "cleared"} THEN "slot" ELSE "event"]
    /\ UNCHANGED <<shape, frames, configSlot, visEvents>>

VisSlot ==
    /\ Handling("slot")
    /\ configSlot' = IF vis.doing = "start" THEN [stream |-> vis.streams, gen |-> vis.gen] ELSE NoConfig
    /\ vis' = [vis EXCEPT !.at = "event"]
    /\ UNCHANGED <<shape, frames, visBits, visEvents>>

\* push_event_or_log(): a full inbox drops the event
VisEvent ==
    /\ Handling("event")
    /\ \/ /\ visEvents' = Append(visEvents, [kind |-> vis.doing, gen |-> vis.gen])
          /\ vis' = [vis EXCEPT !.at = "idle", !.doing = "none"]
       \/ vis' = [vis EXCEPT !.at = "idle", !.doing = "none", !.lost = TRUE] /\ UNCHANGED visEvents
    /\ UNCHANGED <<shape, frames, visBits, configSlot>>

-----------------------------------------------------------------------------
(* The drain thread *)

Watches == UNCHANGED <<protocolHalf, visEvents, hearing>>

Stale(f) == f.seq # vis.seq

WatchTop ==
    /\ watcher.at = "top"
    /\ watcher' = [watcher EXCEPT !.at = IF "STOP" \in visBits THEN "out" ELSE "take"]
    /\ visBits' = {}
    /\ Watches /\ UNCHANGED frames

\* take(): a frame of a stream that was torn down goes back.
WatchTake ==
    /\ watcher.at = "take" /\ frames # <<>>
    /\ frames' = Tail(frames)
    /\ watcher' = IF Head(frames).gen = vis.gen
                  THEN [watcher EXCEPT !.at = "timed", !.held = Head(frames)]
                  ELSE [watcher EXCEPT !.at = IF Tail(frames) = <<>> THEN "top" ELSE @]
    /\ Watches /\ UNCHANGED visBits

WatchWoken ==
    /\ watcher.at = "take" /\ frames = <<>> /\ visBits # {}
    /\ watcher' = [watcher EXCEPT !.at = "top"]
    /\ Watches /\ UNCHANGED <<frames, visBits>>

WaitEnded == [watcher EXCEPT !.at = "check", !.passed = vis.seq]

Returned(at) == [watcher EXCEPT !.at = at, !.held = NoFrame, !.passed = 0]

\* Without time sync, or too late, it goes; else it is due, or it is waited for.
WatchTimed ==
    /\ watcher.at = "timed"
    /\ watcher' \in {Returned("top"), WaitEnded, [watcher EXCEPT !.at = "wait"]}
    /\ Watches /\ UNCHANGED <<frames, visBits>>

FrameDue ==
    /\ watcher.at = "wait" /\ watcher' = WaitEnded
    /\ Watches /\ UNCHANGED <<frames, visBits>>

\* A boundary that left the held frame current resumes the wait.
WatchSignalled ==
    /\ watcher.at = "wait" /\ visBits # {}
    /\ visBits' = {}
    /\ watcher' = IF "STOP" \in visBits THEN Returned("out")
                  ELSE IF Stale(watcher.held) THEN WaitEnded ELSE watcher
    /\ Watches /\ UNCHANGED frames

\* The frame is not looked at again when its wait is over.
WatchCheckMutant ==
    /\ watcher.at = "check"
    /\ watcher' = [watcher EXCEPT !.at = "decode"]
    /\ Watches /\ UNCHANGED <<frames, visBits>>

WatchCheck ==
    /\ watcher.at = "check"
    /\ watcher' = IF Stale(watcher.held) THEN Returned("top") ELSE [watcher EXCEPT !.at = "decode"]
    /\ Watches /\ UNCHANGED <<frames, visBits>>

\* decode_visualizer_message(), out of the item, which is returned before the listener is called
WatchDecode ==
    /\ watcher.at = "decode"
    /\ watcher' = Returned("top")
    /\ Watches /\ UNCHANGED <<frames, visBits>>

-----------------------------------------------------------------------------
(* The main loop *)

Hears == UNCHANGED <<vis, shape, watcher>>

\* catch_up_teardown(): the listener is told of an end.
VisCaughtUpMutant(h, gen) == [h EXCEPT !.torn = Max({@, gen})]

VisCaughtUp(h, gen) == IF gen > h.torn THEN [h EXCEPT !.torn = gen, !.stream = 0] ELSE h

\* The head of a drain
HearTeardown ==
    /\ hearing.life # "stopped" /\ hearing.event = NoEvent /\ hearing.torn # vis.gen
    /\ hearing' = VisCaughtUp(hearing, vis.gen)
    /\ Hears /\ UNCHANGED <<frames, visBits, configSlot, visEvents>>

\* event_is_current() and the catch-up
HearEvent ==
    LET e == Head(visEvents)
    IN  /\ hearing.life # "stopped" /\ hearing.event = NoEvent /\ visEvents # <<>>
        /\ visEvents' = Tail(visEvents)
        /\ hearing' = IF e.kind = "cleared" THEN VisCaughtUp(hearing, e.gen)
                      ELSE IF e.gen = vis.gen THEN [VisCaughtUp(hearing, e.gen) EXCEPT !.event = e]
                      ELSE hearing
        /\ Hears /\ UNCHANGED <<frames, visBits, configSlot>>

\* handle_stream_ring_event()
HearStart ==
    /\ hearing.event.kind = "start"
    /\ configSlot' = NoConfig
    /\ hearing' = [hearing EXCEPT !.event = NoEvent,
                      !.stream = IF configSlot # NoConfig /\ configSlot.gen = hearing.event.gen
                                 THEN configSlot.stream ELSE @]
    /\ Hears /\ UNCHANGED <<frames, visBits, visEvents>>

HearEnd ==
    /\ hearing.event.kind \in {"end", "clear"}
    /\ hearing' = [hearing EXCEPT !.event = NoEvent,
                      !.stream = IF hearing.event.kind = "end" THEN 0 ELSE @]
    /\ Hears /\ UNCHANGED <<frames, visBits, configSlot, visEvents>>

\* stop(), in a callback or between two ticks: the event at hand has been acted on.
VisStop ==
    /\ hearing.life = "up" /\ hearing.event = NoEvent /\ vis.seq < MaxBoundaries
    /\ hearing' = [hearing EXCEPT !.life = "closing"]
    /\ visBits' = visBits \cup {"STOP"}
    /\ Hears /\ UNCHANGED <<frames, configSlot, visEvents>>

\* The protocol task is joined, then the drain thread; the list is unbound and the role cleaned up.
VisJoin ==
    /\ hearing.life = "closing" /\ vis.at = "idle" /\ watcher.at = "out"
    /\ frames' = <<>> /\ configSlot' = NoConfig
    /\ vis' = [vis EXCEPT !.active = FALSE, !.gen = @ + 1, !.seq = @ + 1, !.lost = FALSE]
    /\ visEvents' = <<[kind |-> "cleared", gen |-> vis'.gen]>>
    /\ hearing' = [hearing EXCEPT !.life = "final"]
    /\ UNCHANGED <<shape, visBits, watcher>>

VisStopped ==
    /\ hearing.life = "final" /\ hearing.event = NoEvent
    /\ hearing.torn = vis.gen /\ visEvents = <<>>
    /\ hearing' = [hearing EXCEPT !.life = "stopped"]
    /\ Hears /\ UNCHANGED <<frames, visBits, configSlot, visEvents>>

VisStartAgain ==
    /\ hearing.life = "stopped"
    /\ hearing' = [hearing EXCEPT !.life = "up"]
    /\ watcher' = [watcher EXCEPT !.at = "top"] /\ visBits' = {}
    /\ UNCHANGED <<protocolHalf, frames, visEvents>>

-----------------------------------------------------------------------------
(* The role *)

\* No stream has been started, and the drain thread waits.
VisualizerInit ==
    /\ vis = [active |-> FALSE, spectrum |-> FALSE, streams |-> 0, gen |-> 0, seq |-> 0,
              lost |-> FALSE, at |-> "idle", doing |-> "none"]
    /\ shape = [stream |-> 0, spectrum |-> FALSE]
    /\ frames = <<>> /\ visBits = {} /\ configSlot = NoConfig /\ visEvents = <<>>
    /\ watcher = [at |-> "take", held |-> NoFrame, passed |-> 0]
    /\ hearing = [life |-> "up", torn |-> 0, event |-> NoEvent, stream |-> 0]

ProtocolGoesOn == VisRecall \/ VisMoveOn \/ VisSignal \/ VisSlot \/ VisEvent

\* What the thread does without waiting for time to pass
Watcher ==
    WatchTop \/ WatchTake \/ WatchWoken \/ WatchTimed \/ WatchSignalled \/ WatchCheck \/ WatchDecode

MainHears == HearTeardown \/ HearEvent \/ HearStart \/ HearEnd

VisualizerNext ==
    \/ VisFrame \/ VisStart \/ VisEnd \/ VisClear \/ VisCleanup \/ ProtocolGoesOn
    \/ Watcher \/ FrameDue \/ MainHears
    \/ VisStop \/ VisJoin \/ VisStopped \/ VisStartAgain

\* Handlers go on, the drain thread runs, and loop() is called. That a held frame falls due is not
\* assumed.
VisualizerFairness ==
    /\ WF_visualizerVars(ProtocolGoesOn) /\ WF_visualizerVars(Watcher) /\ WF_visualizerVars(MainHears)

VisualizerSpec == VisualizerInit /\ [][VisualizerNext]_visualizerVars /\ VisualizerFairness

-----------------------------------------------------------------------------
(* What it promises *)

VisualizerTypes ==
    /\ vis \in VisStream /\ visBits \subseteq {"STOP", "BOUNDARY"}
    /\ watcher.at \in {"top", "take", "timed", "wait", "check", "decode", "out"}
    /\ hearing.life \in {"up", "closing", "final", "stopped"}

\* A frame is decoded only if its stream had not come to a boundary when its wait ended, and under the
\* configuration of its stream or of one that has replaced it, in which the boundary is on its way.
FramesOfTheirStream ==
    watcher.at = "decode" =>
      /\ watcher.held.seq = watcher.passed
      /\ shape.stream >= watcher.held.stream
      /\ watcher.held.kind = "spectrum" /\ ~shape.spectrum => shape.stream > watcher.held.stream

\* The main loop has acted on all there is.
Heard ==
    /\ vis.at = "idle" /\ ~vis.lost /\ visEvents = <<>> /\ hearing.event = NoEvent
    /\ hearing.torn = vis.gen

\* Once it has, a listener knows of the end of a stream, whichever of a stream/end, a teardown and a
\* stop() ended it, and of no stream but the latest: a teardown makes up for lost events.
EndIsTold == Heard => hearing.stream \in IF vis.active THEN {0, vis.streams} ELSE {0}

VisualizerSafe == VisualizerTypes /\ FramesOfTheirStream /\ EndIsTold

\* Once it has, the listener has been told of the stream that is active: what the handler of a
\* stream/start says of the config its event finds.
StartIsTold == Heard /\ vis.active => hearing.stream = vis.streams

\* A frame held for a time that may not come is returned when a boundary passes it.
StaleIsReturned == (watcher.held # NoFrame /\ Stale(watcher.held)) ~> watcher.held = NoFrame

=============================================================================
