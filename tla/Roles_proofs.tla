------------------------------ MODULE Roles_proofs ------------------------------
(***************************************************************************)
(* Proofs about the artwork and the visualizer role, for every value of    *)
(* their bounds: the inductive invariant of each, and what a listener is   *)
(* promised of its images and of its frames.                               *)
(***************************************************************************)
EXTENDS MCRoles, WellFoundedInduction, TLAPS

-----------------------------------------------------------------------------
(* The visualizer: its inductive invariant *)

VisFrames == [stream : Nat, seq : Nat, gen : Nat, kind : Kinds]
VisEvents == [kind : {"start", "end", "clear", "cleared"}, gen : Nat]

\* Types, and: what the drain thread decodes by is what the stream was admitted with.
VisTyped ==
    /\ vis \in VisStream /\ visBits \subseteq {"STOP", "BOUNDARY"}
    /\ shape = [stream |-> vis.streams, spectrum |-> vis.spectrum]
    /\ frames \in Seq(VisFrames)
    /\ watcher \in [at : {"top", "take", "timed", "wait", "check", "decode", "out"},
                    held : VisFrames, passed : Nat]
    /\ configSlot \in [stream : Nat, gen : Nat]
    /\ visEvents \in Seq(VisEvents)
    /\ hearing \in [life : {"up", "closing", "final", "stopped"}, torn : Nat,
                    event : VisEvents \cup {NoEvent}, stream : Nat]

\* A frame is of no boundary ahead, and of the latest stream only in a kind it was admitted with.
Behind(f) ==
    /\ f.seq <= vis.seq /\ f.stream <= vis.streams
    /\ f.stream = vis.streams /\ f.kind = "spectrum" => vis.spectrum

\* Every frame is, and the boundary read when a wait ended is between the frame's and the latest.
FramesBehind ==
    /\ \A i \in DOMAIN frames : Behind(frames[i])
    /\ Behind(watcher.held)
    /\ watcher.at \in {"check", "decode"} =>
         watcher.held.seq <= watcher.passed /\ watcher.passed <= vis.seq
    /\ watcher.at = "decode" => watcher.held.seq = watcher.passed

\* The stream has begun; its config is not in the slot yet.
Unwritten == vis.doing = "start" /\ vis.at \in {"recall", "seq", "signal", "slot"}

\* What a handler is doing fits the stream it has left behind.
VisHandler ==
    /\ vis.at = "idle" <=> vis.doing = "none"
    /\ vis.active => vis.streams > 0
    /\ vis.doing = "start" => vis.active
    /\ vis.doing = "end" => ~vis.active
    /\ vis.at = "slot" => vis.doing \in {"start", "cleared"}
    /\ vis.doing = "cleared" => configSlot.gen < vis.gen

\* No stamp is ahead of the generation, and a config of it is of the latest stream.
VisStamps ==
    /\ hearing.torn <= vis.gen /\ configSlot.gen <= vis.gen
    /\ \A i \in DOMAIN visEvents : visEvents[i].gen <= vis.gen
    /\ hearing.event # NoEvent => hearing.event.gen = hearing.torn /\ hearing.event.kind # "cleared"
    /\ configSlot # NoConfig /\ configSlot.gen = vis.gen /\ ~Unwritten =>
         configSlot.stream = vis.streams

IsEvent(e, kind, gen) == e.kind = kind /\ e.gen = gen

HasStart(q, gen) == \E i \in DOMAIN q : IsEvent(q[i], "start", gen)

\* An end waits that no start follows.
EndsLast(q, gen) ==
    \E i \in DOMAIN q :
       IsEvent(q[i], "end", gen) /\ \A j \in DOMAIN q : j > i => ~IsEvent(q[j], "start", gen)

\* The config in the slot is about to be read, or written.
StartOwed ==
    \/ Unwritten
    \/ /\ configSlot # NoConfig /\ configSlot.gen = vis.gen
       /\ vis.doing = "start" \/ HasStart(visEvents, vis.gen) \/ hearing.event.kind = "start"

\* With no event of this generation lost, the listener knows no stream but the latest, or is about to
\* hear of that one.
ToldOfLatest ==
    hearing.torn = vis.gen /\ ~vis.lost => hearing.stream \in {0, vis.streams} \/ StartOwed

\* With no stream, it knows none, or is about to hear of the end.
EndOwed ==
    ~vis.active /\ ~vis.lost =>
      \/ vis.doing = "end" \/ EndsLast(visEvents, vis.gen)
      \/ /\ ~HasStart(visEvents, vis.gen)
         /\ hearing.torn = vis.gen /\ hearing.event.kind # "end" =>
              hearing.event.kind # "start" /\ hearing.stream = 0

VisIInv == VisTyped /\ FramesBehind /\ VisHandler /\ VisStamps /\ ToldOfLatest /\ EndOwed

-----------------------------------------------------------------------------
(* Lists of events *)

LEMMA AppendedStarts ==
    ASSUME NEW q \in Seq(VisEvents), NEW e \in VisEvents, NEW gen
    PROVE  HasStart(Append(q, e), gen) <=> HasStart(q, gen) \/ IsEvent(e, "start", gen)
  <1>1. /\ DOMAIN q = 1 .. Len(q) /\ DOMAIN Append(q, e) = 1 .. Len(q) + 1 /\ Len(q) \in Nat
        /\ Append(q, e)[Len(q) + 1] = e
        /\ \A i \in 1 .. Len(q) : Append(q, e)[i] = q[i]
    OBVIOUS
  <1>2. \A i \in 1 .. Len(q) + 1 : i \in 1 .. Len(q) \/ i = Len(q) + 1
    BY <1>1
  <1>3. Len(q) + 1 \in 1 .. Len(q) + 1 /\ \A i \in 1 .. Len(q) : i \in 1 .. Len(q) + 1
    BY <1>1
  <1> QED BY <1>1, <1>2, <1>3, Zenon DEF HasStart

LEMMA TailStarts ==
    ASSUME NEW q \in Seq(VisEvents), q # <<>>, NEW gen
    PROVE  HasStart(q, gen) <=> IsEvent(Head(q), "start", gen) \/ HasStart(Tail(q), gen)
  <1>1. /\ Tail(q) \in Seq(VisEvents) /\ Len(Tail(q)) = Len(q) - 1 /\ Head(q) = q[1]
        /\ DOMAIN q = 1 .. Len(q) /\ DOMAIN Tail(q) = 1 .. Len(q) - 1 /\ Len(q) \in Nat \ {0}
        /\ \A i \in 1 .. Len(q) - 1 : Tail(q)[i] = q[i + 1]
    OBVIOUS
  <1>2. ASSUME HasStart(q, gen), ~IsEvent(Head(q), "start", gen) PROVE HasStart(Tail(q), gen)
    <2>1. PICK i \in 1 .. Len(q) : IsEvent(q[i], "start", gen)
      BY <1>1, <1>2 DEF HasStart
    <2>2. i - 1 \in 1 .. Len(q) - 1 /\ q[i] = Tail(q)[i - 1]
      BY <1>1, <1>2, <2>1
    <2> QED BY <1>1, <2>1, <2>2 DEF HasStart
  <1>3. ASSUME HasStart(Tail(q), gen) PROVE HasStart(q, gen)
    <2>1. PICK i \in 1 .. Len(q) - 1 : IsEvent(Tail(q)[i], "start", gen)
      BY <1>1, <1>3 DEF HasStart
    <2>2. i + 1 \in 1 .. Len(q) /\ Tail(q)[i] = q[i + 1]
      BY <1>1, <2>1
    <2> QED BY <1>1, <2>1, <2>2 DEF HasStart
  <1>4. IsEvent(Head(q), "start", gen) => HasStart(q, gen)
    BY <1>1 DEF HasStart
  <1> QED BY <1>2, <1>3, <1>4

LEMMA AppendedEnd ==
    ASSUME NEW q \in Seq(VisEvents), NEW e \in VisEvents, NEW gen
    PROVE  /\ IsEvent(e, "end", gen) => EndsLast(Append(q, e), gen)
           /\ EndsLast(q, gen) /\ ~IsEvent(e, "start", gen) => EndsLast(Append(q, e), gen)
  <1>1. /\ DOMAIN q = 1 .. Len(q) /\ DOMAIN Append(q, e) = 1 .. Len(q) + 1 /\ Len(q) \in Nat
        /\ Append(q, e)[Len(q) + 1] = e
        /\ \A i \in 1 .. Len(q) : Append(q, e)[i] = q[i]
    OBVIOUS
  <1>2. ASSUME IsEvent(e, "end", gen) PROVE EndsLast(Append(q, e), gen)
    <2>1. Len(q) + 1 \in DOMAIN Append(q, e)
      BY <1>1
    <2> QED BY <1>1, <1>2, <2>1 DEF EndsLast
  <1>3. ASSUME EndsLast(q, gen), ~IsEvent(e, "start", gen) PROVE EndsLast(Append(q, e), gen)
    <2>1. PICK i \in 1 .. Len(q) :
            IsEvent(q[i], "end", gen)
              /\ \A j \in 1 .. Len(q) : j > i => ~IsEvent(q[j], "start", gen)
      BY <1>1, <1>3 DEF EndsLast
    <2>2. i \in DOMAIN Append(q, e) /\ IsEvent(Append(q, e)[i], "end", gen)
      BY <1>1, <2>1
    <2>3. \A j \in DOMAIN Append(q, e) : j > i => ~IsEvent(Append(q, e)[j], "start", gen)
      BY <1>1, <1>3, <2>1
    <2> QED BY <2>2, <2>3 DEF EndsLast
  <1> QED BY <1>2, <1>3

LEMMA TailEnd ==
    ASSUME NEW q \in Seq(VisEvents), q # <<>>, NEW gen, EndsLast(q, gen)
    PROVE  \/ EndsLast(Tail(q), gen)
           \/ IsEvent(Head(q), "end", gen) /\ ~HasStart(Tail(q), gen)
  <1>1. /\ Len(Tail(q)) = Len(q) - 1 /\ Head(q) = q[1]
        /\ DOMAIN q = 1 .. Len(q) /\ DOMAIN Tail(q) = 1 .. Len(q) - 1 /\ Len(q) \in Nat \ {0}
        /\ \A i \in 1 .. Len(q) - 1 : Tail(q)[i] = q[i + 1]
    OBVIOUS
  <1>2. PICK i \in 1 .. Len(q) :
          IsEvent(q[i], "end", gen)
            /\ \A j \in 1 .. Len(q) : j > i => ~IsEvent(q[j], "start", gen)
    BY <1>1 DEF EndsLast
  <1>3. \A j \in 1 .. Len(q) - 1 : j > i - 1 => ~IsEvent(Tail(q)[j], "start", gen)
    <2> SUFFICES ASSUME NEW j \in 1 .. Len(q) - 1, j > i - 1
                 PROVE  ~IsEvent(Tail(q)[j], "start", gen)
      OBVIOUS
    <2>1. j + 1 \in 1 .. Len(q) /\ j + 1 > i /\ Tail(q)[j] = q[j + 1]
      BY <1>1
    <2> QED BY <1>2, <2>1
  <1>4. CASE i = 1
    BY <1>1, <1>2, <1>3, <1>4 DEF HasStart
  <1>5. CASE i # 1
    <2>1. i - 1 \in 1 .. Len(q) - 1 /\ Tail(q)[i - 1] = q[i]
      BY <1>1, <1>5
    <2> QED BY <1>1, <1>2, <1>3, <2>1 DEF EndsLast
  <1> QED BY <1>4, <1>5

-----------------------------------------------------------------------------
(* The visualizer: types and frames *)

LEMMA MaxOfTwo ==
    ASSUME NEW a \in Nat, NEW b \in Nat
    PROVE  Max({a, b}) = IF a >= b THEN a ELSE b
  BY DEF Max

LEMMA VisInit ==
    ASSUME VisualizerInit
    PROVE  VisIInv
  <1> USE DEF VisualizerInit
  <1>1. VisTyped
    BY DEF VisTyped, VisStream, VisFrames, VisEvents, NoFrame, NoConfig, NoEvent, Kinds
  <1>2. FramesBehind
    BY DEF FramesBehind, Behind, NoFrame
  <1>3. VisHandler /\ VisStamps
    BY DEF VisHandler, VisStamps, NoConfig, NoEvent, Unwritten
  <1>4. ToldOfLatest /\ EndOwed
    BY DEF ToldOfLatest, EndOwed, HasStart, NoEvent
  <1> QED BY <1>1, <1>2, <1>3, <1>4 DEF VisIInv

\* An event taken from the inbox is one, and the rest is a list of them.
LEMMA EventTaken ==
    ASSUME visEvents \in Seq(VisEvents), visEvents # <<>>
    PROVE  /\ Head(visEvents) \in VisEvents /\ Tail(visEvents) \in Seq(VisEvents)
           /\ 1 \in DOMAIN visEvents /\ Head(visEvents) = visEvents[1]
           /\ DOMAIN Tail(visEvents) = 1 .. Len(visEvents) - 1 /\ Len(visEvents) \in Nat
           /\ DOMAIN visEvents = 1 .. Len(visEvents)
           /\ \A i \in DOMAIN Tail(visEvents) :
                i + 1 \in DOMAIN visEvents /\ Tail(visEvents)[i] = visEvents[i + 1]
  OBVIOUS

LEMMA FrameTaken ==
    ASSUME frames \in Seq(VisFrames), frames # <<>>
    PROVE  /\ Head(frames) \in VisFrames /\ Tail(frames) \in Seq(VisFrames)
           /\ 1 \in DOMAIN frames /\ Head(frames) = frames[1]
           /\ \A i \in DOMAIN Tail(frames) :
                i + 1 \in DOMAIN frames /\ Tail(frames)[i] = frames[i + 1]
  OBVIOUS

\* Every step of the protocol task: what it leaves alone, and how its record moves.
LEMMA HandlerTypes ==
    ASSUME VisTyped, VisHandler,
           VisFrame \/ VisStart \/ VisEnd \/ VisClear \/ VisCleanup \/ ProtocolGoesOn
    PROVE  VisTyped'
  <1> USE DEF Handling
  <1>0. /\ vis \in VisStream /\ frames \in Seq(VisFrames) /\ visEvents \in Seq(VisEvents)
        /\ shape = [stream |-> vis.streams, spectrum |-> vis.spectrum]
        /\ configSlot \in [stream : Nat, gen : Nat] /\ visBits \subseteq {"STOP", "BOUNDARY"}
    BY DEF VisTyped
  <1>1. SUFFICES /\ vis' \in VisStream /\ frames' \in Seq(VisFrames)
                 /\ visEvents' \in Seq(VisEvents)
                 /\ shape' = [stream |-> vis'.streams, spectrum |-> vis'.spectrum]
                 /\ configSlot' \in [stream : Nat, gen : Nat]
                 /\ visBits' \subseteq {"STOP", "BOUNDARY"}
    BY DEF VisTyped, VisFrame, VisStart, VisEnd, VisClear, VisCleanup, ProtocolGoesOn, VisRecall,
           VisMoveOn, VisSignal, VisSlot, VisEvent
  <1>2. CASE VisFrame
    <2>1. PICK kind \in AdmittedKinds :
            frames' = Append(frames, [stream |-> vis.streams, seq |-> vis.seq, gen |-> vis.gen,
                                      kind |-> kind])
      BY <1>2 DEF VisFrame
    <2>2. [stream |-> vis.streams, seq |-> vis.seq, gen |-> vis.gen, kind |-> kind] \in VisFrames
      BY <1>0 DEF VisStream, VisFrames, AdmittedKinds, Kinds
    <2> QED BY <1>0, <1>2, <2>1, <2>2 DEF VisFrame, protocolHalf
  <1>3. CASE VisStart
    <2>1. PICK spectrum \in BOOLEAN :
            vis' = [vis EXCEPT !.active = TRUE, !.spectrum = spectrum, !.streams = @ + 1,
                               !.at = "recall", !.doing = "start"]
      BY <1>3 DEF VisStart
    <2> DEFINE next == vis.streams + 1
    <2>a. next \in Nat
      BY <1>0 DEF VisStream
    <2>b. vis' = [vis EXCEPT !.active = TRUE, !.spectrum = spectrum, !.streams = next,
                             !.at = "recall", !.doing = "start"]
      BY <2>1
    <2> HIDE DEF next
    <2>2. vis' \in VisStream /\ vis'.spectrum = spectrum
      BY <1>0, <2>a, <2>b DEF VisStream
    <2>3. shape' = [stream |-> vis'.streams, spectrum |-> vis'.spectrum]
      BY <1>0, <1>3, <2>1 DEF VisStart, VisStream
    <2> QED BY <1>0, <1>3, <2>2, <2>3 DEF VisStart
  <1>4. CASE VisEnd
    <2>1. vis' \in VisStream /\ vis'.streams = vis.streams /\ vis'.spectrum = vis.spectrum
      BY <1>0, <1>4 DEF VisEnd, VisStream
    <2> QED BY <1>0, <1>4, <2>1 DEF VisEnd
  <1>5. CASE VisClear
    <2>1. vis' \in VisStream /\ vis'.streams = vis.streams /\ vis'.spectrum = vis.spectrum
      BY <1>0, <1>5 DEF VisClear, VisStream
    <2> QED BY <1>0, <1>5, <2>1 DEF VisClear
  <1>6. CASE VisCleanup
    <2>1. vis' \in VisStream /\ vis'.streams = vis.streams /\ vis'.spectrum = vis.spectrum
      <3> DEFINE next == vis.gen + 1
      <3>1. next \in Nat
        BY <1>0 DEF VisStream
      <3>2. vis' = [vis EXCEPT !.active = FALSE, !.gen = next, !.lost = FALSE, !.at = "recall",
                               !.doing = "cleared"]
        BY <1>6 DEF VisCleanup
      <3> HIDE DEF next
      <3> QED BY <1>0, <3>1, <3>2 DEF VisStream
    <2>2. visEvents' \in Seq(VisEvents)
      BY <1>0, <1>6 DEF VisCleanup
    <2> QED BY <1>0, <1>6, <2>1, <2>2 DEF VisCleanup
  <1>7. CASE VisRecall
    <2>1. vis' \in VisStream /\ vis'.streams = vis.streams /\ vis'.spectrum = vis.spectrum
      BY <1>0, <1>7 DEF VisRecall, VisStream
    <2>2. frames' \in Seq(VisFrames)
      BY <1>7 DEF VisRecall
    <2> QED BY <1>0, <1>7, <2>1, <2>2 DEF VisRecall
  <1>8. CASE VisMoveOn
    <2>1. vis' \in VisStream /\ vis'.streams = vis.streams /\ vis'.spectrum = vis.spectrum
      <3> DEFINE next == vis.seq + 1
      <3>1. next \in Nat
        BY <1>0 DEF VisStream
      <3>2. vis' = [vis EXCEPT !.seq = next, !.at = "signal"]
        BY <1>8 DEF VisMoveOn
      <3> HIDE DEF next
      <3> QED BY <1>0, <3>1, <3>2 DEF VisStream
    <2> QED BY <1>0, <1>8, <2>1 DEF VisMoveOn
  <1>9. CASE VisSignal
    <2>1. vis' \in VisStream /\ vis'.streams = vis.streams /\ vis'.spectrum = vis.spectrum
      BY <1>0, <1>9 DEF VisSignal, VisStream
    <2> QED BY <1>0, <1>9, <2>1 DEF VisSignal, Signalled
  <1>10. CASE VisSlot
    <2>1. vis' \in VisStream /\ vis'.streams = vis.streams /\ vis'.spectrum = vis.spectrum
      BY <1>0, <1>10 DEF VisSlot, VisStream
    <2> QED BY <1>0, <1>10, <2>1 DEF VisSlot, NoConfig, VisStream
  <1>11. CASE VisEvent
    <2>1. [kind |-> vis.doing, gen |-> vis.gen] \in VisEvents
      BY <1>0, <1>11 DEF VisEvent, VisHandler, VisStream, VisEvents
    <2>2. vis' \in VisStream /\ vis'.streams = vis.streams /\ vis'.spectrum = vis.spectrum
      <3>1. PICK lost \in {vis.lost, TRUE} :
              vis' = [vis EXCEPT !.at = "idle", !.doing = "none", !.lost = lost]
        BY <1>0, <1>11 DEF VisEvent, VisStream
      <3> QED BY <1>0, <3>1 DEF VisStream
    <2>3. /\ UNCHANGED <<shape, frames, visBits, configSlot>>
          /\ \/ visEvents' = Append(visEvents, [kind |-> vis.doing, gen |-> vis.gen])
             \/ visEvents' = visEvents
      BY <1>11 DEF VisEvent
    <2>4. visEvents' \in Seq(VisEvents)
      <3> DEFINE e == [kind |-> vis.doing, gen |-> vis.gen]
      <3>1. e \in VisEvents /\ visEvents' \in {Append(visEvents, e), visEvents}
        BY <2>1, <2>3
      <3> HIDE DEF e
      <3>2. visEvents \in Seq(VisEvents)
        BY <1>0
      <3>3. Append(visEvents, e) \in Seq(VisEvents)
        BY <3>1, <3>2
      <3> QED BY <3>1, <3>2, <3>3
    <2> QED BY <1>0, <2>2, <2>3, <2>4
  <1> QED BY <1>2, <1>3, <1>4, <1>5, <1>6, <1>7, <1>8, <1>9, <1>10, <1>11 DEF ProtocolGoesOn

LEMMA WatcherTypes ==
    ASSUME VisTyped, Watcher \/ FrameDue
    PROVE  /\ VisTyped'
           /\ UNCHANGED <<protocolHalf, visEvents, hearing>>
  <1> USE DEF Watches, protocolHalf
  <1>0. /\ watcher \in [at : {"top", "take", "timed", "wait", "check", "decode", "out"},
                        held : VisFrames, passed : Nat]
        /\ frames \in Seq(VisFrames) /\ visBits \subseteq {"STOP", "BOUNDARY"} /\ vis \in VisStream
    BY DEF VisTyped
  <1>1. UNCHANGED <<protocolHalf, visEvents, hearing>>
    BY DEF Watcher, FrameDue, WatchTop, WatchTake, WatchWoken, WatchTimed, WatchSignalled, WatchCheck,
           WatchDecode
  <1>2. SUFFICES /\ watcher' \in [at : {"top", "take", "timed", "wait", "check", "decode", "out"},
                                  held : VisFrames, passed : Nat]
                 /\ frames' \in Seq(VisFrames) /\ visBits' \subseteq {"STOP", "BOUNDARY"}
    BY <1>1 DEF VisTyped
  <1>3. NoFrame \in VisFrames /\ vis.seq \in Nat
    BY <1>0 DEF NoFrame, VisFrames, Kinds, VisStream
  <1>4. CASE WatchTop
    BY <1>0, <1>4 DEF WatchTop
  <1>5. CASE WatchTake
    BY <1>0, <1>5, FrameTaken DEF WatchTake
  <1>6. CASE WatchWoken
    BY <1>0, <1>6 DEF WatchWoken
  <1>7. CASE WatchTimed
    <2>1. PICK at \in {"top", "check", "wait"}, held \in {watcher.held, NoFrame},
               passed \in {watcher.passed, vis.seq, 0} :
            watcher' = [at |-> at, held |-> held, passed |-> passed]
      BY <1>0, <1>7 DEF WatchTimed, Returned, WaitEnded
    <2> QED BY <1>0, <1>3, <1>7, <2>1 DEF WatchTimed
  <1>8. CASE WatchSignalled
    <2>1. frames' = frames /\ visBits' = {}
          /\ watcher' \in {Returned("out"), WaitEnded, watcher}
      BY <1>8 DEF WatchSignalled
    <2>2. Returned("out") \in [at : {"top", "take", "timed", "wait", "check", "decode", "out"},
                               held : VisFrames, passed : Nat]
      BY <1>0, <1>3 DEF Returned
    <2>3. WaitEnded \in [at : {"top", "take", "timed", "wait", "check", "decode", "out"},
                         held : VisFrames, passed : Nat]
      BY <1>0, <1>3 DEF WaitEnded
    <2> QED BY <1>0, <2>1, <2>2, <2>3
  <1>9. CASE WatchCheck
    BY <1>0, <1>3, <1>9 DEF WatchCheck, Returned
  <1>10. CASE WatchDecode
    BY <1>0, <1>3, <1>10 DEF WatchDecode, Returned
  <1>11. CASE FrameDue
    BY <1>0, <1>3, <1>11 DEF FrameDue, WaitEnded
  <1> QED BY <1>4, <1>5, <1>6, <1>7, <1>8, <1>9, <1>10, <1>11 DEF Watcher

LEMMA MainTypes ==
    ASSUME VisTyped, MainHears \/ VisStop \/ VisJoin \/ VisStopped \/ VisStartAgain
    PROVE  VisTyped'
  <1> DEFINE Hearings == [life : {"up", "closing", "final", "stopped"}, torn : Nat,
                          event : VisEvents \cup {NoEvent}, stream : Nat]
  <1>0. /\ vis \in VisStream /\ frames \in Seq(VisFrames) /\ visEvents \in Seq(VisEvents)
        /\ hearing \in Hearings
        /\ configSlot \in [stream : Nat, gen : Nat] /\ visBits \subseteq {"STOP", "BOUNDARY"}
        /\ watcher \in [at : {"top", "take", "timed", "wait", "check", "decode", "out"},
                        held : VisFrames, passed : Nat]
        /\ shape = [stream |-> vis.streams, spectrum |-> vis.spectrum]
    BY DEF VisTyped
  <1>1. \A gen \in Nat : VisCaughtUp(hearing, gen) \in Hearings
    BY <1>0 DEF VisCaughtUp
  <1>2. CASE HearTeardown
    BY <1>0, <1>1, <1>2, ZenonT(40) DEF HearTeardown, Hears, VisTyped, VisStream
  <1>3. CASE HearEvent
    <2> DEFINE e == Head(visEvents)
    <2>1. e \in VisEvents /\ Tail(visEvents) \in Seq(VisEvents)
      BY <1>0, <1>3, EventTaken DEF HearEvent
    <2>2. e.gen \in Nat
      BY <2>1 DEF VisEvents
    <2>3. VisCaughtUp(hearing, e.gen) \in Hearings
      BY <1>1, <2>2
    <2> HIDE DEF e
    <2>4. [VisCaughtUp(hearing, e.gen) EXCEPT !.event = e] \in Hearings
      BY <2>1, <2>3
    <2>5. hearing' \in Hearings
      BY <1>0, <1>3, <2>3, <2>4 DEF HearEvent, e
    <2> QED BY <1>0, <1>3, <2>1, <2>5 DEF HearEvent, Hears, VisTyped
  <1>4. CASE HearStart
    BY <1>0, <1>4 DEF HearStart, Hears, NoConfig, VisTyped
  <1>5. CASE HearEnd
    BY <1>0, <1>5 DEF HearEnd, Hears, VisTyped
  <1>6. CASE VisStop
    BY <1>0, <1>6 DEF VisStop, Hears, VisTyped
  <1>7. CASE VisJoin
    <2>1. vis' \in VisStream /\ vis'.streams = vis.streams /\ vis'.spectrum = vis.spectrum
      <3> DEFINE gen == vis.gen + 1
                 seq == vis.seq + 1
      <3>1. gen \in Nat /\ seq \in Nat
        BY <1>0 DEF VisStream
      <3>2. vis' = [vis EXCEPT !.active = FALSE, !.gen = gen, !.seq = seq, !.lost = FALSE]
        BY <1>7 DEF VisJoin
      <3> HIDE DEF gen, seq
      <3> QED BY <1>0, <3>1, <3>2 DEF VisStream
    <2>2. [kind |-> "cleared", gen |-> vis'.gen] \in VisEvents
      BY <2>1 DEF VisEvents, VisStream
    <2>3. visEvents' \in Seq(VisEvents) /\ frames' \in Seq(VisFrames)
      BY <1>7, <2>2 DEF VisJoin
    <2>4. hearing' \in Hearings
      BY <1>0, <1>7 DEF VisJoin
    <2> QED BY <1>0, <1>7, <2>1, <2>3, <2>4 DEF VisJoin, NoConfig, VisTyped
  <1>8. CASE VisStopped
    BY <1>0, <1>8 DEF VisStopped, Hears, VisTyped
  <1>9. CASE VisStartAgain
    BY <1>0, <1>9 DEF VisStartAgain, protocolHalf, VisTyped
  <1> QED BY <1>2, <1>3, <1>4, <1>5, <1>6, <1>7, <1>8, <1>9 DEF MainHears

LEMMA VisTypesStep ==
    ASSUME VisTyped, VisHandler, [VisualizerNext]_visualizerVars
    PROVE  VisTyped'
  <1>1. CASE UNCHANGED visualizerVars
    BY <1>1 DEF visualizerVars, VisTyped
  <1> QED BY <1>1, HandlerTypes, WatcherTypes, MainTypes DEF VisualizerNext

\* What is behind the role stays behind it: streams and boundaries only move on, and a stream's kinds
\* are fixed when it begins.
LEMMA StaysBehind ==
    ASSUME VisTyped, NEW f \in VisFrames, Behind(f),
           vis'.seq \in Nat, vis'.streams \in Nat,
           vis'.seq >= vis.seq,
           \/ vis'.streams = vis.streams /\ vis'.spectrum = vis.spectrum
           \/ vis'.streams = vis.streams + 1
    PROVE  f.seq <= vis'.seq /\ f.stream <= vis'.streams
           /\ (f.stream = vis'.streams /\ f.kind = "spectrum" => vis'.spectrum)
  <1>1. f.seq \in Nat /\ f.stream \in Nat /\ vis.seq \in Nat /\ vis.streams \in Nat
    BY DEF VisTyped, VisFrames, VisStream
  <1>2. f.seq <= vis.seq /\ f.stream <= vis.streams
        /\ (f.stream = vis.streams /\ f.kind = "spectrum" => vis.spectrum)
    BY DEF Behind
  <1>3. f.seq <= vis'.seq /\ f.stream <= vis'.streams
    BY <1>1, <1>2
  <1>4. CASE vis'.streams = vis.streams /\ vis'.spectrum = vis.spectrum
    BY <1>2, <1>3, <1>4
  <1>5. CASE vis'.streams = vis.streams + 1
    <2>1. f.stream # vis'.streams
      BY <1>1, <1>2, <1>5
    <2> QED BY <1>3, <2>1
  <1> QED BY <1>4, <1>5

\* How the record of the protocol task moves in a step
VisMoves ==
    /\ vis'.seq >= vis.seq /\ vis'.gen >= vis.gen
    /\ \/ vis'.streams = vis.streams /\ vis'.spectrum = vis.spectrum
       \/ vis'.streams = vis.streams + 1

LEMMA VisMovesOn ==
    ASSUME VisTyped, VisualizerNext
    PROVE  VisMoves
  <1>0. vis \in VisStream /\ vis.seq \in Nat /\ vis.streams \in Nat /\ vis.gen \in Nat
    BY DEF VisTyped, VisStream
  <1>1. CASE vis' = vis
    BY <1>0, <1>1 DEF VisMoves
  <1>2. ASSUME vis'.seq \in {vis.seq, vis.seq + 1}, vis'.gen \in {vis.gen, vis.gen + 1},
               \/ vis'.streams = vis.streams /\ vis'.spectrum = vis.spectrum
               \/ vis'.streams = vis.streams + 1
        PROVE  VisMoves
    BY <1>0, <1>2 DEF VisMoves
  <1>3. CASE VisStart
    <2>1. PICK spectrum : vis' = [vis EXCEPT !.active = TRUE, !.spectrum = spectrum,
                                             !.streams = @ + 1, !.at = "recall", !.doing = "start"]
      BY <1>3 DEF VisStart
    <2> QED BY <1>0, <1>2, <2>1 DEF VisStream
  <1>4. CASE VisCleanup
    BY <1>0, <1>2, <1>4 DEF VisCleanup, VisStream
  <1>5. CASE VisEnd \/ VisClear \/ VisRecall \/ VisSignal \/ VisSlot
    BY <1>0, <1>2, <1>5 DEF VisEnd, VisClear, VisRecall, VisSignal, VisSlot, VisStream
  <1>6. CASE VisMoveOn \/ VisJoin
    BY <1>0, <1>2, <1>6 DEF VisMoveOn, VisJoin, VisStream
  <1>7. CASE VisEvent
    <2>1. PICK lost \in {vis.lost, TRUE} :
            vis' = [vis EXCEPT !.at = "idle", !.doing = "none", !.lost = lost]
      BY <1>0, <1>7 DEF VisEvent, VisStream
    <2> QED BY <1>0, <1>2, <2>1 DEF VisStream
  <1>8. CASE Watcher \/ FrameDue
    BY <1>1, <1>8, WatcherTypes DEF protocolHalf
  <1>9. CASE VisFrame \/ MainHears \/ VisStop \/ VisStopped \/ VisStartAgain
    BY <1>1, <1>9 DEF VisFrame, MainHears, HearTeardown, HearEvent, HearStart, HearEnd, VisStop,
                      VisStopped, VisStartAgain, Hears, protocolHalf
  <1> QED BY <1>3, <1>4, <1>5, <1>6, <1>7, <1>8, <1>9 DEF VisualizerNext, ProtocolGoesOn

LEMMA FramesStep ==
    ASSUME VisTyped, VisTyped', FramesBehind, [VisualizerNext]_visualizerVars
    PROVE  FramesBehind'
  <1>1. CASE UNCHANGED visualizerVars
    BY <1>1 DEF visualizerVars, FramesBehind, Behind
  <1>2. ASSUME VisualizerNext PROVE FramesBehind'
    <2>m. VisMoves
      BY <1>2, VisMovesOn
    <2>0. /\ VisMoves
          /\ frames \in Seq(VisFrames) /\ watcher.held \in VisFrames
          /\ vis.seq \in Nat /\ vis'.seq \in Nat /\ vis'.streams \in Nat /\ watcher.passed \in Nat
          /\ watcher.held.seq \in Nat
          /\ \A i \in DOMAIN frames : frames[i] \in VisFrames /\ Behind(frames[i])
          /\ Behind(watcher.held)
      <3>1. vis \in VisStream /\ vis' \in VisStream /\ frames \in Seq(VisFrames)
            /\ watcher.held \in VisFrames /\ watcher.passed \in Nat
        BY DEF VisTyped
      <3>2. \A i \in DOMAIN frames : frames[i] \in VisFrames
        BY <3>1
      <3> QED BY <2>m, <3>1, <3>2 DEF VisStream, VisFrames, FramesBehind
    <2>1. \A f \in VisFrames : Behind(f) =>
            f.seq <= vis'.seq /\ f.stream <= vis'.streams
            /\ (f.stream = vis'.streams /\ f.kind = "spectrum" => vis'.spectrum)
      BY <2>0, StaysBehind DEF VisMoves
    <2>2. \A f \in VisFrames : Behind(f) => Behind(f)'
      BY <2>1 DEF Behind
    <2>3. (\A i \in DOMAIN frames : Behind(frames[i]))'
      <3>1. CASE frames' = frames
        BY <2>0, <2>2, <3>1 DEF Behind
      <3>2. CASE frames' = <<>>
        BY <3>2
      <3>3. CASE frames # <<>> /\ frames' = Tail(frames)
        <4>1. \A i \in DOMAIN frames' : frames'[i] \in VisFrames /\ Behind(frames'[i])
          BY <2>0, <3>3, FrameTaken
        <4> QED BY <2>2, <4>1 DEF Behind
      <3>4. CASE VisFrame
        <4>1. PICK kind \in AdmittedKinds :
                frames' = Append(frames, [stream |-> vis.streams, seq |-> vis.seq,
                                          gen |-> vis.gen, kind |-> kind])
          BY <3>4 DEF VisFrame
        <4> DEFINE f == [stream |-> vis.streams, seq |-> vis.seq, gen |-> vis.gen, kind |-> kind]
        <4>2. f \in VisFrames /\ (kind = "spectrum" => vis.spectrum)
          BY <4>1 DEF AdmittedKinds, VisFrames, Kinds, VisTyped, VisStream
        <4>v. vis.streams \in Nat
          BY DEF VisTyped, VisStream
        <4>b. Behind(f)
          BY <2>0, <4>2, <4>v DEF Behind
        <4> HIDE DEF f
        <4>3. frames' = Append(frames, f)
          BY <4>1 DEF f
        <4>4. \A i \in DOMAIN frames' : frames'[i] \in VisFrames /\ Behind(frames'[i])
          BY <2>0, <4>2, <4>b, <4>3
        <4> QED BY <2>2, <4>4 DEF Behind
      <3> QED
        BY <1>2, <3>1, <3>2, <3>3, <3>4
           DEF VisualizerNext, VisStart, VisEnd, VisClear, VisCleanup, ProtocolGoesOn, VisRecall,
               VisMoveOn, VisSignal, VisSlot, VisEvent, Watcher, WatchTop, WatchTake, WatchWoken,
               WatchTimed, WatchSignalled, WatchCheck, WatchDecode, FrameDue, MainHears, HearTeardown,
               HearEvent, HearStart, HearEnd, VisStop, VisJoin, VisStopped, VisStartAgain
    <2> DEFINE Waited(w) ==
          /\ Behind(w.held)
          /\ w.at \in {"check", "decode"} => w.held.seq <= w.passed /\ w.passed <= vis.seq
          /\ w.at = "decode" => w.held.seq = w.passed
    <2>4. Waited(watcher)
      BY DEF FramesBehind
    <2>5. Waited(watcher') \/ watcher' = watcher
      <3>1. Behind(NoFrame)
        BY <2>0 DEF Behind, NoFrame, VisTyped, VisStream
      <3>2. /\ \A at \in {"top", "out"} : Waited(Returned(at))
            /\ Waited(WaitEnded)
        BY <2>0, <2>4, <3>1 DEF Returned, WaitEnded, VisTyped, Behind
      <3>3. CASE WatchTake
        BY <2>0, <2>4, <3>3, FrameTaken DEF WatchTake, VisTyped
      <3>4. CASE WatchCheck
        <4>1. CASE Stale(watcher.held)
          BY <3>2, <3>4, <4>1 DEF WatchCheck
        <4>2. CASE ~Stale(watcher.held)
          <5>1. watcher' = [watcher EXCEPT !.at = "decode"] /\ watcher.at = "check"
            BY <3>4, <4>2 DEF WatchCheck
          <5>2. watcher.held.seq = watcher.passed
            BY <2>0, <2>4, <4>2, <5>1 DEF Stale
          <5> QED BY <2>0, <2>4, <5>1, <5>2 DEF VisTyped
        <4> QED BY <4>1, <4>2
      <3>5. CASE WatchTop \/ WatchWoken \/ VisStartAgain
        BY <2>0, <2>4, <3>5 DEF WatchTop, WatchWoken, VisStartAgain, VisTyped
      <3>6. CASE WatchTimed
        BY <2>0, <2>4, <3>2, <3>6 DEF WatchTimed, VisTyped
      <3>7. CASE WatchSignalled \/ FrameDue \/ WatchDecode
        BY <3>2, <3>7 DEF WatchSignalled, FrameDue, WatchDecode
      <3> HIDE DEF Waited
      <3> QED
        BY <1>2, <3>3, <3>4, <3>5, <3>6, <3>7
           DEF VisualizerNext, VisFrame, VisStart, VisEnd, VisClear, VisCleanup, ProtocolGoesOn,
               VisRecall, VisMoveOn, VisSignal, VisSlot, VisEvent, Watcher, MainHears, HearTeardown,
               HearEvent, HearStart, HearEnd, VisStop, VisJoin, VisStopped, Handling, Hears
    <2>6. Waited(watcher') /\ watcher'.held \in VisFrames /\ watcher'.passed \in Nat
      BY <2>4, <2>5 DEF VisTyped
    <2>7. Behind(watcher.held)'
      BY <2>2, <2>6 DEF Behind
    <2>8. watcher'.at \in {"check", "decode"} => watcher'.passed <= vis'.seq
      BY <2>0, <2>6 DEF VisMoves
    <2> QED BY <2>3, <2>6, <2>7, <2>8 DEF FramesBehind
  <1> QED BY <1>1, <1>2

-----------------------------------------------------------------------------
(* The visualizer: what the listener is told *)

\* What of the role the events speak of is left alone by the other steps.
VisTold == <<vis, configSlot, visEvents, hearing>>

LEMMA WatcherLeaves ==
    ASSUME VisTyped, Watcher \/ FrameDue \/ VisFrame \/ UNCHANGED visualizerVars
    PROVE  UNCHANGED VisTold
  BY WatcherTypes DEF VisTold, protocolHalf, VisFrame, Handling, visualizerVars

\* A listener that catches up: with the generation at hand it knows no stream, or knew of it.
LEMMA CatchUp ==
    ASSUME VisTyped, NEW gen \in Nat
    PROVE  /\ VisCaughtUp(hearing, gen).torn \in {hearing.torn, gen}
           /\ VisCaughtUp(hearing, gen).torn >= gen
           /\ VisCaughtUp(hearing, gen).torn >= hearing.torn
           /\ VisCaughtUp(hearing, gen).event = hearing.event
           /\ \/ VisCaughtUp(hearing, gen) = hearing
              \/ VisCaughtUp(hearing, gen).stream = 0 /\ gen > hearing.torn
  BY DEF VisCaughtUp, VisTyped

LEMMA HandlerStep ==
    ASSUME VisTyped, VisHandler, VisStamps, [VisualizerNext]_visualizerVars
    PROVE  VisHandler'
  <1> USE DEF Handling
  <1>0. vis \in VisStream /\ configSlot.gen \in Nat /\ vis.gen \in Nat
    BY DEF VisTyped, VisStream
  <1>s. (vis.active => vis.streams > 0)'
    <2>1. CASE vis' = vis
      BY <2>1 DEF VisHandler
    <2>2. CASE VisStart
      <3>1. vis'.streams = vis.streams + 1 /\ vis.streams \in Nat
        BY <1>0, <2>2 DEF VisStart, VisStream
      <3> QED BY <3>1
    <2>3. CASE VisEnd \/ VisCleanup \/ VisJoin
      BY <1>0, <2>3 DEF VisEnd, VisCleanup, VisJoin, VisStream
    <2>4. CASE VisClear \/ VisRecall \/ VisMoveOn \/ VisSignal \/ VisSlot \/ VisEvent
      <3>1. vis'.active = vis.active /\ vis'.streams = vis.streams
        BY <1>0, <2>4 DEF VisClear, VisRecall, VisMoveOn, VisSignal, VisSlot, VisEvent, VisStream
      <3> QED BY <3>1 DEF VisHandler
    <2>5. CASE HearTeardown \/ HearEvent \/ HearStart \/ HearEnd \/ VisStop \/ VisStopped
               \/ VisStartAgain
      BY <2>1, <2>5 DEF HearTeardown, HearEvent, HearStart, HearEnd, VisStop, VisStopped,
                        VisStartAgain, Hears, protocolHalf
    <2> QED BY <2>1, <2>2, <2>3, <2>4, <2>5, WatcherLeaves
            DEF VisualizerNext, ProtocolGoesOn, MainHears, VisTold
  <1>1. CASE UNCHANGED <<vis, configSlot>>
    BY <1>1 DEF VisHandler
  <1>2. CASE VisStart \/ VisEnd \/ VisClear
    BY <1>0, <1>s, <1>2 DEF VisStart, VisEnd, VisClear, VisHandler, VisStream
  <1>3. CASE VisCleanup
    <2>1. /\ vis'.at = "recall" /\ vis'.doing = "cleared" /\ vis'.gen = vis.gen + 1
          /\ configSlot' = configSlot
      BY <1>0, <1>3 DEF VisCleanup, VisStream
    <2> QED BY <1>0, <1>s, <2>1 DEF VisHandler, VisStamps
  <1>4. CASE VisRecall \/ VisMoveOn \/ VisSignal
    BY <1>0, <1>s, <1>4 DEF VisRecall, VisMoveOn, VisSignal, VisHandler, VisStream
  <1>5. CASE VisSlot
    <2>1. /\ vis'.at = "event" /\ vis'.doing = vis.doing /\ vis'.active = vis.active
          /\ vis'.gen = vis.gen /\ vis.at = "slot"
          /\ vis.doing = "cleared" => configSlot'.gen = 0
      BY <1>0, <1>5 DEF VisSlot, VisStream, NoConfig
    <2> QED BY <1>0, <1>s, <2>1 DEF VisHandler
  <1>6. CASE VisEvent
    <2>1. vis'.at = "idle" /\ vis'.doing = "none"
      BY <1>0, <1>6 DEF VisEvent, VisStream
    <2> QED BY <1>s, <2>1 DEF VisHandler
  <1>7. CASE HearStart
    <2>1. vis' = vis /\ configSlot'.gen = 0
      BY <1>7 DEF HearStart, Hears, NoConfig
    <2> QED BY <1>0, <1>s, <2>1 DEF VisHandler
  <1>8. CASE VisJoin
    <2>1. vis.at = "idle" /\ vis'.at = "idle" /\ vis'.doing = vis.doing
      BY <1>0, <1>8 DEF VisJoin, VisStream
    <2> QED BY <1>s, <2>1 DEF VisHandler
  <1>9. CASE HearTeardown \/ HearEvent \/ HearEnd \/ VisStop \/ VisStopped \/ VisStartAgain
    BY <1>1, <1>9 DEF HearTeardown, HearEvent, HearEnd, VisStop, VisStopped, VisStartAgain, Hears,
                      protocolHalf
  <1> QED BY <1>1, <1>2, <1>3, <1>4, <1>5, <1>6, <1>7, <1>8, <1>9, WatcherLeaves
          DEF VisualizerNext, ProtocolGoesOn, MainHears, VisTold

LEMMA StampsStep ==
    ASSUME VisTyped, VisTyped', VisHandler, VisStamps, [VisualizerNext]_visualizerVars
    PROVE  VisStamps'
  <1> USE DEF Handling
  <1>0. /\ vis \in VisStream /\ configSlot \in [stream : Nat, gen : Nat] /\ vis.gen \in Nat
        /\ vis'.gen \in Nat /\ vis'.streams \in Nat /\ vis.streams \in Nat
        /\ visEvents \in Seq(VisEvents) /\ hearing.torn \in Nat
        /\ \A i \in DOMAIN visEvents : visEvents[i].gen \in Nat
    <2>1. /\ vis \in VisStream /\ configSlot \in [stream : Nat, gen : Nat] /\ vis' \in VisStream
          /\ visEvents \in Seq(VisEvents) /\ hearing.torn \in Nat
      BY DEF VisTyped
    <2>2. \A i \in DOMAIN visEvents : visEvents[i] \in VisEvents
      BY <2>1
    <2> QED BY <2>1, <2>2 DEF VisStream, VisEvents
  <1>1. CASE UNCHANGED VisTold
    BY <1>1 DEF VisStamps, VisTold, Unwritten
  <1>2. ASSUME UNCHANGED <<configSlot, visEvents, hearing>>, vis'.gen = vis.gen,
               vis'.streams = vis.streams, Unwritten => Unwritten'
        PROVE  VisStamps'
    BY <1>2 DEF VisStamps
  <1>3. CASE VisStart
    <2>1. /\ UNCHANGED <<configSlot, visEvents, hearing>> /\ vis'.gen = vis.gen
          /\ Unwritten'
      BY <1>0, <1>3 DEF VisStart, VisStream, Unwritten
    <2> QED BY <2>1 DEF VisStamps
  <1>4. CASE VisEnd \/ VisClear \/ VisRecall \/ VisMoveOn
    BY <1>0, <1>2, <1>4 DEF VisEnd, VisClear, VisRecall, VisMoveOn, VisStream, Unwritten, VisHandler
  <1>5. CASE VisCleanup
    <2>1. /\ UNCHANGED <<configSlot, hearing>> /\ vis'.gen = vis.gen + 1
          /\ visEvents' \in {<<>>, visEvents}
      BY <1>0, <1>5 DEF VisCleanup, VisStream
    <2>2. configSlot'.gen < vis'.gen /\ hearing'.torn <= vis'.gen
      BY <1>0, <2>1 DEF VisStamps
    <2>3. (\A i \in DOMAIN visEvents : visEvents[i].gen <= vis.gen)'
      BY <1>0, <2>1 DEF VisStamps
    <2>4. configSlot'.gen # vis'.gen
      BY <1>0, <2>1, <2>2
    <2> QED BY <1>0, <2>1, <2>2, <2>3, <2>4 DEF VisStamps
  <1>6. CASE VisSignal
    <2>1. /\ UNCHANGED <<configSlot, visEvents, hearing>> /\ vis'.gen = vis.gen
          /\ vis'.streams = vis.streams /\ vis'.doing = vis.doing
          /\ vis.doing = "start" => vis'.at = "slot"
      BY <1>0, <1>6 DEF VisSignal, VisStream
    <2> QED BY <1>2, <2>1 DEF Unwritten
  <1>7. CASE VisSlot
    <2>1. /\ UNCHANGED <<visEvents, hearing>> /\ vis'.gen = vis.gen /\ vis'.streams = vis.streams
          /\ configSlot' \in {[stream |-> vis.streams, gen |-> vis.gen], NoConfig}
      BY <1>0, <1>7 DEF VisSlot, VisStream
    <2>2. configSlot'.gen <= vis'.gen /\ (configSlot' # NoConfig => configSlot'.stream = vis'.streams)
      BY <1>0, <2>1 DEF NoConfig
    <2> QED BY <2>1, <2>2 DEF VisStamps
  <1>8. CASE VisEvent
    <2>1. /\ UNCHANGED <<configSlot, hearing>> /\ vis'.gen = vis.gen /\ vis'.streams = vis.streams
          /\ \/ visEvents' = Append(visEvents, [kind |-> vis.doing, gen |-> vis.gen])
             \/ visEvents' = visEvents
      BY <1>0, <1>8 DEF VisEvent, VisStream
    <2>2. ~Unwritten
      BY <1>8 DEF VisEvent, Unwritten
    <2>3. (\A i \in DOMAIN visEvents : visEvents[i].gen <= vis.gen)'
      <3> DEFINE e == [kind |-> vis.doing, gen |-> vis.gen]
      <3>1. visEvents' \in {Append(visEvents, e), visEvents} /\ e.gen <= vis.gen
        BY <1>0, <2>1
      <3> HIDE DEF e
      <3>2. \A i \in DOMAIN Append(visEvents, e) : Append(visEvents, e)[i].gen <= vis.gen
        <4>1. /\ DOMAIN Append(visEvents, e) = 1 .. Len(visEvents) + 1 /\ Len(visEvents) \in Nat
              /\ DOMAIN visEvents = 1 .. Len(visEvents)
              /\ Append(visEvents, e)[Len(visEvents) + 1] = e
              /\ \A i \in 1 .. Len(visEvents) : Append(visEvents, e)[i] = visEvents[i]
          BY <1>0
        <4>2. \A i \in 1 .. Len(visEvents) + 1 : i \in 1 .. Len(visEvents) \/ i = Len(visEvents) + 1
          BY <4>1
        <4> QED BY <3>1, <4>1, <4>2 DEF VisStamps
      <3> QED BY <2>1, <3>1, <3>2 DEF VisStamps
    <2> QED BY <2>1, <2>2, <2>3 DEF VisStamps
  <1>9. CASE VisJoin
    <2>1. /\ configSlot' = NoConfig /\ vis'.gen = vis.gen + 1 /\ hearing'.torn = hearing.torn
          /\ visEvents' = <<[kind |-> "cleared", gen |-> vis'.gen]>>
          /\ hearing'.event = hearing.event
      BY <1>0, <1>9 DEF VisJoin, VisStream, VisTyped
    <2>2. configSlot'.gen <= vis'.gen /\ hearing'.torn <= vis'.gen
      BY <1>0, <2>1 DEF VisStamps, NoConfig
    <2>3. (\A i \in DOMAIN visEvents : visEvents[i].gen <= vis.gen)'
      BY <1>0, <2>1
    <2> QED BY <2>1, <2>2, <2>3 DEF VisStamps
  <1>10. CASE HearTeardown
    <2>1. hearing' = VisCaughtUp(hearing, vis.gen) /\ UNCHANGED <<vis, configSlot, visEvents>>
          /\ hearing.event = NoEvent
      BY <1>10 DEF HearTeardown, Hears
    <2>2. hearing'.torn <= vis.gen /\ hearing'.event = NoEvent
      BY <1>0, <2>1, CatchUp DEF VisStamps
    <2> QED BY <2>1, <2>2 DEF VisStamps, Unwritten
  <1>11. CASE HearEvent
    <2> DEFINE e == Head(visEvents)
    <2>1. /\ UNCHANGED <<vis, configSlot>> /\ visEvents # <<>> /\ visEvents' = Tail(visEvents)
          /\ hearing.event = NoEvent
          /\ \/ hearing' = VisCaughtUp(hearing, e.gen)
             \/ /\ e.kind # "cleared" /\ e.gen = vis.gen
                /\ hearing' = [VisCaughtUp(hearing, e.gen) EXCEPT !.event = e]
             \/ hearing' = hearing
      BY <1>11 DEF HearEvent, Hears
    <2>2. e \in VisEvents /\ e.gen \in Nat /\ e.gen <= vis.gen
      BY <1>0, <2>1, EventTaken DEF VisStamps, VisEvents
    <2>3. VisCaughtUp(hearing, e.gen).torn <= vis.gen
      BY <1>0, <2>2, CatchUp DEF VisStamps
    <2>4. e.gen = vis.gen => VisCaughtUp(hearing, e.gen).torn = e.gen
      BY <1>0, <2>2, CatchUp DEF VisStamps
    <2>5. (\A i \in DOMAIN visEvents : visEvents[i].gen <= vis.gen)'
      BY <1>0, <2>1, EventTaken DEF VisStamps
    <2>6. VisCaughtUp(hearing, e.gen).event = NoEvent
      BY <2>1, <2>2, CatchUp
    <2>7. hearing'.torn <= vis.gen
          /\ (hearing'.event # NoEvent =>
                hearing'.event.gen = hearing'.torn /\ hearing'.event.kind # "cleared")
      <3>1. VisCaughtUp(hearing, e.gen) \in [life : {"up", "closing", "final", "stopped"}, torn : Nat,
                    event : VisEvents \cup {NoEvent}, stream : Nat]
        BY <2>2 DEF VisCaughtUp, VisTyped
      <3> HIDE DEF e
      <3> QED BY <2>1, <2>2, <2>3, <2>4, <2>6, <3>1 DEF VisStamps
    <2> QED BY <2>1, <2>5, <2>7 DEF VisStamps, Unwritten
  <1>12. CASE HearStart
    <2>1. /\ UNCHANGED <<vis, visEvents>> /\ configSlot' = NoConfig
          /\ hearing'.torn = hearing.torn /\ hearing'.event = NoEvent
      BY <1>12 DEF HearStart, Hears, VisTyped
    <2> QED BY <1>0, <2>1 DEF VisStamps, NoConfig
  <1>13. CASE HearEnd
    <2>1. /\ UNCHANGED <<vis, visEvents, configSlot>>
          /\ hearing'.torn = hearing.torn /\ hearing'.event = NoEvent
      BY <1>13 DEF HearEnd, Hears, VisTyped
    <2> QED BY <2>1 DEF VisStamps, Unwritten
  <1>14. CASE VisStop \/ VisStopped \/ VisStartAgain
    <2>1. /\ UNCHANGED <<vis, visEvents, configSlot>>
          /\ hearing'.torn = hearing.torn /\ hearing'.event = hearing.event
      BY <1>14 DEF VisStop, VisStopped, VisStartAgain, Hears, VisTyped, protocolHalf
    <2> QED BY <2>1 DEF VisStamps, Unwritten
  <1> QED BY <1>1, <1>3, <1>4, <1>5, <1>6, <1>7, <1>8, <1>9, <1>10, <1>11, <1>12, <1>13, <1>14,
             WatcherLeaves DEF VisualizerNext, ProtocolGoesOn, MainHears

LEMMA ToldStep ==
    ASSUME VisTyped, VisTyped', VisHandler, VisStamps, ToldOfLatest, [VisualizerNext]_visualizerVars
    PROVE  ToldOfLatest'
  <1> USE DEF Handling
  <1>0. /\ vis \in VisStream /\ vis.gen \in Nat /\ hearing.torn \in Nat /\ vis.streams \in Nat
        /\ visEvents \in Seq(VisEvents)
    BY DEF VisTyped, VisStream
  <1>1. CASE UNCHANGED VisTold
    BY <1>1 DEF ToldOfLatest, VisTold, StartOwed, Unwritten
  <1>2. ASSUME UNCHANGED <<configSlot, visEvents, hearing>>, vis'.gen = vis.gen,
               vis'.streams = vis.streams, vis'.lost = vis.lost, Unwritten => Unwritten',
               vis.doing = "start" => vis'.doing = "start"
        PROVE  ToldOfLatest'
    BY <1>2 DEF ToldOfLatest, StartOwed
  <1>3. CASE VisStart
    <2>1. Unwritten'
      BY <1>0, <1>3 DEF VisStart, VisStream, Unwritten
    <2> QED BY <2>1 DEF ToldOfLatest, StartOwed
  <1>4. CASE VisEnd \/ VisClear
    BY <1>0, <1>2, <1>4 DEF VisEnd, VisClear, VisStream, Unwritten, VisHandler
  <1>5. CASE VisCleanup \/ VisJoin
    <2>1. vis'.gen = vis.gen + 1 /\ hearing'.torn = hearing.torn
      BY <1>0, <1>5 DEF VisCleanup, VisJoin, VisStream, VisTyped
    <2>2. hearing'.torn # vis'.gen
      BY <1>0, <2>1 DEF VisStamps
    <2> QED BY <2>2 DEF ToldOfLatest
  <1>6. CASE VisRecall \/ VisMoveOn \/ VisSignal
    BY <1>0, <1>2, <1>6 DEF VisRecall, VisMoveOn, VisSignal, VisStream, Unwritten
  <1>7. CASE VisSlot
    <2>1. /\ UNCHANGED <<visEvents, hearing>> /\ vis'.gen = vis.gen /\ vis'.streams = vis.streams
          /\ vis'.lost = vis.lost /\ vis'.doing = vis.doing /\ vis.at = "slot"
      BY <1>0, <1>7 DEF VisSlot, VisStream
    <2>2. CASE vis.doing = "start"
      <3>1. configSlot' = [stream |-> vis.streams, gen |-> vis.gen] /\ vis.streams > 0
        BY <1>7, <2>2 DEF VisSlot, VisHandler
      <3>2. configSlot' # NoConfig /\ configSlot'.gen = vis'.gen
        BY <1>0, <2>1, <3>1 DEF NoConfig
      <3> QED BY <2>1, <2>2, <3>2 DEF ToldOfLatest, StartOwed
    <2>3. CASE vis.doing # "start"
      <3>1. vis.doing = "cleared" /\ configSlot.gen # vis.gen
        BY <1>0, <2>1, <2>3 DEF VisHandler, VisTyped
      <3>2. ~StartOwed
        BY <2>3, <3>1 DEF StartOwed, Unwritten
      <3> QED BY <2>1, <3>2 DEF ToldOfLatest
    <2> QED BY <2>2, <2>3
  <1>8. CASE VisEvent
    <2>1. /\ UNCHANGED <<configSlot, hearing>> /\ vis'.gen = vis.gen /\ vis'.streams = vis.streams
          /\ ~Unwritten
          /\ \/ /\ visEvents' = Append(visEvents, [kind |-> vis.doing, gen |-> vis.gen])
                /\ vis'.lost = vis.lost
             \/ vis'.lost
      BY <1>0, <1>8 DEF VisEvent, VisStream, Unwritten
    <2>2. CASE vis'.lost
      BY <2>2 DEF ToldOfLatest
    <2>3. CASE vis'.lost = vis.lost
               /\ visEvents' = Append(visEvents, [kind |-> vis.doing, gen |-> vis.gen])
      <3> DEFINE e == [kind |-> vis.doing, gen |-> vis.gen]
      <3>1. e \in VisEvents
        BY <1>0, <1>8 DEF VisEvent, VisHandler, VisStream, VisEvents
      <3>2. IsEvent(e, "start", vis.gen) <=> vis.doing = "start"
        BY DEF IsEvent
      <3>3. visEvents' = Append(visEvents, e)
        BY <2>3
      <3> HIDE DEF e
      <3>4. HasStart(visEvents', vis.gen) <=> HasStart(visEvents, vis.gen) \/ vis.doing = "start"
        BY <1>0, <3>1, <3>2, <3>3, AppendedStarts
      <3> QED BY <2>1, <2>3, <3>4 DEF ToldOfLatest, StartOwed
    <2> QED BY <2>1, <2>2, <2>3
  <1>9. CASE HearTeardown
    <2>1. hearing' = VisCaughtUp(hearing, vis.gen) /\ hearing.torn # vis.gen
      BY <1>9 DEF HearTeardown
    <2>2. hearing'.stream = 0
      BY <1>0, <2>1, CatchUp DEF VisStamps
    <2> QED BY <2>2 DEF ToldOfLatest
  <1>10. CASE HearEvent
    <2> DEFINE e == Head(visEvents)
    <2>1. /\ UNCHANGED <<vis, configSlot>> /\ visEvents # <<>> /\ visEvents' = Tail(visEvents)
          /\ hearing.event = NoEvent
          /\ \/ /\ hearing' = VisCaughtUp(hearing, e.gen)
                /\ e.kind = "cleared"
             \/ /\ e.kind # "cleared" /\ e.gen = vis.gen
                /\ hearing' = [VisCaughtUp(hearing, e.gen) EXCEPT !.event = e]
             \/ hearing' = hearing /\ e.kind # "cleared" /\ e.gen # vis.gen
      BY <1>10 DEF HearEvent, Hears
    <2>2. e \in VisEvents /\ e.gen \in Nat
      BY <1>0, <2>1, EventTaken DEF VisEvents
    <2>3. VisCaughtUp(hearing, e.gen) \in [life : {"up", "closing", "final", "stopped"}, torn : Nat,
                    event : VisEvents \cup {NoEvent}, stream : Nat]
      BY <2>2 DEF VisCaughtUp, VisTyped
    <2>4. HasStart(visEvents, vis.gen) <=>
            IsEvent(e, "start", vis.gen) \/ HasStart(Tail(visEvents), vis.gen)
      BY <1>0, <2>1, TailStarts
    <2>5. \/ VisCaughtUp(hearing, e.gen) = hearing
          \/ VisCaughtUp(hearing, e.gen).stream = 0
      BY <2>2, CatchUp
    <2> HIDE DEF e
    <2>6. \/ hearing'.stream = 0
          \/ hearing'.stream = hearing.stream /\ hearing'.torn = hearing.torn
      BY <2>1, <2>3, <2>5, ZenonT(40) DEF VisTyped
    <2>7. IsEvent(e, "start", vis.gen) => hearing'.event.kind = "start"
      BY <2>1, <2>3 DEF IsEvent
    <2>8. hearing.event.kind # "start"
      BY <2>1 DEF NoEvent
    <2>9. StartOwed => StartOwed'
      BY <2>1, <2>4, <2>7, <2>8 DEF StartOwed, Unwritten
    <2> QED BY <2>1, <2>6, <2>9 DEF ToldOfLatest
  <1>11. CASE HearStart
    <2>1. /\ UNCHANGED <<vis, visEvents>> /\ hearing'.torn = hearing.torn
          /\ hearing.event.kind = "start"
          /\ hearing'.stream = IF configSlot # NoConfig /\ configSlot.gen = hearing.event.gen
                               THEN configSlot.stream ELSE hearing.stream
      BY <1>11 DEF HearStart, Hears, VisTyped
    <2>2. SUFFICES ASSUME hearing.torn = vis.gen, ~vis.lost, ~Unwritten
                   PROVE  hearing'.stream \in {0, vis.streams}
      BY <2>1 DEF ToldOfLatest, StartOwed, Unwritten
    <2>3. hearing.event.gen = vis.gen
      BY <2>1, <2>2 DEF VisStamps, NoEvent
    <2>4. CASE configSlot # NoConfig /\ configSlot.gen = vis.gen
      BY <2>1, <2>2, <2>3, <2>4 DEF VisStamps
    <2>5. CASE ~(configSlot # NoConfig /\ configSlot.gen = vis.gen)
      BY <2>1, <2>2, <2>3, <2>5 DEF ToldOfLatest, StartOwed
    <2> QED BY <2>4, <2>5
  <1>12. CASE HearEnd
    <2>1. /\ UNCHANGED <<vis, visEvents, configSlot>>
          /\ hearing'.torn = hearing.torn /\ hearing.event.kind # "start"
          /\ hearing'.stream \in {0, hearing.stream}
      BY <1>12 DEF HearEnd, Hears, VisTyped
    <2> QED BY <2>1 DEF ToldOfLatest, StartOwed, Unwritten
  <1>13. CASE VisStop \/ VisStopped \/ VisStartAgain
    <2>1. /\ UNCHANGED <<vis, visEvents, configSlot>> /\ hearing'.torn = hearing.torn
          /\ hearing'.event = hearing.event /\ hearing'.stream = hearing.stream
      BY <1>13 DEF VisStop, VisStopped, VisStartAgain, Hears, VisTyped, protocolHalf
    <2> QED BY <2>1 DEF ToldOfLatest, StartOwed, Unwritten
  <1> QED BY <1>1, <1>3, <1>4, <1>5, <1>6, <1>7, <1>8, <1>9, <1>10, <1>11, <1>12, <1>13, WatcherLeaves
          DEF VisualizerNext, ProtocolGoesOn, MainHears

LEMMA EndStep ==
    ASSUME VisTyped, VisTyped', VisHandler, VisStamps, EndOwed, [VisualizerNext]_visualizerVars
    PROVE  EndOwed'
  <1> USE DEF Handling
  <1>0. /\ vis \in VisStream /\ vis.gen \in Nat /\ hearing.torn \in Nat
        /\ visEvents \in Seq(VisEvents)
        /\ \A i \in DOMAIN visEvents : visEvents[i].gen \in Nat
    <2>1. vis \in VisStream /\ hearing.torn \in Nat /\ visEvents \in Seq(VisEvents)
      BY DEF VisTyped
    <2>2. \A i \in DOMAIN visEvents : visEvents[i] \in VisEvents
      BY <2>1
    <2> QED BY <2>1, <2>2 DEF VisStream, VisEvents
  <1>1. CASE UNCHANGED VisTold
    BY <1>1 DEF EndOwed, VisTold
  <1>2. ASSUME UNCHANGED <<visEvents, hearing>>, vis'.gen = vis.gen, vis'.active = vis.active,
               vis'.lost = vis.lost, vis.doing = "end" => vis'.doing = "end"
        PROVE  EndOwed'
    BY <1>2 DEF EndOwed
  <1>3. CASE VisStart \/ VisEnd
    <2>1. vis'.active \/ vis'.doing = "end"
      BY <1>0, <1>3 DEF VisStart, VisEnd, VisStream
    <2> QED BY <2>1 DEF EndOwed
  <1>4. CASE VisClear
    BY <1>0, <1>2, <1>4 DEF VisClear, VisStream, VisHandler
  <1>5. CASE VisCleanup \/ VisJoin
    <2>1. /\ vis'.gen = vis.gen + 1 /\ hearing'.torn = hearing.torn
          /\ visEvents' \in {<<>>, visEvents, <<[kind |-> "cleared", gen |-> vis'.gen]>>}
      BY <1>0, <1>5 DEF VisCleanup, VisJoin, VisStream, VisTyped
    <2>2. hearing'.torn # vis'.gen
      BY <1>0, <2>1 DEF VisStamps
    <2>3. ~HasStart(visEvents, vis'.gen)
      BY <1>0, <2>1 DEF VisStamps, HasStart, IsEvent
    <2>4. ~HasStart(visEvents', vis'.gen)
      BY <2>1, <2>3 DEF HasStart, IsEvent
    <2> QED BY <2>2, <2>4 DEF EndOwed
  <1>6. CASE VisRecall \/ VisMoveOn \/ VisSignal \/ VisSlot
    BY <1>0, <1>2, <1>6 DEF VisRecall, VisMoveOn, VisSignal, VisSlot, VisStream
  <1>7. CASE VisEvent
    <2>1. /\ hearing' = hearing /\ vis'.gen = vis.gen /\ vis'.active = vis.active
          /\ \/ /\ visEvents' = Append(visEvents, [kind |-> vis.doing, gen |-> vis.gen])
                /\ vis'.lost = vis.lost
             \/ vis'.lost
      BY <1>0, <1>7 DEF VisEvent, VisStream
    <2>2. CASE vis'.lost
      BY <2>2 DEF EndOwed
    <2>3. CASE vis'.lost = vis.lost
               /\ visEvents' = Append(visEvents, [kind |-> vis.doing, gen |-> vis.gen])
      <3> DEFINE e == [kind |-> vis.doing, gen |-> vis.gen]
      <3>1. e \in VisEvents
        BY <1>0, <1>7 DEF VisEvent, VisHandler, VisStream, VisEvents
      <3>2. /\ IsEvent(e, "start", vis.gen) <=> vis.doing = "start"
            /\ IsEvent(e, "end", vis.gen) <=> vis.doing = "end"
        BY DEF IsEvent
      <3>3. visEvents' = Append(visEvents, e)
        BY <2>3
      <3> HIDE DEF e
      <3>4. /\ HasStart(visEvents', vis.gen) <=> HasStart(visEvents, vis.gen) \/ vis.doing = "start"
            /\ vis.doing = "end" => EndsLast(visEvents', vis.gen)
            /\ EndsLast(visEvents, vis.gen) /\ vis.doing # "start" => EndsLast(visEvents', vis.gen)
        BY <1>0, <3>1, <3>2, <3>3, AppendedStarts, AppendedEnd
      <3> QED BY <2>1, <2>3, <3>4 DEF EndOwed, VisHandler
    <2> QED BY <2>1, <2>2, <2>3
  <1>8. CASE HearTeardown
    <2>1. /\ hearing' = VisCaughtUp(hearing, vis.gen) /\ hearing.torn # vis.gen
          /\ UNCHANGED <<vis, visEvents>> /\ hearing.event = NoEvent
      BY <1>8 DEF HearTeardown, Hears
    <2>2. hearing'.stream = 0 /\ hearing'.event = NoEvent
      BY <1>0, <2>1, CatchUp DEF VisStamps
    <2> QED BY <2>1, <2>2 DEF EndOwed, NoEvent
  <1>9. CASE HearEvent
    <2> DEFINE e == Head(visEvents)
    <2>1. /\ UNCHANGED <<vis, configSlot>> /\ visEvents # <<>> /\ visEvents' = Tail(visEvents)
          /\ hearing.event = NoEvent
          /\ \/ /\ hearing' = VisCaughtUp(hearing, e.gen)
                /\ e.kind = "cleared"
             \/ /\ e.kind # "cleared" /\ e.gen = vis.gen
                /\ hearing' = [VisCaughtUp(hearing, e.gen) EXCEPT !.event = e]
             \/ hearing' = hearing /\ e.kind # "cleared" /\ e.gen # vis.gen
      BY <1>9 DEF HearEvent, Hears
    <2>2. e \in VisEvents /\ e.gen \in Nat
      BY <1>0, <2>1, EventTaken DEF VisEvents
    <2>3. VisCaughtUp(hearing, e.gen) \in [life : {"up", "closing", "final", "stopped"}, torn : Nat,
                    event : VisEvents \cup {NoEvent}, stream : Nat]
      BY <2>2 DEF VisCaughtUp, VisTyped
    <2>4. HasStart(visEvents, vis.gen) <=>
            IsEvent(e, "start", vis.gen) \/ HasStart(Tail(visEvents), vis.gen)
      BY <1>0, <2>1, TailStarts
    <2>5. EndsLast(visEvents, vis.gen) =>
            \/ EndsLast(Tail(visEvents), vis.gen)
            \/ IsEvent(e, "end", vis.gen) /\ ~HasStart(Tail(visEvents), vis.gen)
      BY <1>0, <2>1, TailEnd
    <2>6. /\ VisCaughtUp(hearing, e.gen).event = NoEvent
          /\ \/ VisCaughtUp(hearing, e.gen) = hearing
             \/ VisCaughtUp(hearing, e.gen).stream = 0
      BY <2>1, <2>2, CatchUp
    <2> HIDE DEF e
    <2>7. \/ hearing'.stream = 0
          \/ hearing'.stream = hearing.stream /\ hearing'.torn = hearing.torn
      BY <2>1, <2>3, <2>6, ZenonT(40) DEF VisTyped
    <2>8. IsEvent(e, "end", vis.gen) => hearing'.event.kind = "end"
      BY <2>1, <2>3 DEF IsEvent
    <2>9. hearing'.event.kind = "start" => IsEvent(e, "start", vis.gen)
      BY <2>1, <2>3, <2>6 DEF IsEvent, NoEvent
    <2>10. hearing.event.kind = "none"
      BY <2>1 DEF NoEvent
    <2> QED BY <2>1, <2>4, <2>5, <2>7, <2>8, <2>9, <2>10 DEF EndOwed
  <1>10. CASE HearStart
    <2>1. /\ UNCHANGED <<vis, visEvents>> /\ hearing'.torn = hearing.torn
          /\ hearing.event.kind = "start"
      BY <1>10 DEF HearStart, Hears, VisTyped
    <2> QED BY <2>1 DEF EndOwed
  <1>11. CASE HearEnd
    <2>1. /\ UNCHANGED <<vis, visEvents>> /\ hearing'.torn = hearing.torn
          /\ hearing'.event.kind = "none" /\ hearing.event.kind \in {"end", "clear"}
          /\ hearing'.stream = IF hearing.event.kind = "end" THEN 0 ELSE hearing.stream
      BY <1>11 DEF HearEnd, Hears, VisTyped, NoEvent
    <2> QED BY <2>1 DEF EndOwed
  <1>12. CASE VisStop \/ VisStopped \/ VisStartAgain
    <2>1. /\ UNCHANGED <<vis, visEvents>> /\ hearing'.torn = hearing.torn
          /\ hearing'.event = hearing.event /\ hearing'.stream = hearing.stream
      BY <1>12 DEF VisStop, VisStopped, VisStartAgain, Hears, VisTyped, protocolHalf
    <2> QED BY <2>1 DEF EndOwed
  <1> QED BY <1>1, <1>3, <1>4, <1>5, <1>6, <1>7, <1>8, <1>9, <1>10, <1>11, <1>12, WatcherLeaves
          DEF VisualizerNext, ProtocolGoesOn, MainHears

LEMMA VisInductive ==
    ASSUME VisIInv, [VisualizerNext]_visualizerVars
    PROVE  VisIInv'
  <1> USE DEF VisIInv
  <1>1. VisTyped'
    BY VisTypesStep
  <1>2. FramesBehind' /\ VisHandler' /\ VisStamps' /\ ToldOfLatest' /\ EndOwed'
    BY <1>1, FramesStep, HandlerStep, StampsStep, ToldStep, EndStep
  <1> QED BY <1>1, <1>2

\* What the invariant is for
LEMMA VisSafe ==
    ASSUME VisIInv
    PROVE  VisualizerSafe
  <1>0. /\ vis \in VisStream /\ hearing.stream \in Nat /\ vis.streams \in Nat
        /\ watcher.held.stream \in Nat /\ shape.stream = vis.streams /\ shape.spectrum = vis.spectrum
    BY DEF VisIInv, VisTyped, VisStream, VisFrames
  <1>1. VisualizerTypes
    BY DEF VisIInv, VisTyped, VisualizerTypes
  <1>2. FramesOfTheirStream
    BY <1>0 DEF VisIInv, FramesBehind, Behind, FramesOfTheirStream
  <1>3. EndIsTold
    <2> SUFFICES ASSUME Heard
                 PROVE  hearing.stream \in IF vis.active THEN {0, vis.streams} ELSE {0}
      BY DEF EndIsTold
    <2>1. /\ vis.doing = "none" /\ ~vis.lost /\ hearing.torn = vis.gen /\ hearing.event.kind = "none"
          /\ ~HasStart(visEvents, vis.gen) /\ ~EndsLast(visEvents, vis.gen)
      BY DEF Heard, VisIInv, VisHandler, NoEvent, HasStart, EndsLast
    <2>2. ~StartOwed
      BY <2>1 DEF StartOwed, Unwritten
    <2> QED BY <2>1, <2>2 DEF VisIInv, ToldOfLatest, EndOwed
  <1> QED BY <1>1, <1>2, <1>3 DEF VisualizerSafe

-----------------------------------------------------------------------------
(* The artwork role: its inductive invariant *)

ArtItems ==
    [type : {"announce", "part", "discard", "reconfigure"}, chans : SUBSET Channels, image : Nat,
     parts : Nat, gen : Nat]

Assemblies ==
    [state : {"idle", "assembling", "ready"}, image : Nat, left : Int, clear : BOOLEAN, gen : Nat,
     whole : BOOLEAN]

Holds == [image : Nat, clear : BOOLEAN, due : BOOLEAN]

ArtDisplays == [gen : Nat, of : [Channels -> Holds]]

ArtEvents == [kind : {"ended", "cleared"}, gen : Nat, upto : [Channels -> Nat]]

Delivering == {"check", "gate", "decode", "hand"}

Decoders ==
    [at : {"top", "wait", "sweep", "out"} \cup Delivering, on : Nat, from : {"top", "sweep"},
     sweeps : SUBSET Channels, gen : Nat]

DrainPlaces == {"idle", "events", "load", "fold", "sweep", "fire", "called", "joining"}

Drainers ==
    [life : {"up", "closing", "final", "stopped"}, at : DrainPlaces, torn : Nat, gen : Nat,
     taken : ArtDisplays, rest : SUBSET Channels]

ArtTyped ==
    /\ artwork \in ArtworkStream /\ epochs \in [Channels -> Nat] /\ stirred \in BOOLEAN
    /\ items \in Seq(ArtItems) /\ artEvents \in Seq(ArtEvents)
    /\ decoder \in Decoders /\ assemblies \in [Channels -> Assemblies]
    /\ gates \in [Channels -> Gates]
    /\ display \in ArtDisplays /\ holds \in [Channels -> Holds]
    /\ drain \in Drainers /\ screen \in [Channels -> Screen]

\* No hold but the empty one is of no image.
Proper(hold) == hold.image = 0 => hold = NoHold

\* An item of an image is for one channel.
Single(item) == item.type \in {"announce", "part"} => item.image > 0 /\ \E c \in Channels : item.chans = {c}

\* Where a thread is fits what it holds.
Places ==
    /\ decoder.at \in Delivering => decoder.on \in Channels
    /\ drain.life \in {"final", "stopped"} => decoder.at = "out"
    /\ drain.at \in {"sweep", "fire"} => drain.rest # {}
    /\ drain.at = "fold" /\ drain.taken # NoDisplay => drain.taken.gen = drain.gen

\* A transfer that goes on has parts left.
Carried ==
    artwork.transfer # NoTransfer =>
      artwork.transfer.left >= 1 /\ artwork.transfer.on \in Channels /\ artwork.transfer.image > 0

\* An image has a number, and an empty place none.
Numbered ==
    /\ \A i \in DOMAIN items : Single(items[i])
    /\ \A c \in Channels :
         /\ assemblies[c].state = "idle" <=> assemblies[c].image = 0
         /\ Proper(holds[c]) /\ Proper(display.of[c]) /\ Proper(drain.taken.of[c])

Delivers(c) == decoder.at \in Delivering /\ decoder.on = c

\* An assembly has only its own parts, and all of them once it is delivered or parked.
Complete(c) ==
    /\ assemblies[c].whole
    /\ assemblies[c].state = "ready" => assemblies[c].left = 0
    /\ assemblies[c].state = "assembling" /\ ~Delivers(c) => assemblies[c].left >= 1
    /\ Delivers(c) => assemblies[c].state # "idle" /\ assemblies[c].left = 0 /\ ~gates[c].parked

Announces(item, c) == item.type = "announce" /\ c \in item.chans

\* The first n items of a list leave channel c assembling an image, or nothing: a is what it assembles
\* before them.
Leaves(q, n, c, a, image) ==
    \/ \E k \in 1 .. n :
          /\ Announces(q[k], c) /\ q[k].image = image
          /\ \A j \in k + 1 .. n : ~Announces(q[j], c)
    \/ /\ \A j \in 1 .. n : ~Announces(q[j], c)
       /\ a.state = "assembling" => a.image = image

\* The decode thread will find each part, and the transfer that goes on, to be of what it assembles.
PartsFollow ==
    ~artwork.removing =>
       /\ \A i \in DOMAIN items : \A c \in items[i].chans :
            items[i].type = "part" => Leaves(items, i - 1, c, assemblies[c], items[i].image)
       /\ artwork.transfer # NoTransfer /\ ~artwork.transfer.discarding =>
            Leaves(items, Len(items), artwork.transfer.on, assemblies[artwork.transfer.on],
                   artwork.transfer.image)

\* No stamp is ahead of the generation, and the list has only items of it.
Stamps ==
    /\ \A i \in DOMAIN items :
         IF artwork.removing THEN items[i].gen < artwork.gen ELSE items[i].gen = artwork.gen
    /\ \A c \in Channels : assemblies[c].gen <= artwork.gen
    /\ display.gen <= artwork.gen /\ drain.taken.gen <= artwork.gen

\* x comes to the screen before y, where there is a y.
Before(x, y) == y = 0 \/ x < y

\* The images of a channel, from the one displayed to the one assembled
Rising(shown, held, taken, ready, built, top) ==
    /\ Before(shown, held) /\ Before(shown, taken) /\ Before(shown, ready) /\ Before(shown, built)
    /\ Before(held, taken) /\ Before(held, ready) /\ Before(held, built)
    /\ Before(taken, ready) /\ Before(taken, built) /\ Before(ready, built)
    /\ shown <= top /\ held <= top /\ taken <= top /\ ready <= top /\ built <= top

\* Image x is older than any the list announces.
Older(x, q, c) == \A i \in DOMAIN q : Announces(q[i], c) => x < q[i].image

\* The list announces ever later images.
Ascends(q, c, top) ==
    /\ \A i \in DOMAIN q : Announces(q[i], c) => q[i].image <= top
    /\ \A i, j \in DOMAIN q :
         i < j /\ Announces(q[i], c) /\ Announces(q[j], c) => q[i].image < q[j].image

Chain(c) ==
    /\ Rising(screen[c].shown, holds[c].image, drain.taken.of[c].image, display.of[c].image,
              assemblies[c].image, epochs[c])
    /\ \A x \in {screen[c].shown, holds[c].image, drain.taken.of[c].image, display.of[c].image,
                 assemblies[c].image} : Older(x, items, c)
    /\ Ascends(items, c, epochs[c])

\* An image of the current generation is none a stream's end or a teardown was for.
Current(c, image, gen) ==
    image # 0 /\ gen = artwork.gen =>
       /\ image # screen[c].ended /\ image > artwork.cut[c]
       /\ \A i \in DOMAIN artEvents : artEvents[i].kind = "ended" => artEvents[i].upto[c] # image

Ends(c) ==
    /\ screen[c].ended <= epochs[c] /\ artwork.cut[c] <= epochs[c]
    /\ \A i \in DOMAIN artEvents : artEvents[i].upto[c] <= epochs[c]
    /\ holds[c].image # 0 => holds[c].image # screen[c].ended
    /\ Current(c, drain.taken.of[c].image, drain.taken.gen)
    /\ Current(c, display.of[c].image, display.gen)
    /\ Current(c, assemblies[c].image, assemblies[c].gen)
    /\ \A i \in DOMAIN items : Announces(items[i], c) => Current(c, items[i].image, items[i].gen)

ArtIInv ==
    /\ ArtTyped /\ Places /\ Carried /\ Numbered /\ (\A c \in Channels : Complete(c)) /\ PartsFollow /\ Stamps
    /\ (\A c \in Channels : Chain(c)) /\ (\A c \in Channels : Ends(c))
    /\ GateMatchesListener /\ ParkedIsReady /\ ScreenInOrder

-----------------------------------------------------------------------------
(* The artwork role: numbers and lists *)

LEMMA MinIn ==
    ASSUME NEW S, S \subseteq Nat, S # {}
    PROVE  Min(S) \in S
  <1>1. PICK x \in S : \A y \in S : ~ (<<y, x>> \in OpToRel(<, Nat))
    BY NatLessThanWellFounded, WFMin
  <1>2. \A y \in S : ~ (y < x)
    BY <1>1 DEF OpToRel
  <1>3. \A y \in S : x =< y
    BY <1>2
  <1> QED BY <1>3 DEF Min

LEMMA MinOne ==
    ASSUME NEW a \in Nat
    PROVE  Min({a}) = a
  BY DEF Min

LEMMA ItemTaken ==
    ASSUME NEW S, NEW q \in Seq(S), q # <<>>
    PROVE  /\ Head(q) \in S /\ Tail(q) \in Seq(S)
           /\ Head(q) = q[1] /\ Len(q) \in Nat /\ Len(q) >= 1
           /\ DOMAIN q = 1 .. Len(q) /\ 1 \in DOMAIN q
           /\ Len(Tail(q)) = Len(q) - 1 /\ DOMAIN Tail(q) = 1 .. Len(q) - 1
           /\ \A i \in DOMAIN Tail(q) : i + 1 \in DOMAIN q /\ Tail(q)[i] = q[i + 1]
  OBVIOUS

LEMMA ItemAdded ==
    ASSUME NEW S, NEW q \in Seq(S), NEW e \in S
    PROVE  /\ Append(q, e) \in Seq(S)
           /\ Len(q) \in Nat /\ Len(Append(q, e)) = Len(q) + 1
           /\ DOMAIN q = 1 .. Len(q) /\ DOMAIN Append(q, e) = 1 .. Len(q) + 1
           /\ Append(q, e)[Len(q) + 1] = e
           /\ \A i \in DOMAIN q : i \in DOMAIN Append(q, e) /\ Append(q, e)[i] = q[i]
           /\ \A i \in DOMAIN Append(q, e) : i \in DOMAIN q \/ i = Len(q) + 1
  OBVIOUS

LEMMA EmptyTypes ==
    /\ NoAssembly \in Assemblies /\ NoHold \in Holds /\ NoDisplay \in ArtDisplays
    /\ NoDisplay.gen = 0 /\ \A c \in Channels : NoDisplay.of[c] = NoHold
    /\ NoHold.image = 0 /\ NoAssembly.image = 0
  BY DEF NoAssembly, Assemblies, NoHold, Holds, NoDisplay, ArtDisplays

-----------------------------------------------------------------------------
(* The artwork role: what the protocol task does *)

Transfers == [on : Channels \cup {0}, image : Nat, left : Nat, discarding : BOOLEAN]

\* A marker is handed over, or refused.
Marked ==
    \/ items' = items
    \/ \E m \in ArtItems :
          m.type \in {"discard", "reconfigure"} /\ m.gen = artwork.gen /\ items' = Append(items, m)

\* The transfer ends, is not taken any more, or goes on.
Continues ==
    \/ artwork'.transfer = NoTransfer
    \/ artwork'.transfer.discarding
    \/ /\ artwork.transfer # NoTransfer /\ ~artwork.transfer.discarding
       /\ artwork'.transfer.on = artwork.transfer.on /\ artwork'.transfer.image = artwork.transfer.image

SameStream ==
    artwork'.gen = artwork.gen /\ artwork'.removing = artwork.removing /\ artwork'.cut = artwork.cut

\* The announce of a channel's next image is handed over.
Announced(c) ==
    /\ epochs'[c] = epochs[c] + 1
    /\ \E e \in ArtItems :
          /\ e.type = "announce" /\ e.chans = {c} /\ e.image = epochs'[c] /\ e.gen = artwork.gen
          /\ items' = Append(items, e)
    /\ artwork'.transfer # NoTransfer => artwork'.transfer.on = c /\ artwork'.transfer.image = epochs'[c]

\* A part of the transfer is.
PartHanded ==
    /\ artwork.transfer # NoTransfer /\ ~artwork.transfer.discarding
    /\ \E e \in ArtItems :
          /\ e.type = "part" /\ e.chans = {artwork.transfer.on} /\ e.image = artwork.transfer.image
          /\ e.gen = artwork.gen /\ items' = Append(items, e)

\* What a channel awaits moves on.
MovesOn == epochs' \in [Channels -> Nat] /\ \A c \in Channels : epochs[c] <= epochs'[c]

\* A stream's end is told, for every image announced so far.
EndTold ==
    \E e \in ArtEvents :
       /\ artEvents' = Append(artEvents, e)
       /\ e.kind = "ended" /\ e.upto = epochs' /\ \A c \in Channels : epochs'[c] = epochs[c] + 1

Handled ==
    /\ ~artwork.removing /\ artwork' \in ArtworkStream /\ MovesOn /\ Carried'
    /\ UNCHANGED <<decodeThread, gates, display, drainSide, screen, stirred>>
    /\ artEvents' = artEvents \/ EndTold
    /\ \/ SameStream /\ Marked /\ Continues
       \/ SameStream /\ artEvents' = artEvents /\ \E c \in Channels : Announced(c)
       \/ SameStream /\ artEvents' = artEvents /\ PartHanded /\ Continues
       \/ /\ UNCHANGED <<epochs, items, artEvents>> /\ artwork'.gen = artwork.gen + 1
          /\ artwork'.removing /\ artwork'.cut = epochs

LEMMA TransferWith ==
    ASSUME artwork \in ArtworkStream, NEW t \in Nat, NEW x \in Transfers
    PROVE  LET next == [artwork EXCEPT !.turns = t, !.transfer = x]
           IN  /\ next \in ArtworkStream
               /\ next.gen = artwork.gen /\ next.removing = artwork.removing /\ next.cut = artwork.cut
               /\ next.transfer = x
  BY DEF ArtworkStream, Transfers

LEMMA MovedEpochs ==
    ASSUME epochs \in [Channels -> Nat], NEW chans, epochs' = Moved(chans)
    PROVE  /\ MovesOn
           /\ \A c \in Channels : c \in chans => epochs'[c] = epochs[c] + 1
  BY DEF MovesOn, Moved

LEMMA MarkerHandedOver ==
    ASSUME artwork \in ArtworkStream, NEW type \in {"discard", "reconfigure"},
           NEW chans \in SUBSET Channels, NEW h \in MarkerHanded(type, chans), items' = h[1]
    PROVE  Marked /\ h[2] \in {1, 2}
  <1>1. \/ h = <<Append(items, Marker(type, chans)), 1>>
        \/ h = <<items, 2>>
    BY DEF MarkerHanded
  <1>2. /\ Marker(type, chans) \in ArtItems /\ Marker(type, chans).type = type
        /\ Marker(type, chans).gen = artwork.gen
    BY DEF Marker, Item, ArtItems, ArtworkStream
  <1> QED BY <1>1, <1>2 DEF Marked

LEMMA NoTransferTypes ==
    /\ NoTransfer \in Transfers /\ NoTransfer.on = 0 /\ NoTransfer.left = 0 /\ ~NoTransfer.discarding
  BY DEF NoTransfer, Transfers

LEMMA StreamStartEffect ==
    ASSUME ArtTyped, Carried, ArtStreamStart
    PROVE  Handled
  <1>0. /\ artwork \in ArtworkStream /\ epochs \in [Channels -> Nat] /\ artwork.turns \in Nat
        /\ artwork.transfer \in Transfers
    BY DEF ArtTyped, ArtworkStream, Transfers
  <1>1. PICK changed \in SUBSET Channels, known \in BOOLEAN :
          /\ epochs' = Moved(changed)
          /\ \E h \in (IF changed = {} THEN {<<items, 1>>} ELSE MarkerHanded("reconfigure", changed)) :
                /\ items' = h[1]
                /\ artwork' = [artwork EXCEPT !.active = TRUE, !.known = known, !.turns = @ + h[2],
                                  !.transfer = IF @.on \in changed THEN NoTransfer ELSE @]
    BY ZenonT(40) DEF ArtStreamStart
  <1>2. PICK h \in (IF changed = {} THEN {<<items, 1>>} ELSE MarkerHanded("reconfigure", changed)) :
          /\ items' = h[1]
          /\ artwork' = [artwork EXCEPT !.active = TRUE, !.known = known, !.turns = @ + h[2],
                                  !.transfer = IF @.on \in changed THEN NoTransfer ELSE @]
    BY <1>1
  <1>3. Marked /\ h[2] \in {1, 2}
    <2>1. CASE changed = {}
      BY <1>2, <2>1 DEF Marked
    <2>2. CASE changed # {}
      BY <1>0, <1>2, <2>2, MarkerHandedOver
    <2> QED BY <2>1, <2>2
  <1> DEFINE turns == artwork.turns + h[2]
             x == IF artwork.transfer.on \in changed THEN NoTransfer ELSE artwork.transfer
  <1>4. turns \in Nat /\ x \in Transfers
    BY <1>0, <1>3, NoTransferTypes
  <1>5. artwork' = [artwork EXCEPT !.active = TRUE, !.known = known, !.turns = turns, !.transfer = x]
    BY <1>2
  <1>6. x \in {NoTransfer, artwork.transfer}
    OBVIOUS
  <1> HIDE DEF turns, x
  <1>7. artwork' \in ArtworkStream /\ SameStream /\ artwork'.transfer = x
    BY <1>0, <1>4, <1>5 DEF SameStream, ArtworkStream, Transfers
  <1>8. Carried' /\ Continues
    BY <1>6, <1>7 DEF Carried, Continues
  <1>9. MovesOn
    BY <1>0, <1>1, MovedEpochs
  <1> QED BY <1>3, <1>7, <1>8, <1>9 DEF ArtStreamStart, Handles, Handled

LEMMA StreamEndEffect ==
    ASSUME ArtTyped, Carried, ArtStreamEnd
    PROVE  Handled
  <1>0. /\ artwork \in ArtworkStream /\ epochs \in [Channels -> Nat] /\ artwork.turns \in Nat
        /\ artwork.gen \in Nat /\ artEvents \in Seq(ArtEvents)
    BY DEF ArtTyped, ArtworkStream
  <1>1. PICK h \in MarkerHanded("discard", Channels), told \in BOOLEAN :
          /\ items' = h[1]
          /\ artwork' = [artwork EXCEPT !.active = FALSE, !.known = FALSE, !.transfer = NoTransfer,
                                        !.turns = @ + h[2] - (IF told THEN 1 ELSE 0)]
          /\ artEvents' = IF told THEN Append(artEvents, [kind |-> "ended", gen |-> artwork.gen,
                                                         upto |-> epochs'])
                          ELSE artEvents
    BY DEF ArtStreamEnd
  <1>2. Marked /\ h[2] \in {1, 2}
    BY <1>0, <1>1, MarkerHandedOver
  <1>3. MovesOn /\ \A c \in Channels : epochs'[c] = epochs[c] + 1
    BY <1>0, MovedEpochs DEF ArtStreamEnd
  <1> DEFINE turns == artwork.turns + h[2] - (IF told THEN 1 ELSE 0)
  <1>4. turns \in Nat
    BY <1>0, <1>2
  <1>5. artwork' = [artwork EXCEPT !.active = FALSE, !.known = FALSE, !.turns = turns,
                                   !.transfer = NoTransfer]
    BY <1>1, <1>0 DEF ArtworkStream
  <1> HIDE DEF turns
  <1>6. artwork' \in ArtworkStream /\ SameStream /\ artwork'.transfer = NoTransfer
    BY <1>0, <1>4, <1>5, NoTransferTypes DEF SameStream, ArtworkStream, Transfers
  <1> DEFINE e == [kind |-> "ended", gen |-> artwork.gen, upto |-> epochs']
  <1>7. e \in ArtEvents /\ e.kind = "ended" /\ e.upto = epochs'
    BY <1>0, <1>3 DEF ArtEvents, MovesOn
  <1>8. artEvents' = artEvents \/ artEvents' = Append(artEvents, e)
    BY <1>1
  <1> HIDE DEF e
  <1>9. artEvents' = artEvents \/ EndTold
    BY <1>3, <1>7, <1>8 DEF EndTold
  <1> QED BY <1>2, <1>3, <1>6, <1>9 DEF ArtStreamEnd, Handles, Handled, Carried, Continues

LEMMA AnnounceEffect ==
    ASSUME ArtTyped, Carried, NEW c \in Channels, NEW parts \in Parts, Announce(c, parts)
    PROVE  Handled
  <1> DEFINE image == epochs[c] + 1
             begun(discarding) ==
               IF parts = 0 THEN NoTransfer
               ELSE [on |-> c, image |-> image, left |-> parts, discarding |-> discarding]
  <1>0. /\ artwork \in ArtworkStream /\ epochs \in [Channels -> Nat] /\ artwork.turns \in Nat
        /\ artwork.gen \in Nat /\ items \in Seq(ArtItems) /\ parts \in Nat
    BY ArtworkAssumption DEF ArtTyped, ArtworkStream
  <1>1. image \in Nat /\ image > 0
    BY <1>0
  <1>2. \A d \in BOOLEAN :
          /\ begun(d) \in Transfers
          /\ begun(d) # NoTransfer =>
               /\ begun(d).on = c /\ begun(d).image = image /\ begun(d).left >= 1
               /\ begun(d).discarding = d
    BY <1>0, <1>1, NoTransferTypes DEF Transfers
  <1>3. MovesOn /\ epochs'[c] = image
    BY <1>0, MovedEpochs DEF Announce
  <1>4. /\ ~artwork.removing /\ artEvents' = artEvents
        /\ UNCHANGED <<decodeThread, gates, display, drainSide, screen, stirred>>
    BY DEF Announce, Handles
  <1>5. ASSUME NEW n \in Nat, NEW d \in BOOLEAN,
               artwork' = [artwork EXCEPT !.turns = @ + n, !.transfer = begun(d)]
        PROVE  artwork' \in ArtworkStream /\ SameStream /\ Carried' /\ artwork'.transfer = begun(d)
    <2> DEFINE turns == artwork.turns + n
    <2>1. turns \in Nat
      BY <1>0
    <2>2. artwork' = [artwork EXCEPT !.turns = turns, !.transfer = begun(d)]
      BY <1>5
    <2>3. begun(d) \in Transfers
      BY <1>2
    <2> HIDE DEF turns, begun
    <2>4. artwork' \in ArtworkStream /\ SameStream /\ artwork'.transfer = begun(d)
      BY <1>0, <2>1, <2>2, <2>3, TransferWith DEF SameStream
    <2> QED BY <1>1, <1>2, <2>4 DEF Carried
  <1>6. CASE /\ items' = Append(items, Item("announce", {c}, image, parts))
             /\ artwork' = [artwork EXCEPT !.turns = @ + 1, !.transfer = begun(FALSE)]
    <2> DEFINE e == Item("announce", {c}, image, parts)
    <2>1. /\ e \in ArtItems /\ e.type = "announce" /\ e.chans = {c} /\ e.image = image
          /\ e.gen = artwork.gen
      BY <1>0, <1>1 DEF Item, ArtItems
    <2>2. items' = Append(items, e)
      BY <1>6
    <2> HIDE DEF e, image
    <2>3. artwork' \in ArtworkStream /\ SameStream /\ Carried' /\ artwork'.transfer = begun(FALSE)
      BY <1>5, <1>6
    <2>4. artwork'.transfer # NoTransfer => artwork'.transfer.on = c /\ artwork'.transfer.image = image
      BY <1>2, <2>3
    <2>5. Announced(c)
      BY <1>3, <2>1, <2>2, <2>4 DEF Announced, image
    <2> QED BY <1>3, <1>4, <2>3, <2>5 DEF Handled
  <1>7. CASE /\ parts = 0 /\ UNCHANGED items
             /\ artwork' = [artwork EXCEPT !.turns = @ + 2, !.transfer = begun(FALSE)]
    <2>1. artwork' \in ArtworkStream /\ SameStream /\ Carried' /\ artwork'.transfer = begun(FALSE)
      BY <1>5, <1>7
    <2>2. Continues /\ Marked
      BY <1>7, <2>1 DEF Continues, Marked
    <2> QED BY <1>3, <1>4, <2>1, <2>2 DEF Handled
  <1>8. ASSUME parts > 0, NEW h \in MarkerHanded("discard", {c}), items' = h[1],
               artwork' = [artwork EXCEPT !.turns = @ + (1 + h[2]), !.transfer = begun(TRUE)]
        PROVE  Handled
    <2>1. Marked /\ h[2] \in {1, 2}
      BY <1>0, <1>8, MarkerHandedOver
    <2> DEFINE n == 1 + h[2]
    <2>2. n \in Nat
      BY <2>1
    <2>3. artwork' = [artwork EXCEPT !.turns = @ + n, !.transfer = begun(TRUE)]
      BY <1>8
    <2> HIDE DEF n
    <2>4. artwork' \in ArtworkStream /\ SameStream /\ Carried' /\ artwork'.transfer = begun(TRUE)
      BY <1>5, <2>2, <2>3
    <2>5. Continues
      BY <1>2, <2>4 DEF Continues
    <2> QED BY <1>3, <1>4, <2>1, <2>4, <2>5 DEF Handled
  <1> QED BY <1>6, <1>7, <1>8 DEF Announce

LEMMA PartEffect ==
    ASSUME ArtTyped, Carried, Part
    PROVE  Handled
  <1> DEFINE t == artwork.transfer
             next(discarding) ==
               IF t.left = 1 THEN NoTransfer
               ELSE [t EXCEPT !.left = @ - 1, !.discarding = discarding]
  <1>0. /\ artwork \in ArtworkStream /\ epochs \in [Channels -> Nat] /\ artwork.turns \in Nat
        /\ artwork.gen \in Nat /\ items \in Seq(ArtItems) /\ t \in Transfers
    BY DEF ArtTyped, ArtworkStream, Transfers
  <1>1. t # NoTransfer /\ t.left >= 1 /\ t.on \in Channels /\ t.image \in Nat /\ t.image > 0
    BY <1>0 DEF Part, Carried, Transfers
  <1>2. \A d \in BOOLEAN :
          /\ next(d) \in Transfers
          /\ next(d) # NoTransfer =>
               /\ next(d).on = t.on /\ next(d).image = t.image /\ next(d).left >= 1
               /\ next(d).discarding = d
    <2> TAKE d \in BOOLEAN
    <2>1. CASE t.left = 1
      BY <2>1, NoTransferTypes
    <2>2. CASE t.left # 1
      <3> DEFINE left == t.left - 1
      <3>1. left \in Nat /\ left >= 1
        BY <1>0, <1>1, <2>2 DEF Transfers
      <3>2. next(d) = [t EXCEPT !.left = left, !.discarding = d]
        BY <2>2
      <3> HIDE DEF left, next, t
      <3> QED BY <1>0, <3>1, <3>2 DEF Transfers
    <2> QED BY <2>1, <2>2
  <1>3. MovesOn /\ artEvents' = artEvents
    <2>1. UNCHANGED <<epochs, stirred, artEvents>>
      BY DEF Part
    <2> HIDE DEF t, next
    <2> QED BY <1>0, <2>1 DEF MovesOn
  <1>4. ~artwork.removing /\ UNCHANGED <<decodeThread, gates, display, drainSide, screen, stirred>>
    BY DEF Part, Handles
  <1> HIDE DEF next
  <1>5. ASSUME NEW n \in Nat, NEW d \in BOOLEAN,
               artwork' = [artwork EXCEPT !.turns = n, !.transfer = next(d)]
        PROVE  /\ artwork' \in ArtworkStream /\ SameStream /\ Carried' /\ artwork'.transfer = next(d)
               /\ d \/ ~t.discarding => Continues
    <2>1. artwork' \in ArtworkStream /\ SameStream /\ artwork'.transfer = next(d)
      BY <1>0, <1>2, <1>5, TransferWith DEF SameStream
    <2>2. Carried'
      BY <1>1, <1>2, <2>1 DEF Carried
    <2>3. d \/ ~t.discarding => Continues
      BY <1>1, <1>2, <2>1 DEF Continues
    <2> QED BY <2>1, <2>2, <2>3
  <1>6. ASSUME NEW d \in BOOLEAN, artwork' = [artwork EXCEPT !.transfer = next(d)]
        PROVE  artwork' = [artwork EXCEPT !.turns = artwork.turns, !.transfer = next(d)]
    BY <1>0, <1>6 DEF ArtworkStream
  <1>7. CASE artwork' = [artwork EXCEPT !.transfer = next(TRUE)] /\ UNCHANGED items
    BY <1>0, <1>3, <1>4, <1>5, <1>6, <1>7 DEF Handled, Marked
  <1>8. CASE /\ ~t.discarding
             /\ items' = Append(items, Item("part", {t.on}, t.image, 1))
             /\ artwork' = [artwork EXCEPT !.transfer = next(FALSE)]
    <2> DEFINE e == Item("part", {t.on}, t.image, 1)
    <2>1. e \in ArtItems /\ e.type = "part" /\ e.chans = {t.on} /\ e.image = t.image /\ e.gen = artwork.gen
      BY <1>0, <1>1 DEF Item, ArtItems
    <2>2. items' = Append(items, e)
      BY <1>8
    <2> HIDE DEF e
    <2>3. PartHanded
      BY <1>1, <1>8, <2>1, <2>2 DEF PartHanded
    <2> QED BY <1>0, <1>3, <1>4, <1>5, <1>6, <1>8, <2>3 DEF Handled
  <1>9. ASSUME ~t.discarding, NEW h \in MarkerHanded("discard", {t.on}), items' = h[1],
               artwork' = [artwork EXCEPT !.turns = @ + h[2], !.transfer = next(TRUE)]
        PROVE  Handled
    <2>1. Marked /\ h[2] \in {1, 2}
      BY <1>0, <1>1, <1>9, MarkerHandedOver
    <2> DEFINE n == artwork.turns + h[2]
    <2>2. n \in Nat
      BY <1>0, <2>1
    <2>3. artwork' = [artwork EXCEPT !.turns = n, !.transfer = next(TRUE)]
      BY <1>9
    <2> HIDE DEF n
    <2> QED BY <1>3, <1>4, <1>5, <2>1, <2>2, <2>3 DEF Handled
  <1> QED BY <1>7, <1>8, <1>9 DEF Part, next

LEMMA CancelEffect ==
    ASSUME ArtTyped, Carried, NEW c \in Channels, Cancel(c)
    PROVE  Handled
  <1>0. /\ artwork \in ArtworkStream /\ epochs \in [Channels -> Nat] /\ artwork.turns \in Nat
        /\ artwork.transfer \in Transfers
    BY DEF ArtTyped, ArtworkStream, Transfers
  <1>1. PICK h \in MarkerHanded("discard", {c}) :
          /\ items' = h[1]
          /\ artwork' = [artwork EXCEPT !.turns = @ + h[2],
                                        !.transfer = IF @.on = c THEN NoTransfer ELSE @]
    BY DEF Cancel
  <1>2. Marked /\ h[2] \in {1, 2}
    BY <1>0, <1>1, MarkerHandedOver
  <1> DEFINE turns == artwork.turns + h[2]
             x == IF artwork.transfer.on = c THEN NoTransfer ELSE artwork.transfer
  <1>3. turns \in Nat /\ x \in Transfers /\ x \in {NoTransfer, artwork.transfer}
    BY <1>0, <1>2, NoTransferTypes
  <1>4. artwork' = [artwork EXCEPT !.turns = turns, !.transfer = x]
    BY <1>1
  <1> HIDE DEF turns, x
  <1>5. artwork' \in ArtworkStream /\ SameStream /\ artwork'.transfer = x
    BY <1>0, <1>3, <1>4, TransferWith DEF SameStream
  <1>6. Carried' /\ Continues
    BY <1>3, <1>5 DEF Carried, Continues
  <1>7. MovesOn
    BY <1>0, MovedEpochs DEF Cancel
  <1> QED BY <1>2, <1>5, <1>6, <1>7 DEF Cancel, Handles, Handled

LEMMA CleanupEffect ==
    ASSUME ArtTyped, Carried, ArtCleanup
    PROVE  Handled
  <1>0. /\ artwork \in ArtworkStream /\ epochs \in [Channels -> Nat] /\ artwork.turns \in Nat
        /\ artwork.gen \in Nat
    BY DEF ArtTyped, ArtworkStream
  <1> DEFINE turns == artwork.turns + 1
             gen == artwork.gen + 1
  <1>1. turns \in Nat /\ gen \in Nat
    BY <1>0
  <1>2. artwork' = [artwork EXCEPT !.gen = gen, !.removing = TRUE, !.cut = epochs, !.turns = turns]
    BY DEF ArtCleanup
  <1>3. gen = artwork.gen + 1
    OBVIOUS
  <1> HIDE DEF turns, gen
  <1>4. /\ artwork' \in ArtworkStream /\ artwork'.gen = gen /\ artwork'.removing /\ artwork'.cut = epochs
        /\ artwork'.transfer = artwork.transfer
    BY <1>0, <1>1, <1>2 DEF ArtworkStream
  <1>5. Carried' /\ MovesOn
    BY <1>0, <1>4 DEF Carried, MovesOn, ArtCleanup
  <1> QED BY <1>3, <1>4, <1>5 DEF ArtCleanup, Handles, Handled

\* Every handler of the protocol task
LEMMA ProtocolEffect ==
    ASSUME ArtTyped, Carried, ArtworkStep
    PROVE  Handled
  BY StreamStartEffect, StreamEndEffect, AnnounceEffect, PartEffect, CancelEffect, CleanupEffect
  DEF ArtworkStep

\* The end of a teardown, in the protocol task or after it was joined
TornDownTo(gen) ==
    /\ artwork' \in ArtworkStream /\ Carried' /\ ~artwork'.removing /\ artwork'.transfer = NoTransfer
    /\ artwork'.gen = gen /\ gen >= artwork.gen
    /\ artwork'.cut = IF gen = artwork.gen THEN artwork.cut ELSE epochs
    /\ MovesOn /\ items' = <<>>
    /\ \E e \in ArtEvents :
          e.kind = "cleared" /\ e.upto = epochs' /\ artEvents' = Append(artEvents, e)

LEMMA TornDownEffect ==
    ASSUME ArtTyped, NEW gen \in {artwork.gen, artwork.gen + 1}, ArtTornDown(gen)
    PROVE  TornDownTo(gen)
  <1>0. /\ artwork \in ArtworkStream /\ epochs \in [Channels -> Nat] /\ artwork.turns \in Nat
        /\ artwork.gen \in Nat /\ gen \in Nat
    BY DEF ArtTyped, ArtworkStream
  <1> DEFINE turns == artwork.turns + gen - artwork.gen
             cut == IF gen = artwork.gen THEN artwork.cut ELSE epochs
  <1>1. turns \in Nat /\ cut \in [Channels -> Nat] /\ gen >= artwork.gen
    BY <1>0 DEF ArtworkStream
  <1>2. artwork' = [artwork EXCEPT !.active = FALSE, !.known = FALSE, !.transfer = NoTransfer,
                                  !.gen = gen, !.removing = FALSE, !.cut = cut, !.turns = turns]
    BY DEF ArtTornDown
  <1>3. cut = IF gen = artwork.gen THEN artwork.cut ELSE epochs
    OBVIOUS
  <1> HIDE DEF turns, cut
  <1>4. /\ artwork' \in ArtworkStream /\ artwork'.gen = gen /\ ~artwork'.removing
        /\ artwork'.cut = cut /\ artwork'.transfer = NoTransfer
    BY <1>0, <1>1, <1>2, NoTransferTypes DEF ArtworkStream, Transfers
  <1>5. MovesOn
    BY <1>0, MovedEpochs DEF ArtTornDown
  <1> DEFINE e == [kind |-> "cleared", gen |-> gen, upto |-> epochs']
  <1>6. e \in ArtEvents /\ e.kind = "cleared" /\ e.upto = epochs'
    BY <1>0, <1>5 DEF ArtEvents, MovesOn
  <1>7. artEvents' = Append(artEvents, e)
    BY DEF ArtTornDown
  <1> HIDE DEF e
  <1> QED BY <1>1, <1>3, <1>4, <1>5, <1>6, <1>7 DEF TornDownTo, ArtTornDown, Carried

-----------------------------------------------------------------------------
(* The artwork role: types *)

LEMMA HandledTypes ==
    ASSUME ArtTyped, Handled
    PROVE  ArtTyped'
  <1>0. items \in Seq(ArtItems) /\ artEvents \in Seq(ArtEvents)
    BY DEF ArtTyped
  <1>1. items' \in Seq(ArtItems)
    <2>1. items' = items \/ \E m \in ArtItems : items' = Append(items, m)
      BY DEF Handled, Marked, Announced, PartHanded
    <2> QED BY <1>0, <2>1, ItemAdded
  <1>2. artEvents' \in Seq(ArtEvents)
    BY <1>0, ItemAdded, SMTT(30) DEF Handled, EndTold
  <1> QED BY <1>1, <1>2 DEF ArtTyped, Handled, MovesOn, decodeThread, drainSide

LEMMA TornDownTypes ==
    ASSUME ArtTyped, NEW gen, TornDownTo(gen),
           UNCHANGED <<decodeThread, gates, display, holds, screen>>, stirred' \in BOOLEAN,
           drain' \in Drainers
    PROVE  ArtTyped'
  <1>1. items' \in Seq(ArtItems)
    BY DEF TornDownTo
  <1>2. artEvents' \in Seq(ArtEvents)
    BY ItemAdded DEF ArtTyped, TornDownTo
  <1> QED BY <1>1, <1>2 DEF ArtTyped, TornDownTo, MovesOn, decodeThread

LEMMA DiscardedTypes ==
    ASSUME ArtTyped, NEW chans
    PROVE  /\ Discarded(chans) \in [Channels -> Assemblies]
           /\ \A c \in Channels :
                Discarded(chans)[c] = IF c \in chans THEN NoAssembly ELSE assemblies[c]
  BY EmptyTypes DEF ArtTyped, Discarded

LEMMA UnparkedTypes ==
    ASSUME ArtTyped, NEW chans, NEW released
    PROVE  /\ Unparked(chans, released) \in [Channels -> Gates]
           /\ \A c \in Channels :
                /\ Unparked(chans, released)[c].parked => c \notin chans /\ gates[c].parked
                /\ Unparked(chans, released)[c].ack = "presented" <=> gates[c].ack = "presented"
  BY DEF ArtTyped, Unparked, Gates

LEMMA AssembledTypes ==
    ASSUME NEW item \in ArtItems, NEW c \in Channels, NEW a \in Assemblies
    PROVE  /\ Assembled(item, c, a) \in Assemblies
           /\ item.type = "announce" =>
                Assembled(item, c, a) =
                  [state |-> "assembling", image |-> item.image, left |-> item.parts,
                   clear |-> item.parts = 0, gen |-> item.gen, whole |-> TRUE]
           /\ item.type = "part" /\ a.state = "assembling" =>
                /\ Assembled(item, c, a).state = "assembling" /\ Assembled(item, c, a).left = a.left - 1
                /\ Assembled(item, c, a).whole = (a.whole /\ a.image = item.image)
                /\ Assembled(item, c, a).image = a.image /\ Assembled(item, c, a).gen = a.gen
           /\ item.type = "part" /\ a.state # "assembling" => Assembled(item, c, a) = a
  <1>1. CASE item.type = "announce"
    BY <1>1 DEF Assembled, ArtItems, Assemblies
  <1>2. CASE item.type = "part" /\ a.state = "assembling"
    <2> DEFINE left == a.left - 1
               whole == a.whole /\ a.image = item.image
    <2>1. left \in Int /\ whole \in BOOLEAN
      BY DEF Assemblies
    <2>2. Assembled(item, c, a) = [a EXCEPT !.left = left, !.whole = whole]
      BY <1>2 DEF Assembled
    <2>3. left = a.left - 1 /\ whole = (a.whole /\ a.image = item.image)
      OBVIOUS
    <2> HIDE DEF left, whole
    <2> QED BY <1>2, <2>1, <2>2, <2>3 DEF Assemblies
  <1>3. CASE item.type # "announce" /\ ~(item.type = "part" /\ a.state = "assembling")
    BY <1>3 DEF Assembled
  <1> QED BY <1>1, <1>2, <1>3

\* The item the decode thread takes: to whom it goes and what it leaves assembled
LEMMA TakenItem ==
    ASSUME ArtTyped, Numbered, items # <<>>
    PROVE  /\ Head(items) \in ArtItems /\ Tail(items) \in Seq(ArtItems) /\ Head(items) = items[1]
           /\ 1 \in DOMAIN items /\ Len(items) \in Nat /\ DOMAIN items = 1 .. Len(items)
           /\ Len(Tail(items)) = Len(items) - 1 /\ DOMAIN Tail(items) = 1 .. Len(items) - 1
           /\ \A i \in DOMAIN Tail(items) : i + 1 \in DOMAIN items /\ Tail(items)[i] = items[i + 1]
           /\ Head(items).type \in {"announce", "part"} =>
                /\ Min(Head(items).chans) \in Channels
                /\ Head(items).chans = {Min(Head(items).chans)} /\ Head(items).image > 0
  <1>1. items \in Seq(ArtItems)
    BY DEF ArtTyped
  <1>2. Single(Head(items))
    BY <1>1, ItemTaken DEF Numbered
  <1>3. \A c \in Channels : Min({c}) = c
    BY ArtworkAssumption, MinOne
  <1> QED BY <1>1, <1>2, <1>3, ItemTaken DEF Single

\* What an item leaves of the assemblies
ItemLeaves(item) ==
    LET kept == Discarded(Adopted(item.gen) \cup IF item.type = "part" THEN {} ELSE item.chans)
        c == Min(item.chans)
    IN  IF item.type \in {"discard", "reconfigure"} THEN kept
        ELSE [kept EXCEPT ![c] = Assembled(item, c, @)]

\* One of the current stream is taken in.
ItemTakenIn ==
    LET item == Head(items)
        next == ItemLeaves(item)
        c    == Min(item.chans)
    IN  /\ item.gen = artwork.gen /\ assemblies' = next
        /\ \/ /\ item.type \in {"announce", "part"} /\ next[c].state = "assembling" /\ next[c].left = 0
              /\ decoder' = [decoder EXCEPT !.at = "check", !.on = c, !.from = "top", !.gen = item.gen]
           \/ /\ ~(/\ item.type \in {"announce", "part"} /\ next[c].state = "assembling"
                   /\ next[c].left = 0)
              /\ decoder' = [decoder EXCEPT !.at = "top", !.on = 0, !.from = "top", !.gen = item.gen]
        /\ \E released \in SUBSET Channels :
              gates' = Unparked(Adopted(item.gen) \cup IF item.type = "part" THEN {} ELSE item.chans,
                                released)

LEMMA DecodeItemEffect ==
    ASSUME ArtTyped, Numbered, DecodeItem
    PROVE  /\ decoder.at = "wait" /\ items # <<>> /\ items' = Tail(items) /\ stirred' = FALSE
           /\ Decodes /\ UNCHANGED <<display, screen>>
           /\ \/ /\ Head(items).gen # artwork.gen /\ UNCHANGED <<assemblies, gates>>
                 /\ decoder' \in {decoder, [decoder EXCEPT !.at = "top"]}
              \/ ItemTakenIn
  <1>1. /\ decoder.at = "wait" /\ items # <<>> /\ items' = Tail(items) /\ stirred' = FALSE
        /\ Decodes /\ UNCHANGED <<display, screen>>
    BY DEF DecodeItem
  <1>2. CASE Head(items).gen # artwork.gen
    <2>1. decoder' = [decoder EXCEPT !.at = IF Tail(items) = <<>> THEN "top" ELSE @]
          /\ UNCHANGED <<assemblies, gates>>
      BY <1>2 DEF DecodeItem
    <2>2. [decoder EXCEPT !.at = @] = decoder
      BY DEF ArtTyped, Decoders
    <2> QED BY <1>1, <1>2, <2>1, <2>2
  <1>3. CASE Head(items).gen = artwork.gen
    <2> DEFINE item == Head(items)
               next == ItemLeaves(item)
               c    == Min(item.chans)
               done == /\ item.type \in {"announce", "part"} /\ next[c].state = "assembling"
                       /\ next[c].left = 0
    <2>1. item.type \in {"announce", "part", "discard", "reconfigure"}
      BY <1>1, TakenItem DEF ArtItems
    <2>2. /\ assemblies' = next
          /\ decoder' = [decoder EXCEPT !.at = IF done THEN "check" ELSE "top",
                                        !.on = IF done THEN c ELSE 0, !.from = "top", !.gen = item.gen]
      BY <1>3, <2>1 DEF DecodeItem, ItemLeaves
    <2>3. gates' = Unparked(Adopted(item.gen) \cup IF item.type = "part" THEN {} ELSE item.chans,
                            IF item.type = "reconfigure" THEN item.chans ELSE {})
      BY <1>3 DEF DecodeItem
    <2>4. item.chans \subseteq Channels
      BY <1>1, TakenItem DEF ArtItems
    <2> QED BY <1>1, <1>3, <2>2, <2>3, <2>4 DEF ItemTakenIn
  <1> QED BY <1>2, <1>3

LEMMA ItemLeavesTypes ==
    ASSUME ArtTyped, Numbered, items # <<>>
    PROVE  LET item == Head(items)
               c == Min(item.chans)
               gone == Adopted(item.gen) \cup IF item.type = "part" THEN {} ELSE item.chans
           IN  /\ ItemLeaves(item) \in [Channels -> Assemblies]
               /\ \A d \in Channels : ~(item.type \in {"announce", "part"} /\ d = c) =>
                    ItemLeaves(item)[d] = IF d \in gone THEN NoAssembly ELSE assemblies[d]
               /\ item.type \in {"announce", "part"} =>
                    ItemLeaves(item)[c] = Assembled(item, c, Discarded(gone)[c])
  <1> DEFINE item == Head(items)
             c == Min(item.chans)
             gone == Adopted(item.gen) \cup IF item.type = "part" THEN {} ELSE item.chans
             kept == Discarded(gone)
  <1>1. /\ kept \in [Channels -> Assemblies]
        /\ \A d \in Channels : kept[d] = IF d \in gone THEN NoAssembly ELSE assemblies[d]
    BY DiscardedTypes
  <1>2. item \in ArtItems /\ (item.type \in {"announce", "part"} => c \in Channels)
    BY TakenItem
  <1>3. item.type \in {"announce", "part", "discard", "reconfigure"}
    BY <1>2 DEF ArtItems
  <1>4. ItemLeaves(item) = IF item.type \in {"discard", "reconfigure"} THEN kept
                           ELSE [kept EXCEPT ![c] = Assembled(item, c, kept[c])]
    BY DEF ItemLeaves
  <1>5. item.type \in {"announce", "part"} => Assembled(item, c, kept[c]) \in Assemblies
    BY <1>1, <1>2, AssembledTypes
  <1> HIDE DEF item, c, kept, gone
  <1>6. /\ ItemLeaves(item) \in [Channels -> Assemblies]
        /\ \A d \in Channels : ~(item.type \in {"announce", "part"} /\ d = c) =>
             ItemLeaves(item)[d] = IF d \in gone THEN NoAssembly ELSE assemblies[d]
        /\ item.type \in {"announce", "part"} => ItemLeaves(item)[c] = Assembled(item, c, kept[c])
    BY <1>1, <1>2, <1>3, <1>4, <1>5
  <1> QED BY <1>6 DEF item, c, gone, kept

\* A gate that is set stays a gate, and no other is touched.
GateSetTo(c, parked, ack) ==
    /\ gates' \in [Channels -> Gates] /\ gates'[c].parked = parked /\ gates'[c].ack = ack
    /\ \A d \in Channels \ {c} : gates'[d] = gates[d]

LEMMA GateSet ==
    ASSUME gates \in [Channels -> Gates], NEW c \in Channels
    PROVE  /\ gates' = [gates EXCEPT ![c].parked = TRUE] => GateSetTo(c, TRUE, gates[c].ack)
           /\ gates' = [gates EXCEPT ![c].parked = FALSE] => GateSetTo(c, FALSE, gates[c].ack)
           /\ \A ack \in {"idle", "delivered", "presented"} :
                gates' = [gates EXCEPT ![c].ack = ack] => GateSetTo(c, gates[c].parked, ack)
  <1>1. ASSUME gates' = [gates EXCEPT ![c].parked = TRUE] PROVE GateSetTo(c, TRUE, gates[c].ack)
    <2> DEFINE g == [gates[c] EXCEPT !.parked = TRUE]
    <2>1. g \in Gates /\ g.parked = TRUE /\ g.ack = gates[c].ack
      BY DEF Gates
    <2>2. gates' = [gates EXCEPT ![c] = g]
      BY <1>1
    <2> HIDE DEF g
    <2> QED BY <2>1, <2>2 DEF GateSetTo
  <1>2. ASSUME gates' = [gates EXCEPT ![c].parked = FALSE] PROVE GateSetTo(c, FALSE, gates[c].ack)
    <2> DEFINE g == [gates[c] EXCEPT !.parked = FALSE]
    <2>1. g \in Gates /\ g.parked = FALSE /\ g.ack = gates[c].ack
      BY DEF Gates
    <2>2. gates' = [gates EXCEPT ![c] = g]
      BY <1>2
    <2> HIDE DEF g
    <2> QED BY <2>1, <2>2 DEF GateSetTo
  <1>3. ASSUME NEW ack \in {"idle", "delivered", "presented"}, gates' = [gates EXCEPT ![c].ack = ack]
        PROVE  GateSetTo(c, gates[c].parked, ack)
    <2> DEFINE g == [gates[c] EXCEPT !.ack = ack]
    <2>1. g \in Gates /\ g.parked = gates[c].parked /\ g.ack = ack
      BY DEF Gates
    <2>2. gates' = [gates EXCEPT ![c] = g]
      BY <1>3
    <2> HIDE DEF g
    <2> QED BY <2>1, <2>2 DEF GateSetTo
  <1> QED BY <1>1, <1>2, <1>3

LEMMA DecodeTypes ==
    ASSUME ArtTyped, Places, Numbered, DecodeStep
    PROVE  ArtTyped' /\ Decodes
  <1>0. /\ artwork \in ArtworkStream /\ artwork.gen \in Nat /\ items \in Seq(ArtItems)
        /\ decoder \in Decoders /\ assemblies \in [Channels -> Assemblies]
        /\ gates \in [Channels -> Gates] /\ display \in ArtDisplays /\ screen \in [Channels -> Screen]
        /\ stirred \in BOOLEAN
    BY DEF ArtTyped, ArtworkStream
  <1>1. Decodes
    BY DecodeItemEffect DEF DecodeStep, DecodeTop, Sweep, DecodeWoken, DeliverCheck, DeliverGate,
                            Decode, HandDisplay, DecodeLeaves
  <1>2. SUFFICES /\ decoder' \in Decoders /\ assemblies' \in [Channels -> Assemblies]
                 /\ items' \in Seq(ArtItems) /\ gates' \in [Channels -> Gates]
                 /\ display' \in ArtDisplays /\ screen' \in [Channels -> Screen] /\ stirred' \in BOOLEAN
    BY <1>1 DEF ArtTyped, Decodes, protocolTask, drainSide
  <1>3. Channels \subseteq Nat /\ NoAssembly \in Assemblies
    BY ArtworkAssumption, EmptyTypes
  <1>4. decoder.from \in {"top", "sweep"} /\ Done \in Decoders
    BY <1>0 DEF Decoders, Done
  <1>5. CASE DecodeTop
    <2> DEFINE kept  == Discarded(Adopted(artwork.gen))
               ready == {c \in Channels : kept[c].state = "ready"}
    <2>1. decoder' = [decoder EXCEPT !.at = IF ready = {} THEN "wait" ELSE "sweep",
                                      !.gen = artwork.gen, !.sweeps = ready]
      BY <1>5 DEF DecodeTop
    <2>2. ready \in SUBSET Channels
      OBVIOUS
    <2> HIDE DEF ready
    <2>3. decoder' \in Decoders
      BY <1>0, <2>1, <2>2 DEF Decoders
    <2> QED BY <1>0, <1>5, <2>3, DiscardedTypes, UnparkedTypes DEF DecodeTop
  <1>6. CASE Sweep
    <2>1. UNCHANGED <<items, stirred, display, screen>>
      BY <1>6 DEF Sweep
    <2>2. CASE decoder.sweeps = {}
      BY <1>0, <1>6, <2>1, <2>2 DEF Sweep, Decoders
    <2>3. CASE decoder.sweeps # {}
      <3> DEFINE c == Min(decoder.sweeps)
                 rest == decoder.sweeps \ {c}
      <3>1. c \in Channels /\ c \in Nat /\ rest \in SUBSET Channels
        BY <1>0, <1>3, <2>3, MinIn DEF Decoders
      <3>2. /\ decoder' \in {[decoder EXCEPT !.sweeps = rest],
                             [decoder EXCEPT !.sweeps = rest, !.at = "check", !.on = c, !.from = "sweep"]}
            /\ gates' \in {gates, [gates EXCEPT ![c].parked = FALSE]}
            /\ assemblies' \in {assemblies, Discarded({c})}
        BY <1>6, <2>3 DEF Sweep
      <3> HIDE DEF c, rest
      <3>3. decoder' \in Decoders
        BY <1>0, <3>1, <3>2 DEF Decoders, Delivering
      <3>4. gates' \in [Channels -> Gates]
        BY <1>0, <3>1, <3>2, GateSet DEF GateSetTo
      <3> QED BY <1>0, <2>1, <3>2, <3>3, <3>4, DiscardedTypes
    <2> QED BY <2>2, <2>3
  <1>7. CASE DecodeWoken
    BY <1>0, <1>7 DEF DecodeWoken, Decoders
  <1>8. CASE DecodeItem
    <2>1. /\ items # <<>> /\ items' = Tail(items) /\ stirred' = FALSE /\ UNCHANGED <<display, screen>>
      BY <1>8, DecodeItemEffect
    <2>2. items' \in Seq(ArtItems) /\ Head(items) \in ArtItems
      BY <2>1, TakenItem
    <2>3. CASE /\ UNCHANGED <<assemblies, gates>>
               /\ decoder' \in {decoder, [decoder EXCEPT !.at = "top"]}
      BY <1>0, <2>1, <2>2, <2>3 DEF Decoders
    <2>4. CASE ItemTakenIn
      <3>1. decoder' \in Decoders
        <4> DEFINE c == Min(Head(items).chans)
                   gen == Head(items).gen
        <4>1. gen \in Nat
          BY <2>2 DEF ArtItems
        <4>2. \/ /\ Head(items).type \in {"announce", "part"}
                 /\ decoder' = [decoder EXCEPT !.at = "check", !.on = c, !.from = "top", !.gen = gen]
              \/ decoder' = [decoder EXCEPT !.at = "top", !.on = 0, !.from = "top", !.gen = gen]
          BY <2>4 DEF ItemTakenIn
        <4>3. Head(items).type \in {"announce", "part"} => c \in Nat
          BY <1>3, <2>1, TakenItem
        <4> HIDE DEF c, gen
        <4>4. ASSUME NEW at \in {"top", "check"}, NEW on \in Nat
              PROVE  [decoder EXCEPT !.at = at, !.on = on, !.from = "top", !.gen = gen] \in Decoders
          BY <1>0, <4>1 DEF Decoders, Delivering
        <4> QED BY <4>2, <4>3, <4>4
      <3>2. assemblies' \in [Channels -> Assemblies]
        BY <2>1, <2>4, ItemLeavesTypes DEF ItemTakenIn
      <3>3. gates' \in [Channels -> Gates]
        BY <2>4, UnparkedTypes DEF ItemTakenIn
      <3> QED BY <1>0, <2>1, <2>2, <3>1, <3>2, <3>3
    <2> QED BY <1>8, <2>3, <2>4, DecodeItemEffect
  <1>9. CASE DeliverCheck
    BY <1>0, <1>3, <1>4, <1>9 DEF DeliverCheck, Decoders, Delivering
  <1>10. CASE DeliverGate
    <2>1. decoder' \in {Done, [decoder EXCEPT !.at = "decode"]}
      BY <1>10 DEF DeliverGate
    <2>2. /\ assemblies' \in {assemblies, [assemblies EXCEPT ![decoder.on].state = "ready"]}
          /\ \/ gates' = gates
             \/ gates' = [gates EXCEPT ![decoder.on].parked = TRUE]
             \/ gates' = [gates EXCEPT ![decoder.on].ack = "delivered"]
          /\ UNCHANGED <<items, stirred, display, screen>>
      BY <1>10 DEF DeliverGate
    <2>3. decoder' \in Decoders
      BY <1>0, <1>4, <2>1 DEF Decoders, Delivering
    <2> DEFINE c == decoder.on
               ready == [assemblies[c] EXCEPT !.state = "ready"]
    <2>6. c \in Channels
      BY <1>10 DEF DeliverGate, Places, Delivering
    <2>7. ready \in Assemblies
      BY <1>0, <2>6, ZenonT(40) DEF Assemblies
    <2>8. assemblies' \in {assemblies, [assemblies EXCEPT ![c] = ready]}
      BY <2>2
    <2> HIDE DEF ready
    <2>4. assemblies' \in [Channels -> Assemblies]
      BY <1>0, <2>6, <2>7, <2>8
    <2>5. gates' \in [Channels -> Gates]
      BY <1>0, <2>2, <2>6, GateSet DEF GateSetTo
    <2> QED BY <1>0, <2>2, <2>3, <2>4, <2>5
  <1>11. CASE Decode
    <2>1. decoder.on \in Channels
      BY <1>11 DEF Decode, Places, Delivering
    <2>2. assemblies[decoder.on].image \in Nat
      BY <1>0, <2>1 DEF Assemblies
    <2>3. decoder' \in Decoders
      BY <1>0, <1>11 DEF Decode, Decoders, Delivering
    <2>4. screen' \in [Channels -> Screen]
      BY <1>0, <1>11, <2>2 DEF Decode, Screen
    <2> QED BY <1>0, <1>11, <2>3, <2>4 DEF Decode
  <1>12. CASE HandDisplay
    <2> DEFINE a == assemblies[decoder.on]
               hold == [image |-> a.image, clear |-> a.clear, due |-> FALSE]
    <2>1. decoder.on \in Channels
      BY <1>12 DEF HandDisplay, Places, Delivering
    <2>2. a \in Assemblies
      BY <1>0, <2>1
    <2>3. hold \in Holds /\ a.gen \in Nat
      BY <2>2 DEF Assemblies, Holds
    <2>4. display' \in {display, Merge(decoder.on, hold, a.gen)}
      BY <1>12 DEF HandDisplay
    <2> HIDE DEF hold
    <2>5. Merge(decoder.on, hold, a.gen) \in ArtDisplays
      BY <1>0, <2>3, EmptyTypes DEF Merge, ArtDisplays
    <2> QED BY <1>0, <1>3, <1>4, <1>12, <2>4, <2>5 DEF HandDisplay
  <1>13. CASE DecodeLeaves
    BY <1>0, <1>13, DiscardedTypes, UnparkedTypes DEF DecodeLeaves, Decoders
  <1> QED BY <1>5, <1>6, <1>7, <1>8, <1>9, <1>10, <1>11, <1>12, <1>13 DEF DecodeStep

\* A stream's end or a teardown, for a channel
LEMMA ClearedEffect ==
    ASSUME ArtTyped, NEW upto \in [Channels -> Nat], Cleared(upto)
    PROVE  /\ holds' \in [Channels -> Holds] /\ gates' \in [Channels -> Gates]
           /\ stirred' \in BOOLEAN /\ screen' \in [Channels -> Screen]
           /\ \A c \in Channels :
                /\ holds'[c] = NoHold /\ ~gates'[c].parked
                /\ c \in Gated => gates'[c].ack = "presented"
                /\ screen'[c].shown = screen[c].shown /\ screen'[c].ended = upto[c]
                /\ screen'[c].owes = (c \in Gated)
  <1>1. /\ gates \in [Channels -> Gates] /\ screen \in [Channels -> Screen] /\ stirred \in BOOLEAN
    BY DEF ArtTyped
  <1>2. holds' = [c \in Channels |-> NoHold]
    BY DEF Cleared
  <1>3. stirred' \in BOOLEAN
    BY <1>1 DEF Cleared
  <1>4. gates' = [c \in Channels |->
                   [parked |-> FALSE, ack |-> IF c \in Gated THEN "presented" ELSE gates[c].ack]]
    BY DEF Cleared
  <1>5. screen' = [c \in Channels |-> [screen[c] EXCEPT !.ended = upto[c], !.owes = c \in Gated]]
    BY DEF Cleared
  <1>6. gates' \in [Channels -> Gates] /\ \A c \in Channels :
          ~gates'[c].parked /\ (c \in Gated => gates'[c].ack = "presented")
    BY <1>1, <1>4 DEF Gates
  <1>7. \A c \in Channels : LET owes == c \in Gated IN
          /\ [screen[c] EXCEPT !.ended = upto[c], !.owes = owes] \in Screen
          /\ [screen[c] EXCEPT !.ended = upto[c], !.owes = owes].shown = screen[c].shown
          /\ [screen[c] EXCEPT !.ended = upto[c], !.owes = owes].ended = upto[c]
          /\ [screen[c] EXCEPT !.ended = upto[c], !.owes = owes].owes = owes
    <2> TAKE c \in Channels
    <2> DEFINE owes == c \in Gated
    <2>1. owes \in BOOLEAN
      OBVIOUS
    <2> HIDE DEF owes
    <2>2. /\ [screen[c] EXCEPT !.ended = upto[c], !.owes = owes] \in Screen
          /\ [screen[c] EXCEPT !.ended = upto[c], !.owes = owes].shown = screen[c].shown
          /\ [screen[c] EXCEPT !.ended = upto[c], !.owes = owes].ended = upto[c]
          /\ [screen[c] EXCEPT !.ended = upto[c], !.owes = owes].owes = owes
      BY <1>1, <2>1 DEF Screen
    <2> QED BY <2>2 DEF owes
  <1>8. screen' \in [Channels -> Screen] /\ \A c \in Channels :
           /\ screen'[c].shown = screen[c].shown /\ screen'[c].ended = upto[c]
           /\ screen'[c].owes = (c \in Gated)
    BY <1>5, <1>7
  <1> QED BY <1>2, <1>3, <1>6, <1>8, EmptyTypes

LEMMA SweptTypes ==
    ASSUME ArtTyped, NEW rest \in SUBSET Channels
    PROVE  /\ Swept(rest) \in Drainers
           /\ Swept(rest).taken = NoDisplay /\ Swept(rest).rest = rest /\ Swept(rest).life = drain.life
           /\ Swept(rest).at = IF rest = {} THEN "idle" ELSE "sweep"
  <1>1. drain \in Drainers
    BY DEF ArtTyped
  <1> QED BY <1>1, EmptyTypes DEF Swept, Drainers, DrainPlaces

\* A teardown is caught up with, or there is none.
LEMMA CaughtUpEffect ==
    ASSUME ArtTyped, NEW gen, CaughtUp(gen)
    PROVE  \/ gen > drain.torn /\ artwork.cut \in [Channels -> Nat] /\ Cleared(artwork.cut)
           \/ ~(gen > drain.torn) /\ UNCHANGED <<holds, gates, stirred, screen>>
  BY DEF ArtTyped, ArtworkStream, CaughtUp

LEMMA CaughtUpTypes ==
    ASSUME ArtTyped, NEW gen, CaughtUp(gen)
    PROVE  /\ holds' \in [Channels -> Holds] /\ gates' \in [Channels -> Gates]
           /\ stirred' \in BOOLEAN /\ screen' \in [Channels -> Screen]
  <1>1. CASE artwork.cut \in [Channels -> Nat] /\ Cleared(artwork.cut)
    BY <1>1, ClearedEffect
  <1>2. CASE UNCHANGED <<holds, gates, stirred, screen>>
    BY <1>2 DEF ArtTyped
  <1> QED BY <1>1, <1>2, CaughtUpEffect

\* Every step of the main loop
MainTurn ==
    \/ DrainStep \/ ArtStop \/ ArtStopped
    \/ \E c \in Channels : Elapse(c) \/ FrameDone(c)

LEMMA ArtMainTypes ==
    ASSUME ArtTyped, Places, MainTurn
    PROVE  ArtTyped' /\ Drains
  <1>0. /\ artwork \in ArtworkStream /\ artwork.gen \in Nat /\ artEvents \in Seq(ArtEvents)
        /\ artwork.cut \in [Channels -> Nat]
        /\ gates \in [Channels -> Gates] /\ display \in ArtDisplays /\ screen \in [Channels -> Screen]
        /\ stirred \in BOOLEAN /\ drain \in Drainers /\ holds \in [Channels -> Holds]
    BY DEF ArtTyped, ArtworkStream
  <1>1. Drains
    BY DEF MainTurn, DrainStep, DrainStarts, DrainEvent, DrainTake, DrainLoad, DrainFold, DrainSweep,
           DrainFire, DrainCalled, ArtStop, ArtStopped, Elapse, FrameDone
  <1>2. SUFFICES /\ holds' \in [Channels -> Holds] /\ gates' \in [Channels -> Gates]
                 /\ stirred' \in BOOLEAN /\ screen' \in [Channels -> Screen]
                 /\ drain' \in Drainers /\ display' \in ArtDisplays /\ artEvents' \in Seq(ArtEvents)
    BY <1>1 DEF ArtTyped, Drains, protocolTask, decodeThread
  <1>3. Channels \subseteq Nat /\ NoHold \in Holds /\ NoDisplay \in ArtDisplays
    BY ArtworkAssumption, EmptyTypes
  <1>4. CASE DrainStarts
    <2>1. drain' \in Drainers
      BY <1>0, <1>4 DEF DrainStarts, Drainers, DrainPlaces
    <2> QED BY <1>0, <1>4, <2>1, CaughtUpTypes DEF DrainStarts
  <1>5. CASE DrainEvent
    <2> DEFINE e == Head(artEvents)
    <2>1. /\ e \in ArtEvents /\ artEvents' \in Seq(ArtEvents) /\ UNCHANGED display
      BY <1>0, <1>5, ItemTaken DEF DrainEvent
    <2>2. e.upto \in [Channels -> Nat] /\ e.gen \in Nat /\ drain.torn \in Nat
      BY <1>0, <2>1 DEF ArtEvents, Drainers
    <2>3. CASE e.kind = "ended" /\ e.gen = artwork.gen
      <3>1. Cleared(e.upto) /\ drain' = [drain EXCEPT !.torn = artwork.gen]
        BY <1>5, <2>3 DEF DrainEvent
      <3>2. drain' \in Drainers
        BY <1>0, <3>1 DEF Drainers
      <3> QED BY <1>0, <2>1, <2>2, <3>1, <3>2, ClearedEffect
    <2>4. CASE e.kind = "cleared" /\ ~(e.kind = "ended" /\ e.gen = artwork.gen)
      <3> DEFINE torn == Max({drain.torn, e.gen})
      <3>1. CaughtUp(e.gen) /\ drain' = [drain EXCEPT !.torn = torn]
        BY <1>5, <2>4 DEF DrainEvent
      <3>2. torn \in Nat
        BY <2>2, MaxOfTwo
      <3> HIDE DEF torn
      <3>3. drain' \in Drainers
        BY <1>0, <3>1, <3>2 DEF Drainers
      <3> QED BY <1>0, <2>1, <3>1, <3>3, CaughtUpTypes
    <2>5. CASE ~(e.kind = "ended" /\ e.gen = artwork.gen) /\ e.kind # "cleared"
      BY <1>0, <1>5, <2>1, <2>5 DEF DrainEvent
    <2> QED BY <2>3, <2>4, <2>5
  <1>6. CASE DrainTake
    <2>1. drain' \in Drainers
      BY <1>0, <1>6 DEF DrainTake, Drainers, DrainPlaces
    <2> QED BY <1>0, <1>3, <1>6, <2>1 DEF DrainTake
  <1>7. CASE DrainLoad
    <2> DEFINE taken == IF drain.taken.gen = artwork.gen THEN drain.taken ELSE NoDisplay
    <2>1. taken \in ArtDisplays
      BY <1>0, <1>3 DEF Drainers
    <2>2. drain' = [drain EXCEPT !.at = "fold", !.torn = artwork.gen, !.gen = artwork.gen,
                                 !.taken = taken]
      BY <1>7 DEF DrainLoad
    <2> HIDE DEF taken
    <2>3. drain' \in Drainers
      BY <1>0, <2>1, <2>2 DEF Drainers, DrainPlaces
    <2> QED BY <1>0, <1>7, <2>3, CaughtUpTypes DEF DrainLoad
  <1>8. CASE DrainFold
    <2>1. UNCHANGED <<gates, stirred, display, artEvents, screen>>
      BY <1>8 DEF DrainFold
    <2>2. CASE drain.gen # artwork.gen
      BY <1>0, <1>8, <2>1, <2>2, SweptTypes DEF DrainFold
    <2>3. CASE drain.gen = artwork.gen
      <3>1. /\ holds' = [c \in Channels |->
                           IF drain.taken.of[c] # NoHold THEN drain.taken.of[c] ELSE holds[c]]
            /\ drain' = Swept({c \in Channels : holds'[c] # NoHold})
        BY <1>8, <2>3 DEF DrainFold
      <3>2. \A c \in Channels : drain.taken.of[c] \in Holds
        BY <1>0 DEF Drainers, ArtDisplays
      <3>3. holds' \in [Channels -> Holds]
        BY <1>0, <3>1, <3>2
      <3> QED BY <1>0, <2>1, <3>1, <3>3, SweptTypes
    <2> QED BY <2>2, <2>3
  <1>9. CASE DrainSweep
    <2> DEFINE c == Min(drain.rest)
               rest == drain.rest \ {c}
    <2>1. c \in Channels /\ rest \in SUBSET Channels
      BY <1>0, <1>3, <1>9, MinIn DEF DrainSweep, Places, Drainers
    <2>2. UNCHANGED <<display, artEvents, screen>>
      BY <1>9 DEF DrainSweep
    <2>3. \/ /\ holds' = [holds EXCEPT ![c] = NoHold] /\ drain' = Swept(rest)
             /\ \/ gates' = gates
                \/ gates' = [gates EXCEPT ![c].ack = Reopened(@)]
             /\ stirred' = (stirred \/ gates[c].parked)
          \/ drain' = [drain EXCEPT !.at = "fire"] /\ UNCHANGED <<holds, gates, stirred>>
          \/ drain' = Swept(rest) /\ UNCHANGED <<holds, gates, stirred>>
      BY <1>9 DEF DrainSweep
    <2>4. Reopened(gates[c].ack) \in {"idle", "delivered", "presented"}
      BY <1>0, <2>1 DEF Reopened, Gates
    <2>5. [gates EXCEPT ![c].ack = Reopened(@)] = [gates EXCEPT ![c].ack = Reopened(gates[c].ack)]
      OBVIOUS
    <2>6. gates[c].parked \in BOOLEAN
      BY <1>0, <2>1 DEF Gates
    <2> HIDE DEF c, rest
    <2>7. gates' \in [Channels -> Gates]
      BY <1>0, <2>1, <2>3, <2>4, <2>5, GateSet DEF GateSetTo
    <2>8. drain' \in Drainers
      <3>1. [drain EXCEPT !.at = "fire"] \in Drainers
        BY <1>0 DEF Drainers, DrainPlaces
      <3> QED BY <2>1, <2>3, <3>1, SweptTypes
    <2>9. holds' \in [Channels -> Holds]
      BY <1>0, <1>3, <2>3
    <2>10. stirred' \in BOOLEAN
      BY <1>0, <2>3, <2>6
    <2> QED BY <1>0, <2>2, <2>7, <2>8, <2>9, <2>10
  <1>10. CASE DrainFire
    <2> DEFINE c == Min(drain.rest)
               owes == c \in Gated
               s == [screen[c] EXCEPT !.shown = holds[c].image, !.owes = owes]
    <2>1. c \in Channels
      BY <1>0, <1>3, <1>10, MinIn DEF DrainFire, Places, Drainers
    <2>2. owes \in BOOLEAN
      OBVIOUS
    <2>3. screen' = [screen EXCEPT ![c] = s] /\ UNCHANGED <<stirred, display, artEvents>>
      BY <1>10 DEF DrainFire
    <2>4. holds' = [holds EXCEPT ![c] = NoHold] /\ drain' = [drain EXCEPT !.at = "called"]
      BY <1>10 DEF DrainFire
    <2>5. gates' = gates \/ gates' = [gates EXCEPT ![c].ack = "presented"]
      BY <1>10 DEF DrainFire
    <2> HIDE DEF c, owes
    <2>6. s \in Screen
      BY <1>0, <2>1, <2>2 DEF Screen, Holds
    <2> HIDE DEF s
    <2>7. screen' \in [Channels -> Screen] /\ holds' \in [Channels -> Holds]
      BY <1>0, <1>3, <2>3, <2>4, <2>6
    <2>8. gates' \in [Channels -> Gates]
      BY <1>0, <2>1, <2>5, GateSet DEF GateSetTo
    <2>9. drain' \in Drainers
      BY <1>0, <2>4 DEF Drainers, DrainPlaces
    <2> QED BY <1>0, <2>3, <2>7, <2>8, <2>9
  <1>11. CASE DrainCalled
    <2>1. /\ drain' = Swept(IF drain.gen = artwork.gen THEN drain.rest \ {Min(drain.rest)} ELSE {})
          /\ UNCHANGED <<holds, gates, stirred, display, artEvents, screen>>
      BY <1>11 DEF DrainCalled
    <2>2. drain.rest \in SUBSET Channels
      BY <1>0 DEF Drainers
    <2>3. drain' \in Drainers
      BY <2>1, <2>2, SweptTypes
    <2> QED BY <1>0, <2>1, <2>3
  <1>12. ASSUME NEW c \in Channels, Elapse(c)
         PROVE  /\ holds' \in [Channels -> Holds] /\ gates' \in [Channels -> Gates]
                /\ stirred' \in BOOLEAN /\ screen' \in [Channels -> Screen]
                /\ drain' \in Drainers /\ display' \in ArtDisplays /\ artEvents' \in Seq(ArtEvents)
    <2> DEFINE h == [holds[c] EXCEPT !.due = TRUE]
    <2>1. h \in Holds
      BY <1>0 DEF Holds
    <2>2. holds' = [holds EXCEPT ![c] = h] /\ UNCHANGED <<drain, gates, stirred, display, artEvents, screen>>
      BY <1>12 DEF Elapse
    <2> HIDE DEF h
    <2> QED BY <1>0, <2>1, <2>2
  <1>13. ASSUME NEW c \in Channels, FrameDone(c)
         PROVE  /\ holds' \in [Channels -> Holds] /\ gates' \in [Channels -> Gates]
                /\ stirred' \in BOOLEAN /\ screen' \in [Channels -> Screen]
                /\ drain' \in Drainers /\ display' \in ArtDisplays /\ artEvents' \in Seq(ArtEvents)
    <2> DEFINE s == [screen[c] EXCEPT !.owes = FALSE]
    <2>1. s \in Screen /\ gates[c].parked \in BOOLEAN
      BY <1>0 DEF Screen, Gates
    <2>2. /\ screen' = [screen EXCEPT ![c] = s] /\ gates' = [gates EXCEPT ![c].ack = "idle"]
          /\ stirred' = (stirred \/ gates[c].parked) /\ UNCHANGED <<drain, holds, display, artEvents>>
      BY <1>13 DEF FrameDone
    <2> HIDE DEF s
    <2>3. gates' \in [Channels -> Gates]
      BY <1>0, <2>2, GateSet DEF GateSetTo
    <2>4. stirred' \in BOOLEAN
      BY <1>0, <2>1, <2>2
    <2> QED BY <1>0, <2>1, <2>2, <2>3, <2>4
  <1>14. CASE ArtStop
    BY <1>0, <1>14 DEF ArtStop, Drainers, DrainPlaces
  <1>15. CASE ArtStopped
    BY <1>0, <1>15 DEF ArtStopped, Drainers
  <1> QED BY <1>4, <1>5, <1>6, <1>7, <1>8, <1>9, <1>10, <1>11, <1>12, <1>13, <1>14, <1>15
          DEF MainTurn, DrainStep

\* A teardown goes on to its end.
TearsDown ==
    /\ TornDownTo(artwork.gen) \/ (~artwork.removing /\ TornDownTo(artwork.gen + 1))
    /\ UNCHANGED <<decodeThread, gates, display, holds, screen>>
    /\ drain'.taken = drain.taken
    /\ drain' = drain \/ (drain'.at = "idle" /\ decoder.at = "out")

\* The role starts again.
Restarts ==
    /\ UNCHANGED <<protocolTask, items, assemblies, holds, gates, display, artEvents, screen>>
    /\ drain.life = "stopped" /\ drain' = [drain EXCEPT !.life = "up"]
    /\ decoder' = [decoder EXCEPT !.at = "top"]
    /\ drain'.at = drain.at /\ drain'.taken = drain.taken /\ drain'.rest = drain.rest
    /\ drain'.gen = drain.gen

LEMMA ArtLifeTypes ==
    ASSUME ArtTyped, ArtRecall \/ ArtJoin \/ ArtStart
    PROVE  ArtTyped' /\ (TearsDown \/ Restarts)
  <1>0. artwork.gen \in Nat /\ drain \in Drainers /\ stirred \in BOOLEAN /\ decoder \in Decoders
    BY DEF ArtTyped, ArtworkStream
  <1>1. CASE ArtRecall
    BY <1>0, <1>1, TornDownEffect, TornDownTypes DEF ArtRecall, drainSide, TearsDown
  <1>2. CASE ArtJoin
    <2>1. TornDownTo(artwork.gen + 1)
      BY <1>2, TornDownEffect DEF ArtJoin
    <2>2. /\ drain' \in Drainers /\ drain'.at = "idle" /\ drain'.taken = drain.taken
      BY <1>0, <1>2 DEF ArtJoin, Drainers, DrainPlaces
    <2> QED BY <1>0, <1>2, <2>1, <2>2, TornDownTypes DEF ArtJoin, TearsDown
  <1>3. CASE ArtStart
    <2>1. /\ UNCHANGED <<protocolTask, items, assemblies, holds, gates, display, artEvents, screen>>
          /\ drain' = [drain EXCEPT !.life = "up"] /\ decoder' = [decoder EXCEPT !.at = "top"]
          /\ stirred' = FALSE /\ drain.life = "stopped"
      BY <1>3 DEF ArtStart
    <2>2. /\ drain' \in Drainers /\ drain'.at = drain.at /\ drain'.taken = drain.taken
          /\ drain'.rest = drain.rest /\ drain'.gen = drain.gen
      BY <1>0, <2>1 DEF Drainers
    <2>3. decoder' \in Decoders
      BY <1>0, <2>1 DEF Decoders
    <2>4. ArtTyped'
      BY <2>1, <2>2, <2>3 DEF ArtTyped, protocolTask
    <2> QED BY <2>1, <2>2, <2>4 DEF Restarts
  <1> QED BY <1>1, <1>2, <1>3

\* Whose step it is
LEMMA ArtSteps ==
    ASSUME ArtTyped, Places, Carried, Numbered, ArtworkNext
    PROVE  Handled \/ DecodeStep \/ MainTurn \/ TearsDown \/ Restarts
  BY ProtocolEffect, ArtLifeTypes DEF ArtworkNext, MainTurn

LEMMA ArtTypesStep ==
    ASSUME ArtTyped, Places, Carried, Numbered, [ArtworkNext]_artworkVars
    PROVE  ArtTyped'
  <1>1. CASE UNCHANGED artworkVars
    BY <1>1 DEF ArtTyped, artworkVars, protocolTask, decodeThread, drainSide
  <1>2. CASE ArtworkNext
    <2>1. CASE ArtworkStep
      BY <2>1, ProtocolEffect, HandledTypes
    <2> QED BY <1>2, <2>1, DecodeTypes, ArtMainTypes, ArtLifeTypes DEF ArtworkNext, MainTurn
  <1> QED BY <1>1, <1>2

-----------------------------------------------------------------------------
(* The artwork role: what a turn of the main loop does to the images *)

\* What was taken waits, or is given up.
TakenKept == drain'.taken = drain.taken \/ drain'.taken = NoDisplay

\* No image is shown; some are given up.
Idles ==
    /\ \A c \in Channels :
         /\ holds'[c] = NoHold \/ (holds[c] # NoHold /\ holds'[c].image = holds[c].image)
            \/ holds'[c] = holds[c]
         /\ screen'[c].shown = screen[c].shown /\ screen'[c].ended = screen[c].ended
    /\ TakenKept /\ display' = display
    /\ artEvents' = artEvents \/ (artEvents # <<>> /\ artEvents' = Tail(artEvents))

\* Every channel is cleared, for a teardown or for a stream's end.
ClearsAll ==
    /\ \E upto \in [Channels -> Nat] :
          /\ upto = artwork.cut
             \/ (artEvents # <<>> /\ Head(artEvents).kind = "ended" /\ upto = Head(artEvents).upto)
          /\ \A c \in Channels : screen'[c].ended = upto[c]
    /\ \A c \in Channels : holds'[c] = NoHold /\ screen'[c].shown = screen[c].shown
    /\ TakenKept /\ display' = display
    /\ artEvents' = artEvents \/ (artEvents # <<>> /\ artEvents' = Tail(artEvents))

TakesDisplay ==
    /\ drain'.taken = display /\ display' = NoDisplay /\ UNCHANGED <<holds, screen, artEvents>>

Folds ==
    /\ drain.at = "fold" /\ drain.gen = artwork.gen
    /\ \A c \in Channels :
         holds'[c] = IF drain.taken.of[c] # NoHold THEN drain.taken.of[c] ELSE holds[c]
    /\ drain'.taken = NoDisplay /\ UNCHANGED <<display, screen, artEvents>>

Presents ==
    /\ drain.at = "fire" /\ Min(drain.rest) \in Channels /\ TakenKept /\ UNCHANGED <<display, artEvents>>
    /\ \A c \in Channels :
         /\ screen'[c].ended = screen[c].ended
         /\ IF c = Min(drain.rest) THEN screen'[c].shown = holds[c].image /\ holds'[c] = NoHold
            ELSE screen'[c].shown = screen[c].shown /\ holds'[c] = holds[c]

LEMMA MainEffect ==
    ASSUME ArtTyped, Places, MainTurn
    PROVE  /\ Drains
           /\ Idles \/ ClearsAll \/ TakesDisplay \/ Folds \/ Presents
  <1>0. /\ artwork \in ArtworkStream /\ artwork.gen \in Nat /\ artEvents \in Seq(ArtEvents)
        /\ artwork.cut \in [Channels -> Nat]
        /\ screen \in [Channels -> Screen] /\ drain \in Drainers /\ holds \in [Channels -> Holds]
    BY DEF ArtTyped, ArtworkStream
  <1>1. Drains
    BY ArtMainTypes
  <1>2. Channels \subseteq Nat
    BY ArtworkAssumption
  <1>3. ASSUME UNCHANGED <<holds, screen>>
        PROVE  \A c \in Channels :
                 /\ holds'[c] = holds[c]
                 /\ screen'[c].shown = screen[c].shown /\ screen'[c].ended = screen[c].ended
    BY <1>3
  <1>4. ASSUME NEW gen, CaughtUp(gen), TakenKept, display' = display,
               artEvents' = artEvents \/ (artEvents # <<>> /\ artEvents' = Tail(artEvents))
        PROVE  Idles \/ ClearsAll
    <2>1. CASE Cleared(artwork.cut)
      BY <1>0, <1>4, <2>1, ClearedEffect DEF ClearsAll
    <2>2. CASE UNCHANGED <<holds, gates, stirred, screen>>
      BY <1>3, <1>4, <2>2 DEF Idles
    <2> QED BY <1>4, <2>1, <2>2, CaughtUpEffect
  <1>5. CASE DrainStarts
    <2>1. drain'.taken = drain.taken
      BY <1>0, <1>5 DEF DrainStarts, Drainers
    <2> QED BY <1>1, <1>4, <1>5, <2>1 DEF DrainStarts, TakenKept
  <1>6. CASE DrainEvent
    <2> DEFINE e == Head(artEvents)
    <2>1. /\ artEvents # <<>> /\ artEvents' = Tail(artEvents) /\ display' = display
      BY <1>6 DEF DrainEvent
    <2>2. e \in ArtEvents
      BY <1>0, <2>1, ItemTaken
    <2>3. drain'.taken = drain.taken
      BY <1>0, <1>6 DEF DrainEvent, Drainers
    <2>4. CASE e.kind = "ended" /\ e.gen = artwork.gen
      <3>1. Cleared(e.upto) /\ e.upto \in [Channels -> Nat]
        BY <1>6, <2>2, <2>4 DEF DrainEvent, ArtEvents
      <3> QED BY <1>1, <2>1, <2>3, <2>4, <3>1, ClearedEffect DEF ClearsAll, TakenKept
    <2>5. CASE ~(e.kind = "ended" /\ e.gen = artwork.gen) /\ e.kind = "cleared"
      BY <1>1, <1>4, <1>6, <2>1, <2>3, <2>5 DEF DrainEvent, TakenKept
    <2>6. CASE ~(e.kind = "ended" /\ e.gen = artwork.gen) /\ e.kind # "cleared"
      <3>1. UNCHANGED <<holds, screen>>
        BY <1>6, <2>6 DEF DrainEvent
      <3> QED BY <1>1, <1>3, <2>1, <2>3, <3>1 DEF Idles, TakenKept
    <2> QED BY <2>4, <2>5, <2>6
  <1>7. CASE DrainTake
    <2>1. UNCHANGED <<holds, screen, artEvents>> /\ display' = NoDisplay
      BY <1>7 DEF DrainTake
    <2>2. drain'.taken = IF Pending THEN display ELSE drain.taken
      BY <1>0, <1>7 DEF DrainTake, Drainers
    <2>3. ~Pending => display = NoDisplay
      BY DEF Pending
    <2>4. CASE Pending
      BY <1>1, <2>1, <2>2, <2>4 DEF TakesDisplay
    <2>5. CASE ~Pending
      BY <1>1, <1>3, <2>1, <2>2, <2>3, <2>5 DEF Idles, TakenKept
    <2> QED BY <2>4, <2>5
  <1>8. CASE DrainLoad
    <2>1. TakenKept
      BY <1>0, <1>8 DEF DrainLoad, Drainers, TakenKept
    <2> QED BY <1>1, <1>4, <1>8, <2>1 DEF DrainLoad
  <1>9. CASE DrainFold
    <2>1. UNCHANGED <<gates, stirred, display, artEvents, screen>> /\ drain.at = "fold"
      BY <1>9 DEF DrainFold
    <2>2. CASE drain.gen # artwork.gen
      <3>1. UNCHANGED holds /\ drain'.taken = NoDisplay
        BY <1>9, <2>2, SweptTypes DEF DrainFold
      <3> QED BY <1>1, <1>3, <2>1, <3>1 DEF Idles, TakenKept
    <2>3. CASE drain.gen = artwork.gen
      <3>1. /\ holds' = [c \in Channels |->
                           IF drain.taken.of[c] # NoHold THEN drain.taken.of[c] ELSE holds[c]]
            /\ drain' = Swept({c \in Channels : holds'[c] # NoHold})
        BY <1>9, <2>3 DEF DrainFold
      <3>2. drain'.taken = NoDisplay
        BY <3>1, SweptTypes
      <3> QED BY <1>1, <2>1, <2>3, <3>1, <3>2 DEF Folds
    <2> QED BY <2>2, <2>3
  <1>10. CASE DrainSweep
    <2> DEFINE c == Min(drain.rest)
               rest == drain.rest \ {c}
    <2>1. rest \in SUBSET Channels
      BY <1>0 DEF Drainers
    <2>2. UNCHANGED <<display, artEvents, screen>>
      BY <1>10 DEF DrainSweep
    <2>3. /\ holds' \in {holds, [holds EXCEPT ![c] = NoHold]}
          /\ drain' \in {Swept(rest), [drain EXCEPT !.at = "fire"]}
      BY <1>10 DEF DrainSweep
    <2>4. TakenKept
      BY <1>0, <2>1, <2>3, SweptTypes DEF TakenKept, Drainers
    <2>5. \A d \in Channels : holds'[d] = NoHold \/ holds'[d] = holds[d]
      BY <1>0, <2>3
    <2> QED BY <1>1, <2>2, <2>4, <2>5 DEF Idles
  <1>11. CASE DrainFire
    <2> DEFINE c == Min(drain.rest)
               owes == c \in Gated
    <2>1. c \in Channels
      BY <1>0, <1>2, <1>11, MinIn DEF DrainFire, Places, Drainers
    <2>2. owes \in BOOLEAN
      OBVIOUS
    <2>3. screen' = [screen EXCEPT ![c].shown = holds[c].image, ![c].owes = owes]
          /\ UNCHANGED <<stirred, display, artEvents>> /\ drain.at = "fire"
      BY <1>11 DEF DrainFire
    <2>4. holds' = [holds EXCEPT ![c] = NoHold] /\ drain' = [drain EXCEPT !.at = "called"]
      BY <1>11 DEF DrainFire
    <2>5. drain'.taken = drain.taken
      BY <1>0, <2>4 DEF Drainers
    <2> HIDE DEF owes
    <2>6. \A d \in Channels :
            /\ screen'[d].ended = screen[d].ended
            /\ screen'[d].shown = IF d = c THEN holds[d].image ELSE screen[d].shown
            /\ holds'[d] = IF d = c THEN NoHold ELSE holds[d]
      BY <1>0, <2>1, <2>2, <2>3, <2>4 DEF Screen
    <2> QED BY <1>1, <2>1, <2>3, <2>5, <2>6 DEF Presents, TakenKept
  <1>12. CASE DrainCalled
    <2>1. /\ drain' = Swept(IF drain.gen = artwork.gen THEN drain.rest \ {Min(drain.rest)} ELSE {})
          /\ UNCHANGED <<holds, gates, stirred, display, artEvents, screen>>
      BY <1>12 DEF DrainCalled
    <2>2. drain'.taken = NoDisplay
      BY <1>0, <2>1, SweptTypes DEF Drainers
    <2> QED BY <1>1, <1>3, <2>1, <2>2 DEF Idles, TakenKept
  <1>13. ASSUME NEW c \in Channels, Elapse(c)
         PROVE  Idles
    <2> DEFINE h == [holds[c] EXCEPT !.due = TRUE]
    <2>1. h.image = holds[c].image
      BY <1>0 DEF Holds
    <2>2. /\ holds' = [holds EXCEPT ![c] = h] /\ UNCHANGED <<drain, display, artEvents, screen>>
          /\ holds[c] # NoHold
      BY <1>13 DEF Elapse
    <2> HIDE DEF h
    <2>3. \A d \in Channels : (holds[d] # NoHold /\ holds'[d].image = holds[d].image) \/ holds'[d] = holds[d]
      BY <1>0, <2>1, <2>2
    <2> QED BY <2>2, <2>3 DEF Idles, TakenKept
  <1>14. ASSUME NEW c \in Channels, FrameDone(c)
         PROVE  Idles
    <2> DEFINE s == [screen[c] EXCEPT !.owes = FALSE]
    <2>1. s.shown = screen[c].shown /\ s.ended = screen[c].ended
      BY <1>0 DEF Screen
    <2>2. screen' = [screen EXCEPT ![c] = s] /\ UNCHANGED <<drain, holds, display, artEvents>>
      BY <1>14 DEF FrameDone
    <2> HIDE DEF s
    <2>3. \A d \in Channels : screen'[d].shown = screen[d].shown /\ screen'[d].ended = screen[d].ended
      BY <1>0, <2>1, <2>2
    <2> QED BY <2>2, <2>3 DEF Idles, TakenKept
  <1>15. CASE ArtStop \/ ArtStopped
    <2>1. drain'.taken = drain.taken /\ UNCHANGED <<holds, display, artEvents, screen>>
      BY <1>0, <1>15 DEF ArtStop, ArtStopped, Drainers
    <2> QED BY <1>1, <1>3, <2>1 DEF Idles, TakenKept
  <1> QED BY <1>1, <1>5, <1>6, <1>7, <1>8, <1>9, <1>10, <1>11, <1>12, <1>13, <1>14, <1>15
          DEF MainTurn, DrainStep

-----------------------------------------------------------------------------
(* The artwork role: what a step of the decode thread does to the images *)

\* An assembly is dropped, or is still of its image.
Remains(c) ==
    \/ assemblies'[c] = NoAssembly
    \/ /\ assemblies'[c].image = assemblies[c].image /\ assemblies'[c].gen = assemblies[c].gen
       /\ assemblies'[c].state = "idle" <=> assemblies[c].state = "idle"
       /\ assemblies'[c].state = "assembling" => assemblies[c].state = "assembling"

ItemLeft == items # <<>> /\ items' = Tail(items)

\* No assembly begins, and none is handed on.
Drops ==
    /\ \A c \in Channels : Remains(c)
    /\ \/ items' = items
       \/ ItemLeft /\ (Head(items).type # "announce" \/ Head(items).gen # artwork.gen)
    /\ display' = display

\* The image of an announce is begun.
Begins ==
    /\ ItemLeft /\ Head(items).type = "announce" /\ display' = display
    /\ \E c \in Channels :
          /\ Head(items).chans = {c} /\ Head(items).gen = artwork.gen
          /\ assemblies'[c].image = Head(items).image /\ assemblies'[c].gen = Head(items).gen
          /\ assemblies'[c].state = "assembling"
          /\ \A d \in Channels \ {c} : Remains(d)

\* An assembly becomes a display.
Hands ==
    /\ items' = items
    /\ \E c \in Channels : \E hold \in Holds :
          /\ hold.image = assemblies[c].image /\ assemblies[c].state # "idle"
          /\ display' = Merge(c, hold, assemblies[c].gen)
          /\ assemblies'[c] = NoAssembly /\ \A d \in Channels \ {c} : assemblies'[d] = assemblies[d]

LEMMA DecodeEffect ==
    ASSUME ArtTyped, Places, Numbered, \A c \in Channels : Complete(c), DecodeStep
    PROVE  /\ Decodes
           /\ \A c \in Channels :
                screen'[c].shown = screen[c].shown /\ screen'[c].ended = screen[c].ended
                                                   /\ screen'[c].owes = screen[c].owes
           /\ Drops \/ Begins \/ Hands
  <1>0. /\ assemblies \in [Channels -> Assemblies] /\ screen \in [Channels -> Screen]
    BY DEF ArtTyped
  <1>1. Decodes
    BY DecodeTypes
  <1>2. ASSUME UNCHANGED screen
        PROVE  \A c \in Channels :
                 screen'[c].shown = screen[c].shown /\ screen'[c].ended = screen[c].ended
                                                    /\ screen'[c].owes = screen[c].owes
    BY <1>2
  <1>3. ASSUME \A c \in Channels : assemblies'[c] \in {NoAssembly, assemblies[c]}
        PROVE  \A c \in Channels : Remains(c)
    BY <1>3 DEF Remains
  <1>4. \A chans : \A c \in Channels : Discarded(chans)[c] \in {NoAssembly, assemblies[c]}
    BY DiscardedTypes
  <1>5. CASE DecodeTop \/ Sweep \/ DecodeWoken \/ DecodeLeaves
    <2>1. UNCHANGED <<display, screen, items>>
      BY <1>5 DEF DecodeTop, Sweep, DecodeWoken, DecodeLeaves
    <2>2. assemblies' = assemblies \/ \E chans : assemblies' = Discarded(chans)
      BY <1>5 DEF DecodeTop, Sweep, DecodeWoken, DecodeLeaves
    <2> QED BY <1>1, <1>2, <1>3, <1>4, <2>1, <2>2 DEF Drops
  <1>6. CASE DecodeItem
    <2> DEFINE item == Head(items)
               c == Min(item.chans)
               gone == Adopted(item.gen) \cup IF item.type = "part" THEN {} ELSE item.chans
    <2>1. ItemLeft /\ UNCHANGED <<display, screen>>
      BY <1>6, DecodeItemEffect DEF ItemLeft
    <2>2. CASE item.gen # artwork.gen /\ UNCHANGED assemblies
      BY <1>1, <1>2, <1>3, <2>1, <2>2 DEF Drops
    <2>3. CASE ItemTakenIn
      <3>1. /\ assemblies' = ItemLeaves(item) /\ item.gen = artwork.gen /\ item \in ArtItems
            /\ item.type \in {"announce", "part"} => c \in Channels /\ item.chans = {c}
        BY <2>1, <2>3, TakenItem DEF ItemTakenIn, ItemLeft
      <3>2. \A d \in Channels : ~(item.type \in {"announce", "part"} /\ d = c) =>
              assemblies'[d] \in {NoAssembly, assemblies[d]}
        BY <2>1, <3>1, ItemLeavesTypes DEF ItemLeft
      <3>3. item.type \in {"announce", "part"} =>
              assemblies'[c] = Assembled(item, c, Discarded(gone)[c])
        BY <2>1, <3>1, ItemLeavesTypes DEF ItemLeft
      <3>4. \A d \in Channels : (item.type \in {"announce", "part"} /\ d = c) \/ Remains(d)
        BY <3>2 DEF Remains
      <3>5. CASE item.type \notin {"announce", "part"}
        BY <1>1, <1>2, <1>3, <2>1, <3>2, <3>5 DEF Drops
      <3>6. CASE item.type = "announce"
        <4>1. /\ assemblies'[c].image = item.image /\ assemblies'[c].gen = item.gen
              /\ assemblies'[c].state = "assembling"
          <5>1. Discarded(gone)[c] \in Assemblies
            BY <3>1, <3>6, DiscardedTypes
          <5> QED BY <3>1, <3>3, <3>6, <5>1, AssembledTypes
        <4>2. \A d \in Channels \ {c} : Remains(d)
          BY <3>2 DEF Remains
        <4> QED BY <1>1, <1>2, <2>1, <3>1, <3>6, <4>1, <4>2 DEF Begins
      <3>7. CASE item.type = "part"
        <4> DEFINE a == Discarded(gone)[c]
        <4>1. a \in Assemblies /\ a \in {NoAssembly, assemblies[c]} /\ c \in Channels
          BY <1>4, <3>1, <3>7, DiscardedTypes
        <4>2. CASE a.state = "assembling"
          <5>1. a = assemblies[c]
            BY <4>1, <4>2 DEF NoAssembly
          <5> HIDE DEF a
          <5>2. /\ assemblies'[c].image = assemblies[c].image /\ assemblies'[c].gen = assemblies[c].gen
                /\ assemblies'[c].state = "assembling" /\ assemblies[c].state = "assembling"
            BY <3>1, <3>3, <3>7, <4>1, <4>2, <5>1, AssembledTypes DEF a
          <5>3. Remains(c)
            BY <5>2 DEF Remains
          <5> QED BY <1>1, <1>2, <2>1, <3>7, <3>4, <5>3 DEF Drops
        <4>3. CASE a.state # "assembling"
          <5>1. assemblies'[c] = a
            BY <3>1, <3>3, <3>7, <4>1, <4>3, AssembledTypes
          <5>2. Remains(c)
            BY <4>1, <5>1 DEF Remains
          <5> QED BY <1>1, <1>2, <2>1, <3>7, <3>4, <5>2 DEF Drops
        <4> QED BY <4>2, <4>3
      <3> QED BY <3>1, <3>5, <3>6, <3>7 DEF ArtItems
    <2> QED BY <1>6, <2>2, <2>3, DecodeItemEffect
  <1>7. CASE DeliverCheck
    <2>1. UNCHANGED <<items, display, screen>>
      BY <1>7 DEF DeliverCheck
    <2>2. \A c \in Channels : assemblies'[c] \in {NoAssembly, assemblies[c]}
      BY <1>0, <1>7 DEF DeliverCheck
    <2> QED BY <1>1, <1>2, <1>3, <2>1, <2>2 DEF Drops
  <1>8. CASE DeliverGate
    <2> DEFINE c == decoder.on
               ready == [assemblies[c] EXCEPT !.state = "ready"]
    <2>1. UNCHANGED <<items, display, screen>>
      BY <1>8 DEF DeliverGate
    <2>2. c \in Channels /\ assemblies[c].state # "idle"
      BY <1>8 DEF DeliverGate, Places, Delivering, Complete, Delivers
    <2>3. /\ ready.state = "ready" /\ ready.image = assemblies[c].image /\ ready.gen = assemblies[c].gen
      BY <1>0, <2>2 DEF Assemblies
    <2>4. assemblies' \in {assemblies, [assemblies EXCEPT ![c] = ready]}
      BY <1>8 DEF DeliverGate
    <2> HIDE DEF ready
    <2>5. \A d \in Channels : Remains(d)
      BY <1>0, <2>2, <2>3, <2>4 DEF Remains
    <2> QED BY <1>1, <1>2, <2>1, <2>5 DEF Drops
  <1>9. CASE Decode
    <2> DEFINE c == decoder.on
               s == [screen[c] EXCEPT !.decoded = assemblies[c].image]
    <2>1. UNCHANGED <<items, display, assemblies>> /\ c \in Channels
      BY <1>9 DEF Decode, Places, Delivering
    <2>2. s.shown = screen[c].shown /\ s.ended = screen[c].ended /\ s.owes = screen[c].owes
      BY <1>0, <2>1 DEF Screen
    <2>3. screen' \in {screen, [screen EXCEPT ![c] = s]}
      BY <1>9 DEF Decode
    <2> HIDE DEF s
    <2>4. \A d \in Channels :
            screen'[d].shown = screen[d].shown /\ screen'[d].ended = screen[d].ended
                                               /\ screen'[d].owes = screen[d].owes
      BY <1>0, <2>1, <2>2, <2>3
    <2> QED BY <1>1, <1>3, <2>1, <2>4 DEF Drops
  <1>10. CASE HandDisplay
    <2> DEFINE c == decoder.on
               a == assemblies[c]
               hold == [image |-> a.image, clear |-> a.clear, due |-> FALSE]
    <2>1. UNCHANGED <<items, screen>> /\ c \in Channels /\ a.state # "idle"
      BY <1>10 DEF HandDisplay, Places, Delivering, Complete, Delivers
    <2>2. hold \in Holds /\ hold.image = a.image
      BY <1>0, <2>1 DEF Assemblies, Holds
    <2>3. /\ display' = display \/ display' = Merge(c, hold, a.gen)
          /\ assemblies' = [assemblies EXCEPT ![c] = NoAssembly]
      BY <1>10 DEF HandDisplay
    <2> HIDE DEF hold
    <2>4. assemblies'[c] = NoAssembly /\ \A d \in Channels \ {c} : assemblies'[d] = assemblies[d]
      BY <1>0, <2>1, <2>3
    <2>5. CASE display' = display
      BY <1>1, <1>2, <1>3, <2>1, <2>4, <2>5 DEF Drops
    <2>6. CASE display' = Merge(c, hold, a.gen)
      BY <1>1, <1>2, <2>1, <2>2, <2>4, <2>6 DEF Hands
    <2> QED BY <2>3, <2>5, <2>6
  <1> QED BY <1>5, <1>6, <1>7, <1>8, <1>9, <1>10 DEF DecodeStep

-----------------------------------------------------------------------------
(* The artwork role: places, numbers and stamps *)

LEMMA PlacesStep ==
    ASSUME ArtTyped, Places, Carried, Numbered, [ArtworkNext]_artworkVars
    PROVE  Places'
  <1>0. /\ decoder \in Decoders /\ drain \in Drainers /\ Channels \subseteq Nat
        /\ artwork.gen \in Nat
    BY ArtworkAssumption DEF ArtTyped, ArtworkStream
  <1>1. CASE UNCHANGED artworkVars
    BY <1>1 DEF Places, artworkVars, decodeThread, drainSide
  <1>2. CASE Handled
    BY <1>2 DEF Handled, Places, decodeThread, drainSide
  <1>3. CASE TearsDown
    BY <1>3 DEF TearsDown, Places, decodeThread
  <1>4. CASE Restarts
    <2>1. decoder'.at = "top" /\ drain'.life = "up"
      BY <1>0, <1>4 DEF Restarts, Decoders, Drainers
    <2> QED BY <1>4, <2>1 DEF Restarts, Places, Delivering
  <1>5. CASE DecodeStep
    <2>1. UNCHANGED drain
      BY <1>5, DecodeTypes DEF Decodes, drainSide
    <2>0. decoder.at # "out"
      BY <1>5, DecodeItemEffect DEF DecodeStep, DecodeTop, Sweep, DecodeWoken, DeliverCheck, DeliverGate,
                                    Decode, HandDisplay, DecodeLeaves
    <2>2. SUFFICES decoder'.at \in Delivering => decoder'.on \in Channels
      BY <2>1, <2>0 DEF Places
    <2>3. Done.at \notin Delivering
      BY <1>0 DEF Done, Decoders, Delivering
    <2>4. CASE DecodeTop \/ DecodeWoken \/ DecodeLeaves
      BY <1>0, <2>4 DEF DecodeTop, DecodeWoken, DecodeLeaves, Decoders, Delivering
    <2>5. CASE Sweep
      <3>1. decoder.sweeps # {} => Min(decoder.sweeps) \in Channels
        BY <1>0, MinIn DEF Decoders
      <3> QED BY <1>0, <2>5, <3>1 DEF Sweep, Decoders, Delivering
    <2>6. CASE DecodeItem
      <3>1. items # <<>> /\ decoder.at = "wait"
        BY <2>6, DecodeItemEffect
      <3>2. Head(items).type \in {"announce", "part"} => Min(Head(items).chans) \in Channels
        BY <3>1, TakenItem
      <3>3. CASE decoder' \in {decoder, [decoder EXCEPT !.at = "top"]}
        BY <1>0, <3>1, <3>3 DEF Decoders, Delivering
      <3>4. CASE ItemTakenIn
        BY <1>0, <3>2, <3>4 DEF ItemTakenIn, Decoders, Delivering
      <3> QED BY <2>6, <3>3, <3>4, DecodeItemEffect
    <2>7. CASE DeliverCheck \/ DeliverGate \/ Decode \/ HandDisplay
      <3>1. decoder.on \in Channels
        BY <2>7 DEF Places, DeliverCheck, DeliverGate, Decode, HandDisplay, Delivering
      <3>2. \/ decoder' = Done
            \/ \E at \in Delivering : decoder' = [decoder EXCEPT !.at = at]
        BY <2>7 DEF DeliverCheck, DeliverGate, Decode, HandDisplay, Delivering
      <3> QED BY <1>0, <2>3, <3>1, <3>2 DEF Decoders
    <2> QED BY <1>5, <2>4, <2>5, <2>6, <2>7 DEF DecodeStep
  <1>6. CASE MainTurn
    <2>1. UNCHANGED decoder
      BY <1>6, ArtMainTypes DEF Drains, decodeThread
    <2>0. drain'.life \in {"final", "stopped"} => drain.life \in {"final", "stopped"}
      <3>1. drain'.life = drain.life \/ ArtStop \/ ArtStopped
        BY <1>0, <1>6 DEF MainTurn, DrainStep, DrainStarts, DrainEvent, DrainTake, DrainLoad, DrainFold,
              DrainSweep, DrainFire, DrainCalled, Elapse, FrameDone, Swept, Drainers
      <3> QED BY <1>0, <3>1 DEF ArtStop, ArtStopped, Drainers
    <2>2. SUFFICES /\ drain'.at \in {"sweep", "fire"} => drain'.rest # {}
                   /\ drain'.at = "fold" /\ drain'.taken # NoDisplay => drain'.taken.gen = drain'.gen
      BY <2>1, <2>0 DEF Places
    <2>3. ASSUME NEW rest \in SUBSET Channels, drain' = Swept(rest)
          PROVE  /\ drain'.at \in {"sweep", "fire"} => drain'.rest # {}
                 /\ drain'.at = "fold" /\ drain'.taken # NoDisplay => drain'.taken.gen = drain'.gen
      BY <2>3, SweptTypes
    <2>4. CASE DrainStarts \/ DrainTake \/ DrainFire \/ ArtStop
      BY <1>0, <2>4 DEF DrainStarts, DrainTake, DrainFire, ArtStop, Drainers
    <2>5. CASE DrainEvent \/ ArtStopped
      BY <1>0, <2>5 DEF DrainEvent, ArtStopped, Drainers
    <2>6. CASE DrainLoad
      BY <1>0, <2>6 DEF DrainLoad, Drainers
    <2>7. CASE DrainFold
      BY <2>3, <2>7 DEF DrainFold
    <2>8. CASE DrainSweep
      <3>1. \/ drain' = Swept(drain.rest \ {Min(drain.rest)})
            \/ drain' = [drain EXCEPT !.at = "fire"]
        BY <2>8 DEF DrainSweep
      <3>2. drain.rest # {} /\ drain.rest \in SUBSET Channels
        BY <1>0, <2>8 DEF DrainSweep, Places, Drainers
      <3> QED BY <1>0, <2>3, <3>1, <3>2 DEF Drainers
    <2>9. CASE DrainCalled
      <3>1. drain.rest \in SUBSET Channels
        BY <1>0 DEF Drainers
      <3> QED BY <2>3, <2>9, <3>1 DEF DrainCalled
    <2>10. CASE UNCHANGED drain
      BY <2>10 DEF Places
    <2> QED BY <1>6, <2>4, <2>5, <2>6, <2>7, <2>8, <2>9, <2>10
            DEF MainTurn, DrainStep, Elapse, FrameDone
  <1> QED BY <1>1, <1>2, <1>3, <1>4, <1>5, <1>6, ArtSteps

LEMMA CarriedStep ==
    ASSUME ArtTyped, Places, Carried, Numbered, [ArtworkNext]_artworkVars
    PROVE  Carried'
  <1>1. CASE UNCHANGED artwork
    BY <1>1 DEF Carried
  <1>2. CASE Handled \/ TearsDown
    BY <1>2 DEF Handled, TearsDown, TornDownTo
  <1>3. CASE DecodeStep \/ MainTurn \/ Restarts
    BY <1>1, <1>3, DecodeTypes, ArtMainTypes DEF Decodes, Drains, Restarts, protocolTask
  <1> QED BY <1>1, <1>2, <1>3, ArtSteps DEF artworkVars, protocolTask

LEMMA MergedDisplay ==
    ASSUME ArtTyped, NEW c \in Channels, NEW hold \in Holds, NEW gen \in Nat
    PROVE  LET next == Merge(c, hold, gen)
           IN  \/ next = display /\ display.gen > gen
               \/ /\ next.gen = gen /\ next.of[c] = hold /\ (display = NoDisplay \/ display.gen <= gen)
                  /\ \A d \in Channels \ {c} :
                       next.of[d] = IF display.gen = gen THEN display.of[d] ELSE NoHold
  <1>0. display \in ArtDisplays /\ display.gen \in Nat
    BY DEF ArtTyped, ArtDisplays
  <1>1. CASE display # NoDisplay /\ display.gen > gen
    BY <1>1 DEF Merge
  <1>2. CASE ~(display # NoDisplay /\ display.gen > gen)
    <2>1. Merge(c, hold, gen) =
            [gen |-> gen,
             of |-> [(IF display.gen = gen THEN display.of ELSE NoDisplay.of) EXCEPT ![c] = hold]]
      BY <1>2 DEF Merge
    <2> QED BY <1>0, <1>2, <2>1, EmptyTypes DEF ArtDisplays
  <1> QED BY <1>1, <1>2

LEMMA NumberedStep ==
    ASSUME ArtTyped, Places, Carried, Numbered, \A c \in Channels : Complete(c),
           [ArtworkNext]_artworkVars
    PROVE  Numbered'
  <1>0. /\ items \in Seq(ArtItems) /\ epochs \in [Channels -> Nat] /\ display \in ArtDisplays
        /\ assemblies \in [Channels -> Assemblies]
    BY DEF ArtTyped
  <1>1. CASE UNCHANGED artworkVars
    BY <1>1 DEF Numbered, artworkVars, protocolTask, decodeThread, drainSide
  <1>2. ASSUME items' = items \/ ItemLeft \/ items' = <<>>
        PROVE  \A i \in DOMAIN items' : Single(items'[i])
    <2>1. CASE ItemLeft
      BY <1>0, <2>1, TakenItem DEF Numbered, ItemLeft
    <2> QED BY <1>2, <2>1 DEF Numbered
  <1>3. CASE Handled
    <2>1. UNCHANGED <<assemblies, holds, display, drain>>
      BY <1>3 DEF Handled, decodeThread, drainSide
    <2>2. ASSUME NEW e \in ArtItems, Single(e), items' = Append(items, e)
          PROVE  \A i \in DOMAIN items' : Single(items'[i])
      BY <1>0, <2>2, ItemAdded DEF Numbered
    <2>3. \A i \in DOMAIN items' : Single(items'[i])
      <3>1. CASE Marked
        BY <1>2, <2>2, <3>1 DEF Marked, Single
      <3>2. ASSUME NEW c \in Channels, Announced(c) PROVE \A i \in DOMAIN items' : Single(items'[i])
        <4>1. epochs'[c] > 0
          BY <1>0, <3>2 DEF Announced
        <4> QED BY <2>2, <3>2, <4>1 DEF Announced, Single
      <3>3. CASE PartHanded
        BY <2>2, <3>3 DEF PartHanded, Single, Carried
      <3> QED BY <1>2, <1>3, <3>1, <3>2, <3>3 DEF Handled
    <2> QED BY <2>1, <2>3 DEF Numbered
  <1>4. CASE TearsDown
    <2>1. items' = <<>> /\ UNCHANGED <<assemblies, holds, display>> /\ drain'.taken = drain.taken
      BY <1>4 DEF TearsDown, TornDownTo, decodeThread
    <2> QED BY <1>2, <2>1 DEF Numbered
  <1>5. CASE Restarts
    BY <1>5 DEF Restarts, Numbered
  <1>6. CASE DecodeStep
    <2>1. UNCHANGED <<holds, drain>>
      BY <1>6, DecodeTypes DEF Decodes, drainSide
    <2>2. Drops \/ Begins \/ Hands
      BY <1>6, DecodeEffect
    <2>3. \A i \in DOMAIN items' : Single(items'[i])
      BY <1>2, <2>2 DEF Drops, Begins, Hands
    <2>4. ASSUME NEW c \in Channels, Remains(c)
          PROVE  assemblies'[c].state = "idle" <=> assemblies'[c].image = 0
      BY <2>4 DEF Remains, Numbered, NoAssembly
    <2>5. CASE Drops
      BY <2>1, <2>3, <2>4, <2>5 DEF Drops, Numbered
    <2>6. CASE Begins
      <3>1. Head(items).image > 0
        BY <2>6, TakenItem DEF Begins, ItemLeft
      <3>2. \A c \in Channels : assemblies'[c].state = "idle" <=> assemblies'[c].image = 0
        BY <2>4, <2>6, <3>1 DEF Begins
      <3>3. display' = display
        BY <2>6 DEF Begins
      <3> QED BY <2>1, <2>3, <3>2, <3>3 DEF Numbered
    <2>7. CASE Hands
      <3>1. PICK c \in Channels, hold \in Holds :
              /\ hold.image = assemblies[c].image /\ assemblies[c].state # "idle"
              /\ display' = Merge(c, hold, assemblies[c].gen)
              /\ assemblies'[c] = NoAssembly /\ \A d \in Channels \ {c} : assemblies'[d] = assemblies[d]
        BY <2>7 DEF Hands
      <3>2. \A d \in Channels : assemblies'[d].state = "idle" <=> assemblies'[d].image = 0
        BY <3>1 DEF Numbered, NoAssembly
      <3>3. assemblies[c].gen \in Nat /\ Proper(hold) /\ Proper(NoHold)
        BY <1>0, <3>1 DEF Assemblies, Numbered, Proper
      <3>4. \A d \in Channels : Proper(display'.of[d])
        BY <3>1, <3>3, MergedDisplay DEF Numbered
      <3> QED BY <2>1, <2>3, <3>2, <3>4 DEF Numbered
    <2> QED BY <2>2, <2>5, <2>6, <2>7
  <1>7. CASE MainTurn
    <2>1. UNCHANGED <<items, assemblies>>
      BY <1>7, ArtMainTypes DEF Drains, decodeThread
    <2>2. Proper(NoHold) /\ \A c \in Channels : NoDisplay.of[c] = NoHold
      BY EmptyTypes DEF Proper
    <2>3. \A c \in Channels : Proper(holds'[c]) /\ Proper(display'.of[c]) /\ Proper(drain'.taken.of[c])
      <3>1. TakenKept => \A c \in Channels : Proper(drain'.taken.of[c])
        BY <2>2 DEF TakenKept, Numbered
      <3>2. CASE Idles
        BY <2>2, <3>1, <3>2 DEF Idles, Numbered, Proper
      <3>3. CASE ClearsAll
        BY <2>2, <3>1, <3>3 DEF ClearsAll, Numbered
      <3>4. CASE TakesDisplay
        BY <2>2, <3>4 DEF TakesDisplay, Numbered
      <3>5. CASE Folds
        BY <2>2, <3>5 DEF Folds, Numbered
      <3>6. CASE Presents
        BY <2>2, <3>1, <3>6 DEF Presents, Numbered
      <3> QED BY <1>7, <3>2, <3>3, <3>4, <3>5, <3>6, MainEffect
    <2> QED BY <2>1, <2>3 DEF Numbered
  <1> QED BY <1>1, <1>3, <1>4, <1>5, <1>6, <1>7, ArtSteps

LEMMA ArtStampsStep ==
    ASSUME ArtTyped, Places, Carried, Numbered, \A c \in Channels : Complete(c), Stamps,
           [ArtworkNext]_artworkVars
    PROVE  Stamps'
  <1>0. /\ items \in Seq(ArtItems) /\ display \in ArtDisplays /\ artwork.gen \in Nat
        /\ assemblies \in [Channels -> Assemblies] /\ display.gen \in Nat /\ drain.taken.gen \in Nat
        /\ \A i \in DOMAIN items : items[i].gen \in Nat
        /\ \A c \in Channels : assemblies[c].gen \in Nat
    <2>1. items \in Seq(ArtItems)
      BY DEF ArtTyped
    <2>2. \A i \in DOMAIN items : items[i] \in ArtItems
      BY <2>1
    <2> QED BY <2>1, <2>2 DEF ArtTyped, ArtItems, ArtworkStream, Assemblies, ArtDisplays, Drainers
  <1>1. CASE UNCHANGED artworkVars
    BY <1>1 DEF Stamps, artworkVars, protocolTask, decodeThread, drainSide
  <1>2. CASE Handled
    <2>1. UNCHANGED <<assemblies, display, drain>> /\ ~artwork.removing
      BY <1>2 DEF Handled, decodeThread, drainSide
    <2>2. CASE SameStream
      <3>1. ASSUME NEW e \in ArtItems, e.gen = artwork.gen, items' = Append(items, e)
            PROVE  \A i \in DOMAIN items' : items'[i].gen = artwork.gen
        BY <1>0, <2>1, <3>1, ItemAdded DEF Stamps
      <3>2. \A i \in DOMAIN items' : items'[i].gen = artwork.gen
        <4>1. CASE items' = items
          BY <2>1, <4>1 DEF Stamps
        <4>2. CASE items' # items
          BY <1>0, <1>2, <2>2, <3>1, <4>2 DEF Handled, Marked, Announced, PartHanded, SameStream
        <4> QED BY <4>1, <4>2
      <3> QED BY <2>1, <2>2, <3>2 DEF Stamps, SameStream
    <2>3. CASE /\ UNCHANGED <<epochs, items, artEvents>> /\ artwork'.gen = artwork.gen + 1
               /\ artwork'.removing
      BY <1>0, <2>1, <2>3 DEF Stamps
    <2> QED BY <1>2, <2>2, <2>3 DEF Handled
  <1>3. CASE TearsDown
    <2>1. items' = <<>> /\ UNCHANGED <<assemblies, display>> /\ drain'.taken = drain.taken
          /\ artwork'.gen \in Nat /\ artwork'.gen >= artwork.gen
      BY <1>0, <1>3 DEF TearsDown, TornDownTo, decodeThread
    <2> QED BY <1>0, <2>1 DEF Stamps
  <1>4. CASE Restarts
    BY <1>4 DEF Restarts, Stamps, protocolTask
  <1>5. CASE DecodeStep
    <2>1. UNCHANGED <<artwork, drain>>
      BY <1>5, DecodeTypes DEF Decodes, protocolTask, drainSide
    <2>2. Drops \/ Begins \/ Hands
      BY <1>5, DecodeEffect
    <2>3. \A i \in DOMAIN items' :
            IF artwork.removing THEN items'[i].gen < artwork.gen ELSE items'[i].gen = artwork.gen
      <3>1. CASE ItemLeft
        BY <3>1, TakenItem DEF Stamps, ItemLeft
      <3> QED BY <2>2, <3>1 DEF Drops, Begins, Hands, Stamps
    <2>4. ASSUME NEW c \in Channels, Remains(c)
          PROVE  assemblies'[c].gen <= artwork.gen
      BY <1>0, <2>4 DEF Remains, Stamps, NoAssembly
    <2>5. \A c \in Channels : assemblies'[c].gen <= artwork.gen
      BY <1>0, <2>2, <2>4 DEF Drops, Begins, Hands, Remains
    <2>6. display'.gen <= artwork.gen
      BY <1>0, <2>2, MergedDisplay DEF Drops, Begins, Hands, Stamps
    <2> QED BY <2>1, <2>3, <2>5, <2>6 DEF Stamps
  <1>6. CASE MainTurn
    <2>1. UNCHANGED <<artwork, items, assemblies>>
      BY <1>6, ArtMainTypes DEF Drains, protocolTask, decodeThread
    <2>2. display'.gen <= artwork.gen /\ drain'.taken.gen <= artwork.gen
      BY <1>0, <1>6, MainEffect, EmptyTypes
      DEF Idles, ClearsAll, TakesDisplay, Folds, Presents, TakenKept, Stamps
    <2> QED BY <2>1, <2>2 DEF Stamps
  <1> QED BY <1>1, <1>2, <1>3, <1>4, <1>5, <1>6, ArtSteps

-----------------------------------------------------------------------------
(* The artwork role: what is assembled, parked and awaited *)

LEMMA CompleteStep ==
    ASSUME ArtTyped, Places, Numbered, \A c \in Channels : Complete(c), PartsFollow, Stamps,
           ParkedIsReady, DecodeStep
    PROVE  (\A c \in Channels : Complete(c))' /\ ParkedIsReady'
  <1>0. /\ decoder \in Decoders /\ assemblies \in [Channels -> Assemblies] /\ Channels \subseteq Nat
        /\ gates \in [Channels -> Gates] /\ artwork.gen \in Nat
    BY ArtworkAssumption DEF ArtTyped, ArtworkStream
  <1>1. /\ NoAssembly.whole /\ NoAssembly.state = "idle" /\ NoAssembly.left = 0
    BY DEF NoAssembly
  <1> DEFINE DeliversNext(c) == decoder'.at \in Delivering /\ decoder'.on = c
             Fits(c) ==
               /\ assemblies'[c].whole
               /\ assemblies'[c].state = "ready" => assemblies'[c].left = 0
               /\ assemblies'[c].state = "assembling" /\ ~DeliversNext(c) => assemblies'[c].left >= 1
               /\ DeliversNext(c) =>
                    assemblies'[c].state # "idle" /\ assemblies'[c].left = 0 /\ ~gates'[c].parked
               /\ gates'[c].parked => assemblies'[c].state = "ready"
  <1>2. SUFFICES \A c \in Channels : Fits(c)
    BY DEF Complete, Delivers, ParkedIsReady
  <1>3. \A c \in Channels :
          /\ assemblies[c].whole
          /\ assemblies[c].state = "ready" => assemblies[c].left = 0
          /\ assemblies[c].state = "assembling" /\ ~Delivers(c) => assemblies[c].left >= 1
          /\ Delivers(c) => assemblies[c].state # "idle" /\ assemblies[c].left = 0 /\ ~gates[c].parked
          /\ gates[c].parked => assemblies[c].state = "ready"
    BY DEF Complete, ParkedIsReady
  <1>4. ASSUME NEW c \in Channels, assemblies'[c] = NoAssembly, ~DeliversNext(c), ~gates'[c].parked
        PROVE  Fits(c)
    BY <1>1, <1>4
  <1>5. ASSUME NEW c \in Channels, assemblies'[c] = assemblies[c], ~Delivers(c), ~DeliversNext(c),
               gates'[c].parked => gates[c].parked
        PROVE  Fits(c)
    BY <1>3, <1>5
  <1>6. Done.at \notin Delivering
    BY <1>0 DEF Done, Decoders, Delivering
  <1>7. \A chans, release : \A c \in Channels :
          Unparked(chans, release)[c].parked => c \notin chans /\ gates[c].parked
    BY UnparkedTypes
  <1>8. \A chans : \A c \in Channels :
          Discarded(chans)[c] = IF c \in chans THEN NoAssembly ELSE assemblies[c]
    BY DiscardedTypes
  <1>9. CASE DecodeTop
    <2>1. /\ decoder.at = "top" /\ decoder'.at \in {"wait", "sweep"}
          /\ assemblies' = Discarded(Adopted(artwork.gen))
          /\ gates' = Unparked(Adopted(artwork.gen), {})
      BY <1>0, <1>9 DEF DecodeTop, Decoders
    <2>2. \A c \in Channels : ~Delivers(c) /\ ~DeliversNext(c)
      BY <2>1 DEF Delivers, Delivering
    <2>3. \A c \in Channels : gates'[c].parked => c \notin Adopted(artwork.gen) /\ gates[c].parked
      BY <1>7, <2>1, Zenon
    <2>4. ASSUME NEW c \in Channels PROVE Fits(c)
      <3>1. ~DeliversNext(c) /\ ~Delivers(c)
        BY <2>2
      <3>2. /\ assemblies'[c] = IF c \in Adopted(artwork.gen) THEN NoAssembly ELSE assemblies[c]
            /\ gates'[c].parked => c \notin Adopted(artwork.gen) /\ gates[c].parked
        BY <1>8, <2>1, <2>3
      <3> HIDE DEF Fits, DeliversNext
      <3>3. CASE c \in Adopted(artwork.gen)
        BY <1>4, <3>1, <3>2, <3>3
      <3>4. CASE c \notin Adopted(artwork.gen)
        BY <1>5, <3>1, <3>2, <3>4
      <3> QED BY <3>3, <3>4
    <2> QED BY <2>4
  <1>10. CASE Sweep
    <2>1. decoder.at = "sweep" /\ \A c \in Channels : ~Delivers(c)
      BY <1>10 DEF Sweep, Delivers, Delivering
    <2>2. CASE decoder.sweeps = {}
      <3>1. decoder'.at = "wait" /\ UNCHANGED <<assemblies, gates>>
        BY <1>0, <1>10, <2>2 DEF Sweep, Decoders
      <3> QED BY <1>5, <2>1, <3>1 DEF Delivering
    <2>3. CASE decoder.sweeps # {}
      <3> DEFINE d == Min(decoder.sweeps)
                 opens == gates[d].parked /\ gates[d].ack = "idle"
      <3>1. d \in Channels
        BY <1>0, <2>3, MinIn DEF Decoders
      <3>2. /\ gates' = IF opens THEN [gates EXCEPT ![d].parked = FALSE] ELSE gates
            /\ assemblies' = IF gates[d].parked THEN assemblies ELSE Discarded({d})
            /\ decoder' = IF opens THEN [[decoder EXCEPT !.sweeps = @ \ {d}] EXCEPT
                                            !.at = "check", !.on = d, !.from = "sweep"]
                          ELSE [decoder EXCEPT !.sweeps = @ \ {d}]
        BY <1>10, <2>3 DEF Sweep
      <3> HIDE DEF d
      <3>3. CASE opens
        <4>1. /\ GateSetTo(d, FALSE, gates[d].ack) /\ assemblies' = assemblies
              /\ decoder'.at = "check" /\ decoder'.on = d
          BY <1>0, <3>1, <3>2, <3>3, GateSet DEF Decoders
        <4>2. \A c \in Channels : DeliversNext(c) <=> c = d
          BY <4>1 DEF Delivering
        <4>3. ASSUME NEW c \in Channels \ {d} PROVE Fits(c)
          BY <1>5, <2>1, <4>1, <4>2 DEF GateSetTo
        <4>4. assemblies[d].state = "ready" /\ assemblies[d].left = 0 /\ assemblies[d].whole
          BY <1>3, <3>1, <3>3
        <4>5. Fits(d)
          BY <4>1, <4>4 DEF GateSetTo
        <4> QED BY <4>3, <4>5
      <3>4. CASE ~opens
        <4>1. decoder'.at = "sweep" /\ gates' = gates
          BY <1>0, <2>1, <3>2, <3>4 DEF Decoders
        <4>2. \A c \in Channels : ~DeliversNext(c)
          BY <4>1 DEF Delivering
        <4>3. assemblies' = assemblies \/ (~gates[d].parked /\ assemblies' = Discarded({d}))
          BY <3>2
        <4>4. \A c \in Channels : assemblies'[c] = assemblies[c]
                                  \/ (~gates[c].parked /\ assemblies'[c] = NoAssembly)
          BY <1>8, <4>3
        <4>5. ASSUME NEW c \in Channels PROVE Fits(c)
          <5>1. ~DeliversNext(c) /\ ~Delivers(c) /\ gates'[c] = gates[c]
            BY <2>1, <4>1, <4>2
          <5> HIDE DEF Fits, DeliversNext, opens
          <5>2. CASE assemblies'[c] = assemblies[c]
            BY <1>5, <5>1, <5>2
          <5>3. CASE ~gates[c].parked /\ assemblies'[c] = NoAssembly
            BY <1>4, <5>1, <5>3
          <5> QED BY <4>4, <5>2, <5>3
        <4> QED BY <4>5
      <3> QED BY <3>3, <3>4
    <2> QED BY <2>2, <2>3
  <1>11. CASE DecodeWoken
    <2>1. /\ decoder.at = "wait" /\ decoder'.at = "top" /\ UNCHANGED <<assemblies, gates>>
      BY <1>0, <1>11 DEF DecodeWoken, Decoders
    <2> QED BY <1>5, <2>1 DEF Delivering, Delivers
  <1>12. CASE DecodeItem
    <2> DEFINE item == Head(items)
               d == Min(item.chans)
               gone == Adopted(item.gen) \cup IF item.type = "part" THEN {} ELSE item.chans
               next == ItemLeaves(item)
               done == item.type \in {"announce", "part"} /\ next[d].state = "assembling"
                                                           /\ next[d].left = 0
    <2>1. /\ items # <<>> /\ decoder.at = "wait" /\ item \in ArtItems
          /\ item.type \in {"announce", "part"} => d \in Channels /\ item.chans = {d} /\ item.image > 0
      BY <1>12, DecodeItemEffect, TakenItem
    <2>2. \A c \in Channels : ~Delivers(c)
      BY <2>1 DEF Delivers, Delivering
    <2>3. CASE UNCHANGED <<assemblies, gates>> /\ decoder' \in {decoder, [decoder EXCEPT !.at = "top"]}
      <3>1. decoder'.at \in {"wait", "top"}
        BY <1>0, <2>1, <2>3 DEF Decoders
      <3> QED BY <1>5, <2>2, <2>3, <3>1 DEF Delivering
    <2>4. CASE ItemTakenIn
      <3>1. /\ item.gen = artwork.gen /\ assemblies' = next
            /\ \A c \in Channels : gates'[c].parked => c \notin gone /\ gates[c].parked
        BY <1>7, <2>4 DEF ItemTakenIn
      <3>2. \A c \in Channels : DeliversNext(c) <=> done /\ c = d
        <4>1. \/ done /\ decoder' = [decoder EXCEPT !.at = "check", !.on = d, !.from = "top", !.gen = item.gen]
              \/ ~done /\ decoder' = [decoder EXCEPT !.at = "top", !.on = 0, !.from = "top", !.gen = item.gen]
          BY <2>4 DEF ItemTakenIn
        <4> HIDE DEF done, d, item
        <4>2. \/ done /\ decoder'.at = "check" /\ decoder'.on = d
              \/ ~done /\ decoder'.at = "top"
          BY <1>0, <4>1 DEF Decoders
        <4> QED BY <4>2 DEF Delivering
      <3>3. \A c \in Channels : ~(item.type \in {"announce", "part"} /\ c = d) =>
              assemblies'[c] = IF c \in gone THEN NoAssembly ELSE assemblies[c]
        BY <2>1, <3>1, ItemLeavesTypes
      <3>4. ASSUME NEW c \in Channels, ~(item.type \in {"announce", "part"} /\ c = d)
            PROVE  Fits(c)
        BY <1>4, <1>5, <2>2, <3>1, <3>2, <3>3, <3>4
      <3>5. ASSUME item.type \in {"announce", "part"} PROVE Fits(d)
        <4>0. DeliversNext(d) <=> assemblies'[d].state = "assembling" /\ assemblies'[d].left = 0
          BY <2>1, <3>1, <3>2, <3>5
        <4> DEFINE a == Discarded(gone)[d]
        <4>1. /\ a \in Assemblies /\ d \in Channels /\ a = IF d \in gone THEN NoAssembly ELSE assemblies[d]
              /\ assemblies'[d] = Assembled(item, d, a)
          BY <1>8, <2>1, <3>1, <3>5, DiscardedTypes, ItemLeavesTypes
        <4> HIDE DEF a
        <4>2. CASE item.type = "announce"
          <5>1. /\ assemblies'[d].state = "assembling" /\ assemblies'[d].left = item.parts
                /\ assemblies'[d].whole
            BY <2>1, <4>1, <4>2, AssembledTypes
          <5>2. ~gates'[d].parked /\ item.parts \in Nat
            BY <2>1, <3>1, <4>1, <4>2 DEF ArtItems
          <5> QED BY <4>0, <4>1, <5>1, <5>2
        <4>3. CASE item.type = "part" /\ a.state = "assembling"
          <5>1. a = assemblies[d] /\ assemblies[d].left >= 1 /\ assemblies[d].left \in Int
            BY <1>0, <1>1, <1>3, <2>2, <4>1, <4>3 DEF Assemblies
          <5>2. /\ assemblies'[d].state = "assembling" /\ assemblies'[d].left = a.left - 1
                /\ assemblies'[d].whole = (a.whole /\ a.image = item.image)
            BY <2>1, <4>1, <4>3, AssembledTypes
          <5>3. ~gates[d].parked
            BY <1>3, <4>1, <4>3, <5>1
          <5>4. a.image = item.image
            <6>1. ~artwork.removing /\ 1 \in DOMAIN items /\ items[1] = item
              BY <1>0, <2>1, <3>1, TakenItem DEF Stamps
            <6>2. d \in item.chans
              BY <2>1, <3>5
            <6>3. Leaves(items, 1 - 1, d, assemblies[d], item.image)
              BY <4>1, <4>3, <6>1, <6>2 DEF PartsFollow
            <6> QED BY <4>3, <5>1, <6>3 DEF Leaves
          <5>5. a.whole
            BY <1>3, <4>1, <5>1
          <5>6. assemblies'[d].whole
            BY <5>2, <5>4, <5>5, Zenon
          <5>7. ~gates'[d].parked
            BY <3>1, <4>1, <5>3
          <5> HIDE DEF item, d, gone, next, done
          <5> QED BY <4>0, <5>1, <5>2, <5>6, <5>7
        <4>4. CASE item.type = "part" /\ a.state # "assembling"
          <5>1. assemblies'[d] = a
            BY <2>1, <4>1, <4>4, AssembledTypes
          <5>2. ~DeliversNext(d)
            BY <4>0, <4>4, <5>1
          <5> QED BY <1>4, <1>5, <2>2, <3>1, <4>1, <5>1, <5>2
        <4> QED BY <3>5, <4>2, <4>3, <4>4
      <3> QED BY <2>1, <3>4, <3>5
    <2> QED BY <1>12, <2>3, <2>4, DecodeItemEffect
  <1>13. CASE DeliverCheck
    <2>1. decoder.on \in Channels /\ decoder.at = "check" /\ \A c \in Channels : Delivers(c) <=> c = decoder.on
      BY <1>13 DEF DeliverCheck, Places, Delivering, Delivers
    <2>2. gates' = gates
      BY <1>13 DEF DeliverCheck
    <2>3. CASE decoder' = [decoder EXCEPT !.at = "gate"] /\ UNCHANGED assemblies
      <3>1. decoder'.at = "gate" /\ decoder'.on = decoder.on
        BY <1>0, <2>3 DEF Decoders
      <3> QED BY <1>3, <2>1, <2>2, <2>3, <3>1 DEF Delivering
    <2>4. CASE decoder' = Done /\ assemblies' = [assemblies EXCEPT ![decoder.on] = NoAssembly]
      <3>1. \A c \in Channels : assemblies'[c] = IF c = decoder.on THEN NoAssembly ELSE assemblies[c]
        BY <1>0, <2>1, <2>4
      <3> QED BY <1>3, <1>4, <1>5, <1>6, <2>1, <2>2, <2>4, <3>1
    <2> QED BY <1>13, <2>3, <2>4 DEF DeliverCheck
  <1>14. CASE DeliverGate
    <2> DEFINE d == decoder.on
               ready == [assemblies[d] EXCEPT !.state = "ready"]
    <2>1. d \in Channels /\ decoder.at = "gate" /\ \A c \in Channels : Delivers(c) <=> c = d
      BY <1>14 DEF DeliverGate, Places, Delivering, Delivers
    <2>2. CASE /\ assemblies' = [assemblies EXCEPT ![d] = ready]
               /\ gates' = [gates EXCEPT ![d].parked = TRUE] /\ decoder' = Done
      <3>1. GateSetTo(d, TRUE, gates[d].ack)
        BY <1>0, <2>1, <2>2, GateSet
      <3>2. ready.state = "ready" /\ ready.left = assemblies[d].left /\ ready.whole = assemblies[d].whole
        BY <1>0, <2>1 DEF Assemblies
      <3> HIDE DEF ready
      <3>3. \A c \in Channels : assemblies'[c] = IF c = d THEN ready ELSE assemblies[c]
        BY <1>0, <2>1, <2>2
      <3>4. Fits(d)
        BY <1>3, <1>6, <2>1, <2>2, <3>2, <3>3
      <3>5. ASSUME NEW c \in Channels \ {d} PROVE Fits(c)
        BY <1>5, <1>6, <2>1, <2>2, <3>1, <3>3 DEF GateSetTo
      <3> QED BY <3>4, <3>5
    <2>3. CASE /\ gates' = gates \/ gates' = [gates EXCEPT ![d].ack = "delivered"]
               /\ decoder' = [decoder EXCEPT !.at = "decode"] /\ UNCHANGED assemblies
      <3>1. decoder'.at = "decode" /\ decoder'.on = d
        BY <1>0, <2>3 DEF Decoders
      <3>2. \A c \in Channels : gates'[c].parked = gates[c].parked
        BY <1>0, <2>1, <2>3, GateSet DEF GateSetTo
      <3> QED BY <1>3, <2>1, <2>3, <3>1, <3>2 DEF Delivering
    <2> QED BY <1>14, <2>2, <2>3 DEF DeliverGate
  <1>15. CASE Decode
    <2>1. /\ decoder.at = "decode" /\ decoder'.at = "hand" /\ decoder'.on = decoder.on
          /\ UNCHANGED <<assemblies, gates>>
      BY <1>0, <1>15 DEF Decode, Decoders
    <2> QED BY <1>3, <2>1 DEF Delivering, Delivers
  <1>16. CASE HandDisplay
    <2>1. /\ decoder.on \in Channels /\ decoder.at = "hand" /\ gates' = gates /\ decoder' = Done
          /\ \A c \in Channels : Delivers(c) <=> c = decoder.on
      BY <1>16 DEF HandDisplay, Places, Delivering, Delivers
    <2>2. \A c \in Channels : assemblies'[c] = IF c = decoder.on THEN NoAssembly ELSE assemblies[c]
      BY <1>0, <1>16, <2>1 DEF HandDisplay
    <2> QED BY <1>3, <1>4, <1>5, <1>6, <2>1, <2>2
  <1>17. CASE DecodeLeaves
    <2>1. /\ decoder'.at = "out" /\ assemblies' = Discarded(Channels)
          /\ gates' = Unparked(Channels, {})
      BY <1>0, <1>17 DEF DecodeLeaves, Decoders
    <2>2. \A c \in Channels : ~DeliversNext(c)
      BY <2>1 DEF Delivering
    <2> QED BY <1>4, <1>7, <1>8, <2>1, <2>2
  <1> QED BY <1>9, <1>10, <1>11, <1>12, <1>13, <1>14, <1>15, <1>16, <1>17 DEF DecodeStep

\* A turn of the main loop parks nothing, and a gate stays shut exactly while its listener owes.
LEMMA MainGates ==
    ASSUME ArtTyped, Places, GateMatchesListener, MainTurn
    PROVE  /\ \A c \in Channels : gates'[c].parked => gates[c].parked
           /\ GateMatchesListener'
  <1>0. /\ screen \in [Channels -> Screen] /\ drain \in Drainers /\ holds \in [Channels -> Holds]
        /\ gates \in [Channels -> Gates] /\ Gated \subseteq Channels /\ Channels \subseteq Nat
        /\ artwork.cut \in [Channels -> Nat] /\ artEvents \in Seq(ArtEvents)
    BY ArtworkAssumption DEF ArtTyped, ArtworkStream
  <1> DEFINE Fine ==
               /\ \A c \in Channels : gates'[c].parked => gates[c].parked
               /\ \A c \in Gated : screen'[c].owes <=> gates'[c].ack = "presented"
  <1>1. SUFFICES Fine
    BY DEF GateMatchesListener
  <1>2. ASSUME UNCHANGED <<gates, screen>> PROVE Fine
    BY <1>2 DEF GateMatchesListener
  <1>3. ASSUME NEW upto \in [Channels -> Nat], Cleared(upto) PROVE Fine
    BY <1>0, <1>3, ClearedEffect
  <1>4. ASSUME NEW gen, CaughtUp(gen) PROVE Fine
    BY <1>2, <1>3, <1>4, CaughtUpEffect
  <1> HIDE DEF Fine
  <1>5. CASE DrainStarts \/ DrainLoad
    BY <1>4, <1>5 DEF DrainStarts, DrainLoad
  <1>6. CASE DrainEvent
    <2>1. artEvents # <<>>
      BY <1>6 DEF DrainEvent
    <2>2. Head(artEvents).upto \in [Channels -> Nat]
      <3>1. Head(artEvents) \in ArtEvents
        BY <1>0, <2>1
      <3> QED BY <3>1 DEF ArtEvents
    <2> QED BY <1>2, <1>3, <1>4, <1>6, <2>2 DEF DrainEvent
  <1>7. CASE DrainTake \/ DrainFold \/ DrainCalled \/ ArtStop \/ ArtStopped
    BY <1>2, <1>7 DEF DrainTake, DrainFold, DrainCalled, ArtStop, ArtStopped
  <1>8. CASE DrainSweep
    <2> DEFINE c == Min(drain.rest)
               ack == Reopened(gates[c].ack)
    <2>1. c \in Channels
      BY <1>0, <1>8, MinIn DEF DrainSweep, Places, Drainers
    <2>2. UNCHANGED screen /\ (gates' = gates \/ gates' = [gates EXCEPT ![c].ack = ack])
      BY <1>8 DEF DrainSweep
    <2>3. ack \in {"idle", "delivered", "presented"}
          /\ (ack = "presented" <=> gates[c].ack = "presented")
      BY <1>0, <2>1 DEF Reopened, Gates
    <2> HIDE DEF ack, c
    <2>4. gates' = gates \/ GateSetTo(c, gates[c].parked, ack)
      BY <1>0, <2>1, <2>2, <2>3, GateSet
    <2> QED BY <1>0, <2>1, <2>2, <2>3, <2>4 DEF GateSetTo, Fine, GateMatchesListener
  <1>9. CASE DrainFire
    <2> DEFINE c == Min(drain.rest)
               owes == c \in Gated
    <2>1. c \in Channels
      BY <1>0, <1>9, MinIn DEF DrainFire, Places, Drainers
    <2>2. owes \in BOOLEAN
      OBVIOUS
    <2>3. screen' = [screen EXCEPT ![c].shown = holds[c].image, ![c].owes = owes]
      BY <1>9 DEF DrainFire
    <2>4. gates' = IF c \in Gated THEN [gates EXCEPT ![c].ack = "presented"] ELSE gates
      BY <1>9 DEF DrainFire
    <2>5. owes <=> c \in Gated
      OBVIOUS
    <2> HIDE DEF c, owes
    <2>6. screen'[c].owes = owes /\ \A d \in Channels \ {c} : screen'[d] = screen[d]
      BY <1>0, <2>1, <2>2, <2>3 DEF Screen
    <2>7. CASE c \in Gated
      <3>1. GateSetTo(c, gates[c].parked, "presented")
        BY <1>0, <2>1, <2>4, <2>7, GateSet
      <3> QED BY <1>0, <2>1, <2>5, <2>6, <2>7, <3>1 DEF GateSetTo, Fine, GateMatchesListener
    <2>8. CASE c \notin Gated
      BY <1>0, <2>4, <2>6, <2>8 DEF Fine, GateMatchesListener
    <2> QED BY <2>7, <2>8
  <1>10. ASSUME NEW c \in Channels, Elapse(c) PROVE Fine
    BY <1>2, <1>10 DEF Elapse
  <1>11. ASSUME NEW c \in Channels, FrameDone(c) PROVE Fine
    <2> DEFINE s == [screen[c] EXCEPT !.owes = FALSE]
    <2>1. ~s.owes
      BY <1>0 DEF Screen
    <2>2. screen' = [screen EXCEPT ![c] = s] /\ gates' = [gates EXCEPT ![c].ack = "idle"]
      BY <1>11 DEF FrameDone
    <2> HIDE DEF s
    <2>3. GateSetTo(c, gates[c].parked, "idle")
      BY <1>0, <2>2, GateSet
    <2>4. ~screen'[c].owes /\ \A d \in Channels \ {c} : screen'[d] = screen[d]
      BY <1>0, <2>1, <2>2
    <2> QED BY <1>0, <2>3, <2>4 DEF GateSetTo, Fine, GateMatchesListener
  <1> QED BY <1>5, <1>6, <1>7, <1>8, <1>9, <1>10, <1>11 DEF MainTurn, DrainStep

\* The decode thread neither shuts nor opens a gate whose listener owes.
LEMMA DecodeGates ==
    ASSUME ArtTyped, Places, Numbered, \A c \in Channels : Complete(c), GateMatchesListener, DecodeStep
    PROVE  GateMatchesListener'
  <1>0. /\ gates \in [Channels -> Gates] /\ Gated \subseteq Channels /\ Channels \subseteq Nat
        /\ decoder \in Decoders
    BY ArtworkAssumption DEF ArtTyped
  <1>1. \A c \in Channels : screen'[c].owes = screen[c].owes
    BY DecodeEffect
  <1>2. SUFFICES \A c \in Channels : gates'[c].ack = "presented" <=> gates[c].ack = "presented"
    BY <1>0, <1>1 DEF GateMatchesListener
  <1>3. ASSUME NEW chans, NEW release, gates' = Unparked(chans, release)
        PROVE  \A c \in Channels : gates'[c].ack = "presented" <=> gates[c].ack = "presented"
    BY <1>3, UnparkedTypes
  <1>4. CASE DecodeTop \/ DecodeLeaves
    <2>1. \E chans : gates' = Unparked(chans, {})
      BY <1>4 DEF DecodeTop, DecodeLeaves
    <2> QED BY <1>3, <2>1, Zenon
  <1>5. CASE Sweep
    <2> DEFINE c == Min(decoder.sweeps)
    <2>1. CASE gates' = gates
      BY <2>1
    <2>2. CASE decoder.sweeps # {} /\ gates' = [gates EXCEPT ![c].parked = FALSE]
      <3>1. c \in Channels
        BY <1>0, <2>2, MinIn DEF Decoders
      <3> QED BY <1>0, <2>2, <3>1, GateSet DEF GateSetTo
    <2> QED BY <1>5, <2>1, <2>2 DEF Sweep
  <1>6. CASE DecodeItem
    <2>1. UNCHANGED gates \/ \E chans, release : gates' = Unparked(chans, release)
      BY <1>6, DecodeItemEffect DEF ItemTakenIn
    <2> QED BY <1>3, <2>1
  <1>7. CASE DeliverGate
    <2> DEFINE c == decoder.on
    <2>1. c \in Channels
      BY <1>7 DEF DeliverGate, Places, Delivering
    <2>2. \/ gates' = gates \/ gates' = [gates EXCEPT ![c].parked = TRUE]
          \/ gates[c].ack = "idle" /\ gates' = [gates EXCEPT ![c].ack = "delivered"]
      BY <1>7 DEF DeliverGate
    <2>3. \/ gates' = gates \/ GateSetTo(c, TRUE, gates[c].ack)
          \/ gates[c].ack = "idle" /\ GateSetTo(c, gates[c].parked, "delivered")
      BY <1>0, <2>1, <2>2, GateSet
    <2> QED BY <2>1, <2>3 DEF GateSetTo
  <1>8. CASE DecodeWoken \/ DeliverCheck \/ Decode \/ HandDisplay
    BY <1>8 DEF DecodeWoken, DeliverCheck, Decode, HandDisplay
  <1> QED BY <1>4, <1>5, <1>6, <1>7, <1>8 DEF DecodeStep

LEMMA GatesStep ==
    ASSUME ArtTyped, Places, Carried, Numbered, \A c \in Channels : Complete(c), PartsFollow, Stamps,
           ParkedIsReady, GateMatchesListener, [ArtworkNext]_artworkVars
    PROVE  (\A c \in Channels : Complete(c))' /\ ParkedIsReady' /\ GateMatchesListener'
  <1>1. ASSUME UNCHANGED <<assemblies, gates>>,
               \/ UNCHANGED decoder
               \/ decoder.at \notin Delivering /\ decoder'.at \notin Delivering
        PROVE  (\A c \in Channels : Complete(c))' /\ ParkedIsReady'
    BY <1>1 DEF Complete, Delivers, ParkedIsReady
  <1>2. ASSUME UNCHANGED <<gates, screen>> PROVE GateMatchesListener'
    BY <1>2 DEF GateMatchesListener
  <1>3. CASE UNCHANGED artworkVars
    BY <1>1, <1>2, <1>3 DEF artworkVars, decodeThread
  <1>4. CASE Handled
    BY <1>1, <1>2, <1>4 DEF Handled, decodeThread
  <1>5. CASE TearsDown
    BY <1>1, <1>2, <1>5 DEF TearsDown, decodeThread
  <1>6. CASE Restarts
    <2>1. decoder.at \notin Delivering /\ decoder'.at \notin Delivering
      BY <1>6 DEF Restarts, Places, ArtTyped, Decoders, Delivering
    <2> QED BY <1>1, <1>2, <1>6, <2>1 DEF Restarts
  <1>7. CASE DecodeStep
    BY <1>7, CompleteStep, DecodeGates
  <1>8. CASE MainTurn
    <2>1. UNCHANGED <<assemblies, decoder>>
      BY <1>8, ArtMainTypes DEF Drains, decodeThread
    <2>2. GateMatchesListener' /\ \A c \in Channels : gates'[c].parked => gates[c].parked
      BY <1>8, MainGates
    <2> QED BY <2>1, <2>2 DEF Complete, Delivers, ParkedIsReady
  <1> QED BY <1>3, <1>4, <1>5, <1>6, <1>7, <1>8, ArtSteps

-----------------------------------------------------------------------------
(* The artwork role: parts follow their announce *)

LEMMA LeavesAppended ==
    ASSUME NEW q \in Seq(ArtItems), NEW e \in ArtItems, NEW c, NEW a, NEW image
    PROVE  /\ \A n \in 0 .. Len(q) : Leaves(q, n, c, a, image) => Leaves(Append(q, e), n, c, a, image)
           /\ Leaves(q, Len(q), c, a, image) /\ ~Announces(e, c) =>
                Leaves(Append(q, e), Len(q) + 1, c, a, image)
           /\ Announces(e, c) /\ e.image = image => Leaves(Append(q, e), Len(q) + 1, c, a, image)
  <1> DEFINE r == Append(q, e)
  <1>0. /\ Len(q) \in Nat /\ r[Len(q) + 1] = e /\ \A i \in 1 .. Len(q) : r[i] = q[i]
    OBVIOUS
  <1> HIDE DEF r
  <1>1. ASSUME NEW n \in 0 .. Len(q), Leaves(q, n, c, a, image) PROVE Leaves(r, n, c, a, image)
    <2>1. \A i \in 1 .. n : r[i] = q[i]
      BY <1>0
    <2>2. \A k \in 1 .. n : \A j \in k + 1 .. n : r[j] = q[j]
      BY <1>0
    <2>3. CASE \A j \in 1 .. n : ~Announces(q[j], c)
      BY <1>1, <2>1, <2>3, Zenon DEF Leaves
    <2>4. ASSUME NEW k \in 1 .. n, Announces(q[k], c), q[k].image = image,
                 \A j \in k + 1 .. n : ~Announces(q[j], c)
          PROVE  Leaves(r, n, c, a, image)
      BY <2>1, <2>2, <2>4, Zenon DEF Leaves
    <2> QED BY <1>1, <2>3, <2>4, Zenon DEF Leaves
  <1>2. ASSUME Leaves(q, Len(q), c, a, image), ~Announces(e, c)
        PROVE  Leaves(r, Len(q) + 1, c, a, image)
    <2>1. Leaves(r, Len(q), c, a, image)
      BY <1>0, <1>1, <1>2
    <2>2. ASSUME NEW j \in 1 .. Len(q) + 1 PROVE j \in 1 .. Len(q) \/ ~Announces(r[j], c)
      BY <1>0, <1>2
    <2>3. CASE (\A j \in 1 .. Len(q) : ~Announces(r[j], c)) /\ (a.state = "assembling" => a.image = image)
      BY <2>2, <2>3, Zenon DEF Leaves
    <2>4. ASSUME NEW k \in 1 .. Len(q), Announces(r[k], c), r[k].image = image,
                 \A j \in k + 1 .. Len(q) : ~Announces(r[j], c)
          PROVE  Leaves(r, Len(q) + 1, c, a, image)
      <3>1. k \in 1 .. Len(q) + 1
        BY <1>0
      <3>2. ASSUME NEW j \in k + 1 .. Len(q) + 1 PROVE ~Announces(r[j], c)
        <4>1. j \in k + 1 .. Len(q) \/ j = Len(q) + 1
          BY <1>0
        <4> QED BY <1>0, <1>2, <2>4, <4>1
      <3> QED BY <2>4, <3>1, <3>2, Zenon DEF Leaves
    <2> QED BY <2>1, <2>3, <2>4, Zenon DEF Leaves
  <1>3. ASSUME Announces(e, c), e.image = image PROVE Leaves(r, Len(q) + 1, c, a, image)
    <2>1. Len(q) + 1 \in 1 .. Len(q) + 1 /\ ~ \E j \in (Len(q) + 1) + 1 .. Len(q) + 1 : TRUE
      BY <1>0
    <2> QED BY <1>0, <1>3, <2>1, Zenon DEF Leaves
  <1> QED BY <1>1, <1>2, <1>3 DEF r

\* What is assembled may be dropped.
LEMMA LeavesDropped ==
    ASSUME NEW q, NEW n, NEW c, NEW a, NEW b, NEW image, Leaves(q, n, c, a, image),
           b.state = "assembling" => a.state = "assembling" /\ b.image = a.image
    PROVE  Leaves(q, n, c, b, image)
  BY DEF Leaves

LEMMA LeavesTail ==
    ASSUME NEW q \in Seq(ArtItems), q # <<>>, NEW n \in 1 .. Len(q), NEW c, NEW a, NEW b, NEW image,
           Leaves(q, n, c, a, image),
           b.state = "assembling" =>
             IF Announces(Head(q), c) THEN b.image = Head(q).image
             ELSE a.state = "assembling" /\ b.image = a.image
    PROVE  Leaves(Tail(q), n - 1, c, b, image)
  <1> DEFINE r == Tail(q)
  <1>0. /\ Len(q) \in Nat /\ Head(q) = q[1] /\ \A i \in 1 .. Len(q) - 1 : r[i] = q[i + 1]
    OBVIOUS
  <1> HIDE DEF r
  <1>1. \A i \in 1 .. n - 1 : i + 1 \in 1 .. n /\ r[i] = q[i + 1]
    BY <1>0
  <1>2. CASE (\A j \in 1 .. n : ~Announces(q[j], c)) /\ (a.state = "assembling" => a.image = image)
    <2>1. ~Announces(Head(q), c)
      BY <1>0, <1>2
    <2>2. \A j \in 1 .. n - 1 : ~Announces(r[j], c)
      BY <1>1, <1>2
    <2> QED BY <1>2, <2>1, <2>2 DEF Leaves, r
  <1>3. ASSUME NEW k \in 1 .. n, Announces(q[k], c), q[k].image = image,
               \A j \in k + 1 .. n : ~Announces(q[j], c)
        PROVE  Leaves(r, n - 1, c, b, image)
    <2>1. CASE k = 1
      <3>1. Announces(Head(q), c) /\ Head(q).image = image
        BY <1>0, <1>3, <2>1
      <3>2. ASSUME NEW j \in 1 .. n - 1 PROVE ~Announces(r[j], c)
        <4>1. j + 1 \in k + 1 .. n /\ r[j] = q[j + 1]
          BY <1>1, <2>1
        <4> QED BY <1>3, <4>1
      <3> QED BY <3>1, <3>2 DEF Leaves
    <2>2. CASE k # 1
      <3>1. k - 1 \in 1 .. n - 1 /\ r[k - 1] = q[k]
        BY <1>1, <2>2
      <3>2. ASSUME NEW j \in (k - 1) + 1 .. n - 1 PROVE ~Announces(r[j], c)
        <4>1. j + 1 \in k + 1 .. n /\ j \in 1 .. n - 1
          BY <1>0
        <4> QED BY <1>1, <1>3, <4>1
      <3> QED BY <1>3, <3>1, <3>2, Zenon DEF Leaves
    <2> QED BY <2>1, <2>2
  <1> QED BY <1>2, <1>3 DEF Leaves, r

LEMMA PartsStep ==
    ASSUME ArtTyped, Places, Carried, Numbered, \A c \in Channels : Complete(c), PartsFollow, Stamps,
           [ArtworkNext]_artworkVars
    PROVE  PartsFollow'
  <1>0. /\ items \in Seq(ArtItems) /\ Len(items) \in Nat /\ DOMAIN items = 1 .. Len(items)
        /\ \A i \in DOMAIN items : items[i].chans \subseteq Channels
        /\ artwork.gen \in Nat
    <2>1. items \in Seq(ArtItems)
      BY DEF ArtTyped
    <2>2. \A i \in DOMAIN items : items[i] \in ArtItems
      BY <2>1
    <2>3. \A i \in DOMAIN items : items[i].chans \subseteq Channels
      BY <2>2 DEF ArtItems
    <2> QED BY <2>1, <2>3 DEF ArtTyped, ArtworkStream
  <1> DEFINE Follow ==
               /\ \A i \in DOMAIN items' : \A c \in items'[i].chans :
                    items'[i].type = "part" => Leaves(items', i - 1, c, assemblies'[c], items'[i].image)
               /\ artwork'.transfer # NoTransfer /\ ~artwork'.transfer.discarding =>
                    Leaves(items', Len(items'), artwork'.transfer.on,
                           assemblies'[artwork'.transfer.on], artwork'.transfer.image)
  <1>2. SUFFICES ASSUME ~artwork'.removing
                 PROVE  Follow
    BY DEF PartsFollow
  <1>3. ~artwork.removing =>
          /\ \A i \in DOMAIN items : \A c \in items[i].chans :
               items[i].type = "part" => Leaves(items, i - 1, c, assemblies[c], items[i].image)
          /\ artwork.transfer # NoTransfer /\ ~artwork.transfer.discarding =>
               Leaves(items, Len(items), artwork.transfer.on, assemblies[artwork.transfer.on],
                      artwork.transfer.image)
    BY DEF PartsFollow
  <1>1. CASE UNCHANGED <<artwork, items, assemblies>>
    BY <1>1, <1>2, <1>3
  <1>4. CASE Handled
    <2>1. ~artwork.removing /\ assemblies' = assemblies /\ SameStream
      BY <1>2, <1>4 DEF Handled, decodeThread
    <2>2. ASSUME NEW e \in ArtItems, items' = Append(items, e)
          PROVE  /\ Len(items') = Len(items) + 1 /\ DOMAIN items' = 1 .. Len(items) + 1
                 /\ items'[Len(items) + 1] = e
                 /\ \A i \in 1 .. Len(items) : \A c \in items'[i].chans :
                      items'[i].type = "part" =>
                        Leaves(items', i - 1, c, assemblies'[c], items'[i].image)
      <3>1. /\ Len(items') = Len(items) + 1 /\ DOMAIN items' = 1 .. Len(items) + 1
            /\ items'[Len(items) + 1] = e /\ \A i \in 1 .. Len(items) : items'[i] = items[i]
        BY <1>0, <2>2, ItemAdded
      <3>2. ASSUME NEW i \in 1 .. Len(items), NEW c \in items'[i].chans, items'[i].type = "part"
            PROVE  Leaves(items', i - 1, c, assemblies'[c], items'[i].image)
        <4>1. Leaves(items, i - 1, c, assemblies[c], items[i].image)
          BY <1>0, <1>3, <2>1, <3>1, <3>2
        <4>2. i - 1 \in 0 .. Len(items)
          BY <1>0
        <4> QED BY <1>0, <2>1, <2>2, <3>1, <4>1, <4>2, LeavesAppended
      <3> QED BY <3>1, <3>2
    <2>3. CASE Marked /\ Continues
      <3>1. CASE items' = items
        BY <1>3, <2>1, <2>3, <3>1 DEF Continues, NoTransfer
      <3>2. ASSUME NEW m \in ArtItems, m.type \in {"discard", "reconfigure"}, items' = Append(items, m)
            PROVE  Follow
        <4>1. \A i \in DOMAIN items' : i \in 1 .. Len(items) \/ i = Len(items) + 1
          BY <1>0, <2>2, <3>2
        <4>2. \A i \in DOMAIN items' : \A c \in items'[i].chans :
                 items'[i].type = "part" => Leaves(items', i - 1, c, assemblies'[c], items'[i].image)
          BY <2>2, <3>2, <4>1
        <4>3. ASSUME artwork'.transfer # NoTransfer, ~artwork'.transfer.discarding
              PROVE  Leaves(items', Len(items'), artwork'.transfer.on,
                            assemblies'[artwork'.transfer.on], artwork'.transfer.image)
          <5>1. /\ artwork.transfer # NoTransfer /\ ~artwork.transfer.discarding
                /\ artwork'.transfer.on = artwork.transfer.on
                /\ artwork'.transfer.image = artwork.transfer.image
            BY <2>3, <4>3 DEF Continues
          <5>2. \A c : ~Announces(m, c)
            BY <3>2 DEF Announces
          <5> QED BY <1>0, <1>3, <2>1, <2>2, <3>2, <5>1, <5>2, LeavesAppended
        <4> QED BY <4>2, <4>3
      <3> QED BY <2>3, <3>1, <3>2 DEF Marked
    <2>4. ASSUME NEW c \in Channels, Announced(c)
          PROVE  Follow
      <3>1. PICK e \in ArtItems :
              /\ e.type = "announce" /\ e.chans = {c} /\ e.image = epochs'[c]
              /\ items' = Append(items, e)
        BY <2>4 DEF Announced
      <3>2. \A i \in DOMAIN items' : i \in 1 .. Len(items) \/ i = Len(items) + 1
        BY <1>0, <2>2, <3>1
      <3>3. \A i \in DOMAIN items' : \A d \in items'[i].chans :
               items'[i].type = "part" => Leaves(items', i - 1, d, assemblies'[d], items'[i].image)
        BY <2>2, <3>1, <3>2
      <3>4. Announces(e, c)
        BY <3>1 DEF Announces
      <3>5. Leaves(items', Len(items'), c, assemblies'[c], epochs'[c])
        BY <1>0, <2>2, <3>1, <3>4, LeavesAppended
      <3> QED BY <2>4, <3>3, <3>5 DEF Announced
    <2>5. CASE PartHanded /\ Continues
      <3> DEFINE t == artwork.transfer
      <3>1. t # NoTransfer /\ ~t.discarding
        BY <2>5 DEF PartHanded
      <3>2. PICK e \in ArtItems :
              e.type = "part" /\ e.chans = {t.on} /\ e.image = t.image /\ items' = Append(items, e)
        BY <2>5 DEF PartHanded
      <3>3. Leaves(items, Len(items), t.on, assemblies[t.on], t.image)
        BY <1>3, <2>1, <3>1
      <3>4. /\ Leaves(items', Len(items), t.on, assemblies'[t.on], t.image)
            /\ Leaves(items', Len(items) + 1, t.on, assemblies'[t.on], t.image)
        <4>1. Len(items) \in 0 .. Len(items) /\ ~Announces(e, t.on)
          BY <1>0, <3>2 DEF Announces
        <4> QED BY <1>0, <2>1, <3>2, <3>3, <4>1, LeavesAppended
      <3>5. ASSUME NEW i \in DOMAIN items', NEW d \in items'[i].chans, items'[i].type = "part"
            PROVE  Leaves(items', i - 1, d, assemblies'[d], items'[i].image)
        <4>1. CASE i \in 1 .. Len(items)
          BY <2>2, <3>2, <3>5, <4>1
        <4>2. CASE i = Len(items) + 1
          <5>1. items'[i] = e /\ i - 1 = Len(items)
            BY <1>0, <2>2, <3>2, <4>2
          <5>2. d = t.on
            BY <3>2, <3>5, <5>1
          <5> QED BY <3>2, <3>4, <5>1, <5>2
        <4> QED BY <1>0, <2>2, <3>2, <4>1, <4>2
      <3>6. ASSUME artwork'.transfer # NoTransfer, ~artwork'.transfer.discarding
            PROVE  artwork'.transfer.on = t.on /\ artwork'.transfer.image = t.image
        BY <2>5, <3>6 DEF Continues
      <3>7. Len(items') = Len(items) + 1
        BY <2>2, <3>2
      <3> QED BY <3>4, <3>5, <3>6, <3>7
    <2> QED BY <1>2, <1>4, <2>1, <2>3, <2>4, <2>5 DEF Handled
  <1>5. CASE TearsDown
    BY <1>5 DEF TearsDown, TornDownTo
  <1>6. CASE DecodeStep
    <2>1. UNCHANGED artwork
      BY <1>6, DecodeTypes DEF Decodes, protocolTask
    <2>2. Drops \/ Begins \/ Hands
      BY <1>6, DecodeEffect
    <2>3. ASSUME NEW c \in Channels, Remains(c)
          PROVE  assemblies'[c].state = "assembling" =>
                   assemblies[c].state = "assembling" /\ assemblies'[c].image = assemblies[c].image
      BY <2>3 DEF Remains, NoAssembly
    <2>4. artwork.transfer # NoTransfer => artwork.transfer.on \in Channels
      BY DEF Carried
    <2>5. CASE items' = items /\ \A c \in Channels : Remains(c)
      <3>1. ASSUME NEW c \in Channels, NEW n, NEW image, Leaves(items, n, c, assemblies[c], image)
            PROVE  Leaves(items', n, c, assemblies'[c], image)
        BY <2>3, <2>5, <3>1, LeavesDropped
      <3> QED BY <1>0, <1>2, <1>3, <2>1, <2>4, <2>5, <3>1
    <2>6. CASE /\ ItemLeft
               /\ \A c \in Channels :
                    assemblies'[c].state = "assembling" =>
                      IF Announces(Head(items), c) THEN assemblies'[c].image = Head(items).image
                      ELSE assemblies[c].state = "assembling" /\ assemblies'[c].image = assemblies[c].image
      <3>1. /\ items # <<>> /\ items' = Tail(items) /\ Len(items) >= 1
            /\ Len(items') = Len(items) - 1 /\ DOMAIN items' = 1 .. Len(items) - 1
            /\ \A i \in DOMAIN items' : i + 1 \in DOMAIN items /\ items'[i] = items[i + 1]
        BY <1>0, <2>6, ItemTaken DEF ItemLeft
      <3>2. ASSUME NEW c \in Channels, NEW n \in 1 .. Len(items), NEW image,
                   Leaves(items, n, c, assemblies[c], image)
            PROVE  Leaves(items', n - 1, c, assemblies'[c], image)
        BY <1>0, <2>6, <3>1, <3>2, LeavesTail
      <3>3. ASSUME NEW i \in DOMAIN items', NEW c \in items'[i].chans, items'[i].type = "part"
            PROVE  Leaves(items', i - 1, c, assemblies'[c], items'[i].image)
        <4>1. /\ i + 1 \in DOMAIN items /\ items'[i] = items[i + 1] /\ (i + 1) - 1 = i
              /\ i \in 1 .. Len(items) /\ c \in Channels
          BY <1>0, <3>1, <3>3
        <4>2. Leaves(items, i, c, assemblies[c], items'[i].image)
          BY <1>2, <1>3, <2>1, <3>3, <4>1
        <4> QED BY <3>2, <4>1, <4>2
      <3>4. ASSUME artwork'.transfer # NoTransfer, ~artwork'.transfer.discarding
            PROVE  Leaves(items', Len(items'), artwork'.transfer.on,
                          assemblies'[artwork'.transfer.on], artwork'.transfer.image)
        <4>1. Len(items) \in 1 .. Len(items)
          BY <1>0, <3>1
        <4> QED BY <1>2, <1>3, <2>1, <2>4, <3>1, <3>2, <3>4, <4>1
      <3> QED BY <3>3, <3>4
    <2>7. CASE Drops
      <3>1. CASE ItemLeft /\ (Head(items).type # "announce" \/ Head(items).gen # artwork.gen)
        <4>1. Head(items).gen = artwork.gen
          BY <1>0, <1>2, <2>1, <3>1, TakenItem DEF ItemLeft, Stamps
        <4>2. \A c : ~Announces(Head(items), c)
          BY <3>1, <4>1 DEF Announces
        <4> QED BY <2>3, <2>6, <2>7, <3>1, <4>2 DEF Drops
      <3> QED BY <2>5, <2>7, <3>1 DEF Drops
    <2>8. CASE Begins
      <3>1. PICK c \in Channels :
              /\ Head(items).chans = {c} /\ assemblies'[c].image = Head(items).image
              /\ \A d \in Channels \ {c} : Remains(d)
        BY <2>8 DEF Begins
      <3>2. Announces(Head(items), c) /\ \A d \in Channels \ {c} : ~Announces(Head(items), d)
        BY <2>8, <3>1 DEF Begins, Announces
      <3> QED BY <2>3, <2>6, <2>8, <3>1, <3>2 DEF Begins
    <2>9. CASE Hands
      <3>1. items' = items /\ \A c \in Channels : Remains(c)
        BY <2>9 DEF Hands, Remains
      <3> QED BY <2>5, <3>1
    <2> QED BY <2>2, <2>7, <2>8, <2>9
  <1>7. CASE Restarts \/ MainTurn
    <2>1. UNCHANGED <<artwork, items, assemblies>>
      BY <1>7, ArtMainTypes DEF Restarts, Drains, protocolTask, decodeThread
    <2> QED BY <1>1, <2>1
  <1> QED BY <1>1, <1>4, <1>5, <1>6, <1>7, ArtSteps DEF artworkVars, protocolTask, decodeThread

-----------------------------------------------------------------------------
(* The artwork role: images come to the screen in their order *)

LEMMA AnnouncesAppended ==
    ASSUME NEW q \in Seq(ArtItems), NEW e \in ArtItems, NEW c, NEW top \in Nat, Ascends(q, c, top),
           NEW next \in Nat, top <= next
    PROVE  /\ ~Announces(e, c) =>
                /\ Ascends(Append(q, e), c, next)
                /\ \A x : Older(x, q, c) => Older(x, Append(q, e), c)
           /\ e.image = next /\ next = top + 1 =>
                /\ Ascends(Append(q, e), c, next)
                /\ \A x \in Nat : x <= top /\ Older(x, q, c) => Older(x, Append(q, e), c)
  <1> DEFINE r == Append(q, e)
  <1>0. /\ Len(q) \in Nat /\ r[Len(q) + 1] = e /\ \A i \in DOMAIN q : r[i] = q[i]
        /\ DOMAIN q = 1 .. Len(q) /\ DOMAIN r = 1 .. Len(q) + 1
        /\ \A i \in DOMAIN r : i \in DOMAIN q \/ i = Len(q) + 1
        /\ \A i \in DOMAIN q : q[i].image \in Nat
    <2>1. \A i \in DOMAIN q : q[i] \in ArtItems
      OBVIOUS
    <2>2. \A i \in DOMAIN q : q[i].image \in Nat
      BY <2>1 DEF ArtItems
    <2> QED BY <2>2, ItemAdded
  <1> HIDE DEF r
  <1>1. /\ \A i \in DOMAIN q : Announces(q[i], c) => q[i].image <= top
        /\ \A i, j \in DOMAIN q :
             i < j /\ Announces(q[i], c) /\ Announces(q[j], c) => q[i].image < q[j].image
    BY DEF Ascends
  <1>2. ASSUME Announces(e, c) => (e.image = next /\ next = top + 1) PROVE Ascends(r, c, next)
    <2>1. ASSUME NEW i \in DOMAIN r, Announces(r[i], c) PROVE r[i].image <= next
      BY <1>0, <1>1, <1>2, <2>1
    <2>2. ASSUME NEW i \in DOMAIN r, NEW j \in DOMAIN r, i < j, Announces(r[i], c), Announces(r[j], c)
          PROVE  r[i].image < r[j].image
      <3>1. i \in DOMAIN q
        BY <1>0, <2>2
      <3>2. CASE j \in DOMAIN q
        BY <1>0, <1>1, <2>2, <3>1, <3>2
      <3>3. CASE j = Len(q) + 1
        BY <1>0, <1>1, <1>2, <2>2, <3>1, <3>3
      <3> QED BY <1>0, <3>2, <3>3
    <2> QED BY <2>1, <2>2 DEF Ascends
  <1>3. ASSUME ~Announces(e, c), NEW x, Older(x, q, c) PROVE Older(x, r, c)
    BY <1>0, <1>3 DEF Older
  <1>4. ASSUME e.image = next, next = top + 1, NEW x \in Nat, x <= top, Older(x, q, c)
        PROVE  Older(x, r, c)
    BY <1>0, <1>4 DEF Older
  <1> QED BY <1>2, <1>3, <1>4 DEF r

LEMMA AnnouncesTaken ==
    ASSUME NEW q \in Seq(ArtItems), q # <<>>, NEW c, NEW top \in Nat, Ascends(q, c, top)
    PROVE  /\ Ascends(Tail(q), c, top)
           /\ \A x : Older(x, q, c) => Older(x, Tail(q), c)
           /\ Announces(Head(q), c) =>
                Head(q).image <= top /\ Older(Head(q).image, Tail(q), c)
                /\ \A x : Older(x, q, c) => x < Head(q).image
  <1>0. /\ Len(q) \in Nat /\ Head(q) = q[1] /\ 1 \in DOMAIN q
        /\ \A i \in DOMAIN Tail(q) : i + 1 \in DOMAIN q /\ Tail(q)[i] = q[i + 1] /\ i \in Nat /\ 1 < i + 1
    <2>1. DOMAIN Tail(q) = 1 .. Len(q) - 1 /\ Len(q) \in Nat
      BY ItemTaken
    <2> QED BY <2>1, ItemTaken
  <1>1. /\ \A i \in DOMAIN q : Announces(q[i], c) => q[i].image <= top
        /\ \A i, j \in DOMAIN q :
             i < j /\ Announces(q[i], c) /\ Announces(q[j], c) => q[i].image < q[j].image
    BY DEF Ascends
  <1>2. Ascends(Tail(q), c, top)
    <2>1. \A i, j \in DOMAIN Tail(q) : i < j => i + 1 < j + 1
      BY <1>0
    <2> QED BY <1>0, <1>1, <2>1 DEF Ascends
  <1> QED BY <1>0, <1>1, <1>2 DEF Older

\* The images of a channel are numbers, and its list's are positive.
LEMMA ChainTypes ==
    ASSUME ArtTyped, Numbered, NEW c \in Channels
    PROVE  /\ screen[c].shown \in Nat /\ holds[c].image \in Nat /\ drain.taken.of[c].image \in Nat
           /\ display.of[c].image \in Nat /\ assemblies[c].image \in Nat /\ epochs[c] \in Nat
           /\ items \in Seq(ArtItems) /\ Older(0, items, c)
  <1>1. Older(0, items, c)
    BY DEF Numbered, Single, Announces, Older
  <1>2. /\ screen[c] \in Screen /\ holds[c] \in Holds /\ drain.taken \in ArtDisplays
        /\ display \in ArtDisplays /\ assemblies[c] \in Assemblies /\ epochs[c] \in Nat
        /\ items \in Seq(ArtItems)
    BY DEF ArtTyped, Drainers
  <1>3. drain.taken.of[c] \in Holds /\ display.of[c] \in Holds
    BY <1>2 DEF ArtDisplays
  <1> QED BY <1>1, <1>2, <1>3 DEF Screen, Holds, Assemblies

LEMMA ChainStep ==
    ASSUME ArtTyped, Places, Carried, Numbered, \A d \in Channels : Complete(d), NEW c \in Channels,
           Chain(c), [ArtworkNext]_artworkVars
    PROVE  Chain(c)'
  <1> DEFINE s == screen[c].shown
             h == holds[c].image
             t == drain.taken.of[c].image
             r == display.of[c].image
             b == assemblies[c].image
             e == epochs[c]
  <1>0. /\ s \in Nat /\ h \in Nat /\ t \in Nat /\ r \in Nat /\ b \in Nat /\ e \in Nat
        /\ items \in Seq(ArtItems) /\ Older(0, items, c)
    BY ChainTypes
  <1>1. /\ Rising(s, h, t, r, b, e) /\ Ascends(items, c, e)
        /\ Older(s, items, c) /\ Older(h, items, c) /\ Older(t, items, c) /\ Older(r, items, c)
        /\ Older(b, items, c)
    BY DEF Chain
  <1>2. s <= e /\ h <= e /\ t <= e /\ r <= e /\ b <= e
    BY <1>1 DEF Rising
  <1>3. NoHold.image = 0 /\ NoAssembly.image = 0 /\ NoDisplay.of[c] = NoHold
    BY EmptyTypes
  <1>4. ASSUME Rising(s', h', t', r', b', e'), Ascends(items', c, e'),
               Older(s', items', c), Older(h', items', c), Older(t', items', c), Older(r', items', c),
               Older(b', items', c)
        PROVE  Chain(c)'
    BY <1>4 DEF Chain
  <1> HIDE DEF s, h, t, r, b, e
  <1>5. ASSUME items' = items, e' = e, s' \in {s, h}, h' \in {0, h, t}, t' \in {0, t, r},
               r' \in {0, r, b}, b' \in {0, b}, Rising(s', h', t', r', b', e')
        PROVE  Chain(c)'
    BY <1>0, <1>1, <1>4, <1>5
  <1>6. CASE UNCHANGED artworkVars
    <2>1. UNCHANGED <<s, h, t, r, b, e, items>>
      BY <1>6 DEF artworkVars, protocolTask, decodeThread, drainSide, s, h, t, r, b, e
    <2> QED BY <1>1, <1>5, <2>1
  <1>7. CASE Handled
    <2>1. UNCHANGED <<s, h, t, r, b>> /\ e' \in Nat /\ e <= e'
      BY <1>7 DEF Handled, MovesOn, decodeThread, drainSide, s, h, t, r, b, e
    <2>2. Rising(s', h', t', r', b', e')
      BY <1>0, <1>1, <2>1 DEF Rising, Before
    <2>3. CASE items' = items
      <3>1. Ascends(items, c, e')
        <4>1. \A i \in DOMAIN items : items[i].image \in Nat
          <5>1. \A i \in DOMAIN items : items[i] \in ArtItems
            BY <1>0
          <5> QED BY <5>1 DEF ArtItems
        <4> QED BY <1>0, <1>1, <2>1, <4>1 DEF Ascends
      <3> QED BY <1>1, <1>4, <2>1, <2>2, <2>3, <3>1
    <2>4. ASSUME NEW m \in ArtItems, items' = Append(items, m),
                 ~Announces(m, c) \/ (m.image = e' /\ e' = e + 1)
          PROVE  Chain(c)'
      <3>1. /\ Ascends(items', c, e')
            /\ \A x \in {s, h, t, r, b} : Older(x, items', c)
        BY <1>0, <1>1, <1>2, <2>1, <2>4, AnnouncesAppended
      <3> QED BY <1>4, <2>1, <2>2, <3>1
    <2>5. CASE Marked
      BY <2>3, <2>4, <2>5 DEF Marked, Announces
    <2>6. CASE PartHanded
      BY <2>4, <2>6 DEF PartHanded, Announces
    <2>7. ASSUME NEW d \in Channels, Announced(d) PROVE Chain(c)'
      BY <2>4, <2>7 DEF Announced, Announces, e
    <2> QED BY <1>7, <2>3, <2>5, <2>6, <2>7 DEF Handled
  <1>8. CASE TearsDown
    <2>1. UNCHANGED <<s, h, t, r, b>> /\ e' \in Nat /\ e <= e' /\ items' = <<>>
      BY <1>8 DEF TearsDown, TornDownTo, MovesOn, decodeThread, s, h, t, r, b, e
    <2>2. Rising(s', h', t', r', b', e')
      BY <1>0, <1>1, <2>1 DEF Rising, Before
    <2>3. Ascends(items', c, e') /\ \A x : Older(x, items', c)
      BY <2>1 DEF Ascends, Older
    <2> QED BY <1>4, <2>2, <2>3
  <1>9. CASE Restarts
    <2>1. UNCHANGED <<s, h, t, r, b, e, items>>
      BY <1>9 DEF Restarts, protocolTask, s, h, t, r, b, e
    <2> QED BY <1>1, <1>5, <2>1
  <1>10. CASE DecodeStep
    <2>1. UNCHANGED <<s, h, t, e>>
      BY <1>10, DecodeEffect DEF Decodes, protocolTask, drainSide, s, h, t, e
    <2>2. Remains(c) => b' \in {0, b}
      BY <1>3 DEF Remains, b
    <2>3. ASSUME ItemLeft, UNCHANGED r, b' \in {0, b} PROVE Chain(c)'
      <3>1. Rising(s', h', t', r', b', e')
        BY <1>0, <1>1, <2>1, <2>3 DEF Rising, Before
      <3>2. Ascends(items', c, e') /\ \A x \in {s, h, t, r, b, 0} : Older(x, items', c)
        BY <1>0, <1>1, <2>1, <2>3, AnnouncesTaken DEF ItemLeft
      <3> QED BY <1>4, <2>1, <2>3, <3>1, <3>2
    <2>4. CASE Drops
      <3>1. b' \in {0, b} /\ UNCHANGED r
        BY <2>2, <2>4 DEF Drops, r
      <3>2. CASE items' = items
        <4>1. Rising(s', h', t', r', b', e')
          BY <1>0, <1>1, <2>1, <3>1 DEF Rising, Before
        <4> QED BY <1>5, <2>1, <3>1, <3>2, <4>1
      <3> QED BY <2>3, <2>4, <3>1, <3>2 DEF Drops
    <2>5. CASE Begins
      <3>1. UNCHANGED r
        BY <2>5 DEF Begins, r
      <3>2. PICK d \in Channels :
              /\ Head(items).chans = {d} /\ assemblies'[d].image = Head(items).image
              /\ \A x \in Channels \ {d} : Remains(x)
        BY <2>5 DEF Begins
      <3>3. CASE d # c
        BY <2>2, <2>3, <2>5, <3>1, <3>2, <3>3 DEF Begins
      <3>4. CASE d = c
        <4>1. Announces(Head(items), c) /\ b' = Head(items).image /\ items # <<>> /\ items' = Tail(items)
          BY <2>5, <3>2, <3>4 DEF Begins, Announces, b, ItemLeft
        <4>2. /\ Ascends(items', c, e') /\ \A x \in {s, h, t, r, b'} : Older(x, items', c)
              /\ b' <= e /\ s < b' /\ h < b' /\ t < b' /\ r < b'
          BY <1>0, <1>1, <2>1, <4>1, AnnouncesTaken
        <4>3. b' \in Nat
          <5>1. Head(items) \in ArtItems
            BY <1>0, <4>1
          <5> QED BY <4>1, <5>1 DEF ArtItems
        <4>4. Rising(s', h', t', r', b', e')
          BY <1>0, <1>1, <2>1, <3>1, <4>2, <4>3 DEF Rising, Before
        <4> QED BY <1>4, <2>1, <3>1, <4>2, <4>4
      <3> QED BY <3>3, <3>4
    <2>6. CASE Hands
      <3>1. PICK d \in Channels, hold \in Holds :
              /\ hold.image = assemblies[d].image
              /\ display' = Merge(d, hold, assemblies[d].gen)
              /\ assemblies'[d] = NoAssembly /\ \A x \in Channels \ {d} : assemblies'[x] = assemblies[x]
        BY <2>6 DEF Hands
      <3>2. assemblies[d].gen \in Nat
        BY DEF ArtTyped, Assemblies
      <3>3. items' = items
        BY <2>6 DEF Hands
      <3>4. CASE d # c
        <4>1. r' \in {0, r} /\ b' = b
          BY <1>3, <3>1, <3>2, <3>4, MergedDisplay DEF r, b
        <4>2. Rising(s', h', t', r', b', e')
          BY <1>0, <1>1, <2>1, <4>1 DEF Rising, Before
        <4> QED BY <1>5, <2>1, <3>3, <4>1, <4>2
      <3>5. CASE d = c
        <4>1. (r' = b \/ r' = r) /\ b' = 0
          BY <1>3, <3>1, <3>2, <3>5, MergedDisplay DEF r, b
        <4>2. Rising(s', h', t', r', b', e')
          BY <1>0, <1>1, <2>1, <4>1 DEF Rising, Before
        <4> QED BY <1>5, <2>1, <3>3, <4>1, <4>2
      <3> QED BY <3>4, <3>5
    <2> QED BY <1>10, <2>4, <2>5, <2>6, DecodeEffect
  <1>11. CASE MainTurn
    <2>1. UNCHANGED <<b, e, items>>
      BY <1>11, ArtMainTypes DEF Drains, protocolTask, decodeThread, b, e
    <2>2. TakenKept => t' \in {0, t}
      BY <1>3 DEF TakenKept, t
    <2>3. CASE Idles \/ ClearsAll
      <3>1. s' = s /\ h' \in {0, h} /\ t' \in {0, t} /\ r' = r
        BY <1>3, <2>2, <2>3 DEF Idles, ClearsAll, s, h, r
      <3>2. Rising(s', h', t', r', b', e')
        BY <1>0, <1>1, <2>1, <3>1 DEF Rising, Before
      <3> QED BY <1>5, <2>1, <3>1, <3>2
    <2>4. CASE TakesDisplay
      <3>1. s' = s /\ h' = h /\ t' = r /\ r' = 0
        BY <1>3, <2>4 DEF TakesDisplay, s, h, t, r
      <3>2. Rising(s', h', t', r', b', e')
        BY <1>0, <1>1, <2>1, <3>1 DEF Rising, Before
      <3> QED BY <1>5, <2>1, <3>1, <3>2
    <2>5. CASE Folds
      <3>1. s' = s /\ h' \in {h, t} /\ t' = 0 /\ r' = r
        BY <1>3, <2>5 DEF Folds, s, h, t, r
      <3>2. Rising(s', h', t', r', b', e')
        BY <1>0, <1>1, <2>1, <3>1 DEF Rising, Before
      <3> QED BY <1>5, <2>1, <3>1, <3>2
    <2>6. CASE Presents
      <3>1. r' = r /\ t' \in {0, t} /\ ((s' = h /\ h' = 0) \/ (s' = s /\ h' = h))
        BY <1>3, <2>2, <2>6 DEF Presents, s, h, r
      <3>2. Rising(h, 0, t, r, b, e) /\ Rising(s, h, t, r, b, e)
        BY <1>0, <1>1 DEF Rising, Before
      <3>3. Rising(s', h', t', r', b', e')
        <4>1. ASSUME NEW x \in Nat, NEW y \in Nat, Rising(x, y, t, r, b, e)
              PROVE  Rising(x, y, t', r, b, e)
          BY <1>0, <3>1, <4>1 DEF Rising, Before
        <4> QED BY <1>0, <2>1, <3>1, <3>2, <4>1
      <3> QED BY <1>5, <2>1, <3>1, <3>3
    <2> QED BY <1>11, <2>3, <2>4, <2>5, <2>6, MainEffect
  <1> QED BY <1>6, <1>7, <1>8, <1>9, <1>10, <1>11, ArtSteps

-----------------------------------------------------------------------------
(* The artwork role: what a stream's end or a teardown was for is not displayed *)

\* What the images of a channel are compared with
LEMMA EndTypes ==
    ASSUME ArtTyped, NEW c \in Channels
    PROVE  /\ artwork.gen \in Nat /\ artwork.cut[c] \in Nat /\ screen[c].ended \in Nat
           /\ epochs[c] \in Nat /\ artEvents \in Seq(ArtEvents)
           /\ \A i \in DOMAIN artEvents : artEvents[i].upto[c] \in Nat
           /\ drain.taken.gen \in Nat /\ display.gen \in Nat /\ assemblies[c].gen \in Nat
           /\ \A i \in DOMAIN items : items[i].gen \in Nat /\ items[i].image \in Nat
  <1>1. /\ artwork \in ArtworkStream /\ screen[c] \in Screen /\ epochs[c] \in Nat
        /\ artEvents \in Seq(ArtEvents) /\ drain \in Drainers /\ display \in ArtDisplays
        /\ assemblies[c] \in Assemblies /\ items \in Seq(ArtItems)
    BY DEF ArtTyped
  <1>2. \A i \in DOMAIN artEvents : artEvents[i] \in ArtEvents
    BY <1>1
  <1>3. \A i \in DOMAIN items : items[i] \in ArtItems
    BY <1>1
  <1>4. artwork.gen \in Nat /\ artwork.cut[c] \in Nat
    BY <1>1 DEF ArtworkStream
  <1>5. \A i \in DOMAIN artEvents : artEvents[i].upto[c] \in Nat
    BY <1>2 DEF ArtEvents
  <1>6. \A i \in DOMAIN items : items[i].gen \in Nat /\ items[i].image \in Nat
    BY <1>3 DEF ArtItems
  <1>7. drain.taken.gen \in Nat /\ display.gen \in Nat /\ assemblies[c].gen \in Nat
    BY <1>1 DEF Drainers, ArtDisplays, Assemblies
  <1>8. screen[c].ended \in Nat
    BY <1>1 DEF Screen
  <1> QED BY <1>1, <1>4, <1>5, <1>6, <1>7, <1>8

\* What is left of a list was in it.
LEMMA OfTheList ==
    ASSUME NEW S, NEW q \in Seq(S), NEW r, r = q \/ (q # <<>> /\ r = Tail(q))
    PROVE  \A i \in DOMAIN r : \E j \in DOMAIN q : r[i] = q[j]
  <1>1. CASE r = q
    BY <1>1
  <1>2. CASE q # <<>> /\ r = Tail(q)
    <2>1. \A i \in DOMAIN r : i + 1 \in DOMAIN q /\ r[i] = q[i + 1]
      BY <1>2, ItemTaken
    <2> QED BY <2>1
  <1> QED BY <1>1, <1>2

LEMMA EndsStep ==
    ASSUME ArtTyped, Places, Carried, Numbered, \A d \in Channels : Complete(d), Stamps,
           NEW c \in Channels, Chain(c), Ends(c), [ArtworkNext]_artworkVars
    PROVE  Ends(c)'
  <1> DEFINE Now(x, g) ==
               x # 0 /\ g = artwork'.gen =>
                  /\ x # screen'[c].ended /\ x > artwork'.cut[c]
                  /\ \A i \in DOMAIN artEvents' :
                       artEvents'[i].kind = "ended" => artEvents'[i].upto[c] # x
             Bounded ==
               /\ screen'[c].ended <= epochs'[c] /\ artwork'.cut[c] <= epochs'[c]
               /\ \A i \in DOMAIN artEvents' : artEvents'[i].upto[c] <= epochs'[c]
             HeldFits == holds'[c].image # 0 => holds'[c].image # screen'[c].ended
             TakenFits == Now(drain'.taken.of[c].image, drain'.taken.gen)
             ReadyFits == Now(display'.of[c].image, display'.gen)
             BuiltFits == Now(assemblies'[c].image, assemblies'[c].gen)
             ListFits ==
               \A i \in DOMAIN items' : Announces(items'[i], c) => Now(items'[i].image, items'[i].gen)
  <1>0. /\ artwork.gen \in Nat /\ artwork.cut[c] \in Nat /\ screen[c].ended \in Nat
        /\ epochs[c] \in Nat /\ artEvents \in Seq(ArtEvents)
        /\ \A i \in DOMAIN artEvents : artEvents[i].upto[c] \in Nat
        /\ drain.taken.gen \in Nat /\ display.gen \in Nat /\ assemblies[c].gen \in Nat
        /\ \A i \in DOMAIN items : items[i].gen \in Nat /\ items[i].image \in Nat
    BY EndTypes
  <1>1. ASSUME Bounded, HeldFits, TakenFits, ReadyFits, BuiltFits, ListFits
        PROVE  Ends(c)'
    BY <1>1 DEF Ends, Current
  <1>2. /\ screen[c].ended <= epochs[c] /\ artwork.cut[c] <= epochs[c]
        /\ \A i \in DOMAIN artEvents : artEvents[i].upto[c] <= epochs[c]
        /\ holds[c].image # 0 => holds[c].image # screen[c].ended
        /\ Current(c, drain.taken.of[c].image, drain.taken.gen)
        /\ Current(c, display.of[c].image, display.gen)
        /\ Current(c, assemblies[c].image, assemblies[c].gen)
        /\ \A i \in DOMAIN items : Announces(items[i], c) => Current(c, items[i].image, items[i].gen)
    BY DEF Ends
  <1>3. /\ drain.taken.of[c].image \in Nat /\ drain.taken.of[c].image <= epochs[c]
        /\ display.of[c].image \in Nat /\ display.of[c].image <= epochs[c]
        /\ assemblies[c].image \in Nat /\ assemblies[c].image <= epochs[c]
        /\ \A i \in DOMAIN items : Announces(items[i], c) => items[i].image <= epochs[c]
    BY ChainTypes DEF Chain, Rising, Ascends
  <1>4. \A x, g : x = 0 => Now(x, g)
    OBVIOUS
  <1>5. NoHold.image = 0 /\ NoAssembly.image = 0 /\ NoDisplay.of[c].image = 0
    BY EmptyTypes
  <1>6. ASSUME artwork'.gen = artwork.gen, artwork'.cut = artwork.cut,
               screen'[c].ended = screen[c].ended, epochs' = epochs,
               artEvents' = artEvents \/ (artEvents # <<>> /\ artEvents' = Tail(artEvents))
        PROVE  Bounded /\ \A x, g : Current(c, x, g) => Now(x, g)
    <2>1. \A i \in DOMAIN artEvents' : \E j \in DOMAIN artEvents : artEvents'[i] = artEvents[j]
      BY <1>0, <1>6, OfTheList
    <2>2. Bounded
      BY <1>2, <1>6, <2>1
    <2>3. ASSUME NEW x, NEW g, Current(c, x, g) PROVE Now(x, g)
      BY <1>6, <2>1, <2>3 DEF Current
    <2> QED BY <2>2, <2>3
  <1>7. ASSUME artwork'.gen > artwork.gen
        PROVE  /\ Now(drain.taken.of[c].image, drain.taken.gen)
               /\ Now(display.of[c].image, display.gen)
               /\ Now(assemblies[c].image, assemblies[c].gen)
               /\ \A i \in DOMAIN items : Now(items[i].image, items[i].gen)
    <2>1. /\ drain.taken.gen <= artwork.gen /\ display.gen <= artwork.gen
          /\ assemblies[c].gen <= artwork.gen
          /\ \A i \in DOMAIN items : items[i].gen <= artwork.gen
      BY <1>0 DEF Stamps
    <2>2. \A g \in Nat : g <= artwork.gen => g # artwork'.gen
      BY <1>0, <1>7
    <2> HIDE DEF Bounded
    <2> QED BY <1>0, <2>1, <2>2
  <1>8. CASE UNCHANGED artworkVars
    <2>1. UNCHANGED <<artwork, screen, epochs, artEvents, holds, drain, display, assemblies, items>>
      BY <1>8 DEF artworkVars, protocolTask, decodeThread, drainSide
    <2> HIDE DEF Now, Bounded
    <2> QED BY <1>1, <1>2, <1>6, <2>1
  <1> HIDE DEF Now, Bounded
  <1>9. CASE Handled
    <2>1. UNCHANGED <<screen, holds, drain, display, assemblies>> /\ epochs' \in [Channels -> Nat]
          /\ epochs[c] <= epochs'[c]
      BY <1>9 DEF Handled, MovesOn, decodeThread, drainSide
    <2>2. CASE SameStream
      <3>1. ASSUME artEvents' = artEvents
            PROVE  Bounded /\ \A x, g : Current(c, x, g) => Now(x, g)
        <4>1. Bounded
          BY <1>0, <1>2, <2>1, <2>2, <3>1 DEF Bounded, SameStream
        <4>2. \A x, g : Current(c, x, g) => Now(x, g)
          BY <2>1, <2>2, <3>1 DEF Now, Current, SameStream
        <4> QED BY <4>1, <4>2
      <3>2. ASSUME EndTold
            PROVE  /\ Bounded
                   /\ \A x \in Nat : \A g : Current(c, x, g) /\ x <= epochs[c] => Now(x, g)
        <4>1. PICK e \in ArtEvents :
                artEvents' = Append(artEvents, e) /\ e.upto = epochs' /\ epochs'[c] = epochs[c] + 1
          BY <3>2 DEF EndTold
        <4>2. \A i \in DOMAIN artEvents' :
                artEvents'[i] = e \/ \E j \in DOMAIN artEvents : artEvents'[i] = artEvents[j]
          BY <1>0, <4>1, ItemAdded
        <4>3. Bounded
          BY <1>0, <1>2, <2>1, <2>2, <4>1, <4>2, SMTT(30) DEF Bounded, SameStream
        <4>4. ASSUME NEW x \in Nat, NEW g, Current(c, x, g), x <= epochs[c] PROVE Now(x, g)
          BY <1>0, <2>1, <2>2, <4>1, <4>2, <4>4, SMTT(30) DEF Now, Current, SameStream
        <4> QED BY <4>3, <4>4
      <3>3. /\ Bounded
            /\ \A x \in Nat : \A g : Current(c, x, g) /\ x <= epochs[c] => Now(x, g)
        BY <1>9, <3>1, <3>2 DEF Handled
      <3>4. TakenFits /\ ReadyFits /\ BuiltFits /\ HeldFits
        BY <1>2, <1>3, <2>1, <3>3
      <3>5. \A i \in DOMAIN items : Announces(items[i], c) => Now(items[i].image, items[i].gen)
        BY <1>0, <1>2, <1>3, <3>3
      <3>6. CASE items' = items
        BY <1>1, <3>3, <3>4, <3>5, <3>6
      <3>7. ASSUME NEW m \in ArtItems, items' = Append(items, m), Announces(m, c) => Now(m.image, m.gen)
            PROVE  Ends(c)'
        <4>1. \A i \in DOMAIN items' : items'[i] = m \/ (i \in DOMAIN items /\ items'[i] = items[i])
          BY <3>7, ItemAdded DEF ArtTyped
        <4>2. ListFits
          BY <3>5, <3>7, <4>1
        <4> QED BY <1>1, <3>3, <3>4, <4>2
      <3>8. CASE Marked
        BY <3>6, <3>7, <3>8 DEF Marked, Announces
      <3>9. CASE PartHanded
        BY <3>7, <3>9 DEF PartHanded, Announces
      <3>10. ASSUME NEW d \in Channels, Announced(d), artEvents' = artEvents PROVE Ends(c)'
        <4>1. PICK m \in ArtItems :
                /\ m.chans = {d} /\ m.image = epochs'[d] /\ epochs'[d] = epochs[d] + 1
                /\ items' = Append(items, m)
          BY <3>10 DEF Announced
        <4>2. ASSUME d = c PROVE Now(m.image, m.gen)
          BY <1>0, <1>2, <2>1, <2>2, <3>10, <4>1, <4>2 DEF Now, SameStream
        <4> QED BY <3>7, <4>1, <4>2 DEF Announces
      <3>11. artwork'.gen # artwork.gen + 1
        BY <1>0, <2>2 DEF SameStream
      <3>12. Marked \/ PartHanded \/ (artEvents' = artEvents /\ \E d \in Channels : Announced(d))
        BY <1>9, <3>11 DEF Handled
      <3> QED BY <3>8, <3>9, <3>10, <3>12
    <2>3. CASE /\ UNCHANGED <<epochs, items, artEvents>> /\ artwork'.gen = artwork.gen + 1
               /\ artwork'.cut = epochs
      <3>1. artwork'.gen > artwork.gen
        BY <1>0, <2>3
      <3>2. Bounded
        BY <1>0, <1>2, <2>1, <2>3 DEF Bounded
      <3>3. HeldFits
        BY <1>2, <2>1
      <3> QED BY <1>1, <1>7, <2>1, <2>3, <3>1, <3>2, <3>3
    <2> QED BY <1>9, <2>2, <2>3 DEF Handled
  <1>10. CASE TearsDown
    <2>1. /\ UNCHANGED <<assemblies, display, holds, screen>> /\ drain'.taken = drain.taken
          /\ items' = <<>> /\ epochs' \in [Channels -> Nat] /\ epochs[c] <= epochs'[c]
          /\ artwork'.gen \in {artwork.gen, artwork.gen + 1}
          /\ artwork'.cut = IF artwork'.gen = artwork.gen THEN artwork.cut ELSE epochs
      BY <1>10 DEF TearsDown, TornDownTo, MovesOn, decodeThread
    <2>2. PICK e \in ArtEvents :
            e.kind = "cleared" /\ e.upto = epochs' /\ artEvents' = Append(artEvents, e)
      BY <1>10 DEF TearsDown, TornDownTo
    <2>3. \A i \in DOMAIN artEvents' :
            artEvents'[i] = e \/ \E j \in DOMAIN artEvents : artEvents'[i] = artEvents[j]
      BY <1>0, <2>2, ItemAdded
    <2>4. Bounded
      BY <1>0, <1>2, <2>1, <2>2, <2>3, SMTT(30) DEF Bounded
    <2>5. HeldFits /\ ListFits
      BY <1>2, <2>1
    <2>6. CASE artwork'.gen = artwork.gen
      <3>1. \A x, g : Current(c, x, g) => Now(x, g)
        BY <2>1, <2>2, <2>3, <2>6 DEF Now, Current
      <3> QED BY <1>1, <1>2, <2>1, <2>4, <2>5, <3>1
    <2>7. CASE artwork'.gen = artwork.gen + 1
      BY <1>0, <1>1, <1>7, <2>1, <2>4, <2>5, <2>7
    <2> QED BY <2>1, <2>6, <2>7
  <1>11. CASE Restarts
    <2>1. UNCHANGED <<artwork, screen, epochs, artEvents, holds, display, assemblies, items>>
          /\ drain'.taken = drain.taken
      BY <1>11 DEF Restarts, protocolTask
    <2> QED BY <1>1, <1>2, <1>6, <2>1
  <1>12. CASE DecodeStep
    <2>1. UNCHANGED <<artwork, epochs, artEvents, holds, drain>> /\ screen'[c].ended = screen[c].ended
      BY <1>12, DecodeEffect DEF Decodes, protocolTask, drainSide
    <2>2. Bounded /\ \A x, g : Current(c, x, g) => Now(x, g)
      BY <1>6, <2>1
    <2>3. HeldFits /\ TakenFits
      BY <1>2, <2>1, <2>2
    <2>4. ListFits
      <3>1. \A i \in DOMAIN items' : \E j \in DOMAIN items : items'[i] = items[j]
        <4>1. items' = items \/ ItemLeft
          BY <1>12, DecodeEffect DEF Drops, Begins, Hands
        <4>2. items \in Seq(ArtItems)
          BY DEF ArtTyped
        <4> QED BY <4>1, <4>2, OfTheList DEF ItemLeft
      <3> QED BY <1>2, <2>2, <3>1
    <2>5. Remains(c) => BuiltFits
      BY <1>2, <1>4, <1>5, <2>2 DEF Remains
    <2>6. CASE Drops
      BY <1>1, <1>2, <2>2, <2>3, <2>4, <2>5, <2>6 DEF Drops
    <2>7. CASE Begins
      <3>1. ReadyFits
        BY <1>2, <2>2, <2>7 DEF Begins
      <3>2. PICK d \in Channels :
              /\ Head(items).type = "announce" /\ Head(items).chans = {d}
              /\ assemblies'[d].image = Head(items).image /\ assemblies'[d].gen = Head(items).gen
              /\ \A x \in Channels \ {d} : Remains(x)
        BY <2>7 DEF Begins
      <3>3. ASSUME d = c PROVE BuiltFits
        <4>1. 1 \in DOMAIN items /\ Head(items) = items[1]
          BY <2>7, ItemTaken DEF Begins, ItemLeft, ArtTyped
        <4>2. Announces(items[1], c)
          BY <3>2, <3>3, <4>1 DEF Announces
        <4>3. Current(c, assemblies'[c].image, assemblies'[c].gen)
          BY <1>2, <3>2, <3>3, <4>1, <4>2
        <4> QED BY <2>2, <4>3
      <3> QED BY <1>1, <2>2, <2>3, <2>4, <2>5, <3>1, <3>2, <3>3
    <2>8. CASE Hands
      <3>1. PICK d \in Channels, hold \in Holds :
              /\ hold.image = assemblies[d].image
              /\ display' = Merge(d, hold, assemblies[d].gen)
              /\ assemblies'[d] = NoAssembly /\ \A x \in Channels \ {d} : assemblies'[x] = assemblies[x]
        BY <2>8 DEF Hands
      <3>2. BuiltFits
        BY <1>2, <1>4, <1>5, <2>2, <3>1
      <3>3. assemblies[d].gen \in Nat
        BY DEF ArtTyped, Assemblies
      <3>4. \/ display' = display
            \/ /\ display'.gen = assemblies[d].gen /\ display'.of[d] = hold
               /\ \A x \in Channels \ {d} :
                    display'.of[x] = IF display.gen = assemblies[d].gen THEN display.of[x] ELSE NoHold
        BY <3>1, <3>3, MergedDisplay
      <3>5. ReadyFits
        <4>1. CASE display' = display
          BY <1>2, <2>2, <4>1
        <4>2. CASE display' # display /\ d = c
          <5>1. Current(c, display'.of[c].image, display'.gen)
            BY <1>2, <3>1, <3>4, <4>2
          <5> QED BY <2>2, <5>1
        <4>3. CASE display' # display /\ d # c
          <5>1. display'.of[c].image = 0 \/ (display'.of[c] = display.of[c] /\ display'.gen = display.gen)
            BY <1>5, <3>4, <4>3
          <5> QED BY <1>2, <1>4, <2>2, <5>1
        <4> QED BY <4>1, <4>2, <4>3
      <3> QED BY <1>1, <2>2, <2>3, <2>4, <3>2, <3>5
    <2> QED BY <1>12, <2>6, <2>7, <2>8, DecodeEffect
  <1>13. CASE MainTurn
    <2>1. UNCHANGED <<artwork, epochs, items, assemblies>>
      BY <1>13, ArtMainTypes DEF Drains, protocolTask, decodeThread
    <2>2. ASSUME Bounded, HeldFits, TakenFits, ReadyFits, \A x, g : Current(c, x, g) => Now(x, g)
          PROVE  Ends(c)'
      BY <1>1, <1>2, <2>1, <2>2
    <2>3. ASSUME TakenKept, \A x, g : Current(c, x, g) => Now(x, g)
          PROVE  TakenFits
      BY <1>2, <1>4, <1>5, <2>3 DEF TakenKept
    <2>4. CASE Idles
      <3>1. Bounded /\ \A x, g : Current(c, x, g) => Now(x, g)
        BY <1>6, <2>1, <2>4 DEF Idles
      <3>2. HeldFits
        BY <1>2, <1>5, <2>4 DEF Idles
      <3> QED BY <1>2, <2>2, <2>3, <2>4, <3>1, <3>2 DEF Idles
    <2>5. CASE ClearsAll
      <3>1. PICK upto \in [Channels -> Nat] :
              /\ upto = artwork.cut
                 \/ (artEvents # <<>> /\ Head(artEvents).kind = "ended" /\ upto = Head(artEvents).upto)
              /\ screen'[c].ended = upto[c]
        BY <2>5 DEF ClearsAll
      <3>2. /\ holds'[c] = NoHold /\ TakenKept /\ display' = display
            /\ artEvents' = artEvents \/ (artEvents # <<>> /\ artEvents' = Tail(artEvents))
        BY <2>5 DEF ClearsAll
      <3>3. \A i \in DOMAIN artEvents' : \E j \in DOMAIN artEvents : artEvents'[i] = artEvents[j]
        BY <1>0, <3>2, OfTheList
      <3>4. artEvents # <<>> => 1 \in DOMAIN artEvents /\ Head(artEvents) = artEvents[1]
        BY <1>0, ItemTaken
      <3>5. upto[c] <= epochs[c] /\ upto[c] \in Nat
        BY <1>2, <3>1, <3>4
      <3>6. Bounded
        BY <1>2, <2>1, <3>1, <3>3, <3>5 DEF Bounded
      <3>7. ASSUME NEW x, NEW g, Current(c, x, g) PROVE Now(x, g)
        <4>1. ASSUME x # 0, g = artwork.gen PROVE x # upto[c]
          BY <1>0, <3>1, <3>4, <3>7, <4>1 DEF Current
        <4> QED BY <2>1, <3>1, <3>3, <3>7, <4>1 DEF Now, Current
      <3> QED BY <1>2, <1>5, <2>2, <2>3, <3>2, <3>6, <3>7
    <2>6. ASSUME UNCHANGED <<screen, artEvents>>
          PROVE  Bounded /\ \A x, g : Current(c, x, g) => Now(x, g)
      BY <1>6, <2>1, <2>6
    <2>7. CASE TakesDisplay
      <3>1. /\ drain'.taken = display /\ display' = NoDisplay /\ holds' = holds
            /\ UNCHANGED <<screen, artEvents>>
        BY <2>7 DEF TakesDisplay
      <3> QED BY <1>2, <1>4, <1>5, <2>2, <2>6, <3>1
    <2>8. CASE Folds
      <3>1. /\ holds'[c] = IF drain.taken.of[c] # NoHold THEN drain.taken.of[c] ELSE holds[c]
            /\ drain'.taken = NoDisplay /\ UNCHANGED <<display, screen, artEvents>>
            /\ drain.taken # NoDisplay => drain.taken.gen = artwork.gen
        BY <2>8 DEF Folds, Places
      <3>2. HeldFits
        <4>1. CASE drain.taken = NoDisplay \/ drain.taken.of[c] = NoHold
          BY <1>2, <1>5, <3>1, <4>1, EmptyTypes
        <4>2. CASE drain.taken # NoDisplay /\ drain.taken.of[c] # NoHold
          BY <1>2, <3>1, <4>2 DEF Current
        <4> QED BY <4>1, <4>2
      <3> QED BY <1>2, <1>4, <1>5, <2>2, <2>6, <3>1, <3>2
    <2>9. CASE Presents
      <3>1. /\ screen'[c].ended = screen[c].ended /\ TakenKept /\ UNCHANGED <<display, artEvents>>
            /\ holds'[c] = NoHold \/ holds'[c] = holds[c]
        BY <2>9 DEF Presents
      <3>2. Bounded /\ \A x, g : Current(c, x, g) => Now(x, g)
        BY <1>6, <2>1, <3>1
      <3> QED BY <1>2, <1>5, <2>2, <2>3, <3>1, <3>2
    <2> QED BY <1>13, <2>4, <2>5, <2>7, <2>8, <2>9, MainEffect
  <1> QED BY <1>8, <1>9, <1>10, <1>11, <1>12, <1>13, ArtSteps

-----------------------------------------------------------------------------
(* The artwork role: its safety *)

LEMMA ScreenStep ==
    ASSUME ArtTyped, Places, Carried, Numbered, \A d \in Channels : Complete(d),
           \A d \in Channels : Chain(d), \A d \in Channels : Ends(d), ScreenInOrder,
           [ArtworkNext]_artworkVars
    PROVE  ScreenInOrder'
  <1> DEFINE c == Min(drain.rest)
  <1>0. drain \in Drainers /\ Channels \subseteq Nat
    BY ArtworkAssumption DEF ArtTyped
  <1>1. ASSUME drain'.at = drain.at, drain'.rest = drain.rest, drain.at = "fire",
               \A d \in Channels :
                 /\ holds'[d].image = holds[d].image
                 /\ screen'[d].shown = screen[d].shown /\ screen'[d].ended = screen[d].ended
        PROVE  ScreenInOrder'
    <2>1. c \in Channels
      BY <1>0, <1>1, MinIn DEF Places, Drainers
    <2>2. holds[c].image > screen[c].shown /\ holds[c].image > screen[c].ended
      BY <1>1 DEF ScreenInOrder
    <2>3. Min(drain'.rest) = c
      BY <1>1
    <2> HIDE DEF c
    <2> QED BY <1>1, <2>1, <2>2, <2>3 DEF ScreenInOrder
  <1>2. ASSUME drain'.at # "fire" PROVE ScreenInOrder'
    BY <1>2 DEF ScreenInOrder
  <1>3. ASSUME drain' = drain, UNCHANGED holds,
               \A d \in Channels :
                 screen'[d].shown = screen[d].shown /\ screen'[d].ended = screen[d].ended
        PROVE  ScreenInOrder'
    BY <1>1, <1>2, <1>3
  <1>4. CASE UNCHANGED artworkVars
    BY <1>3, <1>4 DEF artworkVars, drainSide
  <1>5. CASE Handled
    BY <1>3, <1>5 DEF Handled, drainSide
  <1>6. CASE TearsDown
    <2>1. UNCHANGED <<holds, screen>> /\ (drain' = drain \/ drain'.at = "idle")
      BY <1>6 DEF TearsDown
    <2> QED BY <1>2, <1>3, <2>1
  <1>7. CASE Restarts
    <2>1. UNCHANGED <<holds, screen>> /\ drain'.at = drain.at /\ drain'.rest = drain.rest
      BY <1>7 DEF Restarts
    <2> QED BY <1>1, <1>2, <2>1
  <1>8. CASE DecodeStep
    <2>1. UNCHANGED <<holds, drain>>
      BY <1>8, DecodeEffect DEF Decodes, drainSide
    <2> QED BY <1>3, <1>8, <2>1, DecodeEffect
  <1>9. CASE DrainSweep /\ drain' = [drain EXCEPT !.at = "fire"]
    <2>1. drain.at = "sweep" /\ c \in Channels /\ drain'.rest = drain.rest
      BY <1>0, <1>9, MinIn DEF DrainSweep, Places, Drainers
    <2>2. Swept(drain.rest \ {c}).at # "fire" /\ drain'.at = "fire"
      BY <1>0, <1>9 DEF Swept, Drainers
    <2>3. holds[c].image = epochs[c] /\ holds[c].due /\ UNCHANGED <<holds, screen>>
      BY <1>9, <2>2 DEF DrainSweep
    <2>4. holds[c].image # 0
      BY <2>1, <2>3 DEF Numbered, Proper, NoHold
    <2>5. screen[c].shown < holds[c].image /\ screen[c].ended < holds[c].image
      <3>1. screen[c].ended \in Nat /\ epochs[c] \in Nat
        BY <2>1 DEF ArtTyped, Screen
      <3>2. Chain(c) /\ Ends(c)
        BY <2>1
      <3>3. screen[c].shown < holds[c].image
        BY <2>4, <3>2 DEF Chain, Rising, Before
      <3> QED BY <2>3, <2>4, <3>1, <3>2, <3>3 DEF Ends
    <2>6. screen[c].shown \in Nat /\ screen[c].ended \in Nat /\ holds[c].image \in Nat
      BY <2>1 DEF ArtTyped, Screen, Holds
    <2>7. Min(drain'.rest) = c
      BY <2>1
    <2> HIDE DEF c
    <2> QED BY <2>3, <2>5, <2>6, <2>7 DEF ScreenInOrder
  <1>10. CASE MainTurn /\ ~(DrainSweep /\ drain' = [drain EXCEPT !.at = "fire"])
    <2>1. CASE DrainStep \/ ArtStop \/ ArtStopped
      <3>1. CASE DrainStarts \/ DrainTake \/ DrainLoad \/ DrainFire \/ ArtStop \/ ArtStopped
        BY <1>0, <1>2, <3>1 DEF DrainStarts, DrainTake, DrainLoad, DrainFire, ArtStop, ArtStopped, Drainers
      <3>2. CASE DrainEvent
        BY <1>0, <1>2, <3>2 DEF DrainEvent, Drainers
      <3>3. \A rest : Swept(rest).at # "fire"
        BY <1>0 DEF Swept, Drainers
      <3>4. CASE DrainFold
        BY <1>2, <3>3, <3>4 DEF DrainFold
      <3>5. CASE DrainCalled
        BY <1>2, <3>3, <3>5 DEF DrainCalled
      <3>6. CASE DrainSweep
        BY <1>2, <1>10, <3>3, <3>6 DEF DrainSweep
      <3> QED BY <2>1, <3>1, <3>2, <3>4, <3>5, <3>6 DEF DrainStep
    <2>2. ASSUME NEW d \in Channels, Elapse(d) PROVE ScreenInOrder'
      <3> DEFINE h == [holds[d] EXCEPT !.due = TRUE]
      <3>1. h.image = holds[d].image /\ holds \in [Channels -> Holds]
        BY DEF ArtTyped, Holds
      <3>2. holds' = [holds EXCEPT ![d] = h] /\ UNCHANGED <<drain, screen>>
        BY <2>2 DEF Elapse
      <3> HIDE DEF h
      <3>3. \A x \in Channels : holds'[x].image = holds[x].image
        BY <3>1, <3>2
      <3> QED BY <1>1, <1>2, <3>2, <3>3
    <2>3. ASSUME NEW d \in Channels, FrameDone(d) PROVE ScreenInOrder'
      BY <1>2, <2>3 DEF FrameDone
    <2> QED BY <1>10, <2>1, <2>2, <2>3 DEF MainTurn
  <1> QED BY <1>4, <1>5, <1>6, <1>7, <1>8, <1>9, <1>10, ArtSteps

LEMMA ArtInit ==
    ASSUME ArtworkInit
    PROVE  ArtIInv
  <1>1. /\ NoTransfer \in Transfers /\ NoAssembly.state = "idle"
        /\ [c \in Channels |-> 0] \in [Channels -> Nat] /\ Channels \subseteq Nat
    BY NoTransferTypes, ArtworkAssumption DEF NoAssembly
  <1>2. ArtTyped
    <2>1. artwork \in ArtworkStream /\ epochs \in [Channels -> Nat] /\ stirred \in BOOLEAN
      BY <1>1 DEF ArtworkInit, ArtworkStream, Transfers
    <2>2. items \in Seq(ArtItems) /\ artEvents \in Seq(ArtEvents)
      BY DEF ArtworkInit
    <2>3. decoder \in Decoders /\ assemblies \in [Channels -> Assemblies] /\ gates \in [Channels -> Gates]
      BY EmptyTypes DEF ArtworkInit, Decoders, Gates
    <2>4. display \in ArtDisplays /\ holds \in [Channels -> Holds] /\ drain \in Drainers
      BY EmptyTypes DEF ArtworkInit, Drainers, DrainPlaces
    <2>5. screen \in [Channels -> Screen]
      BY DEF ArtworkInit, Screen
    <2> QED BY <2>1, <2>2, <2>3, <2>4, <2>5 DEF ArtTyped
  <1>3. /\ decoder.at = "wait" /\ drain.life = "up" /\ drain.at = "idle" /\ drain.taken = NoDisplay
        /\ display = NoDisplay /\ artwork.transfer = NoTransfer /\ items = <<>> /\ artEvents = <<>>
        /\ artwork.gen = 0 /\ ~artwork.removing /\ \A c \in Channels : artwork.cut[c] = 0
        /\ \A c \in Channels :
             /\ assemblies[c] = NoAssembly /\ holds[c] = NoHold /\ epochs[c] = 0
             /\ gates[c].ack = "idle" /\ ~gates[c].parked
             /\ screen[c].shown = 0 /\ screen[c].ended = 0 /\ ~screen[c].owes
    BY DEF ArtworkInit
  <1>4. DOMAIN items = {} /\ DOMAIN artEvents = {}
    BY <1>3
  <1>5. NoDisplay.gen = 0 /\ NoHold.image = 0 /\ NoAssembly.image = 0
        /\ \A c \in Channels : NoDisplay.of[c] = NoHold
    BY EmptyTypes
  <1>6. NoAssembly.gen = 0 /\ NoAssembly.whole
    BY DEF NoAssembly
  <1>7. Places /\ Carried
    BY <1>3 DEF Places, Carried, Delivering
  <1>8. Numbered
    BY <1>1, <1>3, <1>4, <1>5 DEF Numbered, Proper
  <1>9. \A c \in Channels : Complete(c)
    BY <1>1, <1>3, <1>6 DEF Complete, Delivers, Delivering
  <1>10. PartsFollow /\ Stamps
    BY <1>3, <1>4, <1>5, <1>6 DEF PartsFollow, Stamps
  <1>11. \A c \in Channels : Chain(c)
    BY <1>3, <1>4, <1>5 DEF Chain, Rising, Before, Older, Ascends
  <1>12. \A c \in Channels : Ends(c)
    BY <1>3, <1>4, <1>5 DEF Ends, Current
  <1>13. ParkedIsReady /\ ScreenInOrder
    BY <1>3 DEF ParkedIsReady, ScreenInOrder
  <1>14. GateMatchesListener
    BY <1>3, ArtworkAssumption DEF GateMatchesListener
  <1> QED BY <1>2, <1>7, <1>8, <1>9, <1>10, <1>11, <1>12, <1>13, <1>14 DEF ArtIInv

LEMMA ArtInductive ==
    ASSUME ArtIInv, [ArtworkNext]_artworkVars
    PROVE  ArtIInv'
  <1>0. /\ ArtTyped /\ Places /\ Carried /\ Numbered /\ (\A c \in Channels : Complete(c)) /\ PartsFollow
        /\ Stamps /\ (\A c \in Channels : Chain(c)) /\ (\A c \in Channels : Ends(c))
        /\ GateMatchesListener /\ ParkedIsReady /\ ScreenInOrder
    BY DEF ArtIInv
  <1>1. ArtTyped'
    BY <1>0, ArtTypesStep
  <1>2. Places'
    BY <1>0, PlacesStep
  <1>3. Carried'
    BY <1>0, CarriedStep
  <1>4. Numbered'
    BY <1>0, NumberedStep
  <1>5. (\A c \in Channels : Complete(c)') /\ ParkedIsReady' /\ GateMatchesListener'
    BY <1>0, GatesStep
  <1>6. PartsFollow'
    BY <1>0, PartsStep
  <1>7. Stamps'
    BY <1>0, ArtStampsStep
  <1>8. \A c \in Channels : Chain(c)'
    BY <1>0, ChainStep
  <1>9. \A c \in Channels : Ends(c)'
    BY <1>0, EndsStep
  <1>10. ScreenInOrder'
    BY <1>0, ScreenStep
  <1> QED BY <1>1, <1>2, <1>3, <1>4, <1>5, <1>6, <1>7, <1>8, <1>9, <1>10 DEF ArtIInv

LEMMA ArtSafe ==
    ASSUME ArtIInv
    PROVE  ArtworkSafe
  <1>1. ArtTyped /\ Places /\ (\A c \in Channels : Complete(c))
    BY DEF ArtIInv
  <1>2. ArtworkTypes
    BY <1>1 DEF ArtTyped, ArtworkTypes, Drainers, DrainPlaces
  <1>3. WholeImages
    BY <1>1 DEF Places, Complete, Delivers, Delivering, WholeImages
  <1> QED BY <1>2, <1>3 DEF ArtIInv, ArtworkSafe

-----------------------------------------------------------------------------
(* The roles *)

RolesIInv == ArtIInv /\ VisIInv

\* For whatever channels, gates, numbers of parts and turns, and however the protocol task, the decode
\* and the drain thread and the main loop interleave: a listener is handed whole images only, a gate
\* awaits a frame_done() exactly while one is owed, what is displayed is newer than anything displayed
\* before and than what a stream's end or a teardown was for (artwork_role.cpp), no frame is delivered
\* across a boundary told, and an end is told of every start (visualizer_role.cpp).
THEOREM RolesCorrect == RolesSpec => []RolesSafe
  <1>1. RolesInit => RolesIInv
    BY ArtInit, VisInit DEF RolesInit, RolesIInv
  <1>2. ArtIInv /\ UNCHANGED artworkVars => ArtIInv'
    BY ArtInductive
  <1>3. VisIInv /\ UNCHANGED visualizerVars => VisIInv'
    BY VisInductive
  <1>4. RolesIInv /\ [RolesNext]_roleVars => RolesIInv'
    <2> SUFFICES ASSUME RolesIInv, [RolesNext]_roleVars
                 PROVE  RolesIInv'
      OBVIOUS
    <2>1. CASE ArtworkNext /\ UNCHANGED visualizerVars
      BY <1>3, <2>1, ArtInductive DEF RolesIInv
    <2>2. CASE VisualizerNext /\ UNCHANGED artworkVars
      BY <1>2, <2>2, VisInductive DEF RolesIInv
    <2>3. CASE UNCHANGED roleVars
      BY <1>2, <1>3, <2>3 DEF RolesIInv, roleVars
    <2> QED BY <2>1, <2>2, <2>3 DEF RolesNext
  <1>5. RolesIInv => RolesSafe
    BY ArtSafe, VisSafe DEF RolesIInv, RolesSafe
  <1> QED BY <1>1, <1>4, <1>5, PTL DEF RolesSpec

================================================================================
