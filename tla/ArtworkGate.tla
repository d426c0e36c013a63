------------------------------ MODULE ArtworkGate ------------------------------
(***************************************************************************)
(* The artwork role: images on their way from the protocol task, which     *)
(* hands over announces, parts and markers, through the decode thread,     *)
(* which assembles and decodes them, to the main loop, which has them      *)
(* displayed when they are due. A gated channel decodes nothing while the  *)
(* listener has not called frame_done() for what it was shown.             *)
(*                                                                         *)
(* An image is the epoch its announce gave the channel, so a later image   *)
(* has a larger number, and one that was discarded is not the epoch. An    *)
(* image of no parts is the clear of one channel.                          *)
(*                                                                         *)
(* A definition whose name ends in Mutant is a deliberate mistake the      *)
(* properties are tested against.                                          *)
(***************************************************************************)
EXTENDS Integers, Sequences, FiniteSetsExt

CONSTANTS
    Channels,          \* the channels of the role's configuration
    Gated,             \* those with require_frame_done
    Parts,             \* the numbers of parts an image may have
    MaxTurns,          \* bound: stream/starts, announces, cancels, refused items and teardowns
    MarkerMayFail,     \* whether a marker may be one of them
    ExtraFrameDone     \* whether the listener calls frame_done() without being shown something

ASSUME ArtworkAssumption ==
    /\ Channels \subseteq Nat /\ Gated \subseteq Channels /\ Parts \subseteq Nat
    /\ MaxTurns \in Nat /\ {MarkerMayFail, ExtraFrameDone} \subseteq BOOLEAN

VARIABLES
    artwork,     \* the protocol task's half of the role, see ArtworkStream
    epochs,      \* slot_epochs
    items,       \* the decode thread's list
    stirred,     \* its wake bit
    decoder,     \* the decode thread: its place, the channel it delivers and where it goes on,
                 \* the channels its sweep has left, and the generation it assembles for
    assemblies,
    gates,       \* slot_gates
    display,     \* display_slot: its stamp and, of each channel, the image to display, 0 for none
    holds,       \* held displays, see Hold
    drain,       \* the main loop: the role's life, its place in a drain, the teardown it caught up
                 \* with, what it took, and the channels its sweep has left
    artEvents,   \* the role's events in the inbox
    screen       \* history: what the listener has been told of each channel, see Screen

protocolTask == <<artwork, epochs>>
decodeThread == <<decoder, assemblies>>
drainSide == <<holds, drain>>
artworkVars ==
    <<protocolTask, items, stirred, decodeThread, gates, display, drainSide, artEvents, screen>>

NoTransfer == [on |-> 0, image |-> 0, left |-> 0, discarding |-> FALSE]

\* streamed_channels is known from a stream/start with a channel array to the stream's end; cut are
\* the epochs the latest teardown found.
ArtworkStream ==
    [active : BOOLEAN, known : BOOLEAN, gen : Nat, removing : BOOLEAN, cut : [Channels -> Nat],
     turns : Nat,
     transfer : [on : Channels \cup {0}, image : Nat, left : Nat, discarding : BOOLEAN]]

NoAssembly == [state |-> "idle", image |-> 0, left |-> 0, clear |-> FALSE, gen |-> 0, whole |-> TRUE]

NoHold == [image |-> 0, clear |-> FALSE, due |-> FALSE]

NoDisplay == [gen |-> 0, of |-> [c \in Channels |-> NoHold]]

Gates == [ack : {"idle", "delivered", "presented"}, parked : BOOLEAN]

\* decoded is the image the listener decoded last, shown the one it was told to display, ended the
\* last of those a clear of every channel was for, and owes a frame_done() it has not called.
Screen == [decoded : Nat, shown : Nat, ended : Nat, owes : BOOLEAN]

-----------------------------------------------------------------------------
(* The protocol task *)

Serving == drain.life \in {"up", "closing"}

Handles ==
    Serving /\ ~artwork.removing
    /\ UNCHANGED <<decodeThread, gates, display, drainSide, screen>>

\* slot_epochs of some channels move on, which discards what they have pending.
Moved(chans) == [c \in Channels |-> IF c \in chans THEN epochs[c] + 1 ELSE epochs[c]]

Item(type, chans, image, parts) ==
    [type |-> type, chans |-> chans, image |-> image, parts |-> parts, gen |-> artwork.gen]

Marker(type, chans) == Item(type, chans, 0, 0)

\* hand_marker(): what the list becomes, and the turns it takes
MarkerHanded(type, chans) ==
    {<<Append(items, Marker(type, chans)), 1>>} \cup IF MarkerMayFail THEN {<<items, 2>>} ELSE {}

\* handle_stream_start(): the first of a stream changes every channel
ArtStreamStart ==
    /\ Handles
    /\ \E changed \in (IF artwork.known THEN SUBSET Channels ELSE {Channels}), known \in BOOLEAN :
          /\ epochs' = Moved(changed)
          /\ \E h \in (IF changed = {} THEN {<<items, 1>>}
                        ELSE MarkerHanded("reconfigure", changed)) :
                /\ items' = h[1]
                /\ artwork' = [artwork EXCEPT !.active = TRUE, !.known = known, !.turns = @ + h[2],
                                  !.transfer = IF @.on \in changed THEN NoTransfer ELSE @]
    /\ UNCHANGED <<stirred, artEvents>>

\* handle_stream_end(); a full inbox drops its event
ArtStreamEnd ==
    /\ Handles /\ artwork.active
    /\ epochs' = Moved(Channels)
    /\ \E h \in MarkerHanded("discard", Channels), told \in BOOLEAN :
          /\ items' = h[1]
          /\ artwork' = [artwork EXCEPT !.active = FALSE, !.known = FALSE, !.transfer = NoTransfer,
                                        !.turns = @ + h[2] - (IF told THEN 1 ELSE 0)]
          /\ artEvents' = IF told THEN Append(artEvents, [kind |-> "ended", gen |-> artwork.gen,
                                                         upto |-> epochs'])
                          ELSE artEvents
    /\ UNCHANGED stirred

\* begin_transfer(): an image of parts that the role does not take is followed all the same, and a
\* marker is handed over in place of its announce.
Announce(c, parts) ==
    LET image == epochs[c] + 1
        begun(discarding) ==
            IF parts = 0 THEN NoTransfer
            ELSE [on |-> c, image |-> image, left |-> parts, discarding |-> discarding]
        taken(n, discarding) ==
            artwork' = [artwork EXCEPT !.turns = @ + n, !.transfer = begun(discarding)]
    IN  /\ Handles /\ artwork.active /\ artwork.transfer = NoTransfer
        /\ epochs' = Moved({c})
        /\ \/ /\ items' = Append(items, Item("announce", {c}, image, parts))
              /\ taken(1, FALSE)
           \/ parts = 0 /\ taken(2, FALSE) /\ UNCHANGED items
           \/ /\ parts > 0
              /\ \E h \in MarkerHanded("discard", {c}) : items' = h[1] /\ taken(1 + h[2], TRUE)
        /\ UNCHANGED <<stirred, artEvents>>

\* hand_part(): one the quota refuses costs the image.
Part ==
    LET t     == artwork.transfer
        next(discarding) ==
            IF t.left = 1 THEN NoTransfer
            ELSE [t EXCEPT !.left = @ - 1, !.discarding = discarding]
    IN  /\ Handles /\ artwork.active /\ t # NoTransfer
        /\ \/ /\ t.discarding
              /\ artwork' = [artwork EXCEPT !.transfer = next(TRUE)]
              /\ UNCHANGED items
           \/ /\ ~t.discarding
              /\ items' = Append(items, Item("part", {t.on}, t.image, 1))
              /\ artwork' = [artwork EXCEPT !.transfer = next(FALSE)]
           \/ /\ ~t.discarding
              /\ \E h \in MarkerHanded("discard", {t.on}) :
                    /\ items' = h[1]
                    /\ artwork' = [artwork EXCEPT !.turns = @ + h[2], !.transfer = next(TRUE)]
        /\ UNCHANGED <<epochs, stirred, artEvents>>

\* A cancel: discard_pending()
Cancel(c) ==
    /\ Handles /\ artwork.active
    /\ epochs' = Moved({c})
    /\ \E h \in MarkerHanded("discard", {c}) :
          /\ items' = h[1]
          /\ artwork' = [artwork EXCEPT !.turns = @ + h[2],
                                        !.transfer = IF @.on = c THEN NoTransfer ELSE @]
    /\ UNCHANGED <<stirred, artEvents>>

\* cleanup(), past its first line: what the decode thread has not taken is recalled
ArtTornDown(gen) ==
    /\ artwork' = [artwork EXCEPT !.active = FALSE, !.known = FALSE, !.transfer = NoTransfer,
                                  !.gen = gen, !.removing = FALSE,
                                  !.cut = IF gen = artwork.gen THEN @ ELSE epochs,
                                  !.turns = @ + gen - artwork.gen]
    /\ epochs' = Moved(Channels)
    /\ items' = <<>>
    /\ artEvents' = Append(artEvents, [kind |-> "cleared", gen |-> gen, upto |-> epochs'])

ArtCleanup ==
    /\ Handles
    /\ artwork' = [artwork EXCEPT !.gen = @ + 1, !.removing = TRUE, !.cut = epochs, !.turns = @ + 1]
    /\ UNCHANGED <<epochs, items, stirred, artEvents>>

ArtRecall ==
    /\ Serving /\ artwork.removing
    /\ ArtTornDown(artwork.gen) /\ stirred' = TRUE
    /\ UNCHANGED <<decodeThread, gates, display, drainSide, screen>>

-----------------------------------------------------------------------------
(* The decode thread *)

Decodes == UNCHANGED <<protocolTask, drainSide, artEvents>>

\* drop_assembly(), of some channels
Discarded(chans) == [c \in Channels |-> IF c \in chans THEN NoAssembly ELSE assemblies[c]]

Unparked(chans, released) ==
    [c \in Channels |->
       IF c \notin chans THEN gates[c]
       ELSE [parked |-> FALSE,
             ack |-> IF c \in released /\ gates[c].ack = "delivered" THEN "idle" ELSE gates[c].ack]]

\* adopt_generation()
Adopted(gen) == IF gen = decoder.gen THEN {} ELSE Channels

\* The top of its loop: what it assembles for a stream that was torn down goes.
DecodeTop ==
    LET kept  == Discarded(Adopted(artwork.gen))
        ready == {c \in Channels : kept[c].state = "ready"}
    IN  /\ decoder.at = "top" /\ drain.life = "up"
        /\ decoder' = [decoder EXCEPT !.at = IF ready = {} THEN "wait" ELSE "sweep",
                                      !.gen = artwork.gen, !.sweeps = ready]
        /\ assemblies' = kept
        /\ gates' = Unparked(Adopted(artwork.gen), {})
        /\ Decodes /\ UNCHANGED <<items, stirred, display, screen>>

\* sweep_parked(): the parked image of a channel whose gate has opened again is delivered, one the
\* main loop has dropped goes.
Sweep ==
    /\ decoder.at = "sweep"
    /\ IF decoder.sweeps = {}
       THEN decoder' = [decoder EXCEPT !.at = "wait"] /\ UNCHANGED <<assemblies, gates>>
       ELSE LET c == Min(decoder.sweeps)
                passed == [decoder EXCEPT !.sweeps = @ \ {c}]
                opens == gates[c].parked /\ gates[c].ack = "idle"
            IN  /\ decoder' = IF opens THEN [passed EXCEPT !.at = "check", !.on = c, !.from = "sweep"]
                                         ELSE passed
                /\ gates' = IF opens THEN [gates EXCEPT ![c].parked = FALSE] ELSE gates
                /\ assemblies' = IF gates[c].parked THEN assemblies ELSE Discarded({c})
    /\ Decodes /\ UNCHANGED <<items, stirred, display, screen>>

\* A take that a command, a teardown or a reopened gate ends early
DecodeWoken ==
    /\ decoder.at = "wait" /\ (stirred \/ drain.life # "up") /\ items = <<>>
    /\ stirred' = FALSE
    /\ decoder' = [decoder EXCEPT !.at = "top"]
    /\ Decodes /\ UNCHANGED <<items, assemblies, gates, display, screen>>

\* begin_assembly() and add_part()
Assembled(item, c, a) ==
    CASE item.type = "announce" ->
           [state |-> "assembling", image |-> item.image, left |-> item.parts,
            clear |-> item.parts = 0, gen |-> item.gen, whole |-> TRUE]
      [] item.type = "part" /\ a.state = "assembling" ->
           [a EXCEPT !.left = @ - 1, !.whole = @ /\ a.image = item.image]
      [] OTHER -> a

\* process_next_item(): one handed over before a teardown goes back
DecodeItem ==
    LET item    == Head(items)
        adopted == Adopted(item.gen)
        marker  == item.type \in {"discard", "reconfigure"}
        gone    == adopted \cup IF item.type = "part" THEN {} ELSE item.chans
        kept    == Discarded(gone)
        c       == Min(item.chans)
        next    == IF marker THEN kept ELSE [kept EXCEPT ![c] = Assembled(item, c, @)]
        done    == ~marker /\ next[c].state = "assembling" /\ next[c].left = 0
    IN  /\ decoder.at = "wait" /\ items # <<>>
        /\ items' = Tail(items) /\ stirred' = FALSE
        /\ IF item.gen # artwork.gen
           THEN /\ decoder' = [decoder EXCEPT !.at = IF Tail(items) = <<>> THEN "top" ELSE @]
                /\ UNCHANGED <<assemblies, gates>>
           ELSE /\ decoder' = [decoder EXCEPT !.at = IF done THEN "check" ELSE "top",
                                              !.on = IF done THEN c ELSE 0, !.from = "top",
                                              !.gen = item.gen]
                /\ assemblies' = next
                /\ gates' = Unparked(gone, IF item.type = "reconfigure" THEN item.chans ELSE {})
        /\ Decodes /\ UNCHANGED <<display, screen>>

\* deliver() returns, to the sweep or to the top of the loop.
Done == [decoder EXCEPT !.at = decoder.from, !.on = 0]

CheckEpoch(c) == assemblies[c].image = epochs[c]

DeliverCheck ==
    LET c == decoder.on
    IN  /\ decoder.at = "check"
        /\ IF CheckEpoch(c)
           THEN decoder' = [decoder EXCEPT !.at = "gate"] /\ UNCHANGED assemblies
           ELSE decoder' = Done /\ assemblies' = [assemblies EXCEPT ![c] = NoAssembly]
        /\ Decodes /\ UNCHANGED <<items, stirred, gates, display, screen>>

\* Under the gates' lock: it parks behind a delivery that is not acknowledged, or arms the gate.
DeliverGate ==
    LET c == decoder.on
    IN  /\ decoder.at = "gate"
        /\ IF c \in Gated /\ gates[c].ack # "idle"
           THEN /\ assemblies' = [assemblies EXCEPT ![c].state = "ready"]
                /\ gates' = [gates EXCEPT ![c].parked = TRUE]
                /\ decoder' = Done
           ELSE /\ gates' = IF c \in Gated THEN [gates EXCEPT ![c].ack = "delivered"] ELSE gates
                /\ decoder' = [decoder EXCEPT !.at = "decode"]
                /\ UNCHANGED assemblies
        /\ Decodes /\ UNCHANGED <<items, stirred, display, screen>>

\* on_image_decode()
Decode ==
    LET c == decoder.on
    IN  /\ decoder.at = "decode"
        /\ decoder' = [decoder EXCEPT !.at = "hand"]
        /\ screen' = IF assemblies[c].clear THEN screen
                     ELSE [screen EXCEPT ![c].decoded = assemblies[c].image]
        /\ Decodes /\ UNCHANGED <<items, stirred, assemblies, gates, display>>

\* GenerationSlot::merge() of merge_artwork_display_update()
Merge(c, hold, gen) ==
    IF display # NoDisplay /\ display.gen > gen THEN display
    ELSE [gen |-> gen,
          of |-> [(IF display.gen = gen THEN display.of ELSE NoDisplay.of) EXCEPT ![c] = hold]]

HandDisplay ==
    LET c == decoder.on
        a == assemblies[c]
    IN  /\ decoder.at = "hand"
        /\ display' = IF artwork.active
                      THEN Merge(c, [image |-> a.image, clear |-> a.clear, due |-> FALSE], a.gen)
                      ELSE display
        /\ assemblies' = [assemblies EXCEPT ![c] = NoAssembly]
        /\ decoder' = Done
        /\ Decodes /\ UNCHANGED <<items, stirred, gates, screen>>

\* The thread sees the stop bit at the top of its loop.
DecodeLeaves ==
    /\ decoder.at = "top" /\ drain.life # "up"
    /\ decoder' = [decoder EXCEPT !.at = "out"]
    /\ assemblies' = Discarded(Channels) /\ gates' = Unparked(Channels, {})
    /\ Decodes /\ UNCHANGED <<items, stirred, display, screen>>

-----------------------------------------------------------------------------
(* The main loop *)

Drains == UNCHANGED <<protocolTask, items, decodeThread>>

Draining == drain.life \in {"up", "closing", "final"}

\* clear_every_channel(): what is parked goes, and each gated channel owes its frame_done().
Cleared(upto) ==
    /\ holds' = [c \in Channels |-> NoHold]
    /\ gates' = [c \in Channels |->
                   [parked |-> FALSE, ack |-> IF c \in Gated THEN "presented" ELSE gates[c].ack]]
    /\ stirred' = (stirred \/ \E c \in Channels : gates[c].parked)
    /\ screen' = [c \in Channels |-> [screen[c] EXCEPT !.ended = upto[c], !.owes = c \in Gated]]

\* catch_up_teardown(); the rest is done with the channels cleared or as they are
CaughtUp(gen) ==
    IF gen > drain.torn THEN Cleared(artwork.cut) ELSE UNCHANGED <<holds, gates, stirred, screen>>

\* needs_drain(), where a drain has something to do
Pending ==
    \/ display # NoDisplay
    \/ \E c \in Channels : holds[c] # NoHold /\ (holds[c].due \/ holds[c].image # epochs[c])

\* The head of a drain
DrainStarts ==
    /\ Draining /\ drain.at = "idle"
    /\ drain.torn # artwork.gen \/ artEvents # <<>> \/ Pending
    /\ CaughtUp(artwork.gen)
    /\ drain' = [drain EXCEPT !.at = "events", !.torn = artwork.gen]
    /\ Drains /\ UNCHANGED <<display, artEvents>>

\* A *_CLEARED catches up; a STREAM_END of the current generation clears every channel.
DrainEvent ==
    LET e == Head(artEvents)
    IN  /\ drain.at = "events" /\ artEvents # <<>>
        /\ artEvents' = Tail(artEvents)
        /\ IF e.kind = "ended" /\ e.gen = artwork.gen
           THEN Cleared(e.upto) /\ drain' = [drain EXCEPT !.torn = e.gen]
           ELSE IF e.kind = "cleared"
           THEN CaughtUp(e.gen) /\ drain' = [drain EXCEPT !.torn = Max({@, e.gen})]
           ELSE UNCHANGED <<holds, gates, stirred, screen, drain>>
        /\ Drains /\ UNCHANGED display

\* take_current_payload()
DrainTake ==
    /\ drain.at = "events" /\ artEvents = <<>>
    /\ drain' = [drain EXCEPT !.at = IF Pending THEN "load" ELSE "idle",
                              !.taken = IF Pending THEN display ELSE @]
    /\ display' = NoDisplay
    /\ Drains /\ UNCHANGED <<holds, gates, stirred, artEvents, screen>>

DrainLoad ==
    /\ drain.at = "load"
    /\ CaughtUp(artwork.gen)
    /\ drain' = [drain EXCEPT !.at = "fold", !.torn = artwork.gen, !.gen = artwork.gen,
                              !.taken = IF @.gen = artwork.gen THEN @ ELSE NoDisplay]
    /\ Drains /\ UNCHANGED <<display, artEvents>>

\* The deadline sweep goes on with some channels.
Swept(rest) ==
    [drain EXCEPT !.taken = NoDisplay, !.rest = rest, !.at = IF rest = {} THEN "idle" ELSE "sweep"]

\* accepts(), then each channel's newest display takes the place of the one held.
DrainFold ==
    /\ drain.at = "fold"
    /\ IF drain.gen # artwork.gen
       THEN UNCHANGED holds /\ drain' = Swept({})
       ELSE /\ holds' = [c \in Channels |->
                           IF drain.taken.of[c] # NoHold THEN drain.taken.of[c] ELSE holds[c]]
            /\ drain' = Swept({c \in Channels : holds'[c] # NoHold})
    /\ Drains /\ UNCHANGED <<gates, stirred, display, artEvents, screen>>

\* A gate that awaits its acknowledgement opens as well.
ReopenedMutant(ack) == "idle"

\* Only the display that fires leaves the gate to be opened.
LeftShutMutant(ack) == ack

\* The gate of a display that will never fire, which is the listener's to wait for otherwise
Reopened(ack) == IF ack = "delivered" THEN "idle" ELSE ack

\* The deadline sweep of drain_events(): the display of an image its channel has moved past goes,
\* one that is due is fired.
DrainSweep ==
    LET c    == Min(drain.rest)
        next == Swept(drain.rest \ {c})
    IN  /\ drain.at = "sweep"
        /\ \/ /\ holds[c].image # epochs[c]
              /\ holds' = [holds EXCEPT ![c] = NoHold]
              /\ gates' = IF c \in Gated THEN [gates EXCEPT ![c].ack = Reopened(@)] ELSE gates
              /\ stirred' = (stirred \/ gates[c].parked)
              /\ drain' = next
           \/ /\ holds[c].image = epochs[c] /\ holds[c].due
              /\ drain' = [drain EXCEPT !.at = "fire"]
              /\ UNCHANGED <<holds, gates, stirred>>
           \/ /\ holds[c].image = epochs[c] /\ ~holds[c].due
              /\ drain' = next
              /\ UNCHANGED <<holds, gates, stirred>>
        /\ Drains /\ UNCHANGED <<display, artEvents, screen>>

\* The gate is armed before on_image_display() or on_image_clear().
DrainFire ==
    LET c == Min(drain.rest)
    IN  /\ drain.at = "fire"
        /\ holds' = [holds EXCEPT ![c] = NoHold]
        /\ gates' = IF c \in Gated THEN [gates EXCEPT ![c].ack = "presented"] ELSE gates
        /\ screen' = [screen EXCEPT ![c].shown = holds[c].image, ![c].owes = c \in Gated]
        /\ drain' = [drain EXCEPT !.at = "called"]
        /\ Drains /\ UNCHANGED <<stirred, display, artEvents>>

\* The callback returns: accepts() again
DrainCalled ==
    /\ drain.at = "called"
    /\ drain' = Swept(IF drain.gen = artwork.gen THEN drain.rest \ {Min(drain.rest)} ELSE {})
    /\ Drains /\ UNCHANGED <<holds, gates, stirred, display, artEvents, screen>>

\* A held display is due.
Elapse(c) ==
    /\ holds[c] # NoHold /\ ~holds[c].due
    /\ holds' = [holds EXCEPT ![c].due = TRUE]
    /\ Drains /\ UNCHANGED <<drain, gates, stirred, display, artEvents, screen>>

\* frame_done(), in a callback or between two ticks
FrameDone(c) ==
    /\ drain.at \in {"idle", "called"}
    /\ screen[c].owes \/ ExtraFrameDone
    /\ gates[c].ack # "idle"
    /\ gates' = [gates EXCEPT ![c].ack = "idle"]
    /\ stirred' = (stirred \/ gates[c].parked)
    /\ screen' = [screen EXCEPT ![c].owes = FALSE]
    /\ Drains /\ UNCHANGED <<drain, holds, display, artEvents>>

\* stop(), in a callback or between two ticks
ArtStop ==
    /\ drain.life = "up" /\ drain.at \in {"idle", "called"} /\ artwork.turns < MaxTurns
    /\ drain' = [drain EXCEPT !.life = "closing", !.at = "joining", !.rest = {}]
    /\ Drains /\ UNCHANGED <<holds, gates, stirred, display, artEvents, screen>>

\* The protocol task is joined, then the decode thread; its list is unbound and the role cleaned up.
ArtJoin ==
    /\ drain.at = "joining" /\ decoder.at = "out" /\ ~artwork.removing
    /\ ArtTornDown(artwork.gen + 1)
    /\ drain' = [drain EXCEPT !.life = "final", !.at = "idle"]
    /\ UNCHANGED <<decodeThread, holds, gates, stirred, display, screen>>

ArtStopped ==
    /\ drain.life = "final" /\ drain.at = "idle" /\ drain.torn = artwork.gen /\ artEvents = <<>>
    /\ drain' = [drain EXCEPT !.life = "stopped"]
    /\ Drains /\ UNCHANGED <<holds, gates, stirred, display, artEvents, screen>>

ArtStart ==
    /\ drain.life = "stopped"
    /\ drain' = [drain EXCEPT !.life = "up"]
    /\ decoder' = [decoder EXCEPT !.at = "top"] /\ stirred' = FALSE
    /\ UNCHANGED <<protocolTask, items, assemblies, holds, gates, display, artEvents, screen>>

-----------------------------------------------------------------------------
(* The role *)

\* Nothing has been handed over, and the decode thread waits.
ArtworkInit ==
    /\ artwork = [active |-> FALSE, known |-> FALSE, gen |-> 0, removing |-> FALSE,
                  cut |-> [c \in Channels |-> 0], turns |-> 0, transfer |-> NoTransfer]
    /\ epochs = [c \in Channels |-> 0]
    /\ items = <<>> /\ stirred = FALSE
    /\ decoder = [at |-> "wait", on |-> 0, from |-> "top", sweeps |-> {}, gen |-> 0]
    /\ assemblies = [c \in Channels |-> NoAssembly]
    /\ gates = [c \in Channels |-> [ack |-> "idle", parked |-> FALSE]]
    /\ display = NoDisplay /\ holds = [c \in Channels |-> NoHold]
    /\ drain = [life |-> "up", at |-> "idle", torn |-> 0, gen |-> 0, taken |-> NoDisplay, rest |-> {}]
    /\ artEvents = <<>>
    /\ screen = [c \in Channels |-> [decoded |-> 0, shown |-> 0, ended |-> 0, owes |-> FALSE]]

ArtworkStep ==
    /\ \/ ArtStreamStart \/ ArtStreamEnd \/ Part \/ ArtCleanup
       \/ \E c \in Channels : Cancel(c) \/ \E n \in Parts : Announce(c, n)
    /\ artwork'.turns <= MaxTurns

DecodeStep ==
    \/ DecodeTop \/ Sweep \/ DecodeWoken \/ DecodeItem
    \/ DeliverCheck \/ DeliverGate \/ Decode \/ HandDisplay \/ DecodeLeaves

DrainStep ==
    \/ DrainStarts \/ DrainEvent \/ DrainTake \/ DrainLoad \/ DrainFold
    \/ DrainSweep \/ DrainFire \/ DrainCalled

ArtworkNext ==
    \/ ArtworkStep \/ ArtRecall \/ DecodeStep \/ DrainStep
    \/ ArtStop \/ ArtJoin \/ ArtStopped \/ ArtStart
    \/ \E c \in Channels : Elapse(c) \/ FrameDone(c)

\* The threads run, a teardown or a stop() that has begun goes on, time passes, and a listener
\* acknowledges what it was shown.
ArtworkFairness ==
    /\ WF_artworkVars(ArtRecall) /\ WF_artworkVars(DecodeStep) /\ WF_artworkVars(DrainStep)
    /\ WF_artworkVars(ArtJoin)
    /\ \A c \in Channels : WF_artworkVars(Elapse(c)) /\ WF_artworkVars(FrameDone(c))

ArtworkSpec == ArtworkInit /\ [][ArtworkNext]_artworkVars /\ ArtworkFairness

-----------------------------------------------------------------------------
(* What it promises *)

ArtworkTypes ==
    /\ artwork \in ArtworkStream /\ epochs \in [Channels -> Nat] /\ stirred \in BOOLEAN
    /\ gates \in [Channels -> Gates] /\ screen \in [Channels -> Screen]
    /\ drain.at \in {"idle", "events", "load", "fold", "sweep", "fire", "called", "joining"}

\* The image being decoded consists of its own parts, all of them: a marker, a newer announce, a
\* refused part or a teardown in the middle of one never leaves two images mixed in a channel's
\* buffer, nor one with a hole in it.
WholeImages ==
    decoder.at = "decode" =>
      assemblies[decoder.on].whole /\ assemblies[decoder.on].left = 0

\* A gated channel awaits a frame_done() exactly while the listener owes it one: none of the ways a
\* gate reopens lets go of what the listener has been shown.
GateMatchesListener == \A c \in Gated : screen[c].owes <=> gates[c].ack = "presented"

\* Only a complete image is parked.
ParkedIsReady == \A c \in Channels : gates[c].parked => assemblies[c].state = "ready"

\* What is about to be displayed is of the stream the listener is in: it is newer than anything
\* displayed before and than anything the clear of a stream's end or of a teardown was for.
ScreenInOrder ==
    drain.at = "fire" =>
      LET c == Min(drain.rest)
      IN  holds[c].image > screen[c].shown /\ holds[c].image > screen[c].ended

ArtworkSafe ==
    ArtworkTypes /\ WholeImages /\ GateMatchesListener /\ ParkedIsReady /\ ScreenInOrder

\* A gated channel displays the image its listener decoded last: no other is decoded before the
\* display of this one was acknowledged or given up.
DisplaysTheDecoded ==
    drain.at = "fire" =>
      LET c == Min(drain.rest)
      IN  c \in Gated /\ ~holds[c].clear => screen[c].decoded = holds[c].image

\* A gate that a decode closed opens again, by way of a display or without one, while the stream goes
\* on, and what is parked behind a gate is delivered or dropped.
GatesReopen ==
    \A c \in Gated :
      /\ gates[c].ack = "delivered" ~> gates[c].ack # "delivered" \/ ~artwork.active
      /\ gates[c].parked ~> ~gates[c].parked

=============================================================================
