----------------------------- MODULE SourceStream -----------------------------
(***************************************************************************)
(* The source role: the input stream a server starts and ends, and the     *)
(* audio on its way from the capture thread through the source task to the *)
(* protocol task, which sends it. Between the threads are a ring of        *)
(* captured writes, a ring of chunks, and the stream's gate. The main loop *)
(* tells the listener, and calls start() and stop().                       *)
(*                                                                         *)
(* Audio is counted in units, numbered as they were captured: a write is   *)
(* one or more, a chunk is CHUNK_UNITS. A chunk is the units it holds.     *)
(*                                                                         *)
(* A definition whose name ends in Mutant is a deliberate mistake the      *)
(* properties are tested against.                                          *)
(***************************************************************************)
EXTENDS Integers, SequencesExt, FiniteSetsExt

CONSTANTS
    CHUNK_UNITS,                \* chunk_duration_ms
    WriteUnits,                 \* the lengths of a write
    CaptureRoom,                \* writes the capture ring holds
    OUTBOUND_RING_ITEM_COUNT,   \* chunks the outbound ring holds
    MaxOpenings,                \* bound: streams
    MaxPeers,                   \* bound: connections
    MaxCleanups,                \* bound: teardowns after which none but a loss comes
    MaxUnits, MaxEvents,        \* bound: units captured, events in the inbox
    Depths                      \* bound: how many of each in a behaviour, see SourceStarts

ASSUME SourceAssumption ==
    /\ {CHUNK_UNITS, CaptureRoom, OUTBOUND_RING_ITEM_COUNT} \subseteq Nat \ {0}
    /\ WriteUnits \subseteq Nat \ {0}
    /\ {MaxOpenings, MaxPeers, MaxCleanups, MaxUnits, MaxEvents} \subseteq Nat
    /\ Depths \subseteq (0 .. MaxUnits) \X (0 .. MaxEvents)

VARIABLES
    peer,        \* the connection that may own the role, see SourcePeer
    stream,      \* the protocol task's half of the role, see Stream
    heard,       \* history: the stream as the server has heard it on this connection
    sourceEvents, \* the role's events in the inbox, the oldest first
    listener,    \* the main loop: the teardown it caught up with, streaming_active, its place
    capture,     \* the capture thread: the generation it read the gate under (0 none), and the
                 \* units captured so far
    written,     \* the capture ring
    overflow,    \* overflow_generation_
    task,        \* the source task, see Task
    chunks,      \* the outbound ring: completed chunks not yet taken
    lent,        \* chunks the transport has
    room         \* events the other roles leave room for

protocolSide == <<peer, stream, heard>>
sourceVars == <<protocolSide, sourceEvents, listener, capture, written, overflow, task, chunks, lent, room>>

NoChunk == [gen |-> 0, codec |-> "none", units |-> <<>>]
NoWrite == [gen |-> 0, units |-> <<>>]

SourcePeer == [id : 0 .. MaxPeers, up : BOOLEAN, owner : BOOLEAN, act : BOOLEAN, lists : BOOLEAN]

NoPeerYet == [id |-> 0, up |-> FALSE, owner |-> FALSE, act |-> FALSE, lists |-> FALSE]

\* authorized, open and owed name a connection, 0 for none; torn is cleanup_generation.
ClosedStream ==
    [authorized |-> 0, open |-> 0, owed |-> 0, gate |-> FALSE, gen |-> 0, codec |-> "pcm",
     torn |-> 0]

Silent == [open |-> FALSE, gen |-> 0, codec |-> "none", upto |-> 0, ok |-> TRUE]

Admits(gen) == stream.gate /\ stream.gen = gen

-----------------------------------------------------------------------------
(* What the protocol task's handlers make of the stream, of what the server has heard, and of   *)
(* the events: operators on the three together                             *)

Now == [stream |-> stream, heard |-> heard, sourceEvents |-> sourceEvents]

Become(r) == stream' = r.stream /\ heard' = r.heard /\ sourceEvents' = r.sourceEvents

HeardStart(h, codec, gen) ==
    [open |-> TRUE, gen |-> gen, codec |-> codec, upto |-> 0,
     ok |-> h.ok /\ ~h.open /\ peer.act]

HeardEnd(h, act) == [h EXCEPT !.open = FALSE, !.ok = @ /\ h.open /\ act]

Rising(s) == \A i, j \in 1 .. Len(s) : i < j => s[i] < s[j]

\* A chunk of CHUNK_UNITS of the stream, captured in this order and after those heard before.
HeardChunk(h, chunk) ==
    [h EXCEPT !.upto = Last(chunk.units),
              !.ok = @ /\ h.open /\ peer.act /\ chunk.codec = h.codec
                       /\ chunk.gen = h.gen /\ Head(chunk.units) > h.upto
                       /\ Len(chunk.units) = CHUNK_UNITS /\ Rising(chunk.units)]

\* push_event_or_log(): a full ring drops it
Pushed(queue, kind, torn) ==
    IF Len(queue) < room THEN Append(queue, [kind |-> kind, torn |-> torn]) ELSE queue

\* end_stream(): `owner` is whether the connection owns the role, `act` whether it is activated
Ended(r, owner, act) ==
    LET st    == r.stream
        hears == owner /\ peer.id = st.open /\ peer.up
    IN  IF st.open = 0 THEN [r EXCEPT !.stream.authorized = 0]
        ELSE [stream |-> [st EXCEPT !.authorized = 0, !.open = 0, !.gate = FALSE,
                                    !.owed = IF hears /\ ~act THEN st.open ELSE @],
              heard |-> IF hears /\ act THEN HeardEnd(r.heard, act) ELSE r.heard,
              sourceEvents |-> Pushed(r.sourceEvents, "stopped", st.torn)]

\* cleanup()
TornDown(r) ==
    LET torn == r.stream.torn + 1
    IN  [stream |-> [r.stream EXCEPT !.torn = torn, !.authorized = 0, !.owed = 0, !.open = 0,
                                     !.gate = FALSE],
         heard |-> r.heard,
         sourceEvents |-> Pushed(r.sourceEvents, "cleared", torn)]

\* on_activation_applied()
Paid(r) ==
    LET owes == r.stream.owed # 0 /\ r.stream.owed = peer.id
    IN  [r EXCEPT !.stream.owed = IF owes THEN 0 ELSE @,
                  !.heard = IF owes THEN HeardEnd(@, TRUE) ELSE @]

-----------------------------------------------------------------------------
(* The protocol task: the stream *)

\* The role's task runs, and with it the protocol task.
Running == listener.at \in {"idle", "closing"}

Protocol == Running /\ UNCHANGED <<listener, capture, written, overflow, task, chunks, lent, room>>

MayOpen ==
    stream.authorized # 0 /\ stream.authorized = peer.id /\ peer.owner /\ peer.act

\* try_open(), from the command or from send_chunks(); the send may fail
TryOpen ==
    LET gen   == stream.gen + 1
        codec == IF peer.lists THEN "flac" ELSE "pcm"
    IN  /\ Protocol /\ MayOpen
        /\ \/ /\ stream' = [stream EXCEPT !.authorized = 0, !.open = peer.id, !.gate = TRUE,
                              !.gen = gen, !.codec = codec]
              /\ heard' = HeardStart(heard, codec, gen)
              /\ sourceEvents' = Pushed(sourceEvents, "started", stream.torn)
           \/ /\ stream' = [stream EXCEPT !.authorized = 0]
              /\ UNCHANGED <<heard, sourceEvents>>
        /\ UNCHANGED peer

StartCommand ==
    /\ Protocol /\ peer.up /\ peer.owner /\ peer.act
    /\ stream.authorized = 0 /\ stream.open = 0 /\ stream.gen < MaxOpenings
    /\ stream' = [stream EXCEPT !.authorized = peer.id]
    /\ UNCHANGED <<peer, heard, sourceEvents>>

StopCommand ==
    /\ Protocol /\ peer.up /\ peer.owner /\ peer.act
    /\ Become(Ended(Now, TRUE, TRUE))
    /\ UNCHANGED peer

\* adopt_client_state(): the client becomes unavailable, which may be in a quiet window
Unavailable ==
    /\ Protocol
    /\ Become(Ended(Now, peer.owner, peer.act))
    /\ UNCHANGED peer

Connected ==
    /\ Protocol /\ listener.at = "idle" /\ ~peer.up /\ peer.id < MaxPeers
    /\ \E lists \in BOOLEAN :
          peer' = [id |-> peer.id + 1, up |-> TRUE, owner |-> TRUE, act |-> TRUE, lists |-> lists]
    /\ heard' = Silent
    /\ UNCHANGED <<stream, sourceEvents>>

QuietWindow ==
    /\ Protocol /\ peer.up /\ peer.act
    /\ peer' = [peer EXCEPT !.act = FALSE]
    /\ UNCHANGED <<stream, heard, sourceEvents>>

\* server/activate: what a quiet window owes, then the roles it removes
Activation(owner) ==
    /\ Protocol /\ peer.up /\ (peer.act => owner # peer.owner)
    /\ ~owner => stream.torn < MaxCleanups
    /\ peer' = [peer EXCEPT !.act = TRUE, !.owner = owner]
    /\ Become(IF peer.owner /\ ~owner THEN TornDown(Ended(Paid(Now), TRUE, TRUE)) ELSE Paid(Now))

\* The connection is lost, and with it the role's owner.
Loses ==
    /\ peer.up
    /\ peer' = [peer EXCEPT !.up = FALSE, !.owner = FALSE, !.act = FALSE]
    /\ Become(IF peer.owner THEN TornDown(Now) ELSE Now)

SourceLost == Protocol /\ Loses

-----------------------------------------------------------------------------
(* The protocol task: the chunks *)

\* Whatever is completed while a stream is open is sent on it.
SendableMutant(chunk) ==
    chunk.units # <<>> /\ stream.gate /\ peer.owner /\ peer.id = stream.open /\ peer.act

Sendable(chunk) ==
    /\ chunk.units # <<>> /\ Admits(chunk.gen)
    /\ peer.owner /\ peer.id = stream.open /\ peer.act

\* send_chunks(): one that cannot be sent goes back, one that can is lent. A send that fails gives
\* it back and closes the connection, which the tick then drops.
SendChunk ==
    LET chunk == Head(chunks)
    IN  /\ Running /\ chunks # <<>>
        /\ chunks' = Tail(chunks)
        /\ \/ /\ Sendable(chunk)
              /\ lent' = lent + 1 /\ heard' = HeardChunk(heard, chunk)
              /\ UNCHANGED <<peer, stream, sourceEvents>>
           \/ Sendable(chunk) /\ Loses /\ UNCHANGED lent
           \/ ~Sendable(chunk) /\ UNCHANGED <<protocolSide, sourceEvents, lent>>
        /\ UNCHANGED <<listener, capture, written, overflow, task, room>>

\* The transport has written a frame, or lost it.
ReturnLent ==
    /\ lent > 0
    /\ lent' = lent - 1
    /\ UNCHANGED <<protocolSide, sourceEvents, listener, capture, written, overflow, task, chunks, room>>

-----------------------------------------------------------------------------
(* The capture thread: write_audio() *)

Captures == UNCHANGED <<protocolSide, sourceEvents, listener, task, chunks, lent, room>>

ReadGate ==
    /\ capture.gen = 0 /\ stream.gate /\ capture.n < MaxUnits
    /\ capture' = [capture EXCEPT !.gen = stream.gen]
    /\ Captures /\ UNCHANGED <<written, overflow>>

\* Writes the ring has no room for: those it holds, and the one the task holds
RingFull == Len(written) + (IF task.held = NoWrite THEN 0 ELSE 1) >= CaptureRoom

Write(len) ==
    LET units == [i \in 1 .. len |-> capture.n + i]
    IN  /\ capture.gen # 0 /\ capture.n + len <= MaxUnits
        /\ capture' = [gen |-> 0, n |-> capture.n + len]
        /\ IF RingFull
           THEN overflow' = capture.gen /\ UNCHANGED written
           ELSE written' = Append(written, [gen |-> capture.gen, units |-> units])
                /\ UNCHANGED overflow
        /\ Captures

\* Partial frames, or more than an item holds: refused, and no overflow
Refuse ==
    /\ capture.gen # 0
    /\ capture' = [capture EXCEPT !.gen = 0]
    /\ Captures /\ UNCHANGED <<written, overflow>>

-----------------------------------------------------------------------------
(* The source task *)

TaskIdle == [at |-> "out", held |-> NoWrite, fresh |-> FALSE, chunk |-> NoChunk, encGen |-> 0,
             encoder |-> "none"]

Tasks == UNCHANGED <<protocolSide, sourceEvents, listener, capture, lent, room>>

\* An empty item takes the place of the chunk in progress.
Dropped(queue) ==
    IF task.chunk = NoChunk THEN queue ELSE Append(queue, NoChunk)

TakeWrite ==
    /\ task.at = "loop" /\ listener.at # "stopping"
    /\ \/ /\ task.held = NoWrite /\ written # <<>>
          /\ task' = [task EXCEPT !.at = "gate", !.held = Head(written), !.fresh = TRUE]
          /\ written' = Tail(written)
       \/ /\ task.held # NoWrite
          /\ task' = [task EXCEPT !.at = "gate", !.fresh = FALSE]
          /\ UNCHANGED written
    /\ Tasks /\ UNCHANGED <<overflow, chunks>>

KeepsChunk(gen) == task.chunk = NoChunk \/ task.chunk.gen = gen

\* process() reads the gate: audio of a closed stream goes back, and the chunk it would join.
CheckGate ==
    LET gen == task.held.gen
    IN  /\ task.at = "gate"
        /\ IF ~Admits(gen)
           THEN /\ task' = [task EXCEPT !.at = "loop", !.held = NoWrite, !.chunk = NoChunk]
                /\ chunks' = Dropped(chunks)
           ELSE /\ task' = [task EXCEPT !.at = IF task.fresh THEN "overflow" ELSE "chunk",
                                        !.chunk = IF KeepsChunk(gen) THEN @ ELSE NoChunk]
                /\ chunks' = IF KeepsChunk(gen) THEN chunks ELSE Dropped(chunks)
        /\ Tasks /\ UNCHANGED <<written, overflow>>

CheckOverflow ==
    /\ task.at = "overflow"
    /\ overflow' = 0
    /\ IF overflow = task.held.gen
       THEN /\ task' = [task EXCEPT !.at = "loop", !.held = NoWrite, !.chunk = NoChunk]
            /\ written' = <<>> /\ chunks' = Dropped(chunks)
       ELSE task' = [task EXCEPT !.at = "chunk"] /\ UNCHANGED <<written, chunks>>
    /\ Tasks

\* Chunks the outbound ring has room for: those completed, in progress and lent are in it.
OutboundFull ==
    Len(chunks) + lent + (IF task.chunk = NoChunk THEN 0 ELSE 1) >= OUTBOUND_RING_ITEM_COUNT

\* The wait for room ends with room.
NoRoomMutant == FALSE /\ UNCHANGED sourceVars

\* begin_chunk() found no room for a chunk's duration
NoRoom ==
    /\ task.at = "chunk" /\ task.chunk = NoChunk /\ OutboundFull
    /\ IF overflow = task.held.gen
       THEN /\ task' = [task EXCEPT !.at = "loop", !.held = NoWrite]
            /\ overflow' = 0 /\ written' = <<>>
       ELSE task' = [task EXCEPT !.at = "loop"] /\ UNCHANGED <<overflow, written>>
    /\ Tasks /\ UNCHANGED chunks

\* encoder_for() what was announced, at a stream's first chunk
Encoder(gen) == IF gen # task.encGen THEN stream.codec ELSE task.encoder

\* begin_chunk(), the copy, and finish_chunk() when the chunk is full; encoding may fail
Fill ==
    LET held  == task.held
        begun == IF task.chunk # NoChunk THEN task.chunk
                 ELSE [gen |-> held.gen, codec |-> Encoder(held.gen), units |-> <<>>]
        n     == Min({Len(held.units), CHUNK_UNITS - Len(begun.units)})
        full  == [begun EXCEPT !.units = @ \o SubSeq(held.units, 1, n)]
        rest  == SubSeq(held.units, n + 1, Len(held.units))
        done  == Len(full.units) = CHUNK_UNITS
    IN  /\ task.at = "chunk" /\ ~(task.chunk = NoChunk /\ OutboundFull)
        /\ task' = [at |-> "loop", fresh |-> FALSE,
                    held |-> IF rest = <<>> THEN NoWrite ELSE [held EXCEPT !.units = rest],
                    chunk |-> IF done THEN NoChunk ELSE full,
                    encGen |-> held.gen, encoder |-> begun.codec]
        /\ \E encoded \in BOOLEAN :
              chunks' = IF done THEN Append(chunks, IF encoded THEN full ELSE NoChunk)
                        ELSE chunks
        /\ Tasks /\ UNCHANGED <<written, overflow>>

\* run() sees the stop bit: what it held goes back
Leave ==
    /\ task.at = "loop" /\ listener.at = "stopping"
    /\ task' = TaskIdle
    /\ chunks' = Dropped(chunks)
    /\ Tasks /\ UNCHANGED <<written, overflow>>

-----------------------------------------------------------------------------
(* The main loop *)

MainOnly == UNCHANGED <<peer, heard, capture, written, overflow, room>>

\* catch_up_teardown(), at the head of a drain
CatchUpSource ==
    /\ listener.at \in {"idle", "draining"} /\ listener.torn # stream.torn
    /\ listener' = [listener EXCEPT !.torn = stream.torn, !.streaming = FALSE]
    /\ MainOnly /\ UNCHANGED <<stream, sourceEvents, task, chunks, lent>>

\* handle_stream_ring_event(), and the *_CLEARED event
TakeEvent ==
    LET e == Head(sourceEvents)
    IN  /\ listener.at \in {"idle", "draining"} /\ sourceEvents # <<>>
        /\ sourceEvents' = Tail(sourceEvents)
        /\ listener' = IF e.torn # stream.torn THEN listener
                   ELSE [listener EXCEPT !.torn = e.torn,
                           !.streaming = CASE e.kind = "started" -> TRUE
                                           [] e.kind = "stopped" -> FALSE
                                           [] OTHER -> @ /\ listener.torn = e.torn]
        /\ MainOnly /\ UNCHANGED <<stream, task, chunks, lent>>

\* stop(), in a callback or between two ticks: the final tick comes first
StopSource ==
    /\ listener.at = "idle" /\ stream.torn < MaxCleanups
    /\ listener' = [listener EXCEPT !.at = "closing"]
    /\ MainOnly /\ UNCHANGED <<stream, sourceEvents, task, chunks, lent>>

\* The shutdown pass; the protocol task is joined and the server stopped, which returns what is lent.
ShutDown ==
    /\ listener.at = "closing"
    /\ Become(Ended(Now, peer.owner, peer.act))
    /\ peer' = [peer EXCEPT !.up = FALSE, !.owner = FALSE, !.act = FALSE]
    /\ listener' = [listener EXCEPT !.at = "stopping"]
    /\ lent' = 0
    /\ UNCHANGED <<capture, written, overflow, task, chunks, room>>

\* The source task is joined, its outbound ring destroyed, and the role torn down.
JoinTask ==
    /\ listener.at = "stopping" /\ task.at = "out"
    /\ listener' = [listener EXCEPT !.at = "draining"]
    /\ chunks' = <<>>
    /\ Become(TornDown(Now))
    /\ UNCHANGED <<peer, capture, written, overflow, task, lent, room>>

Stopped ==
    /\ listener.at = "draining" /\ listener.torn = stream.torn /\ sourceEvents = <<>>
    /\ listener' = [listener EXCEPT !.at = "stopped"]
    /\ MainOnly /\ UNCHANGED <<stream, sourceEvents, task, chunks, lent>>

\* SourceTask::start()
StartSource ==
    /\ listener.at = "stopped"
    /\ listener' = [listener EXCEPT !.at = "idle"]
    /\ task' = [TaskIdle EXCEPT !.at = "loop"]
    /\ MainOnly /\ UNCHANGED <<stream, sourceEvents, chunks, lent>>

-----------------------------------------------------------------------------

SourceStarts(at, units, depth) ==
    /\ peer = NoPeerYet /\ room = depth
    /\ stream = ClosedStream /\ heard = Silent /\ sourceEvents = <<>>
    /\ listener = [at |-> at, torn |-> 0, streaming |-> FALSE]
    /\ capture = [gen |-> 0, n |-> MaxUnits - units] /\ written = <<>> /\ overflow = 0
    /\ task = TaskIdle /\ chunks = <<>> /\ lent = 0

SourceInit == \E depth \in Depths : SourceStarts("stopped", depth[1], depth[2])

TaskNext == TakeWrite \/ CheckGate \/ CheckOverflow \/ NoRoom \/ Fill \/ Leave

MainNext == CatchUpSource \/ TakeEvent \/ ShutDown \/ JoinTask \/ Stopped

SourceNext ==
    \/ TryOpen \/ StartCommand \/ StopCommand \/ Unavailable \/ Connected \/ QuietWindow
    \/ \E owner \in BOOLEAN : Activation(owner)
    \/ SourceLost \/ SendChunk \/ ReturnLent
    \/ ReadGate \/ Refuse \/ \E len \in WriteUnits : Write(len)
    \/ TaskNext \/ MainNext \/ StopSource \/ StartSource

\* The threads go on; the transport writes what it has. Servers, captures and stops are free.
SourceFairness ==
    /\ WF_sourceVars(TaskNext) /\ WF_sourceVars(MainNext)
    /\ WF_sourceVars(SendChunk) /\ WF_sourceVars(ReturnLent)

SourceSpec == SourceInit /\ [][SourceNext]_sourceVars /\ SourceFairness

-----------------------------------------------------------------------------

\* Types of the stream's state on each thread.
SourceTypeOK ==
    /\ peer \in SourcePeer
    /\ {stream.authorized, stream.open, stream.owed} \subseteq 0 .. MaxPeers
    /\ stream.gen \in 0 .. MaxOpenings /\ stream.gate \in BOOLEAN
    /\ Len(sourceEvents) <= room /\ Len(written) <= CaptureRoom
    /\ listener.at \in {"idle", "closing", "stopping", "draining", "stopped"}
    /\ task.at \in {"out", "loop", "gate", "overflow", "chunk"}
    /\ lent \in Nat

\* The server hears a stream's start, whole chunks of that stream alone, the audio within one and
\* from one to the next in the order it was captured, in the codec announced, and its end; nothing
\* in the quiet window of a re-handshake, whatever was still on its way through the rings, and
\* however a write is split over chunks (send_chunks(), end_stream(), begin_chunk()).
ServerHearsStreams == heard.ok

\* A server that heard a stream begin hears it end, at the latest with the next activation, unless
\* the connection goes (end_stream(), on_activation_applied()).
EndIsNotForgotten ==
    peer.up /\ heard.open => peer.id \in {stream.open, stream.owed}

\* No more chunks are out than the outbound ring holds, and none when it is destroyed
\* (SourceTask::stop()).
ChunksFit ==
    /\ Len(chunks) + lent + (IF task.chunk = NoChunk THEN 0 ELSE 1) <= OUTBOUND_RING_ITEM_COUNT
    /\ listener.at \in {"draining", "stopped"} => chunks = <<>> /\ lent = 0 /\ task = TaskIdle

\* The audio of a chunk of the open stream is contiguous: the backlog and the chunk in progress go
\* when the capture ring overflows (internals.md, "Source task").
ChunksContiguous ==
    \A chunk \in {q \in ToSet(chunks) : Admits(q.gen)} : \A i \in DOMAIN chunk.units :
       chunk.units[i] = Head(chunk.units) + i - 1

\* Once stopped, the listener was told that its stream ended and the hold is released.
StoppedIsSilent == listener.at = "stopped" => ~listener.streaming

SourceSafe ==
    /\ SourceTypeOK /\ ServerHearsStreams /\ EndIsNotForgotten /\ ChunksFit /\ StoppedIsSilent

\* No write and no chunk is kept for ever: each goes out or back, and stop() returns.
NothingIsKept ==
    /\ task.held # NoWrite ~> task.held = NoWrite
    /\ chunks # <<>> ~> chunks = <<>>
    /\ listener.at = "closing" ~> listener.at = "stopped"
=============================================================================
