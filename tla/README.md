# sendspin-cpp: TLA+ models, checks and proofs

A verification development kept beside `sendspin-cpp`, a client library of the Sendspin
synchronized audio protocol. The models are translated from the code under `src/src/`; every
definition that stands for code is listed with its lines in `PROJECT.json`.

- Parse: `tlasany PlayerStream.tla`
- Check: `tlc -config Streams.cfg PlayerStream.tla` (each `.cfg` names its module below)
- Prove: `tlapm PlayerStream_proofs.tla`, and so for each `..._proofs.tla`

## 1. The system

The library runs on four kinds of threads: the *transport* threads that read WebSocket messages, the
one *protocol task* that handles them, the *role threads* (the player's sync task, artwork,
visualizer, source) that consume audio and images, and the application's *main loop*, the only thread
listener callbacks run on. They share almost nothing but an `Inbox` (protocol task to main loop), the
`InboundRing` (transports to protocol task and role threads), a command queue (main loop to protocol
task) and event flags.

| Component | State it keeps | Operations | Talks to |
|---|---|---|---|
| Player role | stream ordinal, params slot, events awaiting the sync task's idle, playback hold | stream start / end / clear, binary audio, teardown, drain | sync task (list, flags, ordinals), inbox, listener |
| Sync task | its state machine, the chunk held, what was decoded, the active ordinal | wait for a header, wait for the acknowledgement, decode, write, discard to a marker, leave | player role, inbox (idle note), audio sink |
| Event inbox | event ring, one slot per topic, topic bits | push, take, reset; slot write, merge, take, edit | protocol task, main loop |
| Teardown tracker | a generation per role; on the main loop the last one caught up with | bump, accept, catch up | every role |
| Metadata, color roles | the slot's oldest and newest state, the held state, the state shown | server state, teardown, drain | inbox, listener, published clock |
| Controller role | merged controller state | server state, send command, teardown, drain | inbox, protocol task |
| Main loop drain | a drain generation, the pairing notes taken | drain: catch-ups, requests, events, notes, roles, group | every role, listener |
| Client start and stop | lifecycle | start, stop (also from inside a callback) | every component |
| Protocol task | command queue, latest-wins request slot | tick, push a command, post a request, final tick | main loop, connection manager |
| Connection manager | an admitted connection (`MAX_ADMITTED`), the newcomers, role owners, released attempts | accept, connect, admit, displace, re-handshake, shut down, reap | transports, pairing, roles |
| Pairing | offers, the code or window prompt, records | start, confirm, abort, time out | record store, pairing notes |
| Record store | PSK records in RAM, dirty slots, last-used order | store, evict, flush, load | persistence provider |
| Noise encryption | handshake and transport state, fragments of a message | handshake, encrypt, decrypt, reassemble | connection |
| Inbound ring | items, who still holds each, quotas | acquire, commit, hand, return, recall, release | transports, protocol task, role threads |
| Outbound ring | chunks of captured audio | write, read, reset | source task, protocol task |
| Time synchronisation | burst progress, filter | send, reply, time out, finish | connection, high-performance hold |
| High-performance hold | acquires and releases owed | request, apply, grant, release | time bursts, player |
| Source role | stream state, generation, the end owed | open, capture, close, teardown | protocol task, outbound ring |
| Artwork role | a delivery un-acked, an image parked, per-channel boundary | image, stream start / end, decode, ack, teardown | inbound ring, listener |
| Visualizer role | frames awaiting their time, the boundary | frame, stream commands, drain, teardown | inbound ring, listener |
| Message formats, decoders, encoders, cryptography, platform | pure data, or libraries | parse, format, decode, encode | all |

### Where the difficulty is

- **Three threads, one stream.** A stream's start is acknowledged by the main loop, its end by the
  sync task; a second stream, a clear, a teardown or a `stop()` may come between any two steps. The
  flags between them are single bits, and the stream ordinals are 16 bits wide.
- **Teardown.** A teardown bumps a role's generation on the protocol task; its main-loop half runs
  later, from three places (head of the drain, a `*_CLEARED` event, a role's own drain), and the
  event that announces it may be dropped from a full ring or wiped by the next teardown.
- **Re-entrance.** A listener callback may call `stop()`, even `start()`: the drain that fired the
  callback is still on the stack above.
- **Time.** A state is applied when it is due; between two ticks the clock may move, appear or go.
- **Items returned by two parties**, quotas and transports that wait for ring space.
- **Admission**: connections replace one another, own different roles and share one slot array.
- **Persistence**: writes are deferred to the main loop and may fail one by one.

What is hard to test is listed line by line in `PROJECT.json` under `hazards`, with the properties
that cover it, or the module that is to.

### What makes each part correct

- Player and sync task: audio is written only between `on_stream_start()` and `on_stream_end()`; no
  audio of an ended stream; what plays was acknowledged; a clear discards what is before it and
  nothing behind it; the listener's view settles on the server's; no thread waits forever; the
  playback hold is released.
- State roles: the states of one connection in the order sent, none before its time, a clear between
  two connections, the last one shown in the end.
- Teardown and stop: a clear for every connection told of, nothing of a torn-down connection behind
  it, nothing owed once `stop()` has returned.
- Inbound ring: items are taken in order and returned once by each party, whatever storage they wrap
  around; a connection's messages are processed in order, all of them, and every waiting transport is
  woken.
- Connections: a call takes effect in its order or is dropped; one owner per role; nothing runs on a
  revoked record; a stopped client holds nothing and waits for no connect.
- Pairing: no PAKE run reuses a sid; guesses are bounded; a code that is shown is withdrawn.
- Record store: the records a reboot reads are ones that were stored, and what is owed is written.
- Time, source, artwork, visualizer: holds pair up and end; a server hears whole streams; an image is
  shown whole and in order, and no gate stays shut; no frame crosses a boundary.

## 2. Modules

| Module | Models | Run |
|---|---|---|
| `ModularCount` | the wrapping counters and their comparison (`count_after`) | through `PlayerStream`, `TimeSync` |
| `PlayerStream` | player role, sync task and the main loop's drain of the player | `Streams`, `Settles`, `Restarts`; `TornDownWrites` |
| `StateView` | abstract: what a state role promises its listener | a property of `States` |
| `StateRole` | a metadata or color role between protocol task and main loop | `States` |
| `RingQueue` | abstract: what a ring promises its users | a property of `Inbound` |
| `SharedRing` | the storage of the host's ring, offsets and headers | `Inbound` |
| `InboundRing` | the items of the inbound ring, their holders, charges and lists | `Inbound` |
| `InboundGate` | one connection's messages from its transport to the protocol task | `Inbound` |
| `PairingBook` | abstract: which pairings authenticate now, and after a reboot | a property of `Records` |
| `RecordStore` | the pairing records in RAM and their way to the provider | `Records` |
| `Admission` | which connections are admitted, who drives each role, who must go | `Admissions` |
| `PairingSession` | the pairing attempt, its window, its prompts | `Connections`; `LateGesture` |
| `StateReports` | `client/state` on the admitted connection | `Connections` |
| `ConnectionLife` | calls, accepts, transports, `start()` and `stop()` | `Transports` |
| `TimeSync` | time bursts and the high-performance hold | `Transports` |
| `SourceStream` | the source role, its task and the outbound ring | `Restarts` |
| `ArtworkGate` | the artwork role: protocol task, decode thread, main loop | `Roles` |
| `VisualizerBoundary` | the visualizer role: protocol task, drain thread, main loop | `Roles` |
| `MCAdmission`, `MCStore` | the instances of `Admission` and `RecordStore` | |
| `MCInbound`, `MCConnections`, `MCTransports`, `MCRoles`, `MCAudio` | parts checked one at a time | |
| `PlayerStream_proofs`, `StateRole_proofs`, `Manager_proofs`, `SourceStream_proofs`, `Roles_proofs`, `Connections_proofs`, `Transports_proofs`, `Inbound_proofs` | the proofs | |

The last group of MC modules each put two or three components side by side. `part`, chosen at the
start, says which one takes steps; the others begin in a state where their fairness asks for nothing.
The components of one MC module share no state in the code, so nothing is lost by checking them one
at a time.

In every module a handler of several steps another thread can see in between is several actions, in
the code's order, and one of a single thread is one action with everything it calls. One variable
stands for each thread (its place in the code and its locals) and one for each shared object.

### PlayerStream

`handle_stream_end()` is `HandleStreamEnd` (the ordinal), `SignalEnd` (the flag), `PublishEnd` (the
event). The sync task's actions are the states of `SyncTask::thread_entry()`, each read of the flags
apart from the writes that follow; the main loop's follow `drain_inbox()` and
`PlayerRole::Impl::drain_events()`. A chunk is a record of its kind, its stream and the number of
clears before it; what it decodes to is the chunk itself. Which frames the alignment to server time
inserts or drops is left out: a step of the loop may write or not. `stop()` can be called between two
ticks or inside a callback (`StopWithin`), and abandons the walk above it. `MainRestart` is a later
`start()`.

### StateRole

A state is its serial number, the generation it was sent under and its time. `slot` is the
`GenerationSlot`; `cleared` holds the role's `*_CLEARED` events, and a push may be dropped because
the other roles' events fill the ring. The drain of the role is cut where the protocol task can come
between: the take of the slot, the load of the generation with the catch-up, the check of the
generation, the oldest state, the check again, the newest or held state. `main.pc = "stop"` is a
`stop()` from a callback of this role, or of another role before it. `told` is
`TeardownTracker::completed_`; `shown` is what the listener was last given. `sent` and `latest` are
history variables. `metadata_role.cpp` is the code the map names; `color_role.cpp` is the same code
over palettes. `StateView` is the promise: `Send`, `TearDown` and `PassTime` belong to the
environment, `Clear` and `Show` to the listener.

### SharedRing, InboundRing, InboundGate

Three levels of the same path, each below the next.

- `SharedRing` is `SharedRingBuffer` of the host: four offsets and the headers found in the storage.
  `Run` is the loop of `complete()` and of `return_item()`, which differ in the flags they pass and in
  where they end. The payload of an item overwrites stale headers with bytes that may look like any
  header (`junk`). It implements `RingQueue`.
- `InboundRing` has the items: a slot is the room of one. Two parties return a `LOCAL` item, the
  protocol task and the consumer, and a quota charge is one per item. `head_completions_` and
  `head_takes_` are kept as their difference. It implements `RingQueue` too. The wake bits
  `ITEMS_APPENDED` and `WAKE` are one. How the FreeRTOS ring publishes the item at its storage's start
  after it was counted or handed out is internal to that library.
- `InboundGate` is one connection: the route of each message (ring, fallback buffer, drop), the
  parked transport, the receive pass, the close. The first message is the `server/activate`. Another
  connection writes into the same ring. Timeouts of waits are steps that may happen, without
  fairness, so no property leans on them; the consumer's 5 s fallback wake is left out.

### RecordStore and PairingBook

`records_` is kept by slot, what is held and its rank in the vector. A record is its PSK, whose first
part is its server. A `psk_id` may be stored again. The flush of the main loop is cut at each
provider call; a write is stored at once or queued until the commit, as the provider likes. The order
blob is encoded and written in one step. At the first boot there is no order blob, and a slot holds
anything a former life may have left (`Left`). `lost` is the history of slots whose last write was
rejected or not committed: it is what a reboot may miss.

### Admission, PairingSession, StateReports

`Admission` has one action per handler of the connection manager on which admission depends:
handshake, activation, arbitration, re-handshake, `server/unpair`, the end of pairing, close;
`set_unpaired_access_enabled()` runs on any thread, in two steps. Records are in the store from the
start, a refused activation changes nothing, and a connection is used once. A lost transport, a
timeout and a failed re-handshake are `DropConnection`.

`PairingSession` has the attempt of the admitted connection, round by round. Whether a tag verifies is
the server's choice. The window expires at once when its time is up. A drain takes the notes and
calls the callbacks in one step; with `StopInCallback` a `stop()` may cut the batch.

`StateReports` has the published snapshot, adopted by the protocol task, and what of it the admitted
connection was told. The first tick adopts a snapshot before any connection exists.

### ConnectionLife and TimeSync

`ConnectionLife`: `connect_to()`, `disconnect()` and accepts become commands and requests, which the
tick takes and applies in one step. An outbound attempt released while it connects is parked in
`reaping_`, whose bound and spare entry are modelled, as a set: an attempt is released before the next
is made, so that the one parked longest is the one of the least call. An `Open` may miss the release (a race of the
host, and what ESP always does), and the reap catches it. Promotion, the establish deadline and
arbitration are choices here and modelled in `Admission`.

`TimeSync`: one burst per admitted connection, its frames known by their tag, which wraps, as do the
tickets of the high-performance requests. The echo of the server is any number it likes. A sample is
good when its `max_error` is positive; the least error is not compared. A listener may not call the
client from the hold's callbacks (`client.h:78`).

### SourceStream, ArtworkGate, VisualizerBoundary

`SourceStream`: captured writes, the source task, chunks on loan to the transport, the gate's
generation that each thread reads at its own time. Units are numbered as captured. An opening waits
for the clock (`TryOpen`, no fairness). A failed send is a loss at once.

`ArtworkGate`: announces, parts and markers on the decode thread's list, one assembly per channel, the
display slot, the held displays, and the gate that `frame_done()` opens. A malformed sequence closes
the connection, which is a teardown.

`VisualizerBoundary`: each stream command moves the boundary; the drain thread holds one frame until
it is due and may be recalled. `boundary_sequence` does not wrap: it would take 65,536 boundaries
while one frame is held.

## 3. Runs

Every property has a mutant: a plausible mistake in one mapped definition that makes the run fail
(definitions named `...Mutant`). `Streams`, `Settles` and `States` check deadlock. In the other runs
the system may stop for good (the last `stop()`, a reboot, a closed connection, the last message a
bound allows), so deadlock is off and what must not stop is a liveness property.

| Run | Shows | Bounds and why |
|---|---|---|
| `Streams` | `WritesOnlyWhileOpen`, `NoAudioOfAnEndedStream`, `PlaysAcknowledged`, `SeekSparesNewAudio` | 4 messages, one a clear, no teardown: start, audio, end, start, or a clear inside; room for 2 on the list, so that audio and a marker may find none. Ordinals are modulo 16 from 14, so they wrap |
| `Settles` | `ListenerSettles`, `HeaderWaitEnds` | fair; 3 messages, a teardown, a stop with a restart; no clear (see below) |
| `Restarts` | player: `AwaitingIsCurrent`, `HoldMatchesStream`, `StoppedIsClosed`, `WritesOnlyWhileOpenOrTornDown`, `StopReturns`; source: `SourceSafe`, `NothingIsKept` | fair; player: 2 messages, a clear, 2 teardowns, 2 stops (one may be inside a callback), a ring of 2 events and a list of 2 items, so that both overflow; source: 2 connections, 2 openings, and 3 units or 3 events; the units come in writes of 1, or in one of 3, longer than a chunk of 2; a capture ring of 2 and an outbound ring of 1, so that each overflows |
| `States` | `TypeOK`, `ShownIsCurrent`, `StoppedIsCleared`, `KeepsPromise`, `Settles` | fair; 3 states (a window holds two, a third replaces one) at 2 times, 2 teardowns (one can wipe the other's event), a stop |
| `Inbound` | `InboundSafe`, `KeepsQueue`, `HandsOverInOrder`, `RoomComesBack`, `MessagesInOrder`, `EveryMessageProcessed` | fair; a storage of 13 units and items of 1, 2 and 5, so that items wrap behind a filler and fit exactly; 2 slots, 3 acquires, a quota of 1 and a recall; 3 messages, one item a tick |
| `Records` | `StoreInv`, `KeepsBook`, `OwedIsWritten` | fair; 2 slots, 4 PSKs of 2 servers, so that one supersedes and one evicts; 2 changes, one fault, any number of reboots |
| `Admissions` | `AdmissionInv`, `UnpairedHonoured`, `SlotGoesToTheStronger` | one admitted connection, as in the code; a nursery of 1 (the code has 2); 3 connections of 2 servers, one record |
| `Connections` | `ConnectionsSafe`, `SidsFresh`, `CodeWithdrawn`, `HeldIsSent` | fair; pairing: 2 handshakes, 2 activations, 3 rounds of a limit of 2, a static and a dynamic code, 2 waiting notes; reports: 2 roles, one that needs the clock, 3 snapshots |
| `Roles` | `RolesSafe`, `NothingStays` | fair; artwork: one gated channel, images of 0 or 2 parts, 3 turns of the server; visualizer: 2 boundaries and a frame |
| `Transports` | `TransportsSafe`, `StopAwaitsNoConnect`, `NothingWaits`, `HoldEnds` | fair; 2 calls, a call and a peer, or 2 peers, over 2 starts, one accept slot, one reaping entry and the spare; bursts of 2 of up to 4 frames, tags modulo 3, tickets modulo 7, one re-handshake, one stall of the main loop |

`OnlyTheHandshake` and `WritesOnlyWhileOpen` are what the two runs that expect a violation refute.

### Fairness

Every fair specification is weak fairness of the threads: a handler that has begun goes on, a task
runs while it has something to do (its waits are disabled, not slow), the application calls `loop()`
again and again, a `stop()` already begun goes on, and time passes. The code creates each thread and
never blocks one on another except in the waits that are modelled. Messages, clears, teardowns, new
calls, losses of connections and restarts are free. Beyond that:

- `TransportSteps`, `CountCompletion`, `Publish`, `OtherCompletes`: a transport that has begun to write
  an item completes it. It waits for nothing but the buffer, which is modelled.
- `AttemptTimeout`, `ReproveTimeout`, `NotReproved`, `PassTime`: the deadlines the tick looks at pass.
- `SF(Measure)` in `StateReports`: a connection that stays up is measured, though bursts come and go;
  `TimeSync` shows that each burst ends.
- An outbound attempt opens or fails in the end: the operating system's connect timeout.
- `FrameDone`: an application that opted into `frame_done()` calls it for what it was shown.

### Where the code and its comments differ

Two runs expect a violation; each checks what a comment or document of the repository says.

- `TornDownWrites` (`WritesOnlyWhileOpen`): `cleanup()` raises the generation before it signals the
  sync task, and the head of the drain acts on the generation alone. `on_stream_end()` can fire while
  the sync task, past its acknowledgement but not yet `RUNNING`, goes on to write. What does hold is
  `WritesOnlyWhileOpenOrTornDown` (run `Restarts`): the window closes with the signal.
- `LateGesture` (`OnlyTheHandshake`): a re-handshake leaves an attempt that waits for the pairing
  window in its step. A gesture before the next `server/activate` starts it.

Others were met on the way. Their properties are stated in the modules, not in a run; the constants
that show each are given.

| Property | With | What happens |
|---|---|---|
| `PlayerStream.ListenerSettles` | `Settles`, `MaxClears = 1` | IDLE reads the stream bits and clears them in a second call; a `COMMAND_START` between the two is cleared unseen, no idle note is written, and the end the main loop holds waits for the next command or stream |
| `PlayerStream.StartFindsItsParams` | `Settles` | a drain that read its generation before a teardown and a new start drops the newer params |
| `PlayerStream.ClearDiscards` | `Streams` | IDLE clears `COMMAND_STREAM_CLEAR` with the other bits, also when it belongs to the stream about to start: the audio before the marker is played |
| `PlayerStream.ClearSparesNewAudio` | `Streams` | in IDLE a clear's marker is taken as a leftover before its flag is seen; the discard then runs to the end of the list, over the next stream's first audio |
| `StateRole.LatestDueIsShown` | `States`, no teardown | a window keeps its first and last state: a second, due, replaced by a third that is scheduled is never shown |
| `PairingSession.PromptsFollowSession` | `StopInCallback = TRUE` | a `stop()` in a pairing callback abandons the batch, a dismissal in it (`client.cpp:1094`) |
| `StateReports.LatestStateSent` | `Connections` | a snapshot adopted while a re-handshaken connection awaits its `server/activate` is not sent to it when that activation is for pairing alone and adds no role (`connection_manager.cpp:786`; `docs/internals.md:110`) |
| `Admission.UnpairedHonoured` | `SetWhileStarting = TRUE` | a change between `start()`'s read and its first tick posts no request (`client.cpp:1893`; `client.h:658`) |
| `SourceStream.ChunksContiguous` | 4 units in writes of 1, capture ring 2, no teardown | a stream ends and the next opens while the task holds a write of the first, past its gate: the task exchanges the overflow note of the next for nothing (`source_task.cpp:296`), and a chunk of the open stream is sent with a hole (`docs/internals.md:308`) |
| `ArtworkGate.DisplaysTheDecoded` | 4 turns; or 3 and `ExtraFrameDone = TRUE` | a gated channel decodes another image before the one decoded is displayed; with an extra `frame_done()`, which the guide calls a harmless no-op, sooner (`artwork_role.h:40`, `docs/integration-guide.md:392`) |
| `ArtworkGate.GatesReopen` | `MarkerMayFail = TRUE`, 4 turns, parts {0, 1} | a marker that finds no room leaves a gate shut |
| `VisualizerBoundary.StartIsTold` | `MaxBoundaries = 3` | start, end, start in one drain: the second start's event finds the config taken (`visualizer_role.cpp:387`, `docs/internals.md:166`) |

## 4. Proofs

### PlayerStream

`PlayerStream_proofs` proves, for every value of the bounds and from the two assumptions of
`PlayerStream` (the bounds are natural numbers, the ordinals' span is more than 3):

| Theorem | States |
|---|---|
| `Invariance` | `Spec => []Inv` |
| `TypeCorrect` | `Spec => []TypeOK` |
| `AwaitsOneConnection` | `Spec => []AwaitingIsCurrent` |
| `HoldIsPaired` | `Spec => []HoldMatchesStream` |
| `StopCloses` | `Spec => []StoppedIsClosed` |
| `PlaysOnlyAcknowledged` | `Spec => PlaysAcknowledged`, if `HalfSpan` |
| `EndedIsNotPlayed` | `Spec => NoAudioOfAnEndedStream`, if `HalfSpan` |
| `WritesBeginOpen` | `Spec => WritesOnlyWhileOpenOrTornDown`, if `HalfSpan` |
| `WritesStayOpen` | `Spec => []WritesOnlyWhileOpen`, if `HalfSpan` and `MaxTeardowns = 0` |
| `SeekKeepsNewAudio` | `Spec => SeekSparesNewAudio` |

None but the types is inductive. `Inv` adds what the third to the fifth need:

- `HeaderHeld`: in the wait for an acknowledgement the sync task holds a header. `StartWaits`: while a
  start is being acknowledged it is still the first event waiting. The types rest on both.
- `Stamped`: no event, taken or not, and no catch-up is ahead of the generation. With it an event of
  the current generation is of the connection caught up with once it has been dispatched, hence
  `AwaitingIsCurrent`. A `stop()` that has torn down leaves a generation still to be caught up with.
- `HoldWalks`: the hold and the stream agree at every place but inside a `stop()`, which may have been
  called between the end's callback and the hold's release; its own drain catches up (`Stamped`) and
  releases the hold.
- `Joined`, `JoinedAt`: with the protocol task joined, the main loop either waits for the sync task or
  drains. Then the sync task is stopped, `RUNNING` clear, the ring holds `*_CLEARED` only, and what
  waits is the owed end or nothing, so the drain fires the end and finishes.

The types are proved thread by thread (`SyncType`, `ProtocolType`, `MainType`); each other part has one
lemma, with a case per action that can disturb it.

The four theorems after them are about the order of the streams. `HalfSpan` is `MaxMessages < Half`:
fewer messages than half the ordinals, 32,768 in the code. `count_after()` reads a difference of 16
bits as signed, which is an order within half the span only: were the stream started 32,768 times
without a `stream/end`, the `ended` ordinal would be read as the later one, and the theorems would be
false. Counting all messages is more than is needed (it is the distance between ordinals in use that
counts), but a bound on that distance is no bound of the model. Ordinals do wrap: `Pos` is the distance
from the first. `MaxTeardowns = 0` is what `TornDownWrites` (section 3) shows to be needed. The
invariant is `Inv /\ OrderInv`:

- `InHand`, `Numbered`: what kind of chunk the sync task has in each hand, and that every ordinal in
  use, in a hand, on the list, in an event or in a flag's companion, is of a stream sent so far.
- `ListOrder`: chunks are on the list in the order of their streams, behind those in the hands.
  `EventOrder`: the starts on their way to the listener rise, behind the one acknowledged last.
- `NotEnded`: unless an end is being signalled or waits in `STREAM_END`, the stream the task is on
  is after the one ended last. `Acked`: from the acknowledgement on it is not after `started`.
- `Over` is the set of streams whose end the listener has been or will be told of: acknowledged and
  closed, or waiting with an end, a teardown or an owed catch-up behind them. `OverEnded`: such a stream
  has ended; `OverOff`: the sync task is past it, unless it is just being told. Together with `Acked`,
  what is played is therefore open.
- `Runs` and `Open`, for `WritesStayOpen`: a stream that is played has `RUNNING` set, which keeps its end
  waiting on the main loop until the sync task has left it.

`SeekKeepsNewAudio` rests on `MarkerInv`: the markers on the list rise with their clears, audio behind
one is not older than it, and a clear the sync task is told of has its marker on the list or reached,
unless it is lost. Lost is a marker the list had no room for (`player_role.cpp:471`), or one taken back
by a teardown: the property had to allow for both, and a first form of it that did not was
unprovable, and false on a list of two items (a list of four hid it).

### StateRole

`StateRole_proofs` proves, for every value of the four bounds and from the two assumptions of
`StateRole` (the bounds are natural numbers, `NoState` is not a state):

| Theorem | States |
|---|---|
| `TypeCorrect` | `Spec => []TypeOK` |
| `Invariance` | `Spec => []Inv` |
| `StatesAreCurrent` | `Spec => []ShownIsCurrent` |
| `StopClears` | `Spec => []StoppedIsCleared` |
| `ImplementsView` | `Spec => KeepsPromise`: the role implements `StateView` |

`ShownIsCurrent` is not inductive: a drain past its load could hold a window of another generation.
`Inv` adds what rules that out.

- `Stamped`: no stamp, of an event or of a catch-up, is ahead of the generation, so a catch-up moves
  the listener to a teardown that happened.
- `Known`: what is in the slot, in the drain, held or shown was sent, and a window is of one
  generation, in order.
- `Current`: between the load and the end of the drain, the drain's generation is the one the
  listener was told of, and so is its window's. A catch-up cannot come between, since only this
  thread makes one; a `stop()` from a callback abandons the drain.
- `Ordered`: shown, held, taken oldest, taken newest, slot, each sent before the next. The oldest is
  ahead of what is shown only until it is folded, hence one clause per stage of the drain.
- `Joined`: while the protocol task is joined the main loop is in the drain of `stop()`, which still
  owes a clear, or past it.

One lemma per part shows that a step preserves it, with a case per action. `ViewStep` then maps each
step to `StateView`: `HandleServerState` to `Send`, the bump of the generation and the teardown of
`stop()` to `TearDown`, a catch-up that finds something to `Clear`, an application of a due state to
`Show` (from `Current` it is of the right generation, from `Ordered` it is a later one), the clock to
`PassTime`, and the rest to a step the listener does not see.

### Admission

`Manager_proofs` proves, for every set of connections, servers and records, any nursery and any
number of slots, from the assumptions of `Admission`; nothing is assumed finite:

| Theorem | States |
|---|---|
| `AdmissionCorrect` | `AdmissionSpec => []AdmissionInv` |
| `UnpairedAccessHonoured` | `AdmissionSpec => []UnpairedHonoured`, if `~SetWhileStarting` |
| `SlotsGoToTheStronger` | `AdmissionSpec => SlotGoesToTheStronger` |

`~SetWhileStarting` is what the run assumes too: with it `UnpairedHonoured` does not hold (section 3).

`AdmissionIInv` adds to `AdmissionInv` that the connections that count against a bound are finitely
many, without which a bound on a cardinality says nothing of the next step, and `ActivationsJudged`:
an activation in force is one the
connection's record, or unpaired access, would admit. `RelianceAnnounced` is what
`UnpairedHonoured` needs: between the setter's store and the request that follows, and between the
request and the tick that serves it, who relies on unpaired access is still to be looked at. The
action property needs no more of a state than its types: `ShouldAdmit` compares the ranks at the step.

### SourceStream

`SourceStream_proofs` proves `SourceCorrect`, `SourceSpec => []SourceSafe`, from `SourceAssumption`.

`ServerHearsStreams` says of a history variable that nothing wrong was heard; everything that makes
it so is in the strengthening `SourceIInv`.

- `StreamInv`: the stream the server hears is the one open, or the one whose end is owed; a debt lasts
  from the quiet window to the activation or the teardown.
- `GensInv`: whatever is on its way, an event, a captured write, a chunk in progress, in the ring or
  sent, is of this opening or an earlier one, and of this one's codec if of this one.
- `OrderInv`: the units in the outbound ring, the chunk in progress, the write in hand and the capture
  ring rise in this order, behind the last one heard. An overflow or a stale write leaves a gap, never
  a step back.
- `WholeChunks`: a chunk in the outbound ring is full, or empty in the place of one that was dropped.
  With `OrderInv`, whole chunks are heard, in order within and between, not that they have no gap
  (see `ChunksContiguous` in section 3).
- `RingsInv`: the room of both rings, and that nothing is lent once `stop()` has drained.
- `TeardownsInv`: neither the listener nor an event is ahead of the teardowns; a drain caught up with
  the last one has told the listener of its stream's end, hence `StoppedIsSilent`.

### ArtworkGate and VisualizerBoundary

`Roles_proofs` proves `RolesCorrect`, `RolesSpec => []RolesSafe`, for any channels, gates, numbers of
parts and bounds, from `ArtworkAssumption` and `VisualizerAssumption`. Neither half of `RolesSafe` is
inductive. `ArtIInv` adds:

- `Places`, `Carried`: what a thread's place implies of what it holds. `Numbered`: an image on its way
  has a number, an empty place none.
- `Complete`, `PartsFollow`: an assembly has its own parts only, and all of them once it is delivered
  or parked, because a part on the list, or still to come, finds the decode thread assembling the image it
  is of. `WholeImages` rests on them.
- `Stamps`: nothing is ahead of the generation, and outside a removal the list is of it.
- `Chain`: per channel, what is displayed, held for its time, taken by the drain, in the display slot,
  in assembly and on the list come in this order, each image newer than the one before.
  `ScreenInOrder` is one end of it.
- `Ends`: no image of the current generation on its way is one that a stream's end or a teardown was
  for, delivered or still an event.

`VisIInv` adds, for the frames, that none is of a boundary ahead, and of the latest stream only in a kind
it was admitted with (`FramesBehind`); and for the listener, that a stream it knows is the latest or
one it is about to hear of (`ToldOfLatest`), or that of its end (`EndOwed`), as long as no event of
this generation was lost. `VisHandler` and `VisStamps` tie the handler in progress and the config slot
to the stream they are of.

### PairingSession and StateReports

`Connections_proofs` proves, for any limits, code methods and roles and any numbers of handshakes,
activations and rounds, from `PairingAssumption` and `ReportsAssumption`:

| Theorem | States |
|---|---|
| `AttemptsAndReports` | `ConnectionsSpec => [](PairingTypeOK /\ GuessesPerGesture /\ PendingIsCurrent /\ ReportsSafe)` |
| `ConnectionsCorrect` | `ConnectionsSpec => []ConnectionsSafe`, if `~StopInCallback` |
| `SidsStayFresh` | `ConnectionsSpec => SidsFresh` |

`~StopInCallback` is what the run assumes too, and only the prompts need it: a `stop()` from a callback
abandons the rest of its batch (`client.cpp:1094`).

- `PromptInv`: the notes on their way bring the listener to the prompts of the session. That alone is
  not kept by a teardown, which drops notes but for the dismissals of prompts delivered before. It
  is with `Paired`: wherever the queue asks for a prompt that is shown already, it has taken it away first.
  Then every handler appends notes that bring the old prompts to the new ones (`BothOn`), and what a
  teardown keeps brings the listener to at most the old ones (`RetainedBrings`), which the dismissals
  behind it take away. No induction over the queue is needed: `Shown` asks for its last word.
- `GuessInv`: an open window has counted every guess since its gesture; once it has closed, the static
  attempt that is on may spend one more.
- `SidInv`: the latest run is of no handshake and activation to come, and of no later round than the
  attempt it belongs to.
- `SessionInv`: without a connection the session is empty, a code is out from the first round on, and
  the pending record is of the session's attempt.
- `AnnouncedInv`: `RolesAnnounced` without the activation, for an activation that reports nothing
  must find it already true.

### ConnectionLife and TimeSync

`Transports_proofs` proves, for any numbers of calls, peers, starts, slots, bursts and frames, from
`LifeAssumption` and `SyncAssumption`:

| Theorem | States |
|---|---|
| `TransportsCorrect` | `TransportsSpec => []TransportsSafe` |
| `StopIsPrompt` | `TransportsSpec => StopAwaitsNoConnect` |

`LifeSafe` is made inductive by `LifeIInv`:

- `Phases`: admission is open from `start()` to `stop()`, whose end waits for a tick that begins after the
  stop bit and runs the shutdown pass.
- `NoneManaged`: nothing is managed once that pass has run, nor while no task runs.
- `Held`: only what is managed or queued is attached to the ring, and the nursery holds one outbound
  attempt, so that the pass has one to park at most. `StopIsPrompt` rests on it: the spare entry is
  there for that one.
- `Asked`: the `connect_to()` that waits came after the latest `disconnect()`.

`HoldsBalanced` is kept step by step, but that a mode is on while a frame is in flight
(`MeasuredInMode`) needs to know whose the acquires on their way are. A request carries no name: the
main loop grants a number of them, and a burst takes its own for granted by comparing tickets that
wrap. `SyncIInv` asks for a set `W` of bursts that wait (`Waits`), each with a ticket of its own among
those not granted, such that

- the acquires on their way to the listener are those of `W`, but for the ones that are given back
  behind them: a burst outside `W` that holds the mode has had its acquire counted;
- the acquires not granted and the connections outside `W` number `MAX_ADMITTED + MaxStalled` together
  at most, so that with `SyncAssumption` the comparison of the wrapped tickets is exact. `MaxStalled`
  bounds the acquires that wait for the main loop when a connection is admitted; in the code only the
  32 bits of a ticket do.

The frame of a burst past its wait is then one whose acquire the listener has had, and the count
covers what is to be released (`SyncIsSafe`). `BurstOf` has the frames: what is awaited or measured is
among those sent.

### RecordStore

`Manager_proofs` proves, for every set of PSKs and every number of slots, openings, changes
and faults, from the two assumptions of `RecordStore` (a free slot is no PSK, fewer openings than
slots):

| Theorem | States |
|---|---|
| `StoreInvHolds` | `StoreSpec => []StoreInv` |
| `StoreKeepsBook` | `StoreSpec => KeepsBook`: the store implements `PairingBook` |

`StoreInv` is inductive. `StoredMatches` is what matters: a slot that is not dirty, not underway in
the flush and not lost is stored as it is held (`lost` is the history of rejected and uncommitted
writes). It needs what is encoded or queued to be current or dirty again (`WritesAreCurrent`) and
nothing to be underway outside a flush (`UnderwayInFlush`). `OwedIsRequested` and
`SucceededAfterWrite` say that an owed write has been asked for, and that the listener hears of a
pairing after its record was handed over.

With nothing dirty, underway or lost a reboot brings back exactly the records held, the step of
`PairingBook` it must be. A store that evicts maps to one `Pair` of the book: a full store holds as
many records as it has slots (`AsManyAsSlots`).

### The inbound path

`Inbound_proofs` proves, for a storage and items of any size, any numbers of slots, acquires,
boundaries and messages, any quota and any bound of a ring pass, from `RingAssumption`,
`InboundAssumption` and `GateAssumption`:

| Theorem | States |
|---|---|
| `InboundCorrect` | `InboundPathSpec => []InboundSafe` |
| `MessagesCorrect` | `InboundPathSpec => MessagesInOrder` |
| `HandsOver` | `InboundPathSpec => HandsOverInOrder`: `InboundRing` implements `RingQueue` |
| `StorageKeepsQueue` | `InboundPathSpec => KeepsQueue`: `SharedRing` implements `RingQueue` |

Each of the three levels has an inductive invariant of its own.

**Messages.** That the next message processed is the next one sent depends on what lies on the ring, on
the counter of those in flight, on the flag of the buffer and on where both threads are. `GateIInv`
joins them:

- `Rising`: the connection's items are in the order of their numbers, and only the last may still be
  in the transport's hand or be a discarded one.
- `Counting`: `in_flight` is what lies on the ring and one for what the transport has announced and
  not acquired, or not uncounted. A connection that is gone leaves the rest uncounted.
- `Exclusive`: who the fallback buffer belongs to, by the places of the two threads.
- `Numbered`: the messages on the ring are those behind `last` without a gap, and the buffered one
  comes after them. The protocol task, at `process`, has found the ring empty of them.
- `Activated`: whatever is beyond the first message has been admitted.

One lemma per action shows that it preserves the whole. The one that matters is `TakeItemStep`: the
oldest item of the connection has the least number on the ring, which is `last + 1`.

**Items.** Neither that a held item stays in the ring nor that the quota counts what the consumer has
not returned is kept by a step on its own: a `LOCAL` item goes back when the second of two parties
returns it, on either thread, and its charge is released at another place than its count. `ItemsIInv`
has:

- `ThreadsApart`: what a thread's place says of the item it holds and of what it has still to release.
- `OneHolder`: an item is on the list, on the recalled chain or in one thread's hand.
- `SlotOK`: by the kind of the item, which returns have been counted. A `LOCAL` item has been returned
  as often as the protocol task has taken it and its holder let go of it; whoever counts the second
  return is the thread that gives it back.
- `HeadsMatch`: what the difference of the two head counters owes to the item at the storage's start.
- `QuotaMatches`: the quota used is the charges of items in the ring and those on their way back.
- `Stopping`: what each phase of a stop leaves to the next.

For `HandsOver` the stage of an item is read off its header; each action is one step of the queue or
none. Giving back is the one that takes more than its own item: `GaveBack` says what remains in front.

**Storage.** `RingIInv` says that the headers lie at places `q[1] .. q[n + 1]`, rising by less than a
turn, which the offsets repeat over the end of the storage:

- `Laid`: each item ends before the next header and before the end of the storage; behind each header the
  walk finds the next one; at most one is a filler, and the next one lies at the start of the storage.
  The ring is full exactly when the places make a whole turn, which tells it from an empty one, since
  both have `free_ = acquire_`.
- `Placed`: `write_` is at the oldest item not completed and `read_` at the next to take, or at the
  filler in front of it; the flags of each item are those of its stage; `items_waiting_` counts the
  completed ones from `read_` on.

The junk between the headers is nowhere in it: no call reads an offset that is not a header's. The
loops of `complete()` and `return_item()` are the recursive function `Run`. The prover has no
induction for it; `LoopsEnd` and `RunIs` go by the least number of steps that would be a
counterexample. `LoopOver` then says where a loop stops, and the rest is one lemma per action for the
layout, the placing and the items (`AcquiredLaid`, `AcquiredPlaced`, `AcquiredItems`, and so on).
`NoneOverlaps` and `NoneStranded` read the properties off it: in front of the oldest item not taken
nothing but a filler is left, so that `item_available()` looks at that item.

### Only model-checked

- Liveness, and whatever is said with `ENABLED`, which are beyond the prover: `ListenerSettles`,
  `HeaderWaitEnds`, `StopReturns`, `NothingIsKept`, `Settles`, `RoomComesBack`, `EveryMessageProcessed`,
  `OwedIsWritten`, `CodeWithdrawn`, `HeldIsSent`, `NothingStays`, `NothingWaits`, `HoldEnds`.

Every other property of a passing run is proved.

## 5. Abstractions

- A generation is a natural number: the code's 32 bits do not wrap in the life of a device. The
  16-bit stream ordinals, the tags of the time frames and the tickets do wrap, with small spans.
- A mutex-guarded call on the inbox, a slot, a list or the clock is one step.
- `take_events()` hands over the whole ring, not a quarter of it at a time; an event pushed meanwhile
  waits for the next drain. In `PlayerStream` a drain may also go round again (`MainTakeMore`).
- Listener callbacks return, and may call `stop()`; nothing else they can call changes what is
  modelled here.
- The fold of a window reads the clock once; the newest is judged again when its turn comes.
- A full inbound ring, in `PlayerStream`, is a list with `ListRoom` items: audio and markers are then
  refused.
- A restart finds an empty inbox and no published clock, which is what `stop()` leaves.
- A dismissal kept through a teardown is kept once, and the two kinds in one order; the code keeps
  every copy in the order queued, which tells the listener the same.
- Allocation failures are modelled only where the code goes on after one (a refused item, marker or
  image).
- Some adjacent steps of one thread are one action, and some alternatives with one effect are one
  disjunct. Each was weighed against the properties of its module, which tell none apart:
  - `Admission`: `PairFinalizeAck` is all the checks of the finalize handler. `RoleTraffic` is decided
    by ownership; a binary message of an unowned artwork role, which outside a stream is dropped
    without closing the connection (`client_dispatch.cpp:887`), is left out.
  - `PairingSession`: `PairAbort` stands for every cryptographic failure after the verify.
  - `ConnectionLife`: `FinishStop` drops the queued commands too; `connect_to()` finds memory.
  - `TimeSync`: a disconnected slot has no burst (`is_connected()` in `run_time_sync()`).
  - `SourceStream`: `Write` notes the overflow as it fails to acquire; a full teardown does not wipe
    the inbox, since the events left are stale.
  - `ArtworkGate`: a stream's start or end moves the epochs, the marker and the event together: what
    another thread does in between meets the drops that follow, or the choice of a lost event.
    A clear of every channel and its `on_image_clear()` calls are one step: a `frame_done()` or a
    `stop()` made inside them comes after it (`artwork_role.cpp:614`).
  - `VisualizerBoundary`: a clear raises the generation and resets the events together.
- `Roles` reaches no teardown with an image parked; that case rests on the proof.
- Deadlines that the tick compares with the clock are steps that may happen once the wait has begun;
  the fallback wakes of 5 s are left out, so that no property leans on them.

## 6. Plan

1. Compositions: `InboundRing` under `PlayerStream`'s list, `ConnectionLife` with `Admission`,
   `PairingSession` with `RecordStore`.
2. `NoiseTransport`: reassembly and refused sends. `ControllerRole`: commands stamped on any thread.

## 7. Not modelled, and why

- Message formats, audio decoding and encoding, the time filter: pure data, no interleaving; the filter
  is floating-point arithmetic.
- Cryptography: arithmetic beyond a model checker. The handshake's outcome is an input of `Admission`.
- WebSocket transports and the platform layer: libraries outside the repository; their deliveries,
  closes and wake-ups are nondeterministic inputs.
- The alignment of audio to server time (`handle_synchronize_audio()` beyond whether it writes): it
  computes with frames and clock offsets and touches no state another thread shares.
