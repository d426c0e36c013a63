---------------------------- MODULE ConnectionLife ----------------------------
(***************************************************************************)
(* A connection from the call or the socket that makes it to the end of    *)
(* its transport: the protocol task's command queue and request slot, its  *)
(* tick, start() and stop() on the main loop, and the transports' threads. *)
(* An outbound attempt that is released while it connects is parked, since *)
(* whoever drops its last reference waits for the connect.                 *)
(*                                                                         *)
(* connect_to() and disconnect() calls share one count; the connection of  *)
(* a connect_to() has the number of its call, those servers open come      *)
(* after. What the messages on a connection do to it is in Admission.      *)
(*                                                                         *)
(* A definition whose name ends in Mutant is a deliberate mistake the      *)
(* properties are tested against.                                          *)
(***************************************************************************)
EXTENDS Naturals, SequencesExt

CONSTANTS
    MaxCalls,          \* bound: calls of connect_to() and disconnect()
    MaxPeers,          \* bound: connections servers open
    Mixes,             \* bound: how many of each a behaviour has, see LifeStarts
    MaxStarts,         \* bound: calls of start()
    AcceptSlots,       \* accept_slots_
    REAPING_CAPACITY

ASSUME LifeAssumption ==
    /\ MaxCalls \in Nat /\ MaxPeers \in Nat /\ MaxStarts \in Nat /\ AcceptSlots \in Nat
    /\ Mixes \subseteq (0 .. MaxCalls) \X (0 .. MaxPeers)
    /\ REAPING_CAPACITY \in Nat \ {0}

Conns == 1 .. MaxCalls + MaxPeers
Outbound == 1 .. MaxCalls
Inbound == Conns \ Outbound

VARIABLES
    main,        \* the main loop: "stopped", "opening", "running" or "joining"
    starts,      \* calls of start() so far
    accepting,   \* accepting_
    listening,   \* the WebSocket server runs
    shutdownDone,  \* shutdown_done_
    task,        \* the protocol task: its place in the tick, "wait", or "none"
    final,       \* this tick is the task's last
    bits,        \* event_flags_: "work" and "stop"
    queue,       \* the accepts among commands_
    requests,    \* requests_: the calls that wait, 0 for none
    caller,      \* the thread in connect_to() or disconnect(), past its check
    calls,       \* history: calls so far, the latest disconnect, the connect nothing cancelled
    place,       \* who has each connection
    link,        \* each connection's transport
    attached,    \* its inbound gate is attached: the transport may write to the ring
    reaping      \* reaping_: those parked, in the order of their numbers, see Parked

running == <<main, starts, accepting, listening, shutdownDone>>
ticking == <<task, final>>
asking == <<requests, caller, calls>>
holding == <<place, link, attached, reaping>>
lifeVars == <<running, ticking, bits, queue, asking, holding>>

NoRequests == [connect |-> 0, disconnect |-> 0]

Woken == bits' = bits \cup {"work"}

-----------------------------------------------------------------------------
(* Connections and their transports *)

Upgraded(c) == link[c] \in {"open", "closing", "closed"}
TransportClosed(c) == link[c] \in {"closed", "failed"}
Managed == {c \in Conns : place[c] \in {"nursery", "admitted"}}

\* The shutdown pass has no spare entry.
ReapLimitMutant(done) == REAPING_CAPACITY

ReapLimit(done) == IF done THEN REAPING_CAPACITY + 1 ELSE REAPING_CAPACITY

\* park_for_reaping(): what is parked once connections `gone` are released. An attempt is released
\* before the next is made, so that the longest parked has the least number.
Parked(gone, done) ==
    LET parking == {c \in gone : c \in Outbound /\ ~Upgraded(c)}
        all     == reaping \cup parking
    IN  IF parking = {} THEN reaping
        ELSE {c \in all : Cardinality({d \in all : d > c}) < ReapLimit(done)}

\* What is left of the parked once reap_released() has run; `late` are past their deadline.
ReapedMutant(parked, late) ==
    {c \in parked : ~TransportClosed(c) /\ ~Upgraded(c) /\ c \notin late}

Reaped(parked, late) ==
    {c \in parked : ~TransportClosed(c) /\ ~Upgraded(c) /\ (c \notin late \/ shutdownDone)}

\* release_connection() of `gone`, after which `parked` are parked and `new` in the nursery. One
\* that is dropped is closed: the destructor of an outbound connection stops its transport.
Moved(gone, new, parked) ==
    LET dropped == (reaping \cup gone) \ parked
    IN  /\ place' = [c \in Conns |-> CASE c \in new -> "nursery" [] c \in gone \ new -> "released"
                                       [] OTHER -> place[c]]
        /\ attached' = [c \in Conns |-> (attached[c] \/ c \in new) /\ c \notin gone]
        /\ link' = [c \in Conns |->
                      CASE c \in new \cap Outbound -> "connecting"
                        [] c \in dropped \ new -> IF Upgraded(c) THEN "closed" ELSE "failed"
                        [] OTHER -> link[c]]
        /\ reaping' = parked

-----------------------------------------------------------------------------
(* Any thread: connect_to() and disconnect() check, then post *)

Check(kind) ==
    /\ caller = "idle" /\ main = "running" /\ calls.posted < MaxCalls
    /\ caller' = kind
    /\ UNCHANGED <<running, ticking, bits, queue, requests, calls, holding>>

\* The attempt a disconnect() came after is opened all the same.
PostedMutant(r, kind, n) ==
    IF kind = "connect" THEN [r EXCEPT !.connect = n] ELSE [r EXCEPT !.disconnect = n]

\* post_requests()
Posted(r, kind, n) ==
    IF kind = "connect" THEN [r EXCEPT !.connect = n] ELSE [connect |-> 0, disconnect |-> n]

\* The task is not told.
PostWakeMutant == UNCHANGED bits

PostWake == Woken

Post ==
    LET n == calls.posted + 1
    IN  /\ caller # "idle"
        /\ caller' = "idle" /\ requests' = Posted(requests, caller, n)
        /\ calls' = IF caller = "disconnect" THEN [posted |-> n, cancelled |-> n, kept |-> 0]
                    ELSE [calls EXCEPT !.posted = n, !.kept = IF accepting THEN n ELSE 0]
        /\ PostWake
        /\ UNCHANGED <<running, ticking, queue, holding>>

-----------------------------------------------------------------------------
(* The transports' threads *)

\* on_new_connection(), on the thread of the server's socket
Deliver(c) ==
    /\ place[c] = "fresh" /\ c \in Inbound /\ listening
    /\ IF accepting /\ Len(queue) < AcceptSlots
       THEN /\ queue' = Append(queue, c) /\ Woken
            /\ place' = [place EXCEPT ![c] = "queued"]
            /\ link' = [link EXCEPT ![c] = "open"]
            /\ attached' = [attached EXCEPT ![c] = TRUE]
       ELSE /\ place' = [place EXCEPT ![c] = "released"]
            /\ link' = [link EXCEPT ![c] = "closed"]
            /\ UNCHANGED <<queue, bits, attached>>
    /\ UNCHANGED <<running, ticking, asking, reaping>>

\* An attempt released before it opened is closed at once, but not on ESP, and not by a handler
\* that missed the release.
Open(c) ==
    /\ link[c] = "connecting"
    /\ \E sees \in BOOLEAN :
          link' = [link EXCEPT ![c] = IF sees /\ ~attached[c] THEN "closing" ELSE "open"]
    /\ Woken
    /\ UNCHANGED <<running, ticking, queue, asking, place, attached, reaping>>

Close(c) ==
    /\ \/ link[c] = "connecting" /\ link' = [link EXCEPT ![c] = "failed"]
       \/ link[c] \in {"open", "closing"} /\ link' = [link EXCEPT ![c] = "closed"]
    /\ Woken
    /\ UNCHANGED <<running, ticking, queue, asking, place, attached, reaping>>

\* fail_inbound(), or close_silently() on the protocol task
FailInbound(c) ==
    /\ c \in Managed /\ attached[c] /\ link[c] = "open"
    /\ attached' = [attached EXCEPT ![c] = FALSE]
    /\ link' = [link EXCEPT ![c] = "closing"]
    /\ Woken
    /\ UNCHANGED <<running, ticking, queue, asking, place, reaping>>

-----------------------------------------------------------------------------
(* The protocol task: one tick *)

Begin ==
    /\ task' = "requests" /\ final' = ("stop" \in bits) /\ bits' = {}
    /\ UNCHANGED <<running, queue, asking, holding>>

Wake == task = "wait" /\ bits # {} /\ Begin

Deadline ==
    /\ task = "wait"
    /\ \/ \E c \in Conns : place[c] = "nursery"
       \/ ~shutdownDone /\ \E c \in reaping : link[c] = "connecting"
    /\ Begin

\* disconnect(): an admitted connection whose transport is gone is left to the loss pass
Disconnected == {c \in Managed : place[c] = "nursery" \/ link[c] = "open"}

\* connect_to(): the attempt before it, and what is admitted with no transport
Superseded == {c \in Managed : IF place[c] = "nursery" THEN c \in Outbound ELSE link[c] # "open"}

\* take_requests() and apply_lifecycle_requests(): nobody else reads what was taken
ApplyRequests ==
    LET gone == (IF requests.disconnect # 0 THEN Disconnected ELSE {})
                \cup (IF requests.connect # 0 THEN Superseded ELSE {})
    IN  /\ task = "requests"
        /\ task' = "commands" /\ requests' = NoRequests
        /\ IF accepting THEN Moved(gone, {requests.connect} \ {0}, Parked(gone, shutdownDone))
                        ELSE UNCHANGED holding
        /\ UNCHANGED <<running, final, bits, queue, caller, calls>>

\* accept(), or refuse_accept()
TakeCommand ==
    /\ task = "commands" /\ queue # <<>>
    /\ queue' = Tail(queue)
    /\ IF accepting THEN Moved({}, {Head(queue)}, reaping) ELSE Moved({Head(queue)}, {}, reaping)
    /\ UNCHANGED <<running, ticking, bits, asking>>

NoCommand ==
    /\ task = "commands" /\ queue = <<>>
    /\ task' = "shutdown"
    /\ UNCHANGED <<running, final, bits, queue, asking, holding>>

\* shutdown()
Shutdown ==
    /\ task = "shutdown" /\ task' = "scans"
    /\ IF accepting \/ shutdownDone THEN UNCHANGED <<shutdownDone, holding>>
       ELSE shutdownDone' = TRUE /\ Moved(Managed, {}, Parked(Managed, TRUE))
    /\ UNCHANGED <<main, starts, accepting, listening, final, bits, queue, asking>>

\* What the loss pass finds closed, by either side
Lost == {c \in Managed : ~attached[c] \/ TransportClosed(c)}

\* tick() admits a connection that is operational.
Promote(c) ==
    /\ task = "scans" /\ place[c] = "nursery" /\ link[c] = "open" /\ attached[c]
    /\ place' = [place EXCEPT ![c] = "admitted"]
    /\ UNCHANGED <<running, ticking, bits, queue, asking, link, attached, reaping>>

\* The losses and the rest of tick(): `gone` are lost, did not establish themselves in time or lost
\* an arbitration, `late` have been parked for CONNECT_TIMEOUT_MS; the server may be started.
Scans(gone, late) ==
    /\ task = "scans" /\ task' = IF final THEN "none" ELSE "wait"
    /\ Lost \subseteq gone
    /\ Moved(gone, {}, Reaped(Parked(gone, shutdownDone), late))
    /\ listening' \in {listening, listening \/ accepting}
    /\ UNCHANGED <<main, starts, accepting, shutdownDone, final, bits, queue, asking>>

-----------------------------------------------------------------------------
(* The main loop *)

\* start() up to the protocol task: the server may be started once admission is open.
Start ==
    /\ main = "stopped" /\ starts < MaxStarts
    /\ main' = "opening" /\ starts' = starts + 1
    /\ requests' = NoRequests /\ calls' = [calls EXCEPT !.kept = 0]
    /\ accepting' = TRUE /\ shutdownDone' = FALSE /\ listening' \in BOOLEAN
    /\ UNCHANGED <<ticking, bits, queue, caller, holding>>

StartTask ==
    /\ main = "opening"
    /\ main' = "running" /\ task' = "requests" /\ final' = FALSE /\ bits' = {}
    /\ UNCHANGED <<starts, accepting, listening, shutdownDone, queue, asking, holding>>

\* close_admission(), in stop() or when the protocol task did not start
CloseAdmission ==
    /\ main \in {"opening", "running"}
    /\ main' = "joining" /\ accepting' = FALSE /\ calls' = [calls EXCEPT !.kept = 0]
    /\ Woken
    /\ UNCHANGED <<starts, listening, shutdownDone, ticking, queue, requests, caller, holding>>

\* ProtocolTask::stop() up to its join
StopTask ==
    /\ main = "joining" /\ task # "none" /\ ~final /\ "stop" \notin bits
    /\ bits' = bits \cup {"stop"}
    /\ UNCHANGED <<running, ticking, queue, asking, holding>>

\* finish_stop() and drop_commands(): the transports are closed, the server's threads joined.
FinishStop ==
    LET Finished(c) == CASE c \in Inbound -> IF link[c] = "none" THEN "none" ELSE "closed"
                         [] c \in reaping /\ link[c] = "open" -> "closing"
                         [] OTHER -> link[c]
    IN  /\ main = "joining" /\ task = "none"
        /\ main' = "stopped" /\ listening' = FALSE /\ shutdownDone' = TRUE
        /\ queue' = <<>> /\ requests' = NoRequests
        /\ place' = [c \in Conns |-> IF c \in ToSet(queue) THEN "released" ELSE place[c]]
        /\ attached' = [c \in Conns |-> attached[c] /\ c \notin ToSet(queue)]
        /\ link' = [c \in Conns |-> Finished(c)]
        /\ reaping' = {c \in reaping : ~TransportClosed(c)}
        /\ UNCHANGED <<starts, accepting, ticking, bits, caller, calls>>

\* loop() of a stopped client: those that closed, and one that opened
Loop ==
    LET opened == {c \in reaping : link[c] \in {"open", "closing"}}
        freed  == {c \in reaping : TransportClosed(c) \/ (c \in opened /\ \A d \in opened : c <= d)}
    IN  /\ main = "stopped" /\ freed # {}
        /\ Moved({}, {}, reaping \ freed)
        /\ UNCHANGED <<running, ticking, bits, queue, asking>>

-----------------------------------------------------------------------------

\* At rest, with so many calls and so many connections of servers to come
LifeStarts(asks, peers) ==
    /\ main = "stopped" /\ starts = 0 /\ accepting = FALSE /\ listening = FALSE
    /\ shutdownDone = FALSE /\ task = "none" /\ final = FALSE /\ bits = {} /\ queue = <<>>
    /\ requests = NoRequests /\ caller = "idle"
    /\ calls = [posted |-> MaxCalls - asks, cancelled |-> 0, kept |-> 0]
    /\ place = [c \in Conns |-> IF c <= MaxCalls + peers THEN "fresh" ELSE "released"]
    /\ link = [c \in Conns |-> "none"]
    /\ attached = [c \in Conns |-> FALSE] /\ reaping = {}

LifeInit == \E mix \in Mixes : LifeStarts(mix[1], mix[2])

Tick ==
    \/ ApplyRequests \/ TakeCommand \/ NoCommand \/ Shutdown
    \/ \E gone \in SUBSET Managed, late \in SUBSET reaping : Scans(gone, late)

\* What the main loop does not put off
Proceed == StopTask \/ FinishStop \/ (main = "opening" /\ (StartTask \/ CloseAdmission))

LifeNext ==
    \/ \E kind \in {"connect", "disconnect"} : Check(kind)
    \/ Post \/ Wake \/ Deadline \/ Tick
    \/ \E c \in Conns : Deliver(c) \/ Open(c) \/ Close(c) \/ FailInbound(c) \/ Promote(c)
    \/ Start \/ StartTask \/ CloseAdmission \/ StopTask \/ FinishStop \/ Loop

\* The threads run, loop() is called again and again, and an attempt opens or fails in the end.
LifeFairness ==
    /\ WF_lifeVars(Tick) /\ WF_lifeVars(Wake) /\ WF_lifeVars(Proceed) /\ WF_lifeVars(Loop)
    /\ \A c \in Outbound : WF_lifeVars(link[c] = "connecting" /\ (Open(c) \/ Close(c)))

LifeSpec == LifeInit /\ [][LifeNext]_lifeVars /\ LifeFairness

-----------------------------------------------------------------------------
(* Properties *)

\* Types of the threads' state, the queue, the slot and the connections
\* (ProtocolTask, ConnectionManager::reaping_).
LifeTypeOK ==
    /\ main \in {"stopped", "opening", "running", "joining"} /\ starts \in 0 .. MaxStarts
    /\ {accepting, listening, shutdownDone, final} \subseteq BOOLEAN
    /\ task \in {"none", "wait", "requests", "commands", "shutdown", "scans"}
    /\ bits \subseteq {"work", "stop"} /\ queue \in Seq(Inbound) /\ Len(queue) <= AcceptSlots
    /\ requests \in [connect : 0 .. MaxCalls, disconnect : 0 .. MaxCalls]
    /\ caller \in {"idle", "connect", "disconnect"}
    /\ calls \in [posted : 0 .. MaxCalls, cancelled : 0 .. MaxCalls, kept : 0 .. MaxCalls]
    /\ place \in [Conns -> {"fresh", "queued", "nursery", "admitted", "released"}]
    /\ link \in [Conns -> {"none", "connecting", "open", "closing", "closed", "failed"}]
    /\ attached \in [Conns -> BOOLEAN]
    /\ reaping \subseteq Outbound /\ Cardinality(reaping) <= REAPING_CAPACITY + 1

\* A stopped client holds nothing of the runs before: no connection, no accept, no server, and no
\* transport that could still write to the inbound ring stop() has freed, whatever was queued,
\* connecting or being delivered when stop() closed admission, or start() failed.
StoppedHoldsNothing ==
    main = "stopped" =>
        /\ Managed = {} /\ queue = <<>> /\ ~listening
        /\ \A c \in Conns : ~attached[c] /\ (c \in Inbound => link[c] \in {"none", "closed"})

\* disconnect() and connect_to() take effect in the order they were posted, although they wait in
\* one slot: what was asked for before the latest disconnect() is gone once it was acted on, and
\* the connect_to() nothing came after waits for its turn or was opened.
CallsInOrder ==
    accepting =>
        /\ requests.disconnect = 0 =>
             \A c \in Managed \cap Outbound :
                c <= calls.cancelled => place[c] = "admitted" /\ link[c] # "open"
        /\ calls.kept \in {0, requests.connect} \/ place[calls.kept] # "fresh"

LifeSafe == LifeTypeOK /\ StoppedHoldsNothing /\ CallsInOrder

Referenced(c) == c \in Managed \/ c \in reaping

\* Once the shutdown pass has run nobody drops the last reference to a transport that is still
\* connecting, which would hold up stop() for the rest of the connect; unless one left over from
\* the run before has the spare entry (reap_released(), park_for_reaping(), reap_finished()).
StopAwaitsNoConnect ==
    [][shutdownDone' =>
         \A c \in Outbound :
            link[c] = "connecting" /\ Referenced(c)
              => Referenced(c)' \/ Cardinality(reaping) > REAPING_CAPACITY]_lifeVars

\* Nothing waits for ever: a request or an accept is acted on, a parked transport is freed, and
\* stop() returns. Each needs the task to be told, or the main loop to look.
NothingWaits ==
    /\ (main = "running" /\ requests # NoRequests) ~> (main # "running" \/ requests = NoRequests)
    /\ queue # <<>> ~> queue = <<>>
    /\ reaping # {} ~> reaping = {}
    /\ main = "joining" ~> main = "stopped"

=============================================================================
