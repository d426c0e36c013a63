------------------------------ MODULE InboundGate ------------------------------
(***************************************************************************)
(* One connection's messages on their way to the protocol task.            *)
(*                                                                         *)
(*   transport       routes each message to the shared ring, once the      *)
(*                   connection is admitted and the message fits, or to    *)
(*                   its fallback buffer, one message at a time; waits for *)
(*                   the buffer; reports its close,                        *)
(*   protocol task   runs a receive pass per tick: the fallback message,   *)
(*                   held back behind ring items not taken yet, the ring,  *)
(*                   then the loss of a closed or detached connection.     *)
(*                                                                         *)
(* They share the gate's atomics without a lock. Another connection writes *)
(* into the same ring, where an item not completed yet holds back every    *)
(* later one. Messages are numbered in the order the peer sends them; the  *)
(* first one is the server/activate that gets the connection admitted.     *)
(***************************************************************************)
EXTENDS Integers, Sequences

CONSTANTS
    MAX_ITEMS_PER_TICK, \* items of one ring pass
    MaxMessages         \* bound: messages the peer sends

ASSUME GateAssumption == MaxMessages \in Nat /\ MAX_ITEMS_PER_TICK \in Nat \ {0}

VARIABLES
    gate,       \* InboundGate: the atomics, and the CONSUMED event bit
    buffer,     \* fallback_buf_: the message in it
    shared,     \* the shared ring: items not taken, oldest first
    transport,  \* place in the code, message being received, waiting for the event bit
    sent,       \* messages the transport has handed over whole
    receiver,   \* protocol task: place in its tick, the close flag as it read it
    wake,       \* WORK_PENDING
    last,       \* the last message of the connection processed
    lost        \* how the connection left the manager: "no", "closed" or "detached"

gateVars == <<gate, buffer, shared, transport, sent, receiver, wake, last, lost>>

\* What a message is longer than: nothing, the pre-admission cap, the ring's largest message.
Sizes == {"small", "overCap", "overRing"}
Waits == {"open", "judge", "toBuffer", "toRing"}

MayWrite == ~gate.pending
CloseReadyMutant(closed) == closed /\ ~gate.pending
CloseReady(closed) == closed /\ gate.inFlight = 0 /\ ~gate.pending

GateStarts(place) ==
    /\ gate = [admitted |-> FALSE, pending |-> FALSE, consumed |-> FALSE, inFlight |-> 0,
               closed |-> FALSE, detached |-> FALSE]
    /\ buffer = 0
    /\ shared = <<>>
    /\ transport = [pc |-> place, n |-> 0, size |-> "small", frag |-> FALSE, parked |-> FALSE]
    /\ sent = 0
    /\ receiver = [pc |-> "wait", taken |-> 0, closedRead |-> FALSE]
    /\ wake = FALSE
    /\ last = 0
    /\ lost = "no"

GateInit == GateStarts("read")

TransportAt(pc) ==
    transport' = IF pc \in {"read", "closing", "gone"}
                 THEN [transport EXCEPT !.pc = pc, !.size = "small", !.frag = FALSE, !.parked = FALSE]
                 ELSE [transport EXCEPT !.pc = pc, !.parked = FALSE]
TickAt(pc) == receiver' = [receiver EXCEPT !.pc = pc]

-----------------------------------------------------------------------------
(* Transport *)

\* detach(): the flag, then the bit, which wakes a parked transport.
Detached == [gate EXCEPT !.detached = TRUE, !.consumed = TRUE]

\* fail_inbound(): the connection is closed under the transport, which then reports it.
FailInbound ==
    /\ gate' = Detached
    /\ wake' = TRUE
    /\ TransportAt("closing")

\* A message dropped, its connection being on its way out.
Drop == TransportAt("read") /\ UNCHANGED <<gate, wake>>

\* The next message arrives, in one WebSocket frame or in several, which are assembled in the
\* fallback buffer and routed at the last one.
ReadMessage ==
    /\ transport.pc = "read" /\ transport.n < MaxMessages /\ ~gate.closed /\ ~gate.detached
    /\ \E size \in Sizes, frag \in BOOLEAN :
        transport' = [transport EXCEPT !.pc = IF frag THEN "open" ELSE "route", !.n = @ + 1,
                                       !.size = size, !.frag = frag]
    /\ UNCHANGED <<gate, buffer, shared, sent, receiver, wake, last, lost>>

\* route_inbound_message() for an admitted connection.
RouteAdmitted == TransportAt(IF transport.size = "overRing" THEN "toBuffer" ELSE "toRing")

\* route_inbound_message() up to the first wait. Unadmitted, a message over the cap waits to be
\* judged once the message still pending is consumed, for that one may admit the connection.
RouteMutant ==
    /\ transport.pc = "route"
    /\ IF gate.detached THEN Drop
       ELSE IF gate.admitted THEN RouteAdmitted /\ UNCHANGED <<gate, wake>>
       ELSE IF transport.size = "overCap" THEN FailInbound
       ELSE TransportAt("toBuffer") /\ UNCHANGED <<gate, wake>>
    /\ UNCHANGED <<buffer, shared, sent, receiver, last, lost>>
Route ==
    /\ transport.pc = "route"
    /\ IF gate.detached THEN Drop
       ELSE /\ IF gate.admitted THEN RouteAdmitted
               ELSE TransportAt(IF transport.size = "overCap" THEN "judge" ELSE "toBuffer")
            /\ UNCHANGED <<gate, wake>>
    /\ UNCHANGED <<buffer, shared, sent, receiver, last, lost>>

\* What follows a wait_until_writable() that found the buffer free. A ring write is counted before
\* its item is acquired.
Writable ==
    CASE transport.pc = "open" \/ transport.pc = "toBuffer" ->
            /\ buffer' = transport.n
            /\ TransportAt(IF transport.pc = "toBuffer" /\ transport.frag THEN "publish" ELSE "receive")
            /\ UNCHANGED <<gate, wake>>
      [] transport.pc = "judge" ->
            /\ IF gate.admitted THEN RouteAdmitted /\ UNCHANGED <<gate, wake>> ELSE FailInbound
            /\ UNCHANGED buffer
      [] transport.pc = "toRing" ->
            /\ gate' = [gate EXCEPT !.inFlight = @ + 1]
            /\ TransportAt("acquire")
            /\ UNCHANGED <<buffer, wake>>

\* wait_until_writable(): the loop's test, and the wait for the bit.
CheckWritableMutant ==
    /\ transport.pc \in Waits /\ ~transport.parked
    /\ Writable
    /\ UNCHANGED <<shared, sent, receiver, last, lost>>
CheckWritable ==
    /\ transport.pc \in Waits /\ ~transport.parked
    /\ IF MayWrite THEN Writable
       ELSE IF gate.detached THEN Drop /\ UNCHANGED buffer
       ELSE transport' = [transport EXCEPT !.parked = TRUE] /\ UNCHANGED <<gate, buffer, wake>>
    /\ UNCHANGED <<shared, sent, receiver, last, lost>>

WakeParked ==
    /\ transport.parked /\ gate.consumed
    /\ gate' = [gate EXCEPT !.consumed = FALSE]
    /\ transport' = [transport EXCEPT !.parked = FALSE]
    /\ UNCHANGED <<buffer, shared, sent, receiver, wake, last, lost>>

\* The wait's bound has passed with the message still pending.
WaitTimesOut ==
    /\ transport.parked /\ ~MayWrite /\ ~gate.detached
    /\ FailInbound
    /\ UNCHANGED <<buffer, shared, sent, receiver, last, lost>>

\* The ring has room, or has none in time.
AcquireForMessage ==
    /\ transport.pc = "acquire"
    /\ \/ shared' = Append(shared, [from |-> "conn", n |-> transport.n, state |-> "writing"])
          /\ TransportAt("fill") /\ UNCHANGED <<gate, wake>>
       \/ gate' = [Detached EXCEPT !.inFlight = @ - 1]
          /\ wake' = TRUE /\ TransportAt("closing") /\ UNCHANGED shared
    /\ UNCHANGED <<buffer, sent, receiver, last, lost>>

Completed(from, state) ==
    [i \in DOMAIN shared |->
        IF shared[i].from = from /\ shared[i].state = "writing"
        THEN [shared[i] EXCEPT !.state = state] ELSE shared[i]]

\* The payload is in, or the transport failed under it: the item is then completed as DISCARD, and
\* uncounted only after that.
FillForMessage ==
    /\ transport.pc = "fill"
    /\ \/ shared' = Completed("conn", "done") /\ sent' = transport.n /\ wake' = TRUE
          /\ TransportAt("read")
       \/ shared' = Completed("conn", "discard") /\ TransportAt("uncount") /\ UNCHANGED <<sent, wake>>
    /\ UNCHANGED <<gate, buffer, receiver, last, lost>>

UncountDiscard ==
    /\ transport.pc = "uncount"
    /\ gate' = [gate EXCEPT !.inFlight = @ - 1]
    /\ wake' = TRUE
    /\ TransportAt("closing")
    /\ UNCHANGED <<buffer, shared, sent, receiver, last, lost>>

\* The fallback buffer is filled, or the transport fails under it. The last fragment of an
\* assembled message routes it, the cap being judged as it grew.
FillBuffer ==
    /\ transport.pc = "receive"
    /\ \/ TransportAt("closing") /\ UNCHANGED <<gate, wake>>
       \/ /\ ~transport.frag
          /\ TransportAt("publish") /\ UNCHANGED <<gate, wake>>
       \/ /\ transport.frag
          /\ IF gate.detached THEN Drop
             ELSE IF gate.admitted THEN TransportAt("route") /\ UNCHANGED <<gate, wake>>
             ELSE IF transport.size = "overCap" THEN FailInbound
             ELSE TransportAt("publish") /\ UNCHANGED <<gate, wake>>
    /\ UNCHANGED <<buffer, shared, sent, receiver, last, lost>>

\* publish_pending_message(): the bit is cleared, then the flag raised.
ClearConsumed ==
    /\ transport.pc = "publish"
    /\ gate' = [gate EXCEPT !.consumed = FALSE]
    /\ TransportAt("raise")
    /\ UNCHANGED <<buffer, shared, sent, receiver, wake, last, lost>>

RaisePendingMutant ==
    /\ transport.pc = "raise"
    /\ gate' = [gate EXCEPT !.pending = TRUE]
    /\ sent' = transport.n
    /\ TransportAt("read")
    /\ UNCHANGED <<buffer, shared, receiver, wake, last, lost>>
RaisePending ==
    /\ transport.pc = "raise"
    /\ gate' = [gate EXCEPT !.pending = TRUE]
    /\ sent' = transport.n
    /\ wake' = TRUE
    /\ TransportAt("read")
    /\ UNCHANGED <<buffer, shared, receiver, last, lost>>

\* notify_transport_closed(): the peer is gone, or the connection was closed.
ReportClosed ==
    /\ transport.pc \in {"read", "closing"} /\ ~gate.closed
    /\ gate' = [gate EXCEPT !.closed = TRUE]
    /\ wake' = TRUE
    /\ TransportAt("gone")
    /\ UNCHANGED <<buffer, shared, sent, receiver, last, lost>>

TransportSteps ==
    \/ Route \/ CheckWritable \/ WakeParked \/ AcquireForMessage \/ FillForMessage \/ UncountDiscard
    \/ FillBuffer \/ ClearConsumed \/ RaisePending

\* The other connection's items; it was admitted before.
OtherAcquires ==
    /\ \A i \in DOMAIN shared : shared[i].from # "other"
    /\ shared' = Append(shared, [from |-> "other", n |-> 0, state |-> "writing"])
    /\ UNCHANGED <<gate, buffer, transport, sent, receiver, wake, last, lost>>

OtherCompletes ==
    /\ \E i \in DOMAIN shared : shared[i].from = "other" /\ shared[i].state = "writing"
    /\ shared' = Completed("other", "done")
    /\ wake' = TRUE
    /\ UNCHANGED <<gate, buffer, transport, sent, receiver, last, lost>>

-----------------------------------------------------------------------------
(* Protocol task: protocol_tick() *)

\* The wait between two ticks ends.
StartTick ==
    /\ receiver.pc = "wait" /\ wake
    /\ wake' = FALSE
    /\ TickAt("pending")
    /\ UNCHANGED <<gate, buffer, shared, transport, sent, last, lost>>

\* pending_message(): the message counts only once everything written before it was taken.
SeePendingMutant ==
    /\ receiver.pc = "pending"
    /\ TickAt(IF lost = "no" /\ gate.pending THEN "process" ELSE "ring")
    /\ UNCHANGED <<gate, buffer, shared, transport, sent, wake, last, lost>>
SeePending ==
    /\ receiver.pc = "pending"
    /\ TickAt(IF lost = "no" /\ gate.pending /\ gate.inFlight = 0 THEN "process" ELSE "ring")
    /\ UNCHANGED <<gate, buffer, shared, transport, sent, wake, last, lost>>

\* process_inbound(): a detached connection's message is dropped; the server/activate admits.
Processed(n) ==
    IF gate.detached THEN UNCHANGED last ELSE last' = n

AdmitOn(g, n) == IF ~g.detached /\ n = 1 THEN [g EXCEPT !.admitted = TRUE] ELSE g

ProcessPending ==
    /\ receiver.pc = "process"
    /\ Processed(buffer)
    /\ gate' = AdmitOn(gate, buffer)
    /\ TickAt("consume")
    /\ UNCHANGED <<buffer, shared, transport, sent, wake, lost>>

\* consume_pending_message(): the flag, then the bit.
ClearPending ==
    /\ receiver.pc = "consume"
    /\ gate' = [gate EXCEPT !.pending = FALSE]
    /\ buffer' = 0
    /\ TickAt("setBit")
    /\ UNCHANGED <<shared, transport, sent, wake, last, lost>>

SetConsumedMutant ==
    /\ receiver.pc = "setBit"
    /\ TickAt("ring")
    /\ UNCHANGED <<gate, buffer, shared, transport, sent, wake, last, lost>>
SetConsumed ==
    /\ receiver.pc = "setBit"
    /\ gate' = [gate EXCEPT !.consumed = TRUE]
    /\ TickAt("ring")
    /\ UNCHANGED <<buffer, shared, transport, sent, wake, last, lost>>

\* The ring pass, one item. A DISCARD item does not leave take(); of a connection gone from the
\* manager the item is only returned.
Takeable == shared # <<>> /\ Head(shared).state # "writing"

TakeItem ==
    /\ receiver.pc = "ring" /\ receiver.taken < MAX_ITEMS_PER_TICK /\ Takeable
    /\ LET item == Head(shared) IN
        /\ receiver' = [receiver EXCEPT !.taken = IF item.state = "done" THEN @ + 1 ELSE @]
        /\ IF item.from = "conn" /\ item.state = "done" /\ lost = "no"
             THEN /\ gate' = AdmitOn([gate EXCEPT !.inFlight = @ - 1], item.n)
                  /\ Processed(item.n)
             ELSE UNCHANGED <<gate, last>>
    /\ shared' = Tail(shared)
    /\ UNCHANGED <<buffer, transport, sent, wake, lost>>

\* It ends with nothing completed to take, or at the bound with another tick due at once.
EndRingPass ==
    /\ receiver.pc = "ring"
    /\ ~Takeable \/ receiver.taken = MAX_ITEMS_PER_TICK
    /\ wake' = (wake \/ receiver.taken = MAX_ITEMS_PER_TICK)
    /\ receiver' = [receiver EXCEPT !.pc = "loss", !.taken = 0, !.closedRead = gate.closed]
    /\ UNCHANGED <<gate, buffer, shared, transport, sent, last, lost>>

\* close_ready() read the close flag first, and reads the counts now. A fallback message the pass
\* has made due brings another tick.
LoseConnection ==
    /\ receiver.pc = "loss"
    /\ LET leaves == lost = "no" /\ (gate.detached \/ CloseReady(receiver.closedRead)) IN
        /\ lost' = IF ~leaves THEN lost ELSE IF gate.detached THEN "detached" ELSE "closed"
        /\ gate' = IF leaves THEN [Detached EXCEPT !.admitted = FALSE] ELSE gate
        /\ wake' = (wake \/ (lost = "no" /\ gate.pending /\ gate.inFlight = 0))
    /\ receiver' = [pc |-> "wait", taken |-> 0, closedRead |-> FALSE]
    /\ UNCHANGED <<buffer, shared, transport, sent, last>>

\* The manager releases the connection, at any step of the tick outside the receive pass.
Release ==
    /\ receiver.pc = "loss" /\ lost = "no" /\ ~gate.detached
    /\ gate' = [Detached EXCEPT !.admitted = FALSE]
    /\ UNCHANGED <<buffer, shared, transport, sent, receiver, wake, last, lost>>

Tick ==
    \/ StartTick \/ SeePending \/ ProcessPending \/ ClearPending \/ SetConsumed
    \/ TakeItem \/ EndRingPass \/ LoseConnection

GateNext ==
    \/ ReadMessage \/ TransportSteps \/ WaitTimesOut \/ ReportClosed
    \/ OtherAcquires \/ OtherCompletes \/ Tick \/ Release

\* The two threads keep running and the other connection completes what it acquired. What the
\* peers send, a wait that times out, a ring without room and a release are left open.
GateFairness ==
    /\ WF_gateVars(TransportSteps)
    /\ WF_gateVars(ReportClosed /\ transport.pc = "closing")
    /\ WF_gateVars(OtherCompletes)
    /\ WF_gateVars(Tick)

GateSpec == GateInit /\ [][GateNext]_gateVars /\ GateFairness

-----------------------------------------------------------------------------
(* Properties *)

GateTypeOK ==
    /\ gate \in [admitted : BOOLEAN, pending : BOOLEAN, consumed : BOOLEAN,
                 inFlight : 0 .. MaxMessages, closed : BOOLEAN, detached : BOOLEAN]
    /\ {buffer, sent, last, transport.n} \subseteq 0 .. MaxMessages
    /\ receiver.closedRead \in BOOLEAN /\ wake \in BOOLEAN
    /\ lost \in {"no", "closed", "detached"}

\* A connection's messages are processed in the order its peer sent them, each once, none left
\* out, whichever way each one went and whatever holds the ring back.
ProcessedInOrder == [][last' # last => last' = last + 1]_last

BufferExclusive ==
    ~(receiver.pc \in {"process", "consume"} /\ transport.pc \in {"receive", "publish", "raise"})

CloseComesLast ==
    lost = "closed" => last = sent /\ \A i \in DOMAIN shared :
        shared[i].from = "conn" => shared[i].state = "discard"

\* The transport never writes into the fallback buffer under the protocol task's read of it. A
\* close takes effect after every message the peer sent before it, and not while an item of the
\* connection is still being written.
GateSafe == BufferExclusive /\ CloseComesLast

\* No message behind the server/activate closes the connection for its length: whichever of the
\* two threads is ahead, an over-long message is judged after the one that admits.
JudgedAfterActivation ==
    [][/\ ~gate.detached /\ gate'.detached /\ transport'.pc = "closing"
       /\ transport.size = "overCap" /\ transport.pc \notin {"acquire", "closing"} /\ ~transport.parked
       => transport.n = 1]_gateVars

\* Every message handed over is processed, unless its connection is detached, and a transport
\* waiting for the buffer goes on without its timeout: no wake is lost between the two threads, and
\* no message waits for another tick that nothing brings.
EveryMessageProcessed ==
    /\ \A n \in 1 .. MaxMessages : sent >= n ~> last >= n \/ gate.detached
    /\ transport.parked ~> ~transport.parked
=============================================================================
