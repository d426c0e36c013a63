------------------------------ MODULE InboundRing ------------------------------
(***************************************************************************)
(* The items of the shared inbound ring and one consumer of them.          *)
(*                                                                         *)
(*   transports      acquire an item, fill it and complete it,             *)
(*   protocol task   takes items in ring order, returns them or hands them *)
(*                   to the consumer against its quota; writes LOCAL items *)
(*                   of its own, which two parties return; recalls what    *)
(*                   the consumer has not taken,                           *)
(*   consumer        takes items off its list, and returns each.           *)
(*                                                                         *)
(* A slot stands for the room of one item. A step is one critical section, *)
(* or one atomic update. The two threads that return items run the same    *)
(* code, so a return is written once, for an actor.                        *)
(***************************************************************************)
EXTENDS Integers, Sequences, FiniteSets, FiniteSetsExt

CONSTANTS
    Slots,          \* items the ring has room for
    QuotaLimit,     \* items the consumer's quota covers
    MaxAcquires,    \* bound: items acquired
    MaxBoundaries   \* bound: teardowns that recall and stream boundaries that release charges

ASSUME InboundAssumption ==
    /\ Slots \subseteq Nat
    /\ {QuotaLimit, MaxAcquires, MaxBoundaries} \subseteq Nat

VARIABLES
    order,          \* the ring: slots in acquire order, the oldest unreclaimed first
    item,           \* what each slot's header holds, and how far the item has come
    list,           \* InboundItemList: slots handed to the consumer and not taken
    signalled,      \* an event flag of the list is set: ITEMS_APPENDED or WAKE
    outstanding,    \* InboundQuota::outstanding_ of the consumer
    heads,          \* head_completions_ less head_takes_, and pending_
    actor,          \* the protocol task and the consumer: place in the code, item in hand
    run             \* how far stop() has come, and the bounds

inboundVars == <<order, item, list, signalled, outstanding, heads, actor, run>>

\* The protocol task in ring order, and the holder.
LocalPartiesMutant == 1
LOCAL_ITEM_PARTIES == 2

NoSlot == -1
Actors == {"task", "consumer"}
Kinds == {"MESSAGE", "DISCARD", "LOCAL"}

Fresh == [kind |-> "MESSAGE", filled |-> FALSE, published |-> FALSE,
          taken |-> FALSE, returned |-> FALSE, charge |-> 0, parties |-> 0]
Absent == [Fresh EXCEPT !.published = TRUE]

At(a, pc) == actor[a].pc = pc
Goes(a, pc) == actor' = [actor EXCEPT ![a].pc = pc]

\* Where a thread goes on once it has counted a return, with what is left of it.
Moves(a, rest) ==
    actor' = [actor EXCEPT ![a] =
        IF rest.release # 0 THEN [rest EXCEPT !.pc = "release"]
        ELSE IF rest.last THEN [rest EXCEPT !.pc = "giveBack"]
        ELSE [rest EXCEPT !.item = NoSlot,
                          !.pc = IF a = "consumer" THEN "poll"
                                 ELSE IF rest.chain = <<>> THEN "idle" ELSE "recall"]]

InRing == {order[i] : i \in DOMAIN order}

\* is_storage_head(): the room at the start of the storage.
AtStart(s) == s = Min(Slots)

\* A slot is free once its item is reclaimed and the producer is through with complete().
FreeSlots == {s \in Slots \ InRing : item[s].published}

InboundStarts(phase) ==
    /\ order = <<>>
    /\ item = [s \in Slots |-> Absent]
    /\ list = <<>>
    /\ signalled = FALSE
    /\ outstanding = 0
    /\ heads = [ahead |-> 0, pending |-> NoSlot]
    /\ actor = [a \in Actors |->
                    [pc |-> IF a = "task" THEN "idle" ELSE IF phase = "done" THEN "done" ELSE "poll",
                     item |-> NoSlot, release |-> 0, last |-> FALSE, chain |-> <<>>]]
    /\ run = [phase |-> phase, told |-> phase = "done", acquires |-> 0, boundaries |-> 0]

InboundInit == InboundStarts("running")

-----------------------------------------------------------------------------
(* Acquiring and completing *)

\* acquire(), which zeroes the header.
AcquireItem(s, kind) ==
    /\ run.acquires < MaxAcquires /\ FreeSlots # {} /\ s = Min(FreeSlots)
    /\ order' = Append(order, s)
    /\ item' = [item EXCEPT ![s] = [Fresh EXCEPT !.kind = kind]]
    /\ run' = [run EXCEPT !.acquires = @ + 1]

\* A transport reserves an item for a message.
AcquireMessage ==
    /\ run.phase \in {"running", "stopping"}
    /\ \E s \in FreeSlots : AcquireItem(s, "MESSAGE")
    /\ UNCHANGED <<list, signalled, outstanding, heads, actor>>

\* complete(): an item at the storage start is counted, then published. A transport whose receive
\* failed marks it DISCARD first.
CountCompletionMutant(s) ==
    /\ s \in InRing /\ AtStart(s) /\ ~item[s].filled /\ item[s].kind # "LOCAL"
    /\ \E kind \in {"MESSAGE", "DISCARD"} :
        item' = [item EXCEPT ![s].kind = kind, ![s].filled = TRUE]
    /\ UNCHANGED <<order, list, signalled, outstanding, heads, actor, run>>
CountCompletion(s) ==
    /\ s \in InRing /\ AtStart(s) /\ ~item[s].filled /\ item[s].kind # "LOCAL"
    /\ \E kind \in {"MESSAGE", "DISCARD"} :
        item' = [item EXCEPT ![s].kind = kind, ![s].filled = TRUE]
    /\ heads' = [heads EXCEPT !.ahead = @ + 1]
    /\ UNCHANGED <<order, list, signalled, outstanding, actor, run>>

Publish(s) ==
    /\ ~item[s].published /\ item[s].kind # "LOCAL"
    /\ IF s \notin InRing THEN item' = [item EXCEPT ![s] = Absent]
       ELSE /\ AtStart(s) => item[s].filled
            /\ \E kind \in IF item[s].filled THEN {item[s].kind} ELSE {"MESSAGE", "DISCARD"} :
                item' = [item EXCEPT ![s].kind = kind, ![s].filled = TRUE, ![s].published = TRUE]
    /\ UNCHANGED <<order, list, signalled, outstanding, heads, actor, run>>

-----------------------------------------------------------------------------
(* Returning: InboundRing::return_item(), on either thread *)

StartsReturn(a, s) == actor' = [actor EXCEPT ![a].pc = "return", ![a].item = s]

\* count_local_return() under the list's mutex, or the charge of a received item: the charge is
\* taken off the header, and the second return of a LOCAL item is the one that gives it back.
CountReturn(a) ==
    /\ At(a, "return") \/ At(a, "got")
    /\ LET s == actor[a].item
           local == item[s].kind = "LOCAL"
       IN
        /\ item' = [item EXCEPT ![s].charge = 0,
                                ![s].parties = IF local THEN @ + 1 ELSE @]
        /\ Moves(a, [actor[a] EXCEPT !.release = item[s].charge,
                                     !.last = ~local \/ item[s].parties + 1 >= LOCAL_ITEM_PARTIES])
    /\ UNCHANGED <<order, list, signalled, outstanding, heads, run>>

\* InboundQuota::release(), of an item about to go back or of the listed ones.
ReleaseCharge(a) ==
    /\ At(a, "release")
    /\ outstanding' = outstanding - actor[a].release
    /\ Moves(a, [actor[a] EXCEPT !.release = 0])
    /\ UNCHANGED <<order, item, list, signalled, heads, run>>

\* SharedRingBuffer::return_item(): the returned items at the head of the ring leave it.
GiveBack(a) ==
    /\ At(a, "giveBack")
    /\ LET mem == [item EXCEPT ![actor[a].item].returned = TRUE]
           kept == {i \in DOMAIN order : ~mem[order[i]].returned}
       IN
        /\ order' = IF kept = {} THEN <<>> ELSE SubSeq(order, Min(kept), Len(order))
        /\ item' = [s \in Slots |-> IF \E i \in DOMAIN order' : order'[i] = s THEN mem[s]
                                    ELSE [Absent EXCEPT !.published = mem[s].published]]
    /\ Moves(a, [actor[a] EXCEPT !.last = FALSE])
    /\ UNCHANGED <<list, signalled, outstanding, heads, run>>

Returning(a) == CountReturn(a) \/ ReleaseCharge(a) \/ GiveBack(a)

-----------------------------------------------------------------------------
(* Protocol task: taking and handing over *)

\* take() and return_in_ring_order(): a message goes to its handler, a DISCARD item straight back,
\* a LOCAL item counts the protocol task's party. reset() returns every item this way.
Deliver(s) ==
    LET local == item[s].kind = "LOCAL"
        parties == item[s].parties + (IF local THEN 1 ELSE 0)
        handler == item[s].kind = "MESSAGE" /\ run.phase # "reset"
    IN
    /\ item' = [item EXCEPT ![s].taken = TRUE, ![s].parties = parties]
    /\ IF handler THEN actor' = [actor EXCEPT !["task"].pc = "got", !["task"].item = s]
       ELSE Moves("task", [actor["task"] EXCEPT !.item = s,
                                                !.last = local => parties >= LOCAL_ITEM_PARTIES])

\* The ring's own take: the oldest item, published, or on ESP the one at the storage start
\* whether it is or not. That one is kept as pending until its completion is counted.
Oldest(s) == \E i \in DOMAIN order :
    order[i] = s /\ ~item[s].taken /\ \A j \in 1 .. i - 1 : item[order[j]].taken

TakeOne ==
    /\ At("task", "idle") /\ run.phase \in {"running", "reset"} /\ heads.pending = NoSlot
    /\ \E s \in Slots :
        /\ Oldest(s)
        /\ item[s].published \/ AtStart(s)
        /\ IF AtStart(s)
             THEN /\ heads' = [heads EXCEPT !.ahead = @ - 1, !.pending = s]
                  /\ UNCHANGED <<item, actor>>
             ELSE Deliver(s) /\ UNCHANGED heads
    /\ UNCHANGED <<order, list, signalled, outstanding, run>>

\* take_pending(), head_takes_completed().
TakePendingMutant ==
    /\ At("task", "idle") /\ heads.pending # NoSlot
    /\ Deliver(heads.pending)
    /\ heads' = [heads EXCEPT !.pending = NoSlot]
    /\ UNCHANGED <<order, list, signalled, outstanding, run>>
TakePending ==
    /\ At("task", "idle") /\ heads.pending # NoSlot
    /\ heads.ahead >= 0
    /\ Deliver(heads.pending)
    /\ heads' = [heads EXCEPT !.pending = NoSlot]
    /\ UNCHANGED <<order, list, signalled, outstanding, run>>

\* charge(): over quota, hand() returns the item instead. An exempt item is not charged.
Charge(s, header, exempt) ==
    IF ~exempt /\ outstanding >= QuotaLimit
    THEN /\ StartsReturn("task", s)
         /\ item' = header
         /\ UNCHANGED outstanding
    ELSE /\ actor' = [actor EXCEPT !["task"].pc = "append", !["task"].item = s]
         /\ item' = [header EXCEPT ![s].charge = IF exempt THEN 0 ELSE 1]
         /\ outstanding' = outstanding + IF exempt THEN 0 ELSE 1

\* hand_message() with the ring item in place.
HandMessage ==
    /\ At("task", "got") /\ run.phase = "running"
    /\ Charge(actor["task"].item, item, FALSE)
    /\ UNCHANGED <<order, list, signalled, heads, run>>

\* copy_local(): an item of the protocol task's own, for a header or marker (exempt) or for a
\* message that came in another buffer. With no room in time there is nothing to hand over.
AcquireLocal ==
    /\ At("task", "idle") /\ run.phase = "running"
    /\ \E s \in FreeSlots :
        /\ AcquireItem(s, "LOCAL")
        /\ actor' = [actor EXCEPT !["task"].pc = "fill", !["task"].item = s]
    /\ UNCHANGED <<list, signalled, outstanding, heads>>

\* Filled and completed, then handed over.
HandLocal ==
    /\ At("task", "fill")
    /\ LET s == actor["task"].item IN
        /\ heads' = [heads EXCEPT !.ahead = IF AtStart(s) THEN @ + 1 ELSE @]
        /\ \E exempt \in BOOLEAN :
            Charge(s, [item EXCEPT ![s].filled = TRUE, ![s].published = TRUE], exempt)
    /\ UNCHANGED <<order, list, signalled, run>>

\* append(): the link under the list's mutex, then the wake.
AppendItem ==
    /\ At("task", "append")
    /\ list' = Append(list, actor["task"].item)
    /\ actor' = [actor EXCEPT !["task"].pc = "signal", !["task"].item = NoSlot]
    /\ UNCHANGED <<order, item, signalled, outstanding, heads, run>>

SignalAppended ==
    /\ At("task", "signal")
    /\ signalled' = TRUE
    /\ Goes("task", "idle")
    /\ UNCHANGED <<order, item, list, outstanding, heads, run>>

\* recall(): the chain is detached under the mutex, and its items returned one by one outside it.
DetachChain ==
    /\ actor' = [actor EXCEPT !["task"].pc = IF list = <<>> THEN "idle" ELSE "recall",
                              !["task"].chain = list]
    /\ list' = <<>>

\* At a teardown of the role.
Recall ==
    /\ At("task", "idle") /\ run.phase = "running" /\ run.boundaries < MaxBoundaries
    /\ run' = [run EXCEPT !.boundaries = @ + 1]
    /\ DetachChain
    /\ UNCHANGED <<order, item, signalled, outstanding, heads>>

RecallNext ==
    /\ At("task", "recall")
    /\ actor' = [actor EXCEPT !["task"].pc = "return", !["task"].chain = Tail(@),
                              !["task"].item = Head(actor["task"].chain)]
    /\ UNCHANGED <<order, item, list, signalled, outstanding, heads, run>>

\* release_charges(): the charges of the items still listed, then the quota.
ReleaseChargesMutant ==
    /\ At("task", "idle") /\ run.phase = "running" /\ run.boundaries < MaxBoundaries
    /\ run' = [run EXCEPT !.boundaries = @ + 1]
    /\ LET charged == {s \in Slots : item[s].charge = 1 /\ \E i \in DOMAIN list : list[i] = s} IN
        Moves("task", [actor["task"] EXCEPT !.release = Cardinality(charged)])
    /\ UNCHANGED <<order, item, list, signalled, outstanding, heads>>
ReleaseCharges ==
    /\ At("task", "idle") /\ run.phase = "running" /\ run.boundaries < MaxBoundaries
    /\ run' = [run EXCEPT !.boundaries = @ + 1]
    /\ LET charged == {s \in Slots : item[s].charge = 1 /\ \E i \in DOMAIN list : list[i] = s} IN
        /\ item' = [s \in Slots |-> IF s \in charged THEN [item[s] EXCEPT !.charge = 0] ELSE item[s]]
        /\ Moves("task", [actor["task"] EXCEPT !.release = Cardinality(charged)])
    /\ UNCHANGED <<order, list, signalled, outstanding, heads>>

\* What the task has begun.
HandsOn == HandLocal \/ AppendItem \/ SignalAppended \/ RecallNext

ProtocolTakes ==
    \/ TakeOne \/ TakePending \/ HandMessage \/ AcquireLocal \/ HandsOn
    \/ Recall \/ ReleaseCharges \/ Returning("task")

-----------------------------------------------------------------------------
(* Consumer *)

\* pop(). A consumer told to stop takes no more.
Pop ==
    /\ At("consumer", "poll") /\ ~run.told
    /\ IF list = <<>>
         THEN Goes("consumer", "wait") /\ UNCHANGED list
         ELSE /\ list' = Tail(list)
              /\ actor' = [actor EXCEPT !["consumer"].pc = "return", !["consumer"].item = Head(list)]
    /\ UNCHANGED <<order, item, signalled, outstanding, heads, run>>

\* The wait of take(), which clears the bits it returns for.
WakeConsumer ==
    /\ At("consumer", "wait") /\ signalled
    /\ signalled' = FALSE
    /\ Goes("consumer", "poll")
    /\ UNCHANGED <<order, item, list, outstanding, heads, run>>

ConsumerExit ==
    /\ At("consumer", "poll") /\ run.told
    /\ Goes("consumer", "done")
    /\ UNCHANGED <<order, item, list, signalled, outstanding, heads, run>>

ConsumerSteps ==
    \/ Pop \/ WakeConsumer \/ ConsumerExit \/ Returning("consumer")

-----------------------------------------------------------------------------
(* stop(): the consumer is told to exit before or after the protocol task is joined; then the      *)
(* transports are closed, what the consumer did not take is recalled and the ring emptied, by the  *)
(* main loop, which runs the code of the protocol task's returns.                                  *)

Phase(from, to) == run.phase = from /\ run' = [run EXCEPT !.phase = to]

BeginStop ==
    /\ Phase("running", "stopping")
    /\ UNCHANGED <<order, item, list, signalled, outstanding, heads, actor>>

\* wake_receiver() behind the exit flag.
TellConsumer ==
    /\ run.phase # "running" /\ ~run.told
    /\ run' = [run EXCEPT !.told = TRUE]
    /\ signalled' = TRUE
    /\ UNCHANGED <<order, item, list, outstanding, heads, actor>>

\* The protocol task is joined, every transport thread is, and the consumer: unbind() recalls.
JoinAll ==
    /\ Phase("stopping", "recall")
    /\ At("task", "idle") /\ At("consumer", "done") /\ \A s \in Slots : item[s].published
    /\ DetachChain
    /\ UNCHANGED <<order, item, signalled, outstanding, heads>>

EmptyRing ==
    /\ Phase("recall", "reset")
    /\ At("task", "idle")
    /\ UNCHANGED <<order, item, list, signalled, outstanding, heads, actor>>

\* reset() finds nothing more to take.
SkipResetMutant ==
    /\ Phase("recall", "done")
    /\ At("task", "idle")
    /\ UNCHANGED <<order, item, list, signalled, outstanding, heads, actor>>
RingEmptied ==
    /\ Phase("reset", "done")
    /\ At("task", "idle") /\ heads.pending = NoSlot /\ \A s \in Slots : ~Oldest(s)
    /\ UNCHANGED <<order, item, list, signalled, outstanding, heads, actor>>

StopSteps == TellConsumer \/ JoinAll \/ EmptyRing \/ RingEmptied

Transports == AcquireMessage \/ \E s \in Slots : CountCompletion(s) \/ Publish(s)

InboundNext == Transports \/ ProtocolTakes \/ ConsumerSteps \/ BeginStop \/ StopSteps

\* A transport completes what it acquired, the two threads keep running and stop() goes through.
\* When messages arrive, streams are torn down and the client is stopped is left open.
InboundFairness ==
    /\ \A s \in Slots : WF_inboundVars(CountCompletion(s) \/ Publish(s))
    /\ WF_inboundVars(TakeOne \/ TakePending)
    /\ WF_inboundVars(HandsOn)
    /\ WF_inboundVars(Returning("task"))
    /\ WF_inboundVars(ConsumerSteps)
    /\ WF_inboundVars(StopSteps)

InboundSpec == InboundInit /\ [][InboundNext]_inboundVars /\ InboundFairness

-----------------------------------------------------------------------------
(* Properties *)

InboundTypeOK ==
    /\ order \in Seq(Slots) /\ list \in Seq(Slots)
    /\ item \in [Slots -> [kind : Kinds, filled : BOOLEAN, published : BOOLEAN,
                           taken : BOOLEAN, returned : BOOLEAN, charge : {0, 1},
                           parties : 0 .. LOCAL_ITEM_PARTIES]]
    /\ signalled \in BOOLEAN
    /\ outstanding \in 0 .. QuotaLimit
    /\ heads \in [ahead : -1 .. 1,
                  pending : Slots \cup {NoSlot}]

\* What the ring's users make of it, as the queue of RingQueue: an item counts as taken once it
\* left take(), and as returned once it went back to the storage.
ItemStage(s) ==
    IF item[s].returned THEN "returned"
    ELSE IF item[s].taken THEN "taken"
    ELSE IF item[s].filled THEN "written" ELSE "acquired"

RingItems == [i \in DOMAIN order |-> [len |-> 0, stage |-> ItemStage(order[i])]]

Inbound == INSTANCE RingQueue WITH queue <- RingItems, Lengths <- {0}

\* Every message reaches the protocol task once, in ring order and complete, and every item goes
\* back once: not before the protocol task has passed it, though a LOCAL item is first returned by
\* either thread, and though take() may find the item at the storage start not filled yet.
HandsOverInOrder == Inbound!QueueSpec

\* What a thread may still touch.
Touches(a) ==
    actor[a].item # NoSlot /\ (actor[a].pc \notin {"release", "giveBack"} \/ actor[a].last)

HeldItemsStay ==
    \A s \in Slots :
        \/ \E i \in DOMAIN list : list[i] = s
        \/ \E a \in Actors : Touches(a) /\ actor[a].item = s
        => s \in InRing /\ ~item[s].returned

QuotaMatches ==
    outstanding = Cardinality({s \in Slots : item[s].charge = 1})
                    + actor["task"].release + actor["consumer"].release

\* What either thread or the list holds is still in the ring, so its bytes are not a later
\* message's, though the two threads count the returns of a LOCAL item in either order. The quota
\* counts what the consumer has not returned, no more and no less, through recalls and released
\* charges. A stop leaves nothing in the ring, on the list or on the quota.
ItemsAccounted ==
    /\ HeldItemsStay
    /\ QuotaMatches
    /\ run.phase = "done" => order = <<>> /\ list = <<>> /\ outstanding = 0

\* Room always comes back: the consumer wakes for what is appended without its fallback timeout,
\* a LOCAL item is returned twice, and an item found unfilled at the storage start is found again.
RoomComesBack == \A s \in Slots : s \in InRing ~> s \notin InRing
=============================================================================
