----------------------------- MODULE RecordStore -----------------------------
(***************************************************************************)
(* RecordStore: the pairing records, changed in RAM by the protocol task   *)
(* and written to the persistence provider by the main loop, one slot at a *)
(* time. A write or the commit may be rejected, and power may be lost      *)
(* between any two steps.                                                  *)
(*                                                                         *)
(* records_ is kept by slot: held[s] is the record in slot s and rank[s]   *)
(* its place in the vector, least recently used first, 0 for none. A       *)
(* record is its PSK.                                                      *)
(*                                                                         *)
(* A definition whose name ends in Mutant is a deliberate mistake the      *)
(* properties are tested against.                                          *)
(***************************************************************************)
EXTENDS Integers, FiniteSets

CONSTANTS
    Psks,          \* long-term PSKs: p[1] is the server_id p was minted for
    Left,          \* those earlier boots may have left with the provider
    MaxRecords,    \* max_records_
    MaxOpen,       \* MAX_OPEN_CONNECTIONS
    Free,          \* a zeroed blob, or an absent one
    MaxChanges,    \* bound: changes to the records
    MaxFaults      \* bound: losses of power, and writes and commits the provider rejects

ASSUME PsksAssumption == Free \notin Psks /\ Left \subseteq Psks
ASSUME RecordsAssumption == MaxRecords \in Nat /\ MaxOpen \in Nat /\ MaxOpen < MaxRecords

VARIABLES
    held, rank,      \* records_
    dirtySlots,      \* dirty_slots_
    orderDirty,      \* order_dirty_
    resolving,       \* the PSKs open connections authenticated with
    mutator,         \* the protocol task: its next step, and the record it is storing
    persistOwed,     \* a PersistRequest is in its inbox slot
    notes,           \* the queued PAIRING_SUCCEEDED notes, each the record it is about
    flush,           \* the main loop: its place and its locals
    stored,          \* the provider: the blob a boot would read from each slot
    storedRank,      \* and the place the order blob gives the slot, 0 if it does not name it
    lost,            \* history: slots whose last write was rejected or not committed
    spent            \* changes and faults so far

ram      == <<held, rank, dirtySlots, orderDirty>>
client   == <<resolving, mutator, persistOwed, notes>>
provider == <<stored, storedRank, lost>>
storeVars == <<ram, client, flush, provider, spent>>

Slots == 0 .. MaxRecords - 1
Blobs == Psks \cup {Free}

Siblings(p) == {q \in Psks \ {p} : q[1] = p[1]}

-----------------------------------------------------------------------------
(* records_ *)

Occupied == {s \in Slots : held[s] # Free}
Held == {held[s] : s \in Occupied}
SlotOf(p) == CHOOSE s \in Slots : held[s] = p
HasCapacity == Cardinality(Occupied) < MaxRecords
First(slots) == {s \in slots : \A t \in slots : s <= t}

\* vector::erase() of some records: the later ones move up.
RankWithout(gone) ==
    [s \in Slots |-> IF s \in gone THEN 0
                     ELSE rank[s] - Cardinality({t \in gone : rank[t] < rank[s]})]

\* evict_one_locked(): the least recently used record no open connection resolved against.
VictimMutant(inUse) ==
    {s \in Occupied : \A t \in Occupied : rank[s] <= rank[t]}
Victim(inUse) ==
    LET evictable == {s \in Occupied : held[s] \notin inUse} IN
    {s \in evictable : \A t \in evictable : rank[s] <= rank[t]}

-----------------------------------------------------------------------------
(* Protocol task *)

Ready == mutator.pc = "ready"
MayChange == Ready /\ spent.changes < MaxChanges
Changed(requests) ==
    /\ spent' = [spent EXCEPT !.changes = @ + 1]
    /\ mutator' = [pc |-> IF requests THEN "request" ELSE "ready", paired |-> Free]

\* A handshake resolves a psk_id of the long-term category, and its connection is up.
OpenConnection(p) ==
    /\ Ready /\ p \in Held \ resolving /\ Cardinality(resolving) < MaxOpen
    /\ resolving' = resolving \cup {p}
    /\ UNCHANGED <<ram, mutator, persistOwed, notes, flush, provider, spent>>

CloseConnection(p) ==
    /\ Ready /\ p \in resolving
    /\ resolving' = resolving \ {p}
    /\ UNCHANGED <<ram, mutator, persistOwed, notes, flush, provider, spent>>

\* The records of the same server a new one supersedes, ...
RetiredMutant(p) == {s \in Occupied : held[s] \in Siblings(p) /\ rank[s] = 1}
Retired(p) == {s \in Occupied : held[s] \in Siblings(p)}

\* ... or, at capacity, the one that makes room.
MakesRoom(p) == p \notin Held /\ Retired(p) = {} /\ ~HasCapacity
Evictions(p) == IF MakesRoom(p) THEN {{s} : s \in Victim(resolving)} ELSE {{}}

\* A replaced record keeps its slot, a superseding one takes the last slot retired, another the
\* lowest free one.
AssignedSlot(p, evicted) ==
    IF p \in Held THEN {s \in Slots : held[s] = p}
    ELSE IF Retired(p) # {} THEN {s \in Retired(p) : \A t \in Retired(p) : rank[t] <= rank[s]}
    ELSE First((Slots \ Occupied) \cup evicted)

\* The slots a store leaves owing a write.
TouchedMutant(gone, slot) == {slot}
Touched(gone, slot) == gone \cup {slot}

\* store_record_superseding(), once there is room.
StoreSuperseding(p, gone, slot) ==
    /\ held' = [s \in Slots |-> IF s = slot THEN p ELSE IF s \in gone THEN Free ELSE held[s]]
    /\ rank' = IF p \in Held THEN RankWithout(gone)
               ELSE [RankWithout(gone) EXCEPT ![slot] = Cardinality(Occupied \ gone) + 1]
    /\ dirtySlots' = dirtySlots \cup Touched(gone, slot)
    /\ orderDirty' = (orderDirty \/ p \notin Held \/ gone # {})
    /\ mutator' = [pc |-> "request", paired |-> p]
    /\ spent' = [spent EXCEPT !.changes = @ + 1]

\* The ack of a pairing attempt stores its record. Where nothing of a full store is evictable it is
\* rejected.
StoreRecord(p) ==
    /\ MayChange
    /\ \/ \E evicted \in Evictions(p) : \E slot \in AssignedSlot(p, evicted) :
              StoreSuperseding(p, Retired(p) \cup evicted, slot)
       \/ Evictions(p) = {} /\ Changed(FALSE) /\ UNCHANGED ram
    /\ UNCHANGED <<resolving, persistOwed, notes, flush, provider>>

\* server/unpair on a connection of the record: note_record_removed(), and every connection on it
\* is dropped.
RemoveRecord(p) ==
    /\ MayChange /\ p \in resolving
    /\ resolving' = resolving \ {p}
    /\ Changed(p \in Held)
    /\ IF p \in Held
       THEN /\ held' = [held EXCEPT ![SlotOf(p)] = Free]
            /\ rank' = RankWithout({SlotOf(p)})
            /\ dirtySlots' = dirtySlots \cup {SlotOf(p)}
            /\ orderDirty' = TRUE
       ELSE UNCHANGED ram
    /\ UNCHANGED <<persistOwed, notes, flush, provider>>

\* Playback on a connection of the record: note_record_played() makes it the most recent.
PlayRecord(p) ==
    /\ MayChange /\ p \in resolving \cap Held
    /\ rank[SlotOf(p)] # Cardinality(Occupied)
    /\ rank' = [RankWithout({SlotOf(p)}) EXCEPT ![SlotOf(p)] = Cardinality(Occupied)]
    /\ orderDirty' = TRUE
    /\ Changed(TRUE)
    /\ UNCHANGED <<held, dirtySlots, resolving, persistOwed, notes, flush, provider>>

\* request_persist() ...
RequestedMutant == mutator.paired # Free
Requested == TRUE
RequestPersist ==
    /\ mutator.pc = "request"
    /\ persistOwed' = (persistOwed \/ Requested)
    /\ mutator' = [mutator EXCEPT !.pc = IF mutator.paired = Free THEN "ready" ELSE "note"]
    /\ UNCHANGED <<ram, resolving, notes, flush, provider, spent>>

\* ... ahead of the note that tells the listener.
QueueSucceeded ==
    /\ mutator.pc = "note"
    /\ notes' = notes \cup {mutator.paired}
    /\ mutator' = [pc |-> "ready", paired |-> Free]
    /\ UNCHANGED <<ram, resolving, persistOwed, flush, provider, spent>>

MutatorFinishes == RequestPersist \/ QueueSucceeded
MutatorTask ==
    \/ \E p \in Psks : \/ OpenConnection(p) \/ CloseConnection(p)
                       \/ StoreRecord(p) \/ RemoveRecord(p) \/ PlayRecord(p)
    \/ MutatorFinishes

-----------------------------------------------------------------------------
(* Main loop *)

AtFlush(pc) == flush.pc = pc
Fails == spent.faults < MaxFaults /\ spent' = [spent EXCEPT !.faults = @ + 1]

\* drain_inbox() takes the notes before it polls for an owed write ...
TakeNotes ==
    /\ AtFlush("idle") /\ (notes # {} \/ persistOwed)
    /\ flush' = [flush EXCEPT !.pc = "poll", !.notes = notes]
    /\ notes' = {}
    /\ UNCHANGED <<ram, resolving, mutator, persistOwed, provider, spent>>

\* ... flush_pending_persistence() ...
TakeRequest ==
    /\ AtFlush("poll")
    /\ persistOwed' = FALSE
    /\ flush' = [flush EXCEPT !.pc = IF persistOwed THEN "owed" ELSE "deliver"]
    /\ UNCHANGED <<ram, resolving, mutator, notes, provider, spent>>

\* ... and persist_records(): what is owed is taken under the lock, ...
TakeOwed ==
    /\ AtFlush("owed")
    /\ flush' = [flush EXCEPT !.pc = "slots", !.todo = dirtySlots, !.order = orderDirty]
    /\ dirtySlots' = {} /\ orderDirty' = FALSE
    /\ UNCHANGED <<held, rank, client, provider, spent>>

\* ... each slot is encoded under the lock, as it is then, ...
EncodeSlot ==
    /\ AtFlush("slots")
    /\ \E slot \in First(flush.todo) :
        flush' = [flush EXCEPT !.pc = "write", !.todo = @ \ {slot},
                               !.slot = slot, !.blob = held[slot]]
    /\ UNCHANGED <<ram, client, provider, spent>>

\* ... and written without it: stored at once, or queued until the commit, or rejected.
WriteSlot ==
    /\ AtFlush("write")
    /\ \/ /\ flush' = [flush EXCEPT !.pc = "slots", !.batch = @ \cup {<<flush.slot, flush.blob>>}]
          /\ \/ stored' = [stored EXCEPT ![flush.slot] = flush.blob]
             \/ UNCHANGED stored
          /\ UNCHANGED <<lost, spent>>
       \/ /\ Fails
          /\ flush' = [flush EXCEPT !.pc = "slots"]
          /\ lost' = lost \cup {flush.slot}
          /\ UNCHANGED stored
    /\ UNCHANGED <<ram, client, storedRank>>

\* The order blob, encoded and written in a step: nothing reads it before a boot.
WriteOrder ==
    /\ AtFlush("slots") /\ flush.todo = {}
    /\ flush' = [flush EXCEPT !.pc = IF flush.batch = {} THEN "deliver" ELSE "commit"]
    /\ \/ /\ storedRank' = IF flush.order THEN rank ELSE storedRank
          /\ UNCHANGED spent
       \/ flush.order /\ Fails /\ UNCHANGED storedRank
    /\ UNCHANGED <<ram, client, stored, lost>>

\* A commit makes the writes accepted durable, or fails.
Commit ==
    /\ AtFlush("commit")
    /\ flush' = [flush EXCEPT !.pc = "deliver", !.batch = {}]
    /\ LET slots == {w[1] : w \in flush.batch} IN
        \/ /\ stored' = [s \in Slots |->
                            IF s \in slots THEN (CHOOSE w \in flush.batch : w[1] = s)[2]
                            ELSE stored[s]]
           /\ lost' = lost \ slots
           /\ UNCHANGED spent
        \/ /\ Fails
           /\ lost' = lost \cup slots
           /\ UNCHANGED stored
    /\ UNCHANGED <<ram, client, storedRank>>

\* on_pairing_succeeded(), for every note taken.
DeliverNotes ==
    /\ AtFlush("deliver")
    /\ flush' = [flush EXCEPT !.pc = "idle", !.notes = {}]
    /\ UNCHANGED <<ram, client, provider, spent>>

FlushStep ==
    TakeNotes \/ TakeRequest \/ TakeOwed \/ EncodeSlot \/ WriteSlot \/ WriteOrder \/ Commit
    \/ DeliverNotes

-----------------------------------------------------------------------------
(* Boot *)

\* load_records_from_provider(): a record a lower slot holds already is not loaded, and its slot
\* owes a zeroed write.
DuplicateSlots(blobs) == {s \in Slots : blobs[s] # Free /\ \E t \in Slots : t < s /\ blobs[t] = blobs[s]}
LoadedMutant(blobs) == blobs
Loaded(blobs) == [s \in Slots |-> IF s \in DuplicateSlots(blobs) THEN Free ELSE blobs[s]]

\* load_record_order_from_provider(): the records the order blob names first, then the others in
\* slot order.
LoadedBefore(s, t, place) ==
    IF place[s] = 0 THEN place[t] = 0 /\ s < t
    ELSE place[t] = 0 \/ place[s] < place[t]
LoadedRank(records, place) ==
    LET occupied == {s \in Slots : records[s] # Free} IN
    [s \in Slots |-> IF s \notin occupied THEN 0
                     ELSE 1 + Cardinality({t \in occupied : LoadedBefore(t, s, place)})]

IdleFlush == [pc |-> "idle", notes |-> {}, todo |-> {}, order |-> FALSE,
              slot |-> 0, blob |-> Free, batch |-> {}]

\* The constructor, and start(), which requests the write a cleared duplicate owes.
Booted(blobs, place) ==
    /\ held' = Loaded(blobs)
    /\ rank' = LoadedRank(Loaded(blobs), place)
    /\ dirtySlots' = DuplicateSlots(blobs) /\ orderDirty' = FALSE
    /\ persistOwed' = (DuplicateSlots(blobs) # {})

\* Power is lost and the client boots: only what the provider holds is left.
Reboot ==
    /\ Fails
    /\ Booted(stored, storedRank)
    /\ resolving' = {} /\ notes' = {}
    /\ mutator' = [pc |-> "ready", paired |-> Free]
    /\ flush' = IdleFlush
    /\ lost' = {} /\ UNCHANGED <<stored, storedRank>>

\* A first boot on whatever earlier ones left in the slots, the order blob absent. One with a lower
\* max_pairing_records can have left a record twice.
StoreInit ==
    /\ stored \in [Slots -> Left \cup {Free}] /\ storedRank = [s \in Slots |-> 0]
    /\ held = Loaded(stored) /\ rank = LoadedRank(held, storedRank)
    /\ dirtySlots = DuplicateSlots(stored) /\ orderDirty = FALSE
    /\ persistOwed = (DuplicateSlots(stored) # {})
    /\ resolving = {} /\ notes = {} /\ mutator = [pc |-> "ready", paired |-> Free]
    /\ flush = IdleFlush
    /\ lost = {} /\ spent = [changes |-> 0, faults |-> 0]

-----------------------------------------------------------------------------
StoreNext == MutatorTask \/ FlushStep \/ Reboot

StoreSpec == StoreInit /\ [][StoreNext]_storeVars

\* loop() is called again and again, and a handler finishes what it began.
StoreFairness == WF_storeVars(FlushStep) /\ WF_storeVars(MutatorFinishes)

-----------------------------------------------------------------------------
(* Properties *)

\* Types of the records and of the two threads' locals.
StoreTypeOK ==
    /\ held \in [Slots -> Blobs] /\ rank \in [Slots -> Int]
    /\ dirtySlots \subseteq Slots /\ orderDirty \in BOOLEAN
    /\ resolving \subseteq Psks
    /\ mutator \in [pc : {"ready", "request", "note"}, paired : Blobs]
    /\ mutator.pc = "ready" => mutator.paired = Free
    /\ mutator.pc = "note" => mutator.paired # Free
    /\ persistOwed \in BOOLEAN /\ notes \subseteq Psks
    /\ flush \in [pc : {"idle", "poll", "owed", "slots", "write", "commit", "deliver"},
                  notes : SUBSET Psks, todo : SUBSET Slots, order : BOOLEAN,
                  slot : Slots, blob : Blobs, batch : SUBSET (Slots \X Blobs)]
    /\ stored \in [Slots -> Blobs] /\ storedRank \in [Slots -> Int]
    /\ lost \subseteq Slots
    /\ spent \in [changes : Nat, faults : Nat]

\* No psk_id resolves to two records.
OneRecordEach == \A s, t \in Occupied : held[s] = held[t] => s = t

\* The slots a write is still on its way to.
Underway == flush.todo \cup {w[1] : w \in flush.batch}
                \cup (IF AtFlush("write") THEN {flush.slot} ELSE {})

\* What a boot reads from a slot that owes nothing and lost nothing is what the store holds there,
\* whatever changed while the flush was between its steps.
StoredMatches ==
    \A s \in Slots \ (dirtySlots \cup Underway \cup lost) : stored[s] = held[s]

\* What is encoded or queued is what the slot holds, unless the slot owes another write.
WritesAreCurrent ==
    /\ AtFlush("write") /\ flush.slot \notin dirtySlots => flush.blob = held[flush.slot]
    /\ \A w \in flush.batch : w[1] \notin dirtySlots => w[2] = held[w[1]]

\* A record that owes a write has it requested, or about to be.
OwedIsRequested ==
    \A s \in Occupied \cap dirtySlots :
        \/ persistOwed \/ AtFlush("owed")
        \/ mutator.pc = "request" /\ mutator.paired = held[s]

\* The listener hears of a pairing only once its record was handed to the provider: a record that
\* still owes a write then was stored again since, and its own note is yet to come.
SucceededAfterWrite ==
    flush.pc \in {"slots", "write", "commit", "deliver"} =>
        \A s \in Occupied \cap dirtySlots :
            held[s] \in flush.notes => held[s] = mutator.paired \/ held[s] \in notes

\* Nothing is underway but from the time the owed set is taken to the commit.
UnderwayInFlush ==
    /\ flush.pc \notin {"slots", "write"} => flush.todo = {}
    /\ flush.pc \notin {"slots", "write", "commit"} => flush.batch = {}

\* The inductive invariant.
StoreInv ==
    /\ StoreTypeOK /\ OneRecordEach /\ StoredMatches /\ WritesAreCurrent
    /\ OwedIsRequested /\ SucceededAfterWrite /\ UnderwayInFlush

\* The store keeps the book of pairings: a store supersedes its server's record and evicts no
\* record in use, a removal is at once, and once every write has landed a reboot brings back
\* exactly the records held.
Safe == dirtySlots \cup Underway \cup lost = {}
Book == INSTANCE PairingBook
            WITH Capacity <- MaxRecords, Size <- Cardinality, valid <- Held, inUse <- resolving, safe <- Safe
KeepsBook == Book!BookSpec

\* Every change is handed to the provider in the end, however many slip in while a flush runs.
OwedIsWritten == \A s \in Slots : s \in dirtySlots ~> s \notin dirtySlots
=============================================================================
