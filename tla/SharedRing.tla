------------------------------ MODULE SharedRing ------------------------------
(***************************************************************************)
(* The storage of the inbound ring: SharedRingBuffer, host implementation, *)
(* which reproduces the rules of the FreeRTOS no-split ring. Items lie one *)
(* behind the other, each led by a header; an item that does not fit       *)
(* before the end of the storage goes to its start, behind a filler. Four  *)
(* offsets walk the storage in the same direction. All of a call is done   *)
(* under one mutex, so each call is one step.                              *)
(*                                                                         *)
(* Offsets and lengths are in units of STORAGE_ALIGNMENT. The bytes of an  *)
(* item overwrite whatever header an earlier item left there; the bytes    *)
(* may be anything, so they may look like a header.                        *)
(***************************************************************************)
EXTENDS Integers, Sequences, Functions

CONSTANTS
    RingUnits,      \* size_
    ItemLengths     \* lengths of the items the users acquire

ITEM_HEADER == 2    \* ITEM_HEADER_BYTES

\* is_valid_storage_size().
ASSUME RingAssumption ==
    /\ RingUnits \in Nat /\ RingUnits >= 4 * ITEM_HEADER
    /\ ItemLengths \subseteq Nat

VARIABLES
    ring,       \* acquire_, write_, read_, free_, items_waiting_, full_
    storage,    \* the header found at each offset
    junk,       \* the flags that bytes of an item show when read as a header
    writing,    \* items acquired and not completed yet
    held        \* items taken and not returned yet

ringVars == <<ring, storage, junk, writing, held>>

-----------------------------------------------------------------------------
(* Layout *)

Offsets == 0 .. RingUnits - 1
Flags == {"FREE", "DUMMY", "WRITTEN"}
Headers == [len : 0 .. RingUnits, flags : SUBSET Flags]
Junk == [len |-> 0, flags |-> junk]

StoredSize(len) == ITEM_HEADER + len
MaxItemSize == (RingUnits + 1) \div 2 - ITEM_HEADER

\* wrap_if_header_cannot_fit().
Wrap(offset) == IF RingUnits - offset < ITEM_HEADER THEN 0 ELSE offset

\* Where the walk goes on behind the item or the filler at `offset`.
Behind(mem, offset) ==
    IF "DUMMY" \in mem[offset].flags THEN 0 ELSE Wrap(offset + StoredSize(mem[offset].len))

\* The headers a loop passes that starts at `start`, as long as they are among `passes` and behind
\* each there is another than `end`, and where it comes to.
Run(mem, start, passes, end) ==
    LET run[left \in 0 .. RingUnits] == [o \in Offsets |->
            IF o \notin passes THEN <<>>
            ELSE <<o>> \o IF Behind(mem, o) = end \/ left = 0 THEN <<>>
                          ELSE run[left - 1][Behind(mem, o)]]
    IN run[RingUnits][start]
EndOf(mem, run, start) == IF run = <<>> THEN start ELSE Behind(mem, run[Len(run)])

Flagged(mem, flags) == {o \in Offsets : mem[o].flags \cap flags # {}}

Marked(mem, offsets, flag) ==
    [o \in Offsets |-> IF o \in offsets THEN [mem[o] EXCEPT !.flags = @ \cup {flag}] ELSE mem[o]]

Fillers(mem, offsets) == {o \in offsets : "DUMMY" \in mem[o].flags}

-----------------------------------------------------------------------------
RingInit ==
    /\ junk \in {{}, Flags}
    /\ ring = [acquire |-> 0, write |-> 0, read |-> 0, free |-> 0, waiting |-> 0, full |-> FALSE]
    /\ storage = [o \in Offsets |-> Junk]
    /\ writing = {}
    /\ held = {}

\* item_fits().
ItemFitsMutant(len) ==
    IF ring.free > ring.acquire
        THEN StoredSize(len) <= ring.free - ring.acquire
        ELSE StoredSize(len) <= RingUnits - ring.acquire \/ StoredSize(len) <= ring.free
ItemFits(len) ==
    IF ring.acquire = ring.free THEN ~ring.full
    ELSE IF ring.free > ring.acquire THEN StoredSize(len) <= ring.free - ring.acquire
    ELSE \/ StoredSize(len) <= RingUnits - ring.acquire
         \/ StoredSize(len) <= ring.free

\* acquire(), acquire_item(): a filler in a tail that is too short, then the item.
RingAcquire(len) ==
    /\ len <= MaxItemSize /\ ItemFits(len)
    /\ LET wraps == RingUnits - ring.acquire < StoredSize(len)
           at    == IF wraps THEN 0 ELSE ring.acquire
           end   == Wrap(at + StoredSize(len))
       IN
        /\ storage' = [o \in Offsets |->
                        IF o = at THEN [len |-> len, flags |-> {}]
                        ELSE IF o \in at .. at + StoredSize(len) - 1 THEN Junk
                        ELSE IF wraps /\ o = ring.acquire THEN [len |-> 0, flags |-> {"DUMMY"}]
                        ELSE storage[o]]
        /\ ring' = [ring EXCEPT !.acquire = end, !.full = @ \/ end = ring.free]
        /\ writing' = writing \cup {at}
    /\ UNCHANGED <<junk, held>>

\* The headers complete() passes: the completed run from the write position.
CompletedRunMutant(mem) == Run(mem, ring.write, Flagged(mem, {"WRITTEN"}), ring.acquire)
CompletedRun(mem) == Run(mem, ring.write, Flagged(mem, {"WRITTEN", "DUMMY"}), ring.acquire)

\* complete().
RingComplete(item) ==
    /\ item \in writing
    /\ LET mem == Marked(storage, {item}, "WRITTEN")
           run == CompletedRun(mem)
       IN
        /\ storage' = Marked(mem, Fillers(mem, Range(run)), "WRITTEN")
        /\ ring' = [ring EXCEPT !.write = EndOf(mem, run, ring.write), !.waiting = @ + 1]
    /\ writing' = writing \ {item}
    /\ UNCHANGED <<junk, held>>

\* item_available(): a filler also needs the item it wraps to.
ItemAvailable ==
    /\ ring.waiting # 0
    /\ ring.read # ring.write \/ ring.full
    /\ LET at == IF "DUMMY" \in storage[ring.read].flags THEN 0 ELSE ring.read IN
        "WRITTEN" \in storage[at].flags

\* take(), take_item().
RingTake ==
    /\ ItemAvailable
    /\ LET at == IF "DUMMY" \in storage[ring.read].flags THEN 0 ELSE ring.read IN
        /\ held' = held \cup {at}
        /\ ring' = [ring EXCEPT !.read = Wrap(at + StoredSize(storage[at].len)),
                                !.waiting = @ - 1]
    /\ UNCHANGED <<storage, junk, writing>>

\* The headers return_item() passes: the returned run from the free position, never past the next
\* item to take, but for one step when the ring is full or empty.
ReturnedRunMutant(mem) ==
    IF ring.free = ring.read THEN <<>>
    ELSE Run(mem, ring.free, Flagged(mem, {"FREE", "DUMMY"}), ring.read)
ReturnedRun(mem) ==
    IF ring.free = ring.read /\ ~ring.full /\ ring.waiting # 0 THEN <<>>
    ELSE Run(mem, ring.free, Flagged(mem, {"FREE", "DUMMY"}), ring.read)

\* return_item().
RingReturn(item) ==
    /\ item \in held
    /\ LET mem == Marked(storage, {item}, "FREE")
           run == ReturnedRun(mem)
       IN
        /\ storage' = Marked(mem, Fillers(mem, Range(run)), "FREE")
        /\ ring' = [ring EXCEPT !.free = EndOf(mem, run, ring.free),
                                !.full = @ /\ run = <<>>]
    /\ held' = held \ {item}
    /\ UNCHANGED <<junk, writing>>

RingNext ==
    \/ \E len \in ItemLengths : RingAcquire(len)
    \/ \E item \in writing : RingComplete(item)
    \/ RingTake
    \/ \E item \in held : RingReturn(item)

RingSpec == RingInit /\ [][RingNext]_ringVars

-----------------------------------------------------------------------------
(* What the ring promises *)

\* The headers from the oldest whose room is not given back to the newest.
Path ==
    IF ring.acquire = ring.free /\ ~ring.full THEN <<>>
    ELSE Run(storage, ring.free, Offsets, ring.acquire)

\* The items among them. A filler ends the storage, so there is one at most.
Live ==
    LET path == Path
        fillers == {i \in DOMAIN path : "DUMMY" \in storage[path[i]].flags}
        filler == CHOOSE i \in fillers : TRUE
    IN IF fillers = {} THEN path
       ELSE SubSeq(path, 1, filler - 1) \o SubSeq(path, filler + 1, Len(path))

Stage(item) ==
    IF item \in writing THEN "acquired"
    ELSE IF item \in held THEN "taken"
    ELSE IF "FREE" \in storage[item].flags THEN "returned" ELSE "written"

Items ==
    LET live == Live IN
    [i \in DOMAIN live |-> [len |-> storage[live[i]].len, stage |-> Stage(live[i])]]

Queue == INSTANCE RingQueue WITH queue <- Items, Lengths <- ItemLengths

\* Every offset stays where a header fits, and every item in use is one of the ring's.
RingTypeOK ==
    /\ ring \in [acquire : Offsets, write : Offsets, read : Offsets, free : Offsets,
                 waiting : 0 .. RingUnits, full : BOOLEAN]
    /\ storage \in [Offsets -> Headers]
    /\ writing \cup held \subseteq Range(Live)

\* The bytes of the items in use, their headers among them: none reaches over the end of the storage,
\* and no byte belongs to two.
ItemsApart ==
    LET live == Live
        bytes(i) == live[i] .. live[i] + StoredSize(storage[live[i]].len) - 1
    IN \A i \in DOMAIN live :
        bytes(i) \subseteq Offsets /\ \A j \in 1 .. i - 1 : bytes(i) \cap bytes(j) = {}

\* The four offsets, the full flag and the headers implement the queue of RingQueue: no item is
\* overwritten before it and all before it are returned, none is handed out before it is filled,
\* out of order or twice, and none is lost, whatever the stale bytes look like.
KeepsQueue == Queue!QueueSpec

\* take() sees the oldest item not taken as soon as it is filled: no completed item is stranded
\* behind a wrap, or behind one completed out of order.
NothingStranded ==
    LET items == Items IN
    (\E i \in DOMAIN items :
        /\ items[i].stage = "written"
        /\ \A j \in 1 .. i - 1 : items[j].stage \in {"taken", "returned"}) => ItemAvailable

=============================================================================
