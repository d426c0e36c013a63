---------------------------- MODULE Inbound_proofs ----------------------------
(***************************************************************************)
(* Proofs about the inbound path at its three levels, for every value of   *)
(* the bounds: one connection's messages, the items of the ring, and the   *)
(* storage they lie in.                                                    *)
(***************************************************************************)
EXTENDS MCInbound, FiniteSetTheorems, SequenceTheorems, WellFoundedInduction, TLAPS
-----------------------------------------------------------------------------
(* Lists *)

LEMMA Appended ==
    ASSUME NEW S, NEW q \in Seq(S), NEW x \in S
    PROVE  /\ Append(q, x) \in Seq(S) /\ Len(q) \in Nat
           /\ DOMAIN q = 1 .. Len(q) /\ DOMAIN Append(q, x) = 1 .. Len(q) + 1
           /\ Len(Append(q, x)) = Len(q) + 1
           /\ \A i \in 1 .. Len(q) : Append(q, x)[i] = q[i]
           /\ Append(q, x)[Len(q) + 1] = x
  OBVIOUS

LEMMA Popped ==
    ASSUME NEW S, NEW q \in Seq(S), q # <<>>
    PROVE  /\ Tail(q) \in Seq(S) /\ Len(q) \in Nat \ {0} /\ Len(Tail(q)) = Len(q) - 1
           /\ DOMAIN q = 1 .. Len(q) /\ DOMAIN Tail(q) = 1 .. Len(q) - 1
           /\ \A i \in 1 .. Len(q) - 1 : Tail(q)[i] = q[i + 1]
           /\ Head(q) = q[1] /\ Head(q) \in S
  OBVIOUS

LEMMA Listed ==
    ASSUME NEW S, NEW n \in Nat, NEW f \in [1 .. n -> S]
    PROVE  f \in Seq(S) /\ Len(f) = n
  OBVIOUS
-----------------------------------------------------------------------------
(* The messages of a connection: the inductive invariant *)

\* What the transport does before a message reaches the ring, and everywhere else.
Routing == {"route", "open", "judge", "toBuffer", "toRing", "receive", "publish", "raise"}
Stations == Routing \cup {"read", "acquire", "fill", "uncount", "closing", "gone"}

Entries == [from : {"conn", "other"}, n : 0 .. MaxMessages, state : {"writing", "done", "discard"}]

\* The connection's items, and the messages among them
Ours == {i \in DOMAIN shared : shared[i].from = "conn"}
OnRing == {shared[i].n : i \in {j \in Ours : shared[j].state # "discard"}}

GateTyped ==
    /\ GateTypeOK /\ shared \in Seq(Entries)
    /\ transport \in [pc : Stations, n : 0 .. MaxMessages, size : Sizes, frag : BOOLEAN,
                      parked : BOOLEAN]
    /\ receiver.pc \in {"wait", "pending", "process", "consume", "setBit", "ring", "loss"}
    /\ DOMAIN receiver = {"pc", "taken", "closedRead"}

\* The connection's items rise, and only the last may be in the transport's hand.
Rising ==
    /\ \A i, j \in Ours : i < j => shared[i].n < shared[j].n
    /\ \A i \in Ours :
         /\ shared[i].n <= transport.n /\ shared[i].n > 0
         /\ transport.pc \in Routing \cup {"acquire"} => shared[i].n < transport.n
         /\ shared[i].state = "writing" => transport.pc = "fill" /\ shared[i].n = transport.n
         /\ shared[i].state = "discard" => transport.pc \in {"uncount", "closing", "gone"}
                                             /\ shared[i].n = transport.n
    /\ transport.pc = "fill" => \E i \in Ours : shared[i].state = "writing"

Underway == IF transport.pc \in {"acquire", "uncount"} THEN 1 ELSE 0

\* The count is of what lies on the ring and what the transport has announced; a connection that is
\* gone leaves the rest uncounted.
Counting ==
    /\ gate.inFlight >= Cardinality(OnRing) + Underway
    /\ lost = "no" => gate.inFlight = Cardinality(OnRing) + Underway
    /\ gate.inFlight <= transport.n
    /\ transport.pc \in Routing => gate.inFlight < transport.n

\* The buffer belongs to the transport or, once it is published, to the protocol task.
Exclusive ==
    /\ receiver.pc \in {"process", "consume"} => gate.pending
    /\ gate.pending => transport.pc \in {"read", "route", "open", "judge", "toBuffer", "toRing",
                                         "closing", "gone"}
    /\ transport.parked => transport.pc \in Waits
    /\ receiver.closedRead => gate.closed
    /\ gate.closed => transport.pc = "gone"
    /\ lost # "no" => gate.detached
    /\ lost = "closed" => gate.closed
    /\ receiver.pc = "process" => OnRing = {}

\* The newest message on the ring
Newest ==
    IF transport.pc = "fill" THEN transport.n ELSE IF gate.pending THEN sent - 1 ELSE sent

\* Behind the last message processed come those on the ring, without a gap, then the buffered one.
Numbered ==
    ~gate.detached =>
      /\ OnRing = (last + 1) .. Newest /\ last <= sent
      /\ transport.pc = "read" => sent = transport.n
      /\ transport.pc \in Routing \cup {"acquire", "fill", "uncount"} => sent = transport.n - 1
      /\ sent \in {transport.n - 1, transport.n}
      /\ transport.pc \in {"receive", "publish", "raise"} => buffer = transport.n
      /\ gate.pending => buffer = sent /\ (receiver.pc = "consume" \/ last < sent)
      /\ receiver.pc = "process" => last = sent - 1
      /\ receiver.pc = "consume" => last = sent

\* The server/activate comes first and is what admits.
Activated ==
    ~gate.detached =>
      /\ last > 0 => gate.admitted
      /\ OnRing # {} \/ transport.pc \in {"toRing", "acquire", "fill", "uncount"} => gate.admitted

GateIInv ==
    /\ GateTyped /\ Rising /\ Counting /\ Exclusive /\ Numbered /\ Activated /\ CloseComesLast
-----------------------------------------------------------------------------
(* The messages of a connection: each step *)

LEMMA GateFacts ==
    ASSUME GateIInv
    PROVE  /\ MaxMessages \in Nat /\ MAX_ITEMS_PER_TICK \in Nat \ {0}
           /\ gate \in [admitted : BOOLEAN, pending : BOOLEAN, consumed : BOOLEAN,
                        inFlight : 0 .. MaxMessages, closed : BOOLEAN, detached : BOOLEAN]
           /\ buffer \in 0 .. MaxMessages /\ sent \in 0 .. MaxMessages /\ last \in 0 .. MaxMessages
           /\ receiver.closedRead \in BOOLEAN /\ wake \in BOOLEAN
           /\ lost \in {"no", "closed", "detached"}
           /\ shared \in Seq(Entries) /\ DOMAIN shared = 1 .. Len(shared) /\ Len(shared) \in Nat
           /\ \A i \in DOMAIN shared : shared[i] \in Entries
           /\ transport \in [pc : Stations, n : 0 .. MaxMessages, size : Sizes, frag : BOOLEAN,
                             parked : BOOLEAN]
           /\ OnRing \subseteq 0 .. MaxMessages /\ IsFiniteSet(OnRing)
           /\ Cardinality(OnRing) \in Nat
  <1>1. /\ shared \in Seq(Entries) /\ DOMAIN shared = 1 .. Len(shared) /\ Len(shared) \in Nat
        /\ \A i \in DOMAIN shared : shared[i] \in Entries
    BY DEF GateIInv, GateTyped
  <1>2. MaxMessages \in Nat /\ MAX_ITEMS_PER_TICK \in Nat \ {0}
    BY GateAssumption
  <1>3. OnRing \subseteq 0 .. MaxMessages
    BY <1>1 DEF OnRing, Ours, Entries
  <1>4. IsFiniteSet(0 .. MaxMessages)
    BY <1>2, FS_Interval
  <1>5. IsFiniteSet(OnRing) /\ Cardinality(OnRing) \in Nat
    BY <1>3, <1>4, FS_Subset, FS_CardinalityType
  <1> QED BY <1>1, <1>2, <1>3, <1>5 DEF GateIInv, GateTyped, GateTypeOK

LEMMA SameRing ==
    ASSUME shared' = shared
    PROVE  Ours' = Ours /\ OnRing' = OnRing /\ Cardinality(OnRing)' = Cardinality(OnRing)
  BY DEF Ours, OnRing

LEMMA TransportGoes ==
    ASSUME GateIInv, NEW pc \in Stations, TransportAt(pc)
    PROVE  /\ transport' \in [pc : Stations, n : 0 .. MaxMessages, size : Sizes, frag : BOOLEAN,
                              parked : BOOLEAN]
           /\ transport'.pc = pc /\ transport'.n = transport.n /\ ~transport'.parked
  BY GateFacts DEF TransportAt, Sizes

LEMMA TickGoes ==
    ASSUME GateIInv, NEW pc, TickAt(pc)
    PROVE  /\ receiver'.pc = pc /\ receiver'.closedRead = receiver.closedRead
           /\ DOMAIN receiver' = {"pc", "taken", "closedRead"}
  BY DEF TickAt, GateIInv, GateTyped

\* A step of the transport that touches neither the ring nor the buffer
LEMMA TransportOnly ==
    ASSUME GateIInv, NEW pc \in Stations, TransportAt(pc), wake' \in BOOLEAN,
           UNCHANGED <<gate, buffer, shared, sent, receiver, last, lost>>,
           \/ transport.pc \in Routing /\ pc \in Routing \ {"receive", "publish", "raise"}
           \/ transport.pc \in Routing /\ pc = "read" /\ gate.detached
           \/ transport.pc = "receive" /\ pc \in {"closing", "publish"},
           pc = "toRing" /\ ~gate.detached => gate.admitted
    PROVE  GateIInv'
  <1> USE DEF Routing
  <1>1. /\ Ours' = Ours /\ OnRing' = OnRing /\ Cardinality(OnRing)' = Cardinality(OnRing)
        /\ transport'.n = transport.n /\ transport'.pc = pc /\ ~transport'.parked
    BY SameRing, TransportGoes
  <1>2. GateTyped'
    BY TransportGoes DEF GateIInv, GateTyped, GateTypeOK
  <1>3. Rising'
    BY <1>1 DEF GateIInv, Rising
  <1>4. Counting'
    BY <1>1 DEF GateIInv, Counting, Underway
  <1>5. Exclusive'
    BY <1>1 DEF GateIInv, Exclusive
  <1>6. Numbered' /\ Activated'
    BY <1>1 DEF GateIInv, Exclusive, Numbered, Newest, Activated
  <1>7. CloseComesLast'
    BY <1>1 DEF GateIInv, CloseComesLast
  <1> QED BY <1>2, <1>3, <1>4, <1>5, <1>6, <1>7 DEF GateIInv

\* The connection is closed under a transport that has nothing on the ring in hand.
LEMMA FailInboundStep ==
    ASSUME GateIInv, FailInbound, transport.pc \in Routing \/ transport.parked,
           UNCHANGED <<buffer, shared, sent, receiver, last, lost>>
    PROVE  GateIInv'
  <1> USE DEF Routing
  <1>1. transport.pc \in Routing
    BY DEF GateIInv, Exclusive, Waits
  <1>2. /\ Ours' = Ours /\ OnRing' = OnRing /\ Cardinality(OnRing)' = Cardinality(OnRing)
        /\ transport'.n = transport.n /\ transport'.pc = "closing" /\ gate' = Detached
        /\ ~transport'.parked /\ gate'.detached /\ gate'.pending = gate.pending
             /\ gate'.inFlight = gate.inFlight
        /\ gate'.closed = gate.closed
    BY SameRing, TransportGoes, GateFacts DEF FailInbound, Detached, Stations
  <1>3. GateTyped'
    <2>1. TransportAt("closing") /\ "closing" \in Stations /\ wake' = TRUE
      BY DEF FailInbound, Stations
    <2>2. gate' \in [admitted : BOOLEAN, pending : BOOLEAN, consumed : BOOLEAN,
                     inFlight : 0 .. MaxMessages, closed : BOOLEAN, detached : BOOLEAN]
      BY <1>2, GateFacts DEF Detached
    <2> QED BY <2>1, <2>2, GateFacts, TransportGoes DEF GateIInv, GateTyped, GateTypeOK
  <1>4. Rising'
    BY <1>1, <1>2 DEF GateIInv, Rising
  <1>5. Counting'
    BY <1>1, <1>2 DEF GateIInv, Counting, Underway
  <1>6. Exclusive'
    BY <1>1, <1>2 DEF GateIInv, Exclusive
  <1>7. Numbered' /\ Activated' /\ CloseComesLast'
    BY <1>2 DEF GateIInv, Numbered, Activated, CloseComesLast
  <1> QED BY <1>3, <1>4, <1>5, <1>6, <1>7 DEF GateIInv

LEMMA ReadStep ==
    ASSUME GateIInv, ReadMessage PROVE GateIInv'
  <1> USE DEF Routing
  <1>1. /\ transport.pc = "read" /\ transport.n < MaxMessages /\ ~gate.closed /\ ~gate.detached
        /\ UNCHANGED <<gate, buffer, shared, sent, receiver, wake, last, lost>>
    BY DEF ReadMessage
  <1>2. PICK size \in Sizes, frag \in BOOLEAN :
           transport' = [transport EXCEPT !.pc = IF frag THEN "open" ELSE "route", !.n = @ + 1,
                                          !.size = size, !.frag = frag]
    BY DEF ReadMessage
  <1>3. /\ transport'.pc \in {"open", "route"} /\ transport'.n = transport.n + 1
        /\ transport'.parked = transport.parked
        /\ transport' \in [pc : Stations, n : 0 .. MaxMessages, size : Sizes, frag : BOOLEAN,
                           parked : BOOLEAN]
    <2>1. \E pc \in Stations \cap {"open", "route"} :
             transport' = [transport EXCEPT !.pc = pc, !.n = @ + 1, !.size = size, !.frag = frag]
      BY <1>2 DEF Stations
    <2>2. transport.n + 1 \in 0 .. MaxMessages
      BY <1>1, GateFacts
    <2> QED BY <2>1, <2>2, GateFacts
  <1>4. Ours' = Ours /\ OnRing' = OnRing /\ Cardinality(OnRing)' = Cardinality(OnRing)
    BY <1>1, SameRing
  <1>5. GateTyped'
    BY <1>1, <1>3 DEF GateIInv, GateTyped, GateTypeOK
  <1>6. Rising'
    <2>1. \A i \in Ours : shared[i] \in Entries /\ shared[i].n \in Nat
      BY GateFacts DEF Ours, Entries
    <2> QED BY <1>1, <1>3, <1>4, <2>1, GateFacts DEF GateIInv, Rising
  <1>7. Counting'
    BY <1>1, <1>3, <1>4, GateFacts DEF GateIInv, Counting, Underway
  <1>8. Exclusive' /\ CloseComesLast'
    BY <1>1, <1>3, <1>4 DEF GateIInv, Exclusive, CloseComesLast, Waits
  <1>9. Numbered' /\ Activated'
    BY <1>1, <1>3, <1>4, GateFacts, SMTT(30) DEF GateIInv, Numbered, Newest, Activated
  <1> QED BY <1>5, <1>6, <1>7, <1>8, <1>9 DEF GateIInv

LEMMA RouteStep ==
    ASSUME GateIInv, Route PROVE GateIInv'
  <1>1. transport.pc = "route" /\ UNCHANGED <<buffer, shared, sent, receiver, last, lost>>
    BY DEF Route
  <1>2. UNCHANGED <<gate, wake>>
    BY DEF Route, Drop
  <1>3. PICK pc : TransportAt(pc) /\ \/ pc = "read" /\ gate.detached
                                     \/ pc = "toRing" /\ gate.admitted
                                     \/ pc \in {"toBuffer", "judge"}
    BY DEF Route, Drop, RouteAdmitted
  <1>4. pc \in Stations /\ wake' \in BOOLEAN
    BY <1>2, <1>3, GateFacts DEF Stations, Routing
  <1> QED BY <1>1, <1>2, <1>3, <1>4, TransportOnly DEF Routing

\* The buffer is the transport's, or a place on the ring is announced.
LEMMA CheckWritableStep ==
    ASSUME GateIInv, CheckWritable PROVE GateIInv'
  <1> USE DEF Routing
  <1>1. /\ transport.pc \in Waits /\ ~transport.parked
        /\ UNCHANGED <<shared, sent, receiver, last, lost>>
    BY DEF CheckWritable
  <1>2. Ours' = Ours /\ OnRing' = OnRing /\ Cardinality(OnRing)' = Cardinality(OnRing)
    BY <1>1, SameRing
  <1>3. CASE ~MayWrite /\ gate.detached
    <2>1. TransportAt("read") /\ UNCHANGED <<gate, wake, buffer>>
      BY <1>3 DEF CheckWritable, Drop
    <2> QED BY <1>1, <1>3, <2>1, GateFacts, TransportOnly DEF Waits, Stations
  <1>4. CASE ~MayWrite /\ ~gate.detached
    <2>1. transport' = [transport EXCEPT !.parked = TRUE] /\ UNCHANGED <<gate, wake, buffer>>
      BY <1>4 DEF CheckWritable
    <2>2. /\ transport'.pc = transport.pc /\ transport'.n = transport.n
          /\ transport' \in [pc : Stations, n : 0 .. MaxMessages, size : Sizes, frag : BOOLEAN,
                             parked : BOOLEAN]
      BY <2>1, GateFacts
    <2>3. GateTyped'
      BY <1>1, <2>1, <2>2 DEF GateIInv, GateTyped, GateTypeOK
    <2> QED BY <1>1, <1>2, <2>1, <2>2, <2>3 DEF GateIInv, Rising, Counting, Underway, Exclusive,
              Numbered, Newest, Activated, CloseComesLast
  <1>5. CASE MayWrite
    <2>1. Writable /\ ~gate.pending
      BY <1>5 DEF CheckWritable, MayWrite
    <2>2. CASE transport.pc \in {"open", "toBuffer"}
      <3>1. PICK pc \in {"publish", "receive"} : TransportAt(pc) /\ buffer' = transport.n
                   /\ UNCHANGED <<gate, wake>>
        BY <2>1, <2>2 DEF Writable
      <3>2. pc \in Stations
        BY DEF Stations
      <3>3. transport'.pc = pc /\ transport'.n = transport.n /\ ~transport'.parked
        BY <3>1, <3>2, TransportGoes
      <3>4. GateTyped'
        BY <1>1, <3>1, <3>2, GateFacts, TransportGoes DEF GateIInv, GateTyped, GateTypeOK
      <3> QED BY <1>1, <1>2, <2>1, <2>2, <3>1, <3>3, <3>4 DEF GateIInv, Rising, Counting,
                 Underway, Exclusive,
              Numbered, Newest, Activated, CloseComesLast
    <2>3. CASE transport.pc = "judge"
      <3>1. \/ FailInbound /\ UNCHANGED buffer
            \/ RouteAdmitted /\ gate.admitted /\ UNCHANGED <<gate, wake, buffer>>
        BY <2>1, <2>3 DEF Writable
      <3>2. CASE FailInbound /\ UNCHANGED buffer
        BY <1>1, <2>3, <3>2, FailInboundStep
      <3>3. CASE RouteAdmitted /\ gate.admitted /\ UNCHANGED <<gate, wake, buffer>>
        <4>1. PICK pc \in {"toRing", "toBuffer"} : TransportAt(pc)
          BY <3>3 DEF RouteAdmitted
        <4> QED BY <1>1, <2>3, <3>3, <4>1, GateFacts, TransportOnly DEF Stations
      <3> QED BY <3>1, <3>2, <3>3
    <2>4. CASE transport.pc = "toRing"
      <3>1. /\ TransportAt("acquire") /\ gate' = [gate EXCEPT !.inFlight = @ + 1]
            /\ UNCHANGED <<wake, buffer>>
        BY <2>1, <2>4 DEF Writable
      <3>2. gate.inFlight < transport.n /\ gate.inFlight \in Nat /\ transport.n \in 0 .. MaxMessages
        BY <2>4, GateFacts DEF GateIInv, Counting
      <3>3. /\ transport'.pc = "acquire" /\ transport'.n = transport.n /\ ~transport'.parked
            /\ gate'.inFlight = gate.inFlight + 1 /\ gate'.pending = gate.pending
            /\ gate'.detached = gate.detached /\ gate'.closed = gate.closed
            /\ gate'.admitted = gate.admitted
        BY <3>1, GateFacts, TransportGoes DEF Stations
      <3>4. GateTyped'
        <4>1. gate' \in [admitted : BOOLEAN, pending : BOOLEAN, consumed : BOOLEAN,
                         inFlight : 0 .. MaxMessages, closed : BOOLEAN, detached : BOOLEAN]
          BY <3>1, <3>2, GateFacts, SMTT(30)
        <4> QED BY <1>1, <3>1, <4>1, GateFacts, TransportGoes DEF GateIInv, GateTyped,
                   GateTypeOK, Stations
      <3>5. Rising'
        BY <1>1, <1>2, <2>4, <3>3 DEF GateIInv, Rising
      <3>6. Counting'
        BY <1>1, <1>2, <2>4, <3>2, <3>3, GateFacts DEF GateIInv, Counting, Underway
      <3>7. Exclusive' /\ CloseComesLast'
        BY <1>1, <1>2, <2>1, <2>4, <3>3 DEF GateIInv, Exclusive, CloseComesLast
      <3>8. Numbered' /\ Activated'
        BY <1>1, <1>2, <2>4, <3>1, <3>3 DEF GateIInv, Numbered, Newest, Activated
      <3> QED BY <3>4, <3>5, <3>6, <3>7, <3>8 DEF GateIInv
    <2> QED BY <1>1, <2>2, <2>3, <2>4 DEF Waits
  <1> QED BY <1>3, <1>4, <1>5

LEMMA WakeParkedStep ==
    ASSUME GateIInv, WakeParked PROVE GateIInv'
  <1>1. /\ gate' = [gate EXCEPT !.consumed = FALSE]
             /\ transport' = [transport EXCEPT !.parked = FALSE]
        /\ UNCHANGED <<buffer, shared, sent, receiver, wake, last, lost>>
    BY DEF WakeParked
  <1>2. Ours' = Ours /\ OnRing' = OnRing /\ Cardinality(OnRing)' = Cardinality(OnRing)
    BY <1>1, SameRing
  <1>3. /\ transport'.pc = transport.pc /\ transport'.n = transport.n /\ ~transport'.parked
        /\ transport' \in [pc : Stations, n : 0 .. MaxMessages, size : Sizes, frag : BOOLEAN,
                           parked : BOOLEAN]
        /\ gate'.pending = gate.pending /\ gate'.inFlight = gate.inFlight
        /\ gate'.detached = gate.detached /\ gate'.closed = gate.closed
        /\ gate'.admitted = gate.admitted
        /\ gate' \in [admitted : BOOLEAN, pending : BOOLEAN, consumed : BOOLEAN,
                      inFlight : 0 .. MaxMessages, closed : BOOLEAN, detached : BOOLEAN]
    BY <1>1, GateFacts
  <1>4. GateTyped'
    BY <1>1, <1>3 DEF GateIInv, GateTyped, GateTypeOK
  <1> QED BY <1>1, <1>2, <1>3, <1>4 DEF GateIInv, Rising, Counting, Underway, Exclusive,
              Numbered, Newest, Activated, CloseComesLast

\* The item goes behind all others and carries the newest number.
LEMMA AcquireStep ==
    ASSUME GateIInv, AcquireForMessage PROVE GateIInv'
  <1> DEFINE entry == [from |-> "conn", n |-> transport.n, state |-> "writing"]
             place == Len(shared) + 1
  <1>1. transport.pc = "acquire" /\ UNCHANGED <<buffer, sent, receiver, last, lost>>
    BY DEF AcquireForMessage
  <1>2. transport.n \in 0 .. MaxMessages /\ entry \in Entries
    BY GateFacts DEF Entries
  <1>3. CASE shared' = Append(shared, entry) /\ TransportAt("fill") /\ UNCHANGED <<gate, wake>>
    <2>1. /\ shared' \in Seq(Entries) /\ DOMAIN shared = 1 .. Len(shared)
          /\ DOMAIN shared' = 1 .. place /\ Len(shared) \in Nat /\ shared'[place] = entry
          /\ \A i \in 1 .. Len(shared) : shared'[i] = shared[i]
      BY <1>2, <1>3, GateFacts, Appended
    <2>2. place \notin DOMAIN shared /\ place \in Nat /\ DOMAIN shared' = DOMAIN shared \cup {place}
      BY <2>1
    <2> HIDE DEF place
    <2>3. Ours' = Ours \cup {place} /\ Ours \subseteq DOMAIN shared
      <3> HIDE DEF entry
      <3>1. entry.from = "conn"
        BY DEF entry
      <3> QED BY <2>1, <2>2, <3>1 DEF Ours
    <2>4. transport'.pc = "fill" /\ transport'.n = transport.n /\ ~transport'.parked
      BY <1>3, TransportGoes DEF Stations
    <2>5. \A i \in Ours : shared'[i] = shared[i] /\ shared[i].n < transport.n /\ i < place
                            /\ shared[i].state = "done" /\ shared[i].n > 0
      <3>1. \A i \in Ours : shared[i].state \in {"writing", "done", "discard"}
        BY <2>3, GateFacts DEF Entries
      <3>2. \A i \in Ours : i < place
        BY <2>1, <2>3 DEF place
      <3> QED BY <1>1, <2>1, <2>3, <3>1, <3>2 DEF GateIInv, Rising
    <2>6. /\ OnRing' = OnRing \cup {transport.n} /\ transport.n \notin OnRing
          /\ Cardinality(OnRing') = Cardinality(OnRing) + 1
      <3>1. OnRing = {shared[i].n : i \in Ours} /\ OnRing' = {shared'[i].n : i \in Ours'}
        BY <2>1, <2>3, <2>5 DEF OnRing
      <3>2. OnRing' = OnRing \cup {transport.n} /\ transport.n \notin OnRing
        BY <1>2, <2>1, <2>3, <2>5, <3>1
      <3> QED BY <3>2, GateFacts, FS_AddElement
    <2>7. GateTyped'
      BY <1>1, <1>3, <2>1, TransportGoes DEF GateIInv, GateTyped, GateTypeOK, Stations
    <2>8. Rising'
      <3>1. transport.n > 0
        BY <1>1, <1>2, GateFacts DEF GateIInv, Counting, Underway
      <3> HIDE DEF entry
      <3>2. entry.n = transport.n /\ entry.state = "writing" /\ shared'[place] = entry
        BY <2>1 DEF entry
      <3>3. \A i, j \in Ours' : i < j => shared'[i].n < shared'[j].n
        <4>1. \A i \in Ours : i \in Nat
          BY <2>1, <2>3
        <4> QED BY <2>2, <2>3, <2>5, <3>2, <4>1 DEF GateIInv, Rising
      <3>4. \A i \in Ours' : shared'[i].n <= transport.n /\ shared'[i].n > 0
        BY <1>2, <2>3, <2>5, <3>1, <3>2, GateFacts DEF GateIInv, Rising
      <3> QED BY <2>3, <2>4, <2>5, <3>2, <3>3, <3>4 DEF Rising, Routing
    <2>9. Counting'
      BY <1>1, <1>3, <2>4, <2>6, GateFacts DEF GateIInv, Counting, Underway, Routing
    <2>10. Exclusive' /\ CloseComesLast'
      BY <1>1, <1>3, <2>4 DEF GateIInv, Exclusive, CloseComesLast
    <2>11. Numbered' /\ Activated'
      <3>1. ~gate.detached => OnRing = (last + 1) .. sent /\ sent = transport.n - 1 /\ last <= sent
                                /\ gate.admitted /\ ~gate.pending
        BY <1>1 DEF GateIInv, Numbered, Newest, Exclusive, Activated
      <3>2. ~gate.detached => OnRing' = (last + 1) .. transport.n
        BY <1>2, <2>6, <3>1, GateFacts
      <3>3. Newest' = transport.n
        BY <2>4 DEF Newest
      <3> QED BY <1>1, <1>3, <2>4, <3>1, <3>2, <3>3, GateFacts
              DEF GateIInv, Exclusive, Numbered, Activated, Routing
    <2> QED BY <2>7, <2>8, <2>9, <2>10, <2>11 DEF GateIInv
  <1>4. CASE /\ gate' = [Detached EXCEPT !.inFlight = @ - 1] /\ wake' = TRUE
             /\ TransportAt("closing") /\ UNCHANGED shared
    <2>1. gate.inFlight \in 1 .. MaxMessages /\ gate.inFlight - 1 >= Cardinality(OnRing)
      BY <1>1, GateFacts DEF GateIInv, Counting, Underway
    <2>2. /\ gate' \in [admitted : BOOLEAN, pending : BOOLEAN, consumed : BOOLEAN,
                        inFlight : 0 .. MaxMessages, closed : BOOLEAN, detached : BOOLEAN]
          /\ gate'.inFlight = gate.inFlight - 1 /\ gate'.detached /\ gate'.pending = gate.pending
          /\ gate'.closed = gate.closed
      <3>1. PICK k \in 0 .. MaxMessages : k = gate.inFlight - 1
        BY <2>1, GateFacts
      <3>2. gate' = [gate EXCEPT !.detached = TRUE, !.consumed = TRUE, !.inFlight = k]
        BY <1>4, <3>1, GateFacts DEF Detached
      <3> QED BY <3>1, <3>2, GateFacts
    <2>3. transport'.pc = "closing" /\ transport'.n = transport.n /\ ~transport'.parked
      BY <1>4, TransportGoes DEF Stations
    <2>4. Ours' = Ours /\ OnRing' = OnRing /\ Cardinality(OnRing)' = Cardinality(OnRing)
      BY <1>4, SameRing
    <2>5. GateTyped'
      BY <1>1, <1>4, <2>2, TransportGoes DEF GateIInv, GateTyped, GateTypeOK, Stations
    <2>6. Rising'
      BY <1>1, <1>4, <2>3, <2>4 DEF GateIInv, Rising, Routing
    <2>7. Counting'
      BY <1>1, <1>2, <2>1, <2>2, <2>3, <2>4, GateFacts DEF GateIInv, Counting, Underway, Routing
    <2>8. Exclusive'
      BY <1>1, <2>2, <2>3, <2>4 DEF GateIInv, Exclusive
    <2>9. Numbered' /\ Activated' /\ CloseComesLast'
      BY <1>1, <1>4, <2>2 DEF GateIInv, Numbered, Activated, CloseComesLast
    <2> QED BY <2>5, <2>6, <2>7, <2>8, <2>9 DEF GateIInv
  <1> QED BY <1>3, <1>4 DEF AcquireForMessage

LEMMA UncountStep ==
    ASSUME GateIInv, UncountDiscard PROVE GateIInv'
  <1>1. /\ transport.pc = "uncount" /\ gate' = [gate EXCEPT !.inFlight = @ - 1] /\ wake' = TRUE
        /\ TransportAt("closing") /\ UNCHANGED <<buffer, shared, sent, receiver, last, lost>>
    BY DEF UncountDiscard
  <1>2. gate.inFlight \in 1 .. MaxMessages /\ gate.inFlight - 1 >= Cardinality(OnRing)
    BY <1>1, GateFacts DEF GateIInv, Counting, Underway
  <1>3. /\ gate' \in [admitted : BOOLEAN, pending : BOOLEAN, consumed : BOOLEAN,
                      inFlight : 0 .. MaxMessages, closed : BOOLEAN, detached : BOOLEAN]
        /\ gate'.inFlight = gate.inFlight - 1 /\ gate'.detached = gate.detached
        /\ gate'.pending = gate.pending /\ gate'.closed = gate.closed
        /\ gate'.admitted = gate.admitted
    <2>1. PICK k \in 0 .. MaxMessages : k = gate.inFlight - 1
      BY <1>2, GateFacts
    <2>2. gate' = [gate EXCEPT !.inFlight = k]
      BY <1>1, <2>1
    <2> QED BY <2>1, <2>2, GateFacts
  <1>4. transport'.pc = "closing" /\ transport'.n = transport.n /\ ~transport'.parked
    BY <1>1, TransportGoes DEF Stations
  <1>5. Ours' = Ours /\ OnRing' = OnRing /\ Cardinality(OnRing)' = Cardinality(OnRing)
    BY <1>1, SameRing
  <1>6. GateTyped'
    BY <1>1, <1>3, TransportGoes DEF GateIInv, GateTyped, GateTypeOK, Stations
  <1>7. Rising'
    BY <1>1, <1>4, <1>5 DEF GateIInv, Rising, Routing
  <1>8. Counting'
    BY <1>1, <1>2, <1>3, <1>4, <1>5, GateFacts DEF GateIInv, Counting, Underway, Routing
  <1>9. Exclusive' /\ CloseComesLast'
    BY <1>1, <1>3, <1>4, <1>5 DEF GateIInv, Exclusive, CloseComesLast
  <1>10. Numbered' /\ Activated'
    BY <1>1, <1>3, <1>4, <1>5 DEF GateIInv, Exclusive, Numbered, Newest, Activated, Routing
  <1> QED BY <1>6, <1>7, <1>8, <1>9, <1>10 DEF GateIInv

\* The states of one party's item in progress change, and nothing else on the ring.
LEMMA CompletedList ==
    ASSUME GateIInv, NEW who \in {"conn", "other"}, NEW state \in {"done", "discard"},
           shared' = Completed(who, state)
    PROVE  /\ shared' \in Seq(Entries) /\ DOMAIN shared' = DOMAIN shared
           /\ \A i \in DOMAIN shared :
                /\ shared'[i].from = shared[i].from /\ shared'[i].n = shared[i].n
                /\ shared'[i].state = IF shared[i].from = who /\ shared[i].state = "writing"
                                      THEN state ELSE shared[i].state
           /\ Ours' = Ours
  <1> DEFINE entry(i) == IF shared[i].from = who /\ shared[i].state = "writing"
                         THEN [shared[i] EXCEPT !.state = state] ELSE shared[i]
  <1>1. DOMAIN shared = 1 .. Len(shared) /\ Len(shared) \in Nat
    BY GateFacts
  <1>2. shared' = [i \in 1 .. Len(shared) |-> entry(i)]
    BY <1>1 DEF Completed
  <1>3. ASSUME NEW i \in DOMAIN shared
        PROVE  /\ entry(i) \in Entries /\ entry(i).from = shared[i].from /\ entry(i).n = shared[i].n
               /\ entry(i).state = IF shared[i].from = who /\ shared[i].state = "writing"
                                   THEN state ELSE shared[i].state
    <2>1. shared[i] \in Entries
      BY GateFacts
    <2> QED BY <2>1 DEF Entries
  <1> HIDE DEF entry
  <1>4. shared' \in [1 .. Len(shared) -> Entries]
    BY <1>1, <1>2, <1>3
  <1>5. shared' \in Seq(Entries) /\ DOMAIN shared' = DOMAIN shared
    BY <1>1, <1>4, Listed
  <1>6. Ours' = Ours
    BY <1>1, <1>2, <1>3, <1>5 DEF Ours
  <1> QED BY <1>1, <1>2, <1>3, <1>5, <1>6

LEMMA FillStep ==
    ASSUME GateIInv, FillForMessage PROVE GateIInv'
  <1>1. transport.pc = "fill" /\ UNCHANGED <<gate, buffer, receiver, last, lost>>
    BY DEF FillForMessage
  <1>2. PICK mine \in Ours : shared[mine].state = "writing"
    BY <1>1 DEF GateIInv, Rising
  <1>3. /\ shared[mine].n = transport.n /\ transport.n \in 1 .. MaxMessages
        /\ \A i \in Ours : i # mine => shared[i].state = "done" /\ shared[i].n # transport.n
    <2>1. \A i \in Ours : shared[i].state \in {"writing", "done", "discard"} /\ i \in Nat
      BY GateFacts DEF Ours, Entries
    <2>2. \A i, j \in Ours : i < j => shared[i].n < shared[j].n
      BY DEF GateIInv, Rising
    <2>3. \A i \in Ours : shared[i].state # "discard"
                            /\ (shared[i].state = "writing" => shared[i].n = transport.n)
      BY <1>1 DEF GateIInv, Rising
    <2>4. \A i \in Ours : shared[i].n <= transport.n /\ shared[i].n > 0
      BY DEF GateIInv, Rising
    <2>5. \A i \in Ours : shared[i].n \in Nat
      BY GateFacts DEF Ours, Entries
    <2>6. ASSUME NEW i \in Ours, i # mine PROVE shared[i].n # transport.n
      <3>1. i < mine \/ mine < i
        BY <2>1, <2>6
      <3>2. shared[mine].n = transport.n
        BY <1>2, <2>3
      <3> QED BY <2>2, <2>5, <3>1, <3>2
    <2> QED BY <1>2, <2>1, <2>3, <2>4, <2>6, GateFacts
  <1>4. \A i \in Ours : i \in DOMAIN shared /\ shared[i].from = "conn"
    BY DEF Ours
  <1>5. transport.n \in OnRing
    BY <1>2, <1>3, <1>4 DEF OnRing
  <1>6. CASE /\ shared' = Completed("conn", "done") /\ sent' = transport.n /\ wake' = TRUE
             /\ TransportAt("read")
    <2>1. /\ shared' \in Seq(Entries) /\ Ours' = Ours
          /\ \A i \in Ours : shared'[i].n = shared[i].n /\ shared'[i].state = "done"
      BY <1>2, <1>3, <1>4, <1>6, CompletedList
    <2>2. transport'.pc = "read" /\ transport'.n = transport.n /\ ~transport'.parked
      BY <1>6, TransportGoes DEF Stations
    <2>3. OnRing' = OnRing /\ Cardinality(OnRing') = Cardinality(OnRing)
      <3>1. OnRing = {shared[i].n : i \in Ours}
        BY <1>2, <1>3 DEF OnRing
      <3>2. OnRing' = {shared'[i].n : i \in Ours}
        BY <2>1 DEF OnRing
      <3> QED BY <2>1, <3>1, <3>2
    <2>4. GateTyped'
      BY <1>1, <1>6, <2>1, GateFacts, TransportGoes DEF GateIInv, GateTyped, GateTypeOK, Stations
    <2>5. Rising'
      BY <1>1, <2>1, <2>2 DEF GateIInv, Rising, Routing
    <2>6. Counting'
      BY <1>1, <2>2, <2>3 DEF GateIInv, Counting, Underway, Routing
    <2>7. Exclusive' /\ CloseComesLast'
      BY <1>1, <2>2, <2>3 DEF GateIInv, Exclusive, CloseComesLast
    <2>8. Numbered' /\ Activated'
      <3>1. ~gate.pending
        BY <1>1 DEF GateIInv, Exclusive
      <3>2. ~gate.detached => OnRing = (last + 1) .. transport.n /\ last <= sent
              /\ sent = transport.n - 1
        BY <1>1 DEF GateIInv, Numbered, Newest
      <3>3. Newest' = transport.n
        BY <1>1, <1>6, <2>2, <3>1 DEF Newest
      <3> QED BY <1>1, <1>6, <2>2, <2>3, <3>1, <3>2, <3>3, GateFacts
              DEF GateIInv, Exclusive, Numbered, Activated, Routing
    <2> QED BY <2>4, <2>5, <2>6, <2>7, <2>8 DEF GateIInv
  <1>7. CASE shared' = Completed("conn", "discard") /\ TransportAt("uncount")
               /\ UNCHANGED <<sent, wake>>
    <2>1. /\ shared' \in Seq(Entries) /\ Ours' = Ours
          /\ \A i \in Ours : shared'[i].n = shared[i].n
                /\ shared'[i].state = IF i = mine THEN "discard" ELSE "done"
      BY <1>2, <1>3, <1>4, <1>7, CompletedList
    <2>2. transport'.pc = "uncount" /\ transport'.n = transport.n /\ ~transport'.parked
      BY <1>7, TransportGoes DEF Stations
    <2>3. OnRing' = OnRing \ {transport.n} /\ Cardinality(OnRing') = Cardinality(OnRing) - 1
      <3>1. OnRing = {shared[i].n : i \in Ours}
        BY <1>2, <1>3 DEF OnRing
      <3>2. OnRing' = {shared'[i].n : i \in Ours \ {mine}}
        BY <2>1 DEF OnRing
      <3>3. OnRing' = OnRing \ {transport.n}
        BY <1>2, <1>3, <2>1, <3>1, <3>2
      <3>4. Cardinality(OnRing \ {transport.n}) = Cardinality(OnRing) - 1
        BY <1>5, GateFacts, FS_RemoveElement
      <3> QED BY <3>3, <3>4
    <2>4. GateTyped'
      BY <1>1, <1>7, <2>1, GateFacts, TransportGoes DEF GateIInv, GateTyped, GateTypeOK, Stations
    <2>5. Rising'
      BY <1>1, <1>3, <2>1, <2>2 DEF GateIInv, Rising, Routing
    <2>6. Counting'
      BY <1>1, <2>2, <2>3, GateFacts DEF GateIInv, Counting, Underway, Routing
    <2>7. Exclusive' /\ CloseComesLast'
      BY <1>1, <2>2, <2>3 DEF GateIInv, Exclusive, CloseComesLast
    <2>8. Numbered' /\ Activated'
      <3>1. ~gate.pending
        BY <1>1 DEF GateIInv, Exclusive
      <3>2. ~gate.detached => OnRing = (last + 1) .. transport.n /\ last <= sent
                                /\ sent = transport.n - 1 /\ gate.admitted
        BY <1>1 DEF GateIInv, Numbered, Newest, Activated
      <3>3. ~gate.detached => OnRing' = (last + 1) .. sent
        BY <2>3, <3>2, GateFacts
      <3>4. Newest' = sent
        BY <1>1, <1>7, <2>2, <3>1 DEF Newest
      <3> QED BY <1>1, <1>7, <2>2, <3>1, <3>2, <3>3, <3>4, GateFacts
              DEF GateIInv, Exclusive, Numbered, Activated, Routing
    <2> QED BY <2>4, <2>5, <2>6, <2>7, <2>8 DEF GateIInv
  <1> QED BY <1>6, <1>7 DEF FillForMessage

LEMMA FillBufferStep ==
    ASSUME GateIInv, FillBuffer PROVE GateIInv'
  <1>1. transport.pc = "receive" /\ UNCHANGED <<buffer, shared, sent, receiver, last, lost>>
    BY DEF FillBuffer
  <1>2. \/ FailInbound
        \/ UNCHANGED <<gate, wake>>
           /\ \E pc \in {"closing", "publish", "route", "read"} :
                TransportAt(pc) /\ (pc = "read" => gate.detached)
    BY DEF FillBuffer, Drop
  <1>3. CASE FailInbound
    BY <1>1, <1>3, FailInboundStep DEF Routing
  <1>4. ASSUME NEW pc \in {"closing", "publish", "route", "read"}, TransportAt(pc),
               pc = "read" => gate.detached, UNCHANGED <<gate, wake>>
        PROVE  GateIInv'
    BY <1>1, <1>4, GateFacts, TransportOnly DEF Routing, Stations
  <1> QED BY <1>2, <1>3, <1>4

LEMMA ClearConsumedStep ==
    ASSUME GateIInv, ClearConsumed PROVE GateIInv'
  <1>1. /\ transport.pc = "publish" /\ gate' = [gate EXCEPT !.consumed = FALSE]
        /\ TransportAt("raise") /\ UNCHANGED <<buffer, shared, sent, receiver, wake, last, lost>>
    BY DEF ClearConsumed
  <1>2. /\ gate'.pending = gate.pending /\ gate'.inFlight = gate.inFlight
        /\ gate'.detached = gate.detached /\ gate'.closed = gate.closed
        /\ gate'.admitted = gate.admitted
        /\ gate' \in [admitted : BOOLEAN, pending : BOOLEAN, consumed : BOOLEAN,
                      inFlight : 0 .. MaxMessages, closed : BOOLEAN, detached : BOOLEAN]
    BY <1>1, GateFacts
  <1>3. Ours' = Ours /\ OnRing' = OnRing /\ Cardinality(OnRing)' = Cardinality(OnRing)
    BY <1>1, SameRing
  <1>4. transport'.pc = "raise" /\ transport'.n = transport.n /\ ~transport'.parked
    BY <1>1, TransportGoes DEF Stations, Routing
  <1>5. GateTyped'
    BY <1>1, <1>2, TransportGoes DEF GateIInv, GateTyped, GateTypeOK, Stations, Routing
  <1> QED BY <1>1, <1>2, <1>3, <1>4, <1>5 DEF GateIInv, Rising, Counting, Underway, Exclusive,
              Numbered, Newest, Activated, CloseComesLast, Routing

\* The newest message is the buffered one from here on, and everything on the ring is older.
LEMMA RaisePendingStep ==
    ASSUME GateIInv, RaisePending PROVE GateIInv'
  <1>1. /\ transport.pc = "raise" /\ gate' = [gate EXCEPT !.pending = TRUE] /\ sent' = transport.n
        /\ wake' = TRUE /\ TransportAt("read") /\ UNCHANGED <<buffer, shared, receiver, last, lost>>
    BY DEF RaisePending
  <1>2. /\ gate'.pending /\ gate'.inFlight = gate.inFlight
        /\ gate'.detached = gate.detached /\ gate'.closed = gate.closed
        /\ gate'.admitted = gate.admitted
        /\ gate' \in [admitted : BOOLEAN, pending : BOOLEAN, consumed : BOOLEAN,
                      inFlight : 0 .. MaxMessages, closed : BOOLEAN, detached : BOOLEAN]
    BY <1>1, GateFacts
  <1>3. Ours' = Ours /\ OnRing' = OnRing /\ Cardinality(OnRing)' = Cardinality(OnRing)
    BY <1>1, SameRing
  <1>4. transport'.pc = "read" /\ transport'.n = transport.n /\ ~transport'.parked
    BY <1>1, TransportGoes DEF Stations
  <1>5. GateTyped'
    BY <1>1, <1>2, GateFacts, TransportGoes DEF GateIInv, GateTyped, GateTypeOK, Stations
  <1>6. Rising'
    BY <1>1, <1>3, <1>4 DEF GateIInv, Rising, Routing
  <1>7. Counting'
    BY <1>1, <1>2, <1>3, <1>4 DEF GateIInv, Counting, Underway, Routing
  <1>8. Exclusive' /\ CloseComesLast'
    BY <1>1, <1>2, <1>3, <1>4 DEF GateIInv, Exclusive, CloseComesLast
  <1>9. ~gate.pending
    BY <1>1 DEF GateIInv, Exclusive
  <1>10. Numbered' /\ Activated'
    <2>1. Newest' = transport.n - 1
      BY <1>1, <1>2, <1>4 DEF Newest
    <2>2. ~gate.detached => OnRing = (last + 1) .. sent /\ last <= sent /\ sent = transport.n - 1
                              /\ buffer = transport.n /\ receiver.pc \notin {"process", "consume"}
      BY <1>1, <1>9 DEF GateIInv, Exclusive, Numbered, Newest, Routing
    <2>3. transport.n \in 0 .. MaxMessages /\ last \in 0 .. MaxMessages
      BY GateFacts
    <2> QED BY <1>1, <1>2, <1>3, <1>4, <2>1, <2>2, <2>3 DEF GateIInv, Numbered, Activated, Routing
  <1> QED BY <1>5, <1>6, <1>7, <1>8, <1>10 DEF GateIInv

LEMMA WaitTimesOutStep ==
    ASSUME GateIInv, WaitTimesOut PROVE GateIInv'
  BY FailInboundStep DEF WaitTimesOut

LEMMA ReportClosedStep ==
    ASSUME GateIInv, ReportClosed PROVE GateIInv'
  <1>1. /\ transport.pc \in {"read", "closing"} /\ gate' = [gate EXCEPT !.closed = TRUE]
        /\ wake' = TRUE /\ TransportAt("gone")
        /\ UNCHANGED <<buffer, shared, sent, receiver, last, lost>>
    BY DEF ReportClosed
  <1>2. /\ gate'.pending = gate.pending /\ gate'.inFlight = gate.inFlight
        /\ gate'.detached = gate.detached /\ gate'.closed /\ gate'.admitted = gate.admitted
        /\ gate' \in [admitted : BOOLEAN, pending : BOOLEAN, consumed : BOOLEAN,
                      inFlight : 0 .. MaxMessages, closed : BOOLEAN, detached : BOOLEAN]
    BY <1>1, GateFacts
  <1>3. Ours' = Ours /\ OnRing' = OnRing /\ Cardinality(OnRing)' = Cardinality(OnRing)
    BY <1>1, SameRing
  <1>4. transport'.pc = "gone" /\ transport'.n = transport.n /\ ~transport'.parked
    BY <1>1, TransportGoes DEF Stations
  <1>5. GateTyped'
    BY <1>1, <1>2, TransportGoes DEF GateIInv, GateTyped, GateTypeOK, Stations
  <1>6. Rising' /\ Counting'
    BY <1>1, <1>2, <1>3, <1>4 DEF GateIInv, Rising, Counting, Underway, Routing
  <1>7. Exclusive' /\ CloseComesLast'
    BY <1>1, <1>2, <1>3, <1>4 DEF GateIInv, Exclusive, CloseComesLast
  <1>8. Numbered' /\ Activated'
    BY <1>1, <1>2, <1>3, <1>4 DEF GateIInv, Numbered, Newest, Activated, Routing
  <1> QED BY <1>5, <1>6, <1>7, <1>8 DEF GateIInv

\* A step that leaves the connection's items as they are
LEMMA OtherStep ==
    ASSUME GateIInv, shared' \in Seq(Entries), Ours' = Ours, \A i \in Ours : shared'[i] = shared[i],
           DOMAIN shared \subseteq DOMAIN shared', wake' \in BOOLEAN,
           UNCHANGED <<gate, buffer, transport, sent, receiver, last, lost>>
    PROVE  GateIInv'
  <1>1. OnRing' = OnRing /\ Cardinality(OnRing)' = Cardinality(OnRing)
    BY DEF OnRing
  <1>2. GateTyped'
    BY DEF GateIInv, GateTyped, GateTypeOK
  <1>3. Rising'
    BY DEF GateIInv, Rising
  <1>4. Counting' /\ Exclusive'
    BY <1>1 DEF GateIInv, Counting, Underway, Exclusive
  <1>5. Numbered' /\ Activated'
    BY <1>1 DEF GateIInv, Numbered, Newest, Activated
  <1>6. CloseComesLast'
    <2>1. CloseComesLast <=> (lost = "closed" => last = sent
            /\ \A i \in Ours : shared[i].state = "discard")
      BY DEF CloseComesLast, Ours
    <2>2. CloseComesLast' <=> (lost' = "closed" => last' = sent'
            /\ \A i \in Ours' : shared'[i].state = "discard")
      BY DEF CloseComesLast, Ours
    <2> QED BY <2>1, <2>2 DEF GateIInv
  <1> QED BY <1>2, <1>3, <1>4, <1>5, <1>6 DEF GateIInv

LEMMA OtherAcquiresStep ==
    ASSUME GateIInv, OtherAcquires PROVE GateIInv'
  <1> DEFINE entry == [from |-> "other", n |-> 0, state |-> "writing"]
  <1>1. /\ shared' = Append(shared, entry)
        /\ UNCHANGED <<gate, buffer, transport, sent, receiver, wake, last, lost>>
    BY DEF OtherAcquires
  <1>2. entry \in Entries /\ entry.from = "other"
    BY GateFacts DEF Entries
  <1> HIDE DEF entry
  <1>3. /\ shared' \in Seq(Entries) /\ DOMAIN shared = 1 .. Len(shared)
        /\ DOMAIN shared' = 1 .. Len(shared) + 1 /\ Len(shared) \in Nat
        /\ shared'[Len(shared) + 1] = entry /\ \A i \in 1 .. Len(shared) : shared'[i] = shared[i]
    BY <1>1, <1>2, GateFacts, Appended
  <1>4. Ours' = Ours /\ Ours \subseteq DOMAIN shared /\ DOMAIN shared \subseteq DOMAIN shared'
    BY <1>2, <1>3 DEF Ours
  <1> QED BY <1>1, <1>3, <1>4, GateFacts, OtherStep

LEMMA OtherCompletesStep ==
    ASSUME GateIInv, OtherCompletes PROVE GateIInv'
  <1>1. /\ shared' = Completed("other", "done") /\ wake' = TRUE
        /\ UNCHANGED <<gate, buffer, transport, sent, receiver, last, lost>>
    BY DEF OtherCompletes
  <1>2. shared' \in Seq(Entries) /\ DOMAIN shared' = DOMAIN shared /\ Ours' = Ours
    BY <1>1, CompletedList
  <1>3. \A i \in Ours : shared'[i] = shared[i]
    BY <1>1 DEF Completed, Ours
  <1> QED BY <1>1, <1>2, <1>3, OtherStep

\* A step of the protocol task that touches neither the gate nor the ring
LEMMA TickOnly ==
    ASSUME GateIInv, NEW pc \in {"wait", "pending", "process", "consume", "setBit", "ring", "loss"},
           receiver'.pc = pc, DOMAIN receiver' = {"pc", "taken", "closedRead"},
           receiver'.closedRead \in BOOLEAN, receiver'.closedRead => gate.closed,
           wake' \in BOOLEAN, UNCHANGED <<gate, buffer, shared, transport, sent, last, lost>>,
           pc # "consume", pc = "process" => gate.pending /\ gate.inFlight = 0 /\ lost = "no",
           receiver.pc # "consume"
    PROVE  GateIInv'
  <1>1. Ours' = Ours /\ OnRing' = OnRing /\ Cardinality(OnRing)' = Cardinality(OnRing)
    BY SameRing
  <1>2. pc = "process" => OnRing = {}
    <2>1. pc = "process" => Cardinality(OnRing) = 0
      BY GateFacts DEF GateIInv, Counting, Underway
    <2> QED BY <2>1, GateFacts, FS_EmptySet
  <1>3. GateTyped'
    BY DEF GateIInv, GateTyped, GateTypeOK
  <1>4. Rising' /\ Counting'
    BY <1>1 DEF GateIInv, Rising, Counting, Underway
  <1>5. Exclusive' /\ CloseComesLast'
    BY <1>1, <1>2 DEF GateIInv, Exclusive, CloseComesLast
  <1>6. pc = "process" /\ ~gate.detached => last = sent - 1
    <2> SUFFICES ASSUME pc = "process", ~gate.detached PROVE last = sent - 1
      OBVIOUS
    <2>1. gate.pending /\ transport.pc # "fill"
      BY DEF GateIInv, Exclusive
    <2>2. (last + 1) .. (sent - 1) = {} /\ last < sent
      BY <1>2, <2>1 DEF GateIInv, Numbered, Newest
    <2>3. last \in Nat /\ sent \in Nat
      BY GateFacts
    <2> QED BY <2>2, <2>3
  <1>7. Numbered' /\ Activated'
    BY <1>1, <1>6 DEF GateIInv, Exclusive, Numbered, Newest, Activated
  <1> QED BY <1>3, <1>4, <1>5, <1>7 DEF GateIInv

LEMMA StartTickStep ==
    ASSUME GateIInv, StartTick PROVE GateIInv'
  BY TickGoes, TickOnly, GateFacts DEF StartTick, GateIInv, Exclusive

LEMMA SeePendingStep ==
    ASSUME GateIInv, SeePending PROVE GateIInv'
  <1>1. PICK pc \in {"process", "ring"} :
          TickAt(pc) /\ (pc = "process" => lost = "no" /\ gate.pending /\ gate.inFlight = 0)
    BY DEF SeePending
  <1>2. receiver.pc = "pending" /\ UNCHANGED <<gate, buffer, shared, transport, sent, wake,
          last, lost>>
    BY DEF SeePending
  <1> QED BY <1>1, <1>2, TickGoes, TickOnly, GateFacts DEF GateIInv, Exclusive

LEMMA EndRingPassStep ==
    ASSUME GateIInv, EndRingPass PROVE GateIInv'
  <1>1. /\ receiver.pc = "ring" /\ wake' = (wake \/ receiver.taken = MAX_ITEMS_PER_TICK)
        /\ receiver' = [receiver EXCEPT !.pc = "loss", !.taken = 0, !.closedRead = gate.closed]
        /\ UNCHANGED <<gate, buffer, shared, transport, sent, last, lost>>
    BY DEF EndRingPass
  <1>2. /\ receiver'.pc = "loss" /\ DOMAIN receiver' = {"pc", "taken", "closedRead"}
        /\ receiver'.closedRead = gate.closed
    BY <1>1 DEF GateIInv, GateTyped
  <1> QED BY <1>1, <1>2, TickOnly, GateFacts

LEMMA AdmitFacts ==
    ASSUME NEW g \in [admitted : BOOLEAN, pending : BOOLEAN, consumed : BOOLEAN,
                      inFlight : 0 .. MaxMessages, closed : BOOLEAN, detached : BOOLEAN], NEW n
    PROVE  /\ AdmitOn(g, n) \in [admitted : BOOLEAN, pending : BOOLEAN, consumed : BOOLEAN,
                                 inFlight : 0 .. MaxMessages, closed : BOOLEAN, detached : BOOLEAN]
           /\ AdmitOn(g, n).pending = g.pending /\ AdmitOn(g, n).inFlight = g.inFlight
           /\ AdmitOn(g, n).closed = g.closed /\ AdmitOn(g, n).detached = g.detached
           /\ AdmitOn(g, n).admitted <=> g.admitted \/ (~g.detached /\ n = 1)
  <1>1. CASE ~g.detached /\ n = 1
    BY <1>1 DEF AdmitOn
  <1>2. CASE ~(~g.detached /\ n = 1)
    BY <1>2 DEF AdmitOn
  <1> QED BY <1>1, <1>2

\* The buffered message is the next one: nothing older is on the ring.
LEMMA ProcessPendingStep ==
    ASSUME GateIInv, ProcessPending PROVE GateIInv'
  <1>1. /\ receiver.pc = "process" /\ Processed(buffer) /\ gate' = AdmitOn(gate, buffer)
        /\ TickAt("consume") /\ UNCHANGED <<buffer, shared, transport, sent, wake, lost>>
    BY DEF ProcessPending
  <1>2. gate.pending /\ OnRing = {}
    BY <1>1 DEF GateIInv, Exclusive
  <1>3. /\ gate'.pending = gate.pending /\ gate'.inFlight = gate.inFlight
        /\ gate'.closed = gate.closed /\ gate'.detached = gate.detached
        /\ gate'.admitted <=> gate.admitted \/ (~gate.detached /\ buffer = 1)
        /\ gate' \in [admitted : BOOLEAN, pending : BOOLEAN, consumed : BOOLEAN,
                      inFlight : 0 .. MaxMessages, closed : BOOLEAN, detached : BOOLEAN]
    BY <1>1, GateFacts, AdmitFacts
  <1>4. Ours' = Ours /\ OnRing' = OnRing /\ Cardinality(OnRing)' = Cardinality(OnRing)
    BY <1>1, SameRing
  <1>5. /\ receiver'.pc = "consume" /\ receiver'.closedRead = receiver.closedRead
        /\ DOMAIN receiver' = {"pc", "taken", "closedRead"}
    BY <1>1, TickGoes
  <1>6. last' \in 0 .. MaxMessages /\ (gate.detached => last' = last) /\ (~gate.detached
          => last' = buffer)
    BY <1>1, GateFacts DEF Processed
  <1>7. ~gate.detached => last = sent - 1 /\ buffer = sent
    BY <1>1, <1>2 DEF GateIInv, Numbered
  <1>8. GateTyped'
    BY <1>1, <1>3, <1>5, <1>6 DEF GateIInv, GateTyped, GateTypeOK
  <1>9. Rising' /\ Counting'
    BY <1>1, <1>3, <1>4 DEF GateIInv, Rising, Counting, Underway
  <1>10. Exclusive'
    BY <1>1, <1>2, <1>3, <1>4, <1>5 DEF GateIInv, Exclusive
  <1>11. CloseComesLast'
    BY <1>1, <1>6 DEF GateIInv, Exclusive, CloseComesLast
  <1>12. Numbered'
    <2> SUFFICES ASSUME ~gate.detached PROVE Numbered'
      BY <1>3 DEF Numbered
    <2>1. transport.pc # "fill" /\ Newest' = sent - 1 /\ last' = sent
      BY <1>1, <1>2, <1>3, <1>6, <1>7 DEF GateIInv, Exclusive, Newest
    <2>2. (last' + 1) .. (sent - 1) = {}
      BY <2>1, GateFacts
    <2> QED BY <1>1, <1>2, <1>3, <1>4, <1>5, <2>1, <2>2, GateFacts DEF GateIInv, Numbered
  <1>13. Activated'
    <2> SUFFICES ASSUME ~gate.detached PROVE Activated'
      BY <1>3 DEF Activated
    <2>1. buffer > 0 => gate'.admitted
      <3>1. last > 0 => gate.admitted
        BY DEF GateIInv, Activated
      <3> QED BY <1>3, <1>7, <3>1, GateFacts
    <2> QED BY <1>1, <1>3, <1>4, <1>6, <2>1 DEF GateIInv, Activated
  <1> QED BY <1>8, <1>9, <1>10, <1>11, <1>12, <1>13 DEF GateIInv

LEMMA ClearPendingStep ==
    ASSUME GateIInv, ClearPending PROVE GateIInv'
  <1>1. /\ receiver.pc = "consume" /\ gate' = [gate EXCEPT !.pending = FALSE] /\ buffer' = 0
        /\ TickAt("setBit") /\ UNCHANGED <<shared, transport, sent, wake, last, lost>>
    BY DEF ClearPending
  <1>2. gate.pending /\ transport.pc \notin {"receive", "publish", "raise", "fill"}
    BY <1>1 DEF GateIInv, Exclusive
  <1>3. /\ ~gate'.pending /\ gate'.inFlight = gate.inFlight
        /\ gate'.closed = gate.closed /\ gate'.detached = gate.detached
        /\ gate'.admitted = gate.admitted
        /\ gate' \in [admitted : BOOLEAN, pending : BOOLEAN, consumed : BOOLEAN,
                      inFlight : 0 .. MaxMessages, closed : BOOLEAN, detached : BOOLEAN]
    BY <1>1, GateFacts
  <1>4. Ours' = Ours /\ OnRing' = OnRing /\ Cardinality(OnRing)' = Cardinality(OnRing)
    BY <1>1, SameRing
  <1>5. /\ receiver'.pc = "setBit" /\ receiver'.closedRead = receiver.closedRead
        /\ DOMAIN receiver' = {"pc", "taken", "closedRead"}
    BY <1>1, TickGoes
  <1>6. GateTyped'
    BY <1>1, <1>3, <1>5, GateFacts DEF GateIInv, GateTyped, GateTypeOK
  <1>7. Rising' /\ Counting'
    BY <1>1, <1>3, <1>4 DEF GateIInv, Rising, Counting, Underway
  <1>8. Exclusive' /\ CloseComesLast'
    BY <1>1, <1>3, <1>4, <1>5 DEF GateIInv, Exclusive, CloseComesLast
  <1>9. Numbered'
    <2> SUFFICES ASSUME ~gate.detached PROVE Numbered'
      BY <1>3 DEF Numbered
    <2>1. last = sent /\ OnRing = (last + 1) .. (sent - 1) /\ Newest' = sent
      BY <1>1, <1>2, <1>3 DEF GateIInv, Numbered, Newest
    <2>2. (last + 1) .. (sent - 1) = (last + 1) .. sent
      BY <2>1, GateFacts
    <2> QED BY <1>1, <1>2, <1>3, <1>4, <1>5, <2>1, <2>2 DEF GateIInv, Numbered
  <1>10. Activated'
    BY <1>1, <1>3, <1>4 DEF GateIInv, Activated
  <1> QED BY <1>6, <1>7, <1>8, <1>9, <1>10 DEF GateIInv

LEMMA SetConsumedStep ==
    ASSUME GateIInv, SetConsumed PROVE GateIInv'
  <1>1. /\ receiver.pc = "setBit" /\ gate' = [gate EXCEPT !.consumed = TRUE] /\ TickAt("ring")
        /\ UNCHANGED <<buffer, shared, transport, sent, wake, last, lost>>
    BY DEF SetConsumed
  <1>2. /\ gate'.pending = gate.pending /\ gate'.inFlight = gate.inFlight
        /\ gate'.closed = gate.closed /\ gate'.detached = gate.detached
        /\ gate'.admitted = gate.admitted
        /\ gate' \in [admitted : BOOLEAN, pending : BOOLEAN, consumed : BOOLEAN,
                      inFlight : 0 .. MaxMessages, closed : BOOLEAN, detached : BOOLEAN]
    BY <1>1, GateFacts
  <1>3. Ours' = Ours /\ OnRing' = OnRing /\ Cardinality(OnRing)' = Cardinality(OnRing)
    BY <1>1, SameRing
  <1>4. /\ receiver'.pc = "ring" /\ receiver'.closedRead = receiver.closedRead
        /\ DOMAIN receiver' = {"pc", "taken", "closedRead"}
    BY <1>1, TickGoes
  <1>5. GateTyped'
    BY <1>1, <1>2, <1>4, GateFacts DEF GateIInv, GateTyped, GateTypeOK
  <1> QED BY <1>1, <1>2, <1>3, <1>4, <1>5 DEF GateIInv, Rising, Counting, Underway, Exclusive,
              Numbered, Newest, Activated, CloseComesLast

\* A connection's loss: every message is behind it when the transport closed of itself.
LEMMA LeavingStep ==
    ASSUME GateIInv, receiver.pc = "loss", gate' = [Detached EXCEPT !.admitted = FALSE],
           receiver'.pc \in {"wait", "loss"}, DOMAIN receiver' = {"pc", "taken", "closedRead"},
           receiver'.closedRead \in BOOLEAN, receiver'.closedRead => receiver.closedRead,
           wake' \in BOOLEAN, lost' \in {"no", "closed", "detached"}, lost' = "no" => lost = "no",
           lost' = "closed" => lost = "no" /\ ~gate.detached /\ CloseReady(receiver.closedRead),
           UNCHANGED <<buffer, shared, transport, sent, last>>
    PROVE  GateIInv'
  <1>1. /\ gate'.pending = gate.pending /\ gate'.inFlight = gate.inFlight
        /\ gate'.closed = gate.closed /\ gate'.detached
        /\ gate' \in [admitted : BOOLEAN, pending : BOOLEAN, consumed : BOOLEAN,
                      inFlight : 0 .. MaxMessages, closed : BOOLEAN, detached : BOOLEAN]
    <2>1. gate' = [gate EXCEPT !.detached = TRUE, !.consumed = TRUE, !.admitted = FALSE]
      BY DEF Detached
    <2> QED BY <2>1, GateFacts
  <1>2. Ours' = Ours /\ OnRing' = OnRing /\ Cardinality(OnRing)' = Cardinality(OnRing)
    BY SameRing
  <1>3. GateTyped'
    BY <1>1, GateFacts DEF GateIInv, GateTyped, GateTypeOK
  <1>4. Rising'
    BY <1>1, <1>2 DEF GateIInv, Rising
  <1>5. CASE lost' # "closed"
    <2>1. CloseComesLast' /\ Numbered' /\ Activated'
      BY <1>1, <1>5 DEF CloseComesLast, Numbered, Activated
    <2>2. Exclusive'
      BY <1>1, <1>2, <1>5 DEF GateIInv, Exclusive
    <2>3. Counting'
      BY <1>1, <1>2 DEF GateIInv, Counting, Underway
    <2> QED BY <1>3, <1>4, <2>1, <2>2, <2>3 DEF GateIInv
  <1>6. CASE lost' = "closed"
    <2>1. gate.closed /\ gate.inFlight = 0 /\ ~gate.pending /\ ~gate.detached
            /\ transport.pc = "gone"
      BY <1>6 DEF GateIInv, Exclusive, CloseReady
    <2>2. Cardinality(OnRing) = 0
      BY <2>1, GateFacts DEF GateIInv, Counting, Underway
    <2>3. OnRing = {}
      BY <2>2, GateFacts, FS_EmptySet
    <2>4. last = sent
      <3>1. (last + 1) .. sent = {} /\ last <= sent
        BY <2>1, <2>3 DEF GateIInv, Numbered, Newest
      <3> QED BY <3>1, GateFacts
    <2>5. CloseComesLast'
      BY <2>3, <2>4 DEF CloseComesLast, OnRing, Ours
    <2>6. Counting' /\ Exclusive' /\ Numbered' /\ Activated'
      BY <1>1, <1>2, <1>6, <2>1 DEF GateIInv, Counting, Underway, Exclusive, Numbered, Activated
    <2> QED BY <1>3, <1>4, <2>5, <2>6 DEF GateIInv
  <1> QED BY <1>5, <1>6

LEMMA LoseConnectionStep ==
    ASSUME GateIInv, LoseConnection PROVE GateIInv'
  <1> DEFINE leaves == lost = "no" /\ (gate.detached \/ CloseReady(receiver.closedRead))
  <1>1. /\ receiver.pc = "loss" /\ receiver' = [pc |-> "wait", taken |-> 0, closedRead |-> FALSE]
        /\ lost' = (IF ~leaves THEN lost ELSE IF gate.detached THEN "detached" ELSE "closed")
        /\ gate' = IF leaves THEN [Detached EXCEPT !.admitted = FALSE] ELSE gate
        /\ wake' = (wake \/ (lost = "no" /\ gate.pending /\ gate.inFlight = 0))
        /\ UNCHANGED <<buffer, shared, transport, sent, last>>
    BY DEF LoseConnection
  <1>2. wake' \in BOOLEAN /\ receiver'.pc = "wait" /\ receiver'.closedRead = FALSE
        /\ DOMAIN receiver' = {"pc", "taken", "closedRead"}
    BY <1>1
  <1>3. CASE leaves
    <2>1. /\ gate' = [Detached EXCEPT !.admitted = FALSE] /\ lost' \in {"no", "closed", "detached"}
          /\ lost' = "closed" => lost = "no" /\ ~gate.detached /\ CloseReady(receiver.closedRead)
      BY <1>1, <1>3
    <2> HIDE DEF leaves
    <2> QED BY <1>1, <1>2, <2>1, LeavingStep
  <1>4. CASE ~leaves
    <2>1. gate' = gate /\ lost' = lost
      BY <1>1, <1>4
    <2> HIDE DEF leaves
    <2> QED BY <1>1, <1>2, <2>1, TickOnly
  <1> QED BY <1>3, <1>4

LEMMA ReleaseStep ==
    ASSUME GateIInv, Release PROVE GateIInv'
  <1>1. /\ receiver.pc = "loss" /\ lost = "no" /\ gate' = [Detached EXCEPT !.admitted = FALSE]
        /\ UNCHANGED <<buffer, shared, transport, sent, receiver, wake, last, lost>>
    BY DEF Release
  <1>2. /\ DOMAIN receiver' = {"pc", "taken", "closedRead"} /\ receiver'.closedRead \in BOOLEAN
        /\ wake' \in BOOLEAN
    BY <1>1, GateFacts DEF GateIInv, GateTyped
  <1> QED BY <1>1, <1>2, LeavingStep

\* What taking the oldest item leaves: only a message that is whole leaves the ring's messages.
LEMMA TakenList ==
    ASSUME GateIInv, Takeable, shared' = Tail(shared), UNCHANGED transport
    PROVE  /\ shared' \in Seq(Entries) /\ 1 \in DOMAIN shared /\ shared[1] \in Entries
           /\ Rising'
           /\ \A i \in Ours' : shared'[i] \in {shared[j] : j \in Ours}
           /\ shared[1].from = "conn" /\ shared[1].state = "done"
                => shared[1].n \in OnRing /\ OnRing' = OnRing \ {shared[1].n}
           /\ ~(shared[1].from = "conn" /\ shared[1].state = "done") => OnRing' = OnRing
           /\ shared[1].from = "conn" => \A k \in OnRing : shared[1].n <= k
           /\ shared[1].from = "conn" /\ transport.pc = "fill" => shared[1].n < transport.n
  <1>1. shared # <<>> /\ shared[1].state # "writing"
    BY GateFacts, Popped DEF Takeable
  <1>2. /\ shared' \in Seq(Entries) /\ Len(shared) \in Nat \ {0}
        /\ DOMAIN shared = 1 .. Len(shared) /\ DOMAIN shared' = 1 .. Len(shared) - 1
        /\ \A i \in 1 .. Len(shared) - 1 : shared'[i] = shared[i + 1]
    BY <1>1, GateFacts, Popped
  <1>3. 1 \in DOMAIN shared /\ shared[1] \in Entries
    BY <1>2, GateFacts
  <1>4. \A i \in Ours' : /\ i \in Nat /\ i + 1 \in Ours /\ i + 1 # 1 /\ shared'[i] = shared[i + 1]
    BY <1>2 DEF Ours
  <1>5. \A i \in Ours : i # 1 => i - 1 \in Ours' /\ shared'[i - 1] = shared[i]
    <2> TAKE i \in Ours
    <2> HAVE i # 1
    <2>1. i \in 2 .. Len(shared) /\ shared[i].from = "conn"
      BY <1>2 DEF Ours
    <2>2. i - 1 \in 1 .. Len(shared) - 1 /\ (i - 1) + 1 = i
      BY <1>2, <2>1
    <2>3. shared'[i - 1] = shared[i]
      BY <1>2, <2>2
    <2> QED BY <1>2, <2>1, <2>2, <2>3 DEF Ours
  <1>6. \A i \in Ours : shared[i] \in Entries /\ i \in Nat /\ i >= 1
    BY <1>2, GateFacts DEF Ours
  <1>7. Rising'
    <2>1. \A i, j \in Ours' : i < j => shared'[i].n < shared'[j].n
      <3> TAKE i, j \in Ours'
      <3> HAVE i < j
      <3>1. i + 1 < j + 1
        BY <1>4
      <3> QED BY <1>4, <3>1 DEF GateIInv, Rising
    <2>2. transport.pc = "fill" => \E i \in Ours' : shared'[i].state = "writing"
      BY <1>1, <1>5 DEF GateIInv, Rising
    <2> QED BY <1>4, <2>1, <2>2 DEF GateIInv, Rising
  <1>8. \A i \in Ours' : shared'[i] \in {shared[j] : j \in Ours}
    BY <1>4
  <1>9. shared[1].from = "conn" => 1 \in Ours
    BY <1>3 DEF Ours
  <1>10. shared[1].from = "conn" => \A i \in Ours : i # 1 => shared[1].n < shared[i].n
    BY <1>6, <1>9 DEF GateIInv, Rising
  <1>11. OnRing' = {shared[i].n : i \in {j \in Ours : j # 1 /\ shared[j].state # "discard"}}
    <2>1. ASSUME NEW k \in OnRing' PROVE \E j \in Ours : j # 1 /\ shared[j].state # "discard"
                   /\ k = shared[j].n
      BY <1>4, <2>1 DEF OnRing
    <2>2. ASSUME NEW j \in Ours, j # 1, shared[j].state # "discard" PROVE shared[j].n \in OnRing'
      BY <1>5, <2>2 DEF OnRing
    <2> QED BY <2>1, <2>2
  <1>12. shared[1].from = "conn" /\ shared[1].state = "done"
           => shared[1].n \in OnRing /\ OnRing' = OnRing \ {shared[1].n}
    <2> HAVE shared[1].from = "conn" /\ shared[1].state = "done"
    <2>1. shared[1].n \in OnRing
      BY <1>9 DEF OnRing
    <2>2. \A i \in Ours : i # 1 => shared[i].n # shared[1].n
      BY <1>3, <1>6, <1>10 DEF Entries
    <2> QED BY <1>9, <1>11, <2>1, <2>2 DEF OnRing
  <1>13. ~(shared[1].from = "conn" /\ shared[1].state = "done") => OnRing' = OnRing
    <2> HAVE ~(shared[1].from = "conn" /\ shared[1].state = "done")
    <2>1. 1 \in Ours => shared[1].state = "discard"
      BY <1>1, <1>3 DEF Ours, Entries
    <2> QED BY <1>11, <2>1 DEF OnRing
  <1>14. shared[1].from = "conn" => \A k \in OnRing : shared[1].n <= k
    BY <1>3, <1>6, <1>10 DEF OnRing, Entries
  <1>15. shared[1].from = "conn" /\ transport.pc = "fill" => shared[1].n < transport.n
    BY <1>1, <1>10 DEF GateIInv, Rising
  <1> QED BY <1>2, <1>3, <1>7, <1>8, <1>12, <1>13, <1>14, <1>15

\* An item of the connection is the next message.
LEMMA TakeItemStep ==
    ASSUME GateIInv, TakeItem PROVE GateIInv'
  <1> DEFINE first == shared[1]
             taken == first.from = "conn" /\ first.state = "done" /\ lost = "no"
  <1>1. /\ receiver.pc = "ring" /\ Takeable /\ shared' = Tail(shared)
        /\ receiver' = [receiver EXCEPT !.taken = IF first.state = "done" THEN @ + 1 ELSE @]
        /\ IF taken THEN /\ gate' = AdmitOn([gate EXCEPT !.inFlight = @ - 1], first.n)
                         /\ Processed(first.n)
                    ELSE UNCHANGED <<gate, last>>
        /\ UNCHANGED <<buffer, transport, sent, wake, lost>>
    <2>1. Head(shared) = first
      BY GateFacts, Popped DEF TakeItem, Takeable
    <2> QED BY <2>1 DEF TakeItem
  <1> HIDE DEF taken
  <1>2. /\ receiver'.pc = "ring" /\ receiver'.closedRead = receiver.closedRead
        /\ DOMAIN receiver' = {"pc", "taken", "closedRead"}
    BY <1>1 DEF GateIInv, GateTyped
  <1>3. /\ shared' \in Seq(Entries) /\ first \in Entries /\ Rising'
        /\ \A i \in Ours' : shared'[i] \in {shared[j] : j \in Ours}
        /\ first.from = "conn" /\ first.state = "done" => first.n \in OnRing
             /\ OnRing' = OnRing \ {first.n}
        /\ ~(first.from = "conn" /\ first.state = "done") => OnRing' = OnRing
        /\ first.from = "conn" => \A k \in OnRing : first.n <= k
        /\ first.from = "conn" /\ transport.pc = "fill" => first.n < transport.n
    BY <1>1, TakenList
  <1> HIDE DEF first
  <1>4. \A n \in OnRing : Cardinality(OnRing \ {n}) = Cardinality(OnRing) - 1
          /\ Cardinality(OnRing) >= 1
    <2>1. \A n \in OnRing : Cardinality(OnRing \ {n}) = Cardinality(OnRing) - 1
      BY GateFacts, FS_RemoveElement
    <2>2. \A n \in OnRing : IsFiniteSet(OnRing \ {n})
      BY GateFacts, FS_RemoveElement
    <2>3. \A n \in OnRing : Cardinality(OnRing \ {n}) \in Nat
      BY <2>2, FS_CardinalityType
    <2> TAKE n \in OnRing
    <2>4. Cardinality(OnRing \ {n}) = Cardinality(OnRing) - 1 /\ Cardinality(OnRing \ {n}) \in Nat
      BY <2>1, <2>3
    <2>5. Cardinality(OnRing) \in Nat
      BY GateFacts
    <2> QED BY <2>4, <2>5
  <1>5. CASE taken
    <2>1. first.from = "conn" /\ first.state = "done" /\ lost = "no"
      BY <1>5 DEF taken
    <2>2. /\ first.n \in OnRing /\ OnRing' = OnRing \ {first.n} /\ first.n \in 0 .. MaxMessages
          /\ Cardinality(OnRing') = Cardinality(OnRing) - 1 /\ Cardinality(OnRing) >= 1
      BY <1>3, <1>4, <2>1, GateFacts
    <2>3. gate.inFlight = Cardinality(OnRing) + Underway /\ gate.inFlight \in 1 .. MaxMessages
      BY <2>1, <2>2, GateFacts DEF GateIInv, Counting, Underway
    <2>4. /\ gate' \in [admitted : BOOLEAN, pending : BOOLEAN, consumed : BOOLEAN,
                        inFlight : 0 .. MaxMessages, closed : BOOLEAN, detached : BOOLEAN]
          /\ gate'.inFlight = gate.inFlight - 1 /\ gate'.detached = gate.detached
          /\ gate'.pending = gate.pending /\ gate'.closed = gate.closed
          /\ gate.admitted => gate'.admitted
      <3> DEFINE g == [gate EXCEPT !.inFlight = @ - 1]
      <3>1. PICK k \in 0 .. MaxMessages : k = gate.inFlight - 1
        BY <2>3, GateFacts
      <3>2. g = [gate EXCEPT !.inFlight = k]
        BY <3>1
      <3>3. /\ g \in [admitted : BOOLEAN, pending : BOOLEAN, consumed : BOOLEAN,
                      inFlight : 0 .. MaxMessages, closed : BOOLEAN, detached : BOOLEAN]
            /\ g.inFlight = gate.inFlight - 1 /\ g.detached = gate.detached
            /\ g.pending = gate.pending /\ g.closed = gate.closed /\ g.admitted = gate.admitted
        BY <3>1, <3>2, GateFacts
      <3>4. gate' = AdmitOn(g, first.n)
        BY <1>1, <1>5
      <3> HIDE DEF g
      <3> QED BY <3>3, <3>4, AdmitFacts
    <2>5. last' \in 0 .. MaxMessages /\ (~gate.detached => last' = first.n)
      BY <1>1, <1>5, <2>2, GateFacts DEF Processed
    <2>6. GateTyped'
      BY <1>1, <1>2, <1>3, <2>4, <2>5 DEF GateIInv, GateTyped, GateTypeOK
    <2>7. Counting'
      BY <1>1, <2>1, <2>2, <2>3, <2>4, GateFacts DEF GateIInv, Counting, Underway
    <2>8. Exclusive' /\ CloseComesLast'
      BY <1>1, <1>2, <2>1, <2>4 DEF GateIInv, Exclusive, CloseComesLast
    <2>9. Numbered'
      <3> SUFFICES ASSUME ~gate.detached PROVE Numbered'
        BY <2>4 DEF Numbered
      <3>1. OnRing = (last + 1) .. Newest /\ last <= sent /\ sent \in {transport.n - 1, transport.n}
        BY DEF GateIInv, Numbered
      <3>2. /\ last \in Nat /\ sent \in Nat /\ first.n \in Nat /\ transport.n \in Nat
            /\ Newest \in {transport.n, sent - 1, sent}
        BY <2>2, GateFacts DEF Newest
      <3>3. first.n = last + 1
        <4>1. last + 1 \in OnRing
          BY <2>2, <3>1, <3>2
        <4> QED BY <1>3, <2>1, <2>2, <3>1, <3>2, <4>1
      <3>4. OnRing' = (last' + 1) .. Newest
        BY <2>2, <2>5, <3>1, <3>2, <3>3
      <3>5. first.n <= Newest
        BY <2>2, <3>1, <3>2
      <3>6. last' <= sent /\ (gate.pending => last' < sent)
        <4>1. CASE transport.pc = "fill"
          <5>1. sent = transport.n - 1 /\ ~gate.pending
            BY <4>1 DEF GateIInv, Exclusive, Numbered
          <5> QED BY <1>3, <2>1, <2>5, <3>2, <4>1, <5>1
        <4>2. CASE transport.pc # "fill"
          <5>1. Newest = IF gate.pending THEN sent - 1 ELSE sent
            BY <4>2 DEF Newest
          <5> QED BY <2>5, <3>2, <3>5, <5>1
        <4> QED BY <4>1, <4>2
      <3>7. Newest' = Newest
        BY <1>1, <2>4 DEF Newest
      <3> QED BY <1>1, <1>2, <2>4, <3>4, <3>6, <3>7 DEF GateIInv, Numbered
    <2>10. Activated'
      <3> SUFFICES ASSUME ~gate.detached PROVE Activated'
        BY <2>4 DEF Activated
      <3>1. gate'.admitted
        BY <2>2, <2>4 DEF GateIInv, Activated
      <3> QED BY <3>1 DEF Activated
    <2> QED BY <1>3, <2>6, <2>7, <2>8, <2>9, <2>10 DEF GateIInv
  <1>6. CASE ~taken
    <2>1. UNCHANGED <<gate, last>>
      BY <1>1, <1>6
    <2>2. /\ OnRing' \subseteq OnRing /\ Cardinality(OnRing') <= Cardinality(OnRing)
          /\ lost = "no" => OnRing' = OnRing
      <3>1. CASE first.from = "conn" /\ first.state = "done"
        <4>1. OnRing' = OnRing \ {first.n} /\ first.n \in OnRing /\ lost # "no"
          BY <1>3, <1>6, <3>1 DEF taken
        <4> QED BY <1>4, <4>1, GateFacts
      <3>2. CASE ~(first.from = "conn" /\ first.state = "done")
        BY <1>3, <3>2, GateFacts
      <3> QED BY <3>1, <3>2
    <2>3. GateTyped'
      BY <1>1, <1>2, <1>3, <2>1 DEF GateIInv, GateTyped, GateTypeOK
    <2>4. Counting'
      <3>1. Cardinality(OnRing') \in Nat
        <4>1. OnRing' \subseteq OnRing
          BY <2>2
        <4> QED BY <4>1, GateFacts, FS_Subset, FS_CardinalityType
      <3> QED BY <1>1, <2>1, <2>2, <3>1, GateFacts DEF GateIInv, Counting, Underway
    <2>5. Exclusive'
      BY <1>1, <1>2, <2>1, <2>2 DEF GateIInv, Exclusive
    <2>6. Numbered' /\ Activated'
      BY <1>1, <1>2, <2>1, <2>2 DEF GateIInv, Exclusive, Numbered, Newest, Activated
    <2>7. CloseComesLast'
      BY <1>1, <1>3, <2>1 DEF GateIInv, CloseComesLast, Ours
    <2> QED BY <1>3, <2>3, <2>4, <2>5, <2>6, <2>7 DEF GateIInv
  <1> QED BY <1>5, <1>6

LEMMA GateStutters ==
    ASSUME GateIInv, UNCHANGED gateVars PROVE GateIInv'
  BY OtherStep, GateFacts DEF gateVars, Ours

LEMMA GateStarted ==
    ASSUME NEW place \in {"read", "gone"}, GateStarts(place) PROVE GateIInv
  <1>1. /\ gate = [admitted |-> FALSE, pending |-> FALSE, consumed |-> FALSE, inFlight |-> 0,
                   closed |-> FALSE, detached |-> FALSE]
        /\ buffer = 0 /\ shared = <<>> /\ sent = 0 /\ wake = FALSE /\ last = 0 /\ lost = "no"
        /\ transport = [pc |-> place, n |-> 0, size |-> "small", frag |-> FALSE, parked |-> FALSE]
        /\ receiver = [pc |-> "wait", taken |-> 0, closedRead |-> FALSE]
    BY DEF GateStarts
  <1>2. Ours = {} /\ OnRing = {}
    BY <1>1 DEF Ours, OnRing
  <1>3. Cardinality(OnRing) = 0
    BY <1>2, FS_EmptySet
  <1>4. GateTyped
    <2>1. 0 \in 0 .. MaxMessages
      BY GateAssumption
    <2>2. gate \in [admitted : BOOLEAN, pending : BOOLEAN, consumed : BOOLEAN,
                    inFlight : 0 .. MaxMessages, closed : BOOLEAN, detached : BOOLEAN]
      BY <1>1, <2>1
    <2>3. /\ transport \in [pc : Stations, n : 0 .. MaxMessages, size : Sizes, frag : BOOLEAN,
                            parked : BOOLEAN]
          /\ transport.n = 0
      BY <1>1, <2>1 DEF Stations, Sizes
    <2>4. /\ receiver.pc = "wait" /\ receiver.closedRead = FALSE
          /\ DOMAIN receiver = {"pc", "taken", "closedRead"}
      BY <1>1
    <2>5. shared \in Seq(Entries)
      BY <1>1
    <2> QED BY <1>1, <2>1, <2>2, <2>3, <2>4, <2>5 DEF GateTyped, GateTypeOK
  <1>5. Rising /\ Counting /\ Exclusive /\ Activated /\ CloseComesLast
    BY <1>1, <1>2, <1>3 DEF Rising, Counting, Underway, Routing, Exclusive, Activated,
       CloseComesLast
  <1>6. Numbered
    <2>1. (last + 1) .. Newest = {}
      BY <1>1 DEF Newest
    <2> QED BY <1>1, <1>2, <2>1 DEF Numbered, Routing
  <1> QED BY <1>4, <1>5, <1>6 DEF GateIInv

LEMMA GateStep ==
    ASSUME GateIInv, [GateNext]_gateVars PROVE GateIInv'
  <1>1. CASE ReadMessage \/ TransportSteps \/ WaitTimesOut \/ ReportClosed
    BY <1>1, ReadStep, RouteStep, CheckWritableStep, WakeParkedStep, AcquireStep, FillStep,
       UncountStep, FillBufferStep, ClearConsumedStep, RaisePendingStep, WaitTimesOutStep,
       ReportClosedStep DEF TransportSteps
  <1>2. CASE OtherAcquires \/ OtherCompletes \/ Release
    BY <1>2, OtherAcquiresStep, OtherCompletesStep, ReleaseStep
  <1>3. CASE Tick
    BY <1>3, StartTickStep, SeePendingStep, ProcessPendingStep, ClearPendingStep, SetConsumedStep,
       TakeItemStep, EndRingPassStep, LoseConnectionStep DEF Tick
  <1> QED BY <1>1, <1>2, <1>3, GateStutters DEF GateNext
-----------------------------------------------------------------------------
(* The messages of a connection: what the runs check *)

LEMMA GateCorrect ==
    ASSUME GateIInv PROVE GateTypeOK /\ GateSafe
  <1>1. BufferExclusive
    BY DEF GateIInv, Exclusive, BufferExclusive
  <1> QED BY <1>1 DEF GateIInv, GateTyped, GateSafe

LEMMA OneByOne ==
    ASSUME GateIInv, [GateNext]_gateVars PROVE last' = last \/ last' = last + 1
  <1>1. CASE ProcessPending
    <2>1. gate.pending /\ receiver.pc = "process" /\ (last' = last \/ (~gate.detached
            /\ last' = buffer))
      BY <1>1 DEF ProcessPending, Processed, GateIInv, Exclusive
    <2> QED BY <2>1, GateFacts DEF GateIInv, Numbered
  <1>2. CASE TakeItem
    <2>1. /\ shared # <<>> /\ Head(shared).state # "writing" /\ shared' = Tail(shared)
          /\ UNCHANGED transport
          /\ \/ last' = last
             \/ /\ ~gate.detached /\ last' = Head(shared).n
                /\ Head(shared).from = "conn" /\ Head(shared).state = "done"
      BY <1>2 DEF TakeItem, Takeable, Processed
    <2>2. Head(shared) = shared[1]
      BY <2>1, GateFacts, Popped
    <2>3. /\ shared[1].from = "conn" /\ shared[1].state = "done" => shared[1].n \in OnRing
          /\ shared[1].from = "conn" => \A k \in OnRing : shared[1].n <= k
      BY <2>1, TakenList DEF Takeable
    <2>4. ~gate.detached => OnRing = (last + 1) .. Newest
      BY DEF GateIInv, Numbered
    <2>5. last \in Nat /\ Newest \in Int
      BY GateFacts DEF Newest
    <2>6. ASSUME ~gate.detached, shared[1].from = "conn", shared[1].state = "done"
          PROVE  shared[1].n = last + 1
      <3> DEFINE n == shared[1].n
      <3>1. n \in (last + 1) .. Newest /\ \A k \in (last + 1) .. Newest : n <= k
        BY <2>3, <2>4, <2>6
      <3> HIDE DEF n
      <3>2. n = last + 1
        BY <2>5, <3>1
      <3> QED BY <3>2 DEF n
    <2> QED BY <2>1, <2>2, <2>6
  <1>3. CASE ~ProcessPending /\ ~TakeItem
    BY <1>3 DEF GateNext, gateVars, ReadMessage, TransportSteps, Route, CheckWritable, WakeParked,
       AcquireForMessage, FillForMessage, UncountDiscard, FillBuffer, ClearConsumed, RaisePending,
       WaitTimesOut, ReportClosed, OtherAcquires, OtherCompletes, Tick, Release, StartTick,
       SeePending, ClearPending, SetConsumed, EndRingPass, LoseConnection
  <1> QED BY <1>1, <1>2, <1>3

\* The two places that judge a length find the server/activate still unprocessed.
LEMMA JudgedInTime ==
    ASSUME GateIInv, [GateNext]_gateVars, ~gate.detached, gate'.detached,
           transport'.pc = "closing", transport.size = "overCap",
           transport.pc \notin {"acquire", "closing"}, ~transport.parked
    PROVE  transport.n = 1
  <1>1. ASSUME ~gate.admitted, transport.pc \in {"judge", "receive"}, ~gate.pending
        PROVE  transport.n = 1
    <2>1. OnRing = (last + 1) .. sent /\ last <= sent /\ sent = transport.n - 1
      BY <1>1 DEF GateIInv, Numbered, Newest, Routing
    <2>2. OnRing = {} /\ ~(last > 0)
      BY <1>1 DEF GateIInv, Activated
    <2> QED BY <2>1, <2>2, GateFacts
  <1>2. CASE CheckWritable
    <2>1. MayWrite /\ Writable /\ transport.pc \in Waits
      BY <1>2, GateFacts DEF CheckWritable, Drop
    <2>2. transport.pc = "judge" /\ ~gate.admitted
      <3>1. transport.pc \in {"open", "toBuffer"} => gate' = gate
        BY <2>1 DEF Writable
      <3>2. transport.pc = "toRing" => gate' = [gate EXCEPT !.inFlight = @ + 1]
        BY <2>1 DEF Writable
      <3>3. transport.pc # "toRing"
        BY <3>2, GateFacts
      <3>4. transport.pc = "judge"
        BY <2>1, <3>1, <3>3 DEF Waits
      <3>5. gate.admitted => gate' = gate
        BY <2>1, <3>4 DEF Writable
      <3> QED BY <3>4, <3>5
    <2> QED BY <1>1, <2>1, <2>2 DEF MayWrite
  <1>3. CASE FillBuffer
    <2>1. transport.pc = "receive" /\ ~gate.admitted
      BY <1>3 DEF FillBuffer, Drop
    <2> QED BY <1>1, <2>1 DEF GateIInv, Exclusive
  <1>4. CASE Tick \/ Release \/ OtherAcquires \/ OtherCompletes
    <2>1. transport' = transport
      BY <1>4 DEF Tick, Release, OtherAcquires, OtherCompletes, StartTick, SeePending,
         ProcessPending, ClearPending, SetConsumed, TakeItem, EndRingPass, LoseConnection
    <2> QED BY <2>1
  <1>5. CASE ReadMessage \/ Route \/ FillForMessage
    <2>1. gate' = gate
      BY <1>5 DEF ReadMessage, Route, Drop, FillForMessage
    <2> QED BY <2>1
  <1>6. CASE WakeParked \/ WaitTimesOut \/ AcquireForMessage
    BY <1>6 DEF WakeParked, WaitTimesOut, AcquireForMessage
  <1>7. CASE UncountDiscard
    <2>1. gate' = [gate EXCEPT !.inFlight = @ - 1]
      BY <1>7 DEF UncountDiscard
    <2> QED BY <2>1, GateFacts
  <1>8. CASE ClearConsumed \/ RaisePending \/ ReportClosed
    <2>1. \/ gate' = [gate EXCEPT !.consumed = FALSE]
          \/ gate' = [gate EXCEPT !.pending = TRUE]
          \/ gate' = [gate EXCEPT !.closed = TRUE]
      BY <1>8 DEF ClearConsumed, RaisePending, ReportClosed
    <2> QED BY <2>1, GateFacts
  <1>9. CASE UNCHANGED gateVars
    BY <1>9 DEF gateVars
  <1> QED BY <1>2, <1>3, <1>4, <1>5, <1>6, <1>7, <1>8, <1>9 DEF GateNext, TransportSteps

LEMMA GateInductive == InboundPathSpec => []GateIInv
  <1>1. InboundPathInit => GateIInv
    BY GateStarted DEF InboundPathInit
  <1>2. GateIInv /\ [InboundPathNext]_inboundPathVars => GateIInv'
    BY GateStep DEF InboundPathNext, inboundPathVars, gateVars
  <1> QED BY <1>1, <1>2, PTL DEF InboundPathSpec

\* The connection's messages are processed in the order its peer sent them, once each, by either
\* way, and none behind the server/activate closes the connection for its length
\* (connection.cpp, begin_inbound_message(), protocol_task.cpp).
THEOREM MessagesCorrect == InboundPathSpec => MessagesInOrder
  <1>1. GateIInv /\ [InboundPathNext]_inboundPathVars => [last' # last => last' = last + 1]_last
    <2> SUFFICES ASSUME GateIInv, [InboundPathNext]_inboundPathVars
                 PROVE  [last' # last => last' = last + 1]_last
      OBVIOUS
    <2>1. [GateNext]_gateVars
      BY DEF InboundPathNext, inboundPathVars
    <2> QED BY <2>1, OneByOne
  <1>2. GateIInv /\ [InboundPathNext]_inboundPathVars
          => [/\ ~gate.detached /\ gate'.detached /\ transport'.pc = "closing"
              /\ transport.size = "overCap" /\ transport.pc \notin {"acquire", "closing"}
                   /\ ~transport.parked
              => transport.n = 1]_gateVars
    <2> SUFFICES ASSUME GateIInv, [InboundPathNext]_inboundPathVars,
                        ~gate.detached, gate'.detached, transport'.pc = "closing",
                        transport.size = "overCap",
                        transport.pc \notin {"acquire", "closing"}, ~transport.parked
                 PROVE  transport.n = 1
      OBVIOUS
    <2>1. [GateNext]_gateVars
      BY DEF InboundPathNext, inboundPathVars
    <2> QED BY <2>1, JudgedInTime
  <1> QED BY <1>1, <1>2, GateInductive, PTL
          DEF InboundPathSpec, MessagesInOrder, ProcessedInOrder, JudgedAfterActivation
-----------------------------------------------------------------------------
(* The items of the ring: the inductive invariant *)

\* Where a thread is, and where it holds an item
TaskPlaces == {"idle", "got", "return", "release", "giveBack", "append", "signal", "fill", "recall"}
ConsumerPlaces == {"poll", "wait", "return", "release", "giveBack", "done"}
Hands == {"got", "fill", "append", "return"}

Chain == actor["task"].chain
NoTwice(q) == \A i, j \in DOMAIN q : q[i] = q[j] => i = j
One(b) == IF b THEN 1 ELSE 0

InHand(a, s) == actor[a].item = s /\ actor[a].pc \in Hands
Filling(s) == actor["task"].item = s /\ actor["task"].pc = "fill"
Getting(s) == actor["task"].item = s /\ actor["task"].pc = "got"

\* Whether an item is with the consumer's side, and whether a thread is to give it back
ItemHeld(s) == s \in Range(list) \/ s \in Range(Chain) \/ \E a \in Actors : InHand(a, s)
Leaving(s) == \E a \in Actors : actor[a].item = s /\ actor[a].last

Headers_ == [kind : Kinds, filled : BOOLEAN, published : BOOLEAN, taken : BOOLEAN,
             returned : BOOLEAN, charge : {0, 1}, parties : 0 .. LOCAL_ITEM_PARTIES]
Threads == [pc : TaskPlaces \cup ConsumerPlaces, item : Slots \cup {NoSlot}, release : Nat,
            last : BOOLEAN, chain : Seq(Slots)]

Charged == {s \in Slots : item[s].charge = 1}

ItemsTyped ==
    /\ InboundTypeOK
    /\ actor \in [Actors -> Threads]
    /\ DOMAIN run = {"phase", "told", "acquires", "boundaries"}
    /\ run.phase \in {"running", "stopping", "recall", "reset", "done"}
    /\ IsFiniteSet(Charged)

ThreadOK(a) ==
    /\ actor[a].pc \in Hands \/ actor[a].last => actor[a].item # NoSlot
    /\ actor[a].pc \notin Hands \cup {"release", "giveBack"} => actor[a].item = NoSlot
    /\ actor[a].pc \notin {"release", "giveBack"} => actor[a].release = 0 /\ ~actor[a].last
    /\ actor[a].pc = "giveBack" => actor[a].last /\ actor[a].release = 0

ThreadsApart ==
    /\ actor["task"].pc \in TaskPlaces /\ actor["consumer"].pc \in ConsumerPlaces
    /\ ThreadOK("task") /\ ThreadOK("consumer")
    /\ actor["consumer"].chain = <<>>
    /\ Chain # <<>> => actor["task"].pc \in {"recall", "return", "release", "giveBack"}
    /\ actor["task"].pc = "recall" => Chain # <<>>

\* An item has one holder besides the ring.
OneHolder ==
    /\ NoTwice(order) /\ NoTwice(list) /\ NoTwice(Chain)
    /\ \A s \in Slots :
         /\ s \in Range(list) => s \notin Range(Chain)
         /\ s \in Range(list) \cup Range(Chain) => \A a \in Actors : ~InHand(a, s)
         /\ InHand("task", s) => ~InHand("consumer", s)
         /\ actor["task"].last /\ actor["consumer"].last => actor["task"].item # actor["consumer"].item

\* A LOCAL item has been returned by the protocol task in ring order, by its holder, or by both.
LocalItem(s) ==
    /\ item[s].published = item[s].filled
    /\ ~item[s].filled => Filling(s)
    /\ item[s].parties = One(item[s].taken) + One(~ItemHeld(s))
    /\ Leaving(s) <=> item[s].parties = 2 /\ ~item[s].returned
    /\ item[s].returned => item[s].parties = 2

ReceivedItem(s) ==
    /\ item[s].parties = 0
    /\ ItemHeld(s) \/ Leaving(s) <=> item[s].taken /\ ~item[s].returned
    /\ ~(ItemHeld(s) /\ Leaving(s)) /\ ~Filling(s)

SlotOK(s) ==
    IF s \notin InRing
    THEN /\ ~ItemHeld(s) /\ ~Leaving(s)
         /\ item[s] = [Absent EXCEPT !.published = item[s].published]
    ELSE /\ item[s].taken => item[s].filled
         /\ item[s].returned => item[s].taken
         /\ item[s].published => item[s].filled
         /\ IF item[s].kind = "LOCAL" THEN LocalItem(s) ELSE ReceivedItem(s)
         /\ item[s].charge = 1 => ItemHeld(s)
         /\ Getting(s) => item[s].kind = "MESSAGE" /\ item[s].charge = 0
         /\ Filling(s) => ~item[s].filled /\ item[s].charge = 0

HeadKept == order # <<>> => ~item[order[1]].returned

\* heads_ahead is what the start of the storage owes the two sides: an item filled there and not taken
\* yet, against one found there and kept as pending.
HeadsMatch ==
    /\ heads.pending # NoSlot => AtStart(heads.pending) /\ Oldest(heads.pending)
    /\ heads.ahead = One(\E s \in Slots : AtStart(s) /\ item[s].filled /\ ~item[s].taken)
                        - One(heads.pending # NoSlot)

Stopping ==
    /\ run.phase \in {"recall", "reset", "done"} =>
         /\ actor["consumer"].pc = "done" /\ list = <<>> /\ \A s \in Slots : item[s].published
         /\ actor["task"].pc \in {"idle", "recall", "got", "return", "release", "giveBack"}
    /\ run.phase \in {"reset", "done"} =>
         Chain = <<>> /\ actor["task"].pc \in {"idle", "release", "giveBack"}
    /\ run.phase = "done" => order = <<>> /\ actor["task"].pc = "idle" /\ heads.pending = NoSlot

ItemsIInv ==
    /\ ItemsTyped /\ ThreadsApart /\ OneHolder /\ (\A s \in Slots : SlotOK(s)) /\ HeadKept
    /\ HeadsMatch /\ Stopping /\ QuotaMatches
-----------------------------------------------------------------------------
(* The items of the ring: lists and threads *)

LEMMA LeastOf ==
    ASSUME NEW S, S \subseteq Nat, S # {}
    PROVE  \E x \in S : \A y \in S : x <= y
  <1>1. PICK x \in S : \A y \in S : ~ (<<y, x>> \in OpToRel(<, Nat))
    BY NatLessThanWellFounded, WFMin
  <1>2. \A y \in S : ~ (y < x)
    BY <1>1 DEF OpToRel
  <1> QED BY <1>2

LEMMA RangeAppended ==
    ASSUME NEW S, NEW q \in Seq(S), NEW x \in S
    PROVE  /\ Range(Append(q, x)) = Range(q) \cup {x}
           /\ NoTwice(q) /\ x \notin Range(q) => NoTwice(Append(q, x))
  <1>1. /\ Len(q) \in Nat /\ DOMAIN q = 1 .. Len(q) /\ DOMAIN Append(q, x) = 1 .. Len(q) + 1
        /\ \A i \in 1 .. Len(q) : Append(q, x)[i] = q[i]
        /\ Append(q, x)[Len(q) + 1] = x
    BY Appended
  <1> DEFINE r == Append(q, x)
  <1> HIDE DEF r
  <1>2. /\ DOMAIN r = DOMAIN q \cup {Len(q) + 1} /\ Len(q) + 1 \notin DOMAIN q
        /\ \A i \in DOMAIN q : r[i] = q[i]
        /\ r[Len(q) + 1] = x
    BY <1>1 DEF r
  <1>3. Range(r) = Range(q) \cup {x}
    BY <1>2 DEF Range
  <1>4. NoTwice(q) /\ x \notin Range(q) => NoTwice(r)
    BY <1>2 DEF NoTwice, Range
  <1> QED BY <1>3, <1>4 DEF r

LEMMA RangePopped ==
    ASSUME NEW S, NEW q \in Seq(S), q # <<>>, NoTwice(q)
    PROVE  /\ Head(q) \in Range(q) /\ Head(q) \in S /\ Tail(q) \in Seq(S)
           /\ Range(Tail(q)) = Range(q) \ {Head(q)} /\ NoTwice(Tail(q))
  <1>1. /\ Tail(q) \in Seq(S) /\ Len(q) \in Nat \ {0}
        /\ DOMAIN q = 1 .. Len(q) /\ DOMAIN Tail(q) = 1 .. Len(q) - 1
        /\ \A i \in 1 .. Len(q) - 1 : Tail(q)[i] = q[i + 1]
        /\ Head(q) = q[1] /\ Head(q) \in S
    BY Popped
  <1>2. \A i \in DOMAIN Tail(q) : i \in Int /\ i + 1 \in DOMAIN q /\ i + 1 # 1 /\ Tail(q)[i] = q[i + 1]
    BY <1>1
  <1>3. \A i \in DOMAIN q : i # 1 => i - 1 \in DOMAIN Tail(q) /\ Tail(q)[i - 1] = q[i]
    BY <1>1
  <1>4. 1 \in DOMAIN q
    BY <1>1
  <1>5. NoTwice(Tail(q))
    <2> SUFFICES ASSUME NEW i \in DOMAIN Tail(q), NEW j \in DOMAIN Tail(q), Tail(q)[i] = Tail(q)[j]
                 PROVE  i = j
      BY DEF NoTwice
    <2>1. i + 1 = j + 1
      BY <1>2 DEF NoTwice
    <2> QED BY <1>2, <2>1
  <1>6. Range(Tail(q)) = Range(q) \ {q[1]}
    <2>1. ASSUME NEW x \in Range(Tail(q)) PROVE x \in Range(q) /\ x # q[1]
      <3>1. PICK i \in DOMAIN Tail(q) : x = Tail(q)[i]
        BY DEF Range
      <3> QED BY <1>2, <1>4, <3>1 DEF Range, NoTwice
    <2>2. ASSUME NEW x \in Range(q), x # q[1] PROVE x \in Range(Tail(q))
      BY <1>3, <2>2 DEF Range
    <2> QED BY <2>1, <2>2
  <1> QED BY <1>1, <1>4, <1>5, <1>6 DEF Range

LEMMA RangeEmpty == Range(<<>>) = {} /\ NoTwice(<<>>)
  BY DEF Range, NoTwice

LEMMA ItemsFacts ==
    ASSUME ItemsIInv
    PROVE  /\ Slots \subseteq Nat /\ NoSlot \notin Slots
           /\ order \in Seq(Slots) /\ list \in Seq(Slots) /\ Chain \in Seq(Slots)
           /\ Range(order) = InRing /\ InRing \subseteq Slots
           /\ Range(list) \subseteq Slots /\ Range(Chain) \subseteq Slots
           /\ item \in [Slots -> Headers_] /\ actor \in [Actors -> Threads]
           /\ \A s \in Slots : item[s] \in Headers_
           /\ \A a \in Actors : actor[a] \in Threads
           /\ outstanding \in 0 .. QuotaLimit /\ QuotaLimit \in Nat
           /\ signalled \in BOOLEAN
           /\ heads \in [ahead : -1 .. 1, pending : Slots \cup {NoSlot}]
           /\ IsFiniteSet(Charged) /\ Cardinality(Charged) \in Nat
  <1>1. Slots \subseteq Nat /\ QuotaLimit \in Nat /\ NoSlot \notin Slots
    BY InboundAssumption DEF NoSlot
  <1>2. actor \in [Actors -> Threads] /\ \A a \in Actors : actor[a] \in Threads
    BY DEF ItemsIInv, ItemsTyped
  <1>3. Chain \in Seq(Slots)
    BY <1>2 DEF Chain, Threads, Actors
  <1>4. order \in Seq(Slots) /\ list \in Seq(Slots)
    BY DEF ItemsIInv, ItemsTyped, InboundTypeOK
  <1>5. Range(order) = InRing
    BY DEF Range, InRing
  <1>6. \A q \in Seq(Slots) : Range(q) \subseteq Slots
    BY DEF Range
  <1>7. IsFiniteSet(Charged) /\ Cardinality(Charged) \in Nat
    BY FS_CardinalityType DEF ItemsIInv, ItemsTyped
  <1>8. item \in [Slots -> Headers_] /\ \A s \in Slots : item[s] \in Headers_
    BY DEF ItemsIInv, ItemsTyped, InboundTypeOK, Headers_
  <1> QED BY <1>1, <1>2, <1>3, <1>4, <1>5, <1>6, <1>7, <1>8 DEF ItemsIInv, ItemsTyped, InboundTypeOK

\* Where a thread goes on, and with what
LEMMA MovesTo ==
    ASSUME actor \in [Actors -> Threads], NEW a \in Actors, NEW rest \in Threads, Moves(a, rest)
    PROVE  /\ actor' \in [Actors -> Threads]
           /\ \A b \in Actors : b # a => actor'[b] = actor[b]
           /\ actor'[a].release = rest.release /\ actor'[a].last = rest.last
           /\ actor'[a].chain = rest.chain
           /\ actor'[a].pc = IF rest.release # 0 THEN "release" ELSE IF rest.last THEN "giveBack"
                             ELSE IF a = "consumer" THEN "poll"
                             ELSE IF rest.chain = <<>> THEN "idle" ELSE "recall"
           /\ actor'[a].item = IF rest.release # 0 \/ rest.last THEN rest.item ELSE NoSlot
  <1> DEFINE pc == IF rest.release # 0 THEN "release" ELSE IF rest.last THEN "giveBack"
                   ELSE IF a = "consumer" THEN "poll"
                   ELSE IF rest.chain = <<>> THEN "idle" ELSE "recall"
             in == IF rest.release # 0 \/ rest.last THEN rest.item ELSE NoSlot
  <1>1. pc \in TaskPlaces \cup ConsumerPlaces /\ in \in Slots \cup {NoSlot}
    BY DEF TaskPlaces, ConsumerPlaces, Threads
  <1>2. actor' = [actor EXCEPT ![a] = [rest EXCEPT !.pc = pc, !.item = in]]
    <2>1. CASE rest.release # 0
      <3>1. [rest EXCEPT !.pc = "release"] = [rest EXCEPT !.pc = pc, !.item = in]
        BY <2>1 DEF Threads
      <3> QED BY <2>1, <3>1 DEF Moves
    <2>2. CASE rest.release = 0 /\ rest.last
      <3>1. [rest EXCEPT !.pc = "giveBack"] = [rest EXCEPT !.pc = pc, !.item = in]
        BY <2>2 DEF Threads
      <3> QED BY <2>2, <3>1 DEF Moves
    <2>3. CASE rest.release = 0 /\ ~rest.last
      <3>1. [rest EXCEPT !.item = NoSlot, !.pc = IF a = "consumer" THEN "poll"
                                                  ELSE IF rest.chain = <<>> THEN "idle" ELSE "recall"]
              = [rest EXCEPT !.pc = pc, !.item = in]
        BY <2>3 DEF Threads
      <3> QED BY <2>3, <3>1 DEF Moves
    <2> QED BY <2>1, <2>2, <2>3
  <1> HIDE DEF pc, in
  <1>3. [rest EXCEPT !.pc = pc, !.item = in] \in Threads
    BY <1>1 DEF Threads
  <1>4. /\ actor'[a] = [rest EXCEPT !.pc = pc, !.item = in]
        /\ \A b \in Actors : b # a => actor'[b] = actor[b]
    BY <1>2, <1>3
  <1>5. actor' \in [Actors -> Threads]
    BY <1>2, <1>3
  <1>6. /\ actor'[a].pc = pc /\ actor'[a].item = in /\ actor'[a].release = rest.release
        /\ actor'[a].last = rest.last /\ actor'[a].chain = rest.chain
    BY <1>4 DEF Threads
  <1> QED BY <1>4, <1>5, <1>6 DEF pc, in

\* A slot whose situation does not change
LEMMA SlotSame ==
    ASSUME NEW s \in Slots, SlotOK(s), item'[s] = item[s], (s \in InRing)' <=> s \in InRing,
           ItemHeld(s)' <=> ItemHeld(s), Leaving(s)' <=> Leaving(s),
           Filling(s)' <=> Filling(s), Getting(s)' => Getting(s)
    PROVE  SlotOK(s)'
  BY DEF SlotOK, LocalItem, ReceivedItem, One
-----------------------------------------------------------------------------
(* The items of the ring: each step *)

LEMMA GoesTo ==
    ASSUME ItemsIInv, NEW a \in Actors, NEW pc \in TaskPlaces \cup ConsumerPlaces, Goes(a, pc)
    PROVE  /\ actor' \in [Actors -> Threads]
           /\ \A b \in Actors : b # a => actor'[b] = actor[b]
           /\ actor'[a].pc = pc /\ actor'[a].item = actor[a].item
           /\ actor'[a].release = actor[a].release /\ actor'[a].last = actor[a].last
           /\ actor'[a].chain = actor[a].chain
  <1>1. actor \in [Actors -> Threads]
    BY ItemsFacts
  <1>2. actor' = [actor EXCEPT ![a] = [actor[a] EXCEPT !.pc = pc]]
    BY DEF Goes
  <1>3. [actor[a] EXCEPT !.pc = pc] \in Threads
    BY <1>1 DEF Threads
  <1>4. actor'[a] = [actor[a] EXCEPT !.pc = pc] /\ actor' \in [Actors -> Threads]
        /\ \A b \in Actors : b # a => actor'[b] = actor[b]
    BY <1>1, <1>2, <1>3
  <1> QED BY <1>1, <1>4 DEF Threads

\* What the run's counters and the two threads do when no slot is concerned
LEMMA NoSlotConcerned ==
    ASSUME ItemsIInv, UNCHANGED <<order, item, list, outstanding, heads>>, signalled' \in BOOLEAN,
           actor' \in [Actors -> Threads], ThreadsApart', Chain' = Chain,
           \A a \in Actors : /\ actor'[a].release = actor[a].release
                             /\ actor'[a].last = actor[a].last /\ actor'[a].item = actor[a].item
                             /\ actor'[a].pc \in Hands <=> actor[a].pc \in Hands,
           actor'["task"].pc = "fill" <=> actor["task"].pc = "fill",
           actor'["task"].pc = "got" <=> actor["task"].pc = "got",
           DOMAIN run' = {"phase", "told", "acquires", "boundaries"},
           run'.phase \in {"running", "stopping", "recall", "reset", "done"}, Stopping'
    PROVE  ItemsIInv'
  <1>1. InRing' = InRing /\ Charged' = Charged
    BY DEF InRing, Charged
  <1>2. \A s \in Slots, a \in Actors : InHand(a, s)' <=> InHand(a, s)
    BY DEF InHand
  <1>3. ASSUME NEW s \in Slots
        PROVE  /\ ItemHeld(s)' <=> ItemHeld(s)
               /\ Leaving(s)' <=> Leaving(s)
               /\ Filling(s)' <=> Filling(s)
               /\ Getting(s)' <=> Getting(s)
    <2>1. "task" \in Actors
      BY DEF Actors
    <2> QED BY <1>2, <2>1 DEF ItemHeld, Leaving, Filling, Getting
  <1>4. \A s \in Slots : SlotOK(s)'
    BY <1>1, <1>3, SlotSame DEF ItemsIInv
  <1>5. ItemsTyped'
    BY <1>1 DEF ItemsIInv, ItemsTyped, InboundTypeOK
  <1>6. OneHolder'
    <2>1. "task" \in Actors /\ "consumer" \in Actors
      BY DEF Actors
    <2> QED BY <1>2, <2>1 DEF ItemsIInv, OneHolder
  <1>7. HeadKept' /\ HeadsMatch'
    BY DEF ItemsIInv, HeadKept, HeadsMatch, Oldest
  <1>8. QuotaMatches'
    BY <1>1 DEF ItemsIInv, QuotaMatches, Actors
  <1> QED BY <1>4, <1>5, <1>6, <1>7, <1>8 DEF ItemsIInv

LEMMA SignalAppendedStep ==
    ASSUME ItemsIInv, SignalAppended PROVE ItemsIInv'
  <1>1. /\ actor["task"].pc = "signal" /\ signalled' = TRUE /\ Goes("task", "idle")
        /\ UNCHANGED <<order, item, list, outstanding, heads, run>>
    BY DEF SignalAppended, At
  <1>2. /\ actor' \in [Actors -> Threads] /\ actor'["consumer"] = actor["consumer"]
        /\ actor'["task"].pc = "idle" /\ actor'["task"].item = actor["task"].item
        /\ actor'["task"].release = actor["task"].release /\ actor'["task"].last = actor["task"].last
        /\ actor'["task"].chain = actor["task"].chain
    BY <1>1, GoesTo DEF Actors, TaskPlaces
  <1>3. ThreadsApart'
    BY <1>1, <1>2 DEF ItemsIInv, ThreadsApart, ThreadOK, Chain, TaskPlaces, Hands
  <1>4. Stopping'
    BY <1>1, <1>2 DEF ItemsIInv, Stopping, Chain
  <1> QED BY <1>1, <1>2, <1>3, <1>4, NoSlotConcerned
          DEF ItemsIInv, ItemsTyped, Chain, Actors, Hands

\* The consumer goes to sleep, wakes, or exits.
LEMMA ConsumerRestsStep ==
    ASSUME ItemsIInv, NEW pc \in {"poll", "wait", "done"}, Goes("consumer", pc),
           actor["consumer"].pc \in {"poll", "wait"}, signalled' \in BOOLEAN,
           UNCHANGED <<order, item, list, outstanding, heads, run>>
    PROVE  ItemsIInv'
  <1>1. /\ actor' \in [Actors -> Threads] /\ actor'["task"] = actor["task"]
        /\ actor'["consumer"].pc = pc /\ actor'["consumer"].item = actor["consumer"].item
        /\ actor'["consumer"].release = actor["consumer"].release
        /\ actor'["consumer"].last = actor["consumer"].last
        /\ actor'["consumer"].chain = actor["consumer"].chain
    BY GoesTo DEF Actors, ConsumerPlaces
  <1>2. ThreadsApart'
    BY <1>1 DEF ItemsIInv, ThreadsApart, ThreadOK, Chain, ConsumerPlaces, Hands
  <1>3. Stopping'
    BY <1>1 DEF ItemsIInv, Stopping, Chain
  <1> QED BY <1>1, <1>2, <1>3, NoSlotConcerned
          DEF ItemsIInv, ItemsTyped, Chain, Actors, Hands

\* stop() goes on, or the consumer is told to exit.
LEMMA RunGoesOn ==
    ASSUME ItemsIInv, signalled' \in BOOLEAN,
           UNCHANGED <<order, item, list, outstanding, heads, actor>>,
           DOMAIN run' = {"phase", "told", "acquires", "boundaries"},
           run'.phase \in {"running", "stopping", "recall", "reset", "done"}, Stopping'
    PROVE  ItemsIInv'
  <1>1. ThreadsApart' /\ Chain' = Chain /\ actor' \in [Actors -> Threads]
    BY ItemsFacts DEF ItemsIInv, ThreadsApart, ThreadOK, Chain
  <1> QED BY <1>1, NoSlotConcerned

LEMMA PhaseTo ==
    ASSUME ItemsIInv, NEW from, NEW to \in {"running", "stopping", "recall", "reset", "done"},
           Phase(from, to)
    PROVE  run.phase = from /\ run'.phase = to
           /\ DOMAIN run' = {"phase", "told", "acquires", "boundaries"}
  BY DEF ItemsIInv, ItemsTyped, Phase

LEMMA BeginStopStep ==
    ASSUME ItemsIInv, BeginStop PROVE ItemsIInv'
  <1>1. run'.phase = "stopping" /\ DOMAIN run' = {"phase", "told", "acquires", "boundaries"}
        /\ UNCHANGED <<order, item, list, signalled, outstanding, heads, actor>>
    BY PhaseTo DEF BeginStop
  <1>2. Stopping'
    BY <1>1 DEF Stopping
  <1> QED BY <1>1, <1>2, RunGoesOn, ItemsFacts

LEMMA TellConsumerStep ==
    ASSUME ItemsIInv, TellConsumer PROVE ItemsIInv'
  <1>1. /\ run' = [run EXCEPT !.told = TRUE] /\ signalled' = TRUE
        /\ UNCHANGED <<order, item, list, outstanding, heads, actor>>
    BY DEF TellConsumer
  <1>2. run'.phase = run.phase /\ DOMAIN run' = {"phase", "told", "acquires", "boundaries"}
        /\ run.phase \in {"running", "stopping", "recall", "reset", "done"}
    BY <1>1 DEF ItemsIInv, ItemsTyped
  <1>3. Stopping'
    BY <1>1, <1>2 DEF ItemsIInv, Stopping, Chain
  <1> QED BY <1>1, <1>2, <1>3, RunGoesOn

LEMMA EmptyRingStep ==
    ASSUME ItemsIInv, EmptyRing PROVE ItemsIInv'
  <1>1. /\ run.phase = "recall" /\ run'.phase = "reset" /\ actor["task"].pc = "idle"
        /\ DOMAIN run' = {"phase", "told", "acquires", "boundaries"}
        /\ UNCHANGED <<order, item, list, signalled, outstanding, heads, actor>>
    BY PhaseTo DEF EmptyRing, At
  <1>2. Stopping'
    BY <1>1 DEF ItemsIInv, Stopping, ThreadsApart, Chain
  <1> QED BY <1>1, <1>2, RunGoesOn, ItemsFacts

\* An item nobody has taken has an oldest one before it.
LEMMA SomeOldest ==
    ASSUME ItemsIInv, NEW i \in DOMAIN order, ~item[order[i]].taken
    PROVE  \E s \in Slots : Oldest(s)
  <1>1. DOMAIN order = 1 .. Len(order) /\ Len(order) \in Nat /\ \A j \in DOMAIN order : order[j] \in Slots
    BY ItemsFacts
  <1> DEFINE S == {k \in DOMAIN order : ~item[order[k]].taken}
  <1>2. PICK k \in S : \A j \in S : k <= j
    <2>1. S # {} /\ S \subseteq Nat
      BY <1>1
    <2> QED BY <2>1, LeastOf
  <1>3. \A j \in 1 .. k - 1 : item[order[j]].taken
    <2> TAKE j \in 1 .. k - 1
    <2>1. j \in DOMAIN order /\ ~(k <= j)
      BY <1>1
    <2> QED BY <1>2, <2>1
  <1> QED BY <1>1, <1>3 DEF Oldest

LEMMA RingEmptiedStep ==
    ASSUME ItemsIInv, RingEmptied PROVE ItemsIInv'
  <1>1. /\ run.phase = "reset" /\ run'.phase = "done" /\ actor["task"].pc = "idle"
        /\ heads.pending = NoSlot /\ \A s \in Slots : ~Oldest(s)
        /\ DOMAIN run' = {"phase", "told", "acquires", "boundaries"}
        /\ UNCHANGED <<order, item, list, signalled, outstanding, heads, actor>>
    BY PhaseTo DEF RingEmptied, At
  <1>2. \A s \in Slots : ~ItemHeld(s) /\ ~Leaving(s) /\ ~Filling(s)
    <2>1. Range(list) = {} /\ Range(Chain) = {}
      BY <1>1, RangeEmpty DEF ItemsIInv, Stopping
    <2>2. /\ actor["consumer"].pc = "done" /\ actor["task"].pc = "idle"
          /\ ~actor["task"].last /\ ~actor["consumer"].last
      BY <1>1 DEF ItemsIInv, Stopping, ThreadsApart, ThreadOK
    <2> QED BY <2>1, <2>2 DEF ItemHeld, Leaving, Filling, InHand, Actors, Hands
  <1>3. order = <<>>
    <2> SUFFICES ASSUME order # <<>> PROVE FALSE
      OBVIOUS
    <2>1. 1 \in DOMAIN order /\ order[1] \in Slots /\ order[1] \in InRing
      BY ItemsFacts DEF InRing
    <2>2. item[order[1]].taken
      BY <1>1, <2>1, SomeOldest
    <2>3. ~item[order[1]].returned
      BY DEF ItemsIInv, HeadKept
    <2>4. SlotOK(order[1]) /\ item[order[1]] \in Headers_
      BY <2>1, ItemsFacts DEF ItemsIInv
    <2>5. item[order[1]].parties = 2 => FALSE
      BY <1>2, <2>1, <2>3, <2>4 DEF SlotOK, LocalItem, ReceivedItem
    <2> QED BY <1>2, <2>1, <2>2, <2>3, <2>4, <2>5 DEF SlotOK, LocalItem, ReceivedItem, One
  <1>4. Stopping'
    BY <1>1, <1>3 DEF ItemsIInv, Stopping, Chain
  <1> QED BY <1>1, <1>4, RunGoesOn, ItemsFacts

LEMMA ConsumerExitStep ==
    ASSUME ItemsIInv, ConsumerExit PROVE ItemsIInv'
  BY ConsumerRestsStep, ItemsFacts DEF ConsumerExit, At

LEMMA WakeConsumerStep ==
    ASSUME ItemsIInv, WakeConsumer PROVE ItemsIInv'
  BY ConsumerRestsStep DEF WakeConsumer, At

\* An item goes from one holder to another: it stays with the consumer's side.
LEMMA HandedOn ==
    ASSUME ItemsIInv, UNCHANGED <<order, item, outstanding, heads, run>>,
           signalled' \in BOOLEAN, list' \in Seq(Slots),
           actor' \in [Actors -> Threads], ThreadsApart', OneHolder', Stopping',
           \A s \in Slots : ItemHeld(s)' <=> ItemHeld(s),
           \A a \in Actors : /\ actor'[a].release = actor[a].release
                             /\ \/ ~actor'[a].last /\ ~actor[a].last
                                \/ actor'[a] = actor[a],
           \/ actor'["task"].pc \notin {"got", "fill"} /\ actor["task"].pc # "fill"
           \/ actor'["task"] = actor["task"]
    PROVE  ItemsIInv'
  <1>1. InRing' = InRing /\ Charged' = Charged
    BY DEF InRing, Charged
  <1>2. ASSUME NEW s \in Slots
        PROVE  (Leaving(s)' <=> Leaving(s)) /\ (Filling(s)' <=> Filling(s))
               /\ (Getting(s)' => Getting(s))
    BY DEF Leaving, Filling, Getting
  <1>3. \A s \in Slots : SlotOK(s)'
    BY <1>1, <1>2, SlotSame DEF ItemsIInv
  <1>4. ItemsTyped'
    BY <1>1 DEF ItemsIInv, ItemsTyped, InboundTypeOK
  <1>5. HeadKept' /\ HeadsMatch'
    BY DEF ItemsIInv, HeadKept, HeadsMatch, Oldest
  <1>6. QuotaMatches'
    BY <1>1 DEF ItemsIInv, QuotaMatches, Actors
  <1> QED BY <1>3, <1>4, <1>5, <1>6 DEF ItemsIInv

LEMMA AppendItemStep ==
    ASSUME ItemsIInv, AppendItem PROVE ItemsIInv'
  <1> DEFINE mine == actor["task"].item
  <1>1. /\ actor["task"].pc = "append" /\ list' = Append(list, mine)
        /\ actor' = [actor EXCEPT !["task"].pc = "signal", !["task"].item = NoSlot]
        /\ UNCHANGED <<order, item, signalled, outstanding, heads, run>>
    BY DEF AppendItem, At
  <1>2. /\ mine \in Slots /\ InHand("task", mine) /\ "task" \in Actors /\ "consumer" \in Actors
        /\ actor["task"].release = 0 /\ ~actor["task"].last /\ Chain = <<>>
    BY <1>1, ItemsFacts DEF ItemsIInv, ThreadsApart, ThreadOK, InHand, Hands, Actors, Threads
  <1>3. /\ actor' \in [Actors -> Threads] /\ actor'["consumer"] = actor["consumer"]
        /\ actor'["task"].pc = "signal" /\ actor'["task"].item = NoSlot /\ Chain' = Chain
        /\ actor'["task"].release = 0 /\ ~actor'["task"].last
    BY <1>1, <1>2, ItemsFacts DEF Threads, Actors, Chain, TaskPlaces
  <1>4. mine \notin Range(list) /\ NoTwice(list)
    BY <1>2 DEF ItemsIInv, OneHolder
  <1>5. list' \in Seq(Slots) /\ Range(list') = Range(list) \cup {mine} /\ NoTwice(list')
    BY <1>1, <1>2, <1>4, ItemsFacts, RangeAppended
  <1>6. \A s \in Slots : /\ InHand("task", s) <=> s = mine
                         /\ ~InHand("task", s)'
                         /\ InHand("consumer", s)' <=> InHand("consumer", s)
    BY <1>1, <1>3 DEF InHand, Hands
  <1> HIDE DEF mine
  <1>7. ThreadsApart'
    BY <1>1, <1>2, <1>3 DEF ItemsIInv, ThreadsApart, ThreadOK, TaskPlaces, Hands
  <1>8. Stopping'
    BY <1>1 DEF ItemsIInv, Stopping
  <1>9. \A s \in Slots : ItemHeld(s)' <=> ItemHeld(s)
    BY <1>3, <1>5, <1>6 DEF ItemHeld, Actors
  <1>10. OneHolder'
    <2>1. Range(Chain) = {}
      BY <1>2, RangeEmpty
    <2>2. ~InHand("consumer", mine)
      BY <1>2 DEF ItemsIInv, OneHolder
    <2> QED BY <1>1, <1>2, <1>3, <1>5, <1>6, <2>1, <2>2 DEF ItemsIInv, OneHolder, Actors
  <1> QED BY <1>1, <1>2, <1>3, <1>5, <1>7, <1>8, <1>9, <1>10, HandedOn, ItemsFacts DEF Actors

LEMMA PopStep ==
    ASSUME ItemsIInv, Pop PROVE ItemsIInv'
  <1>1. /\ actor["consumer"].pc = "poll"
        /\ UNCHANGED <<order, item, signalled, outstanding, heads, run>>
    BY DEF Pop, At
  <1>2. CASE list = <<>>
    BY <1>1, <1>2, ConsumerRestsStep, ItemsFacts DEF Pop
  <1>3. CASE list # <<>>
    <2> DEFINE head == Head(list)
    <2>1. /\ list' = Tail(list)
          /\ actor' = [actor EXCEPT !["consumer"].pc = "return", !["consumer"].item = head]
      BY <1>3 DEF Pop
    <2>2. NoTwice(list) /\ actor["consumer"].item = NoSlot /\ actor["consumer"].release = 0
          /\ ~actor["consumer"].last /\ "task" \in Actors /\ "consumer" \in Actors
      BY <1>1 DEF ItemsIInv, OneHolder, ThreadsApart, ThreadOK, Hands, Actors
    <2>3. /\ head \in Range(list) /\ head \in Slots /\ list' \in Seq(Slots)
          /\ Range(list') = Range(list) \ {head} /\ NoTwice(list')
      BY <1>3, <2>1, <2>2, ItemsFacts, RangePopped
    <2> HIDE DEF head
    <2>4. /\ actor' \in [Actors -> Threads] /\ actor'["task"] = actor["task"] /\ Chain' = Chain
          /\ actor'["consumer"].pc = "return" /\ actor'["consumer"].item = head
          /\ actor'["consumer"].chain = actor["consumer"].chain
          /\ actor'["consumer"].release = 0 /\ ~actor'["consumer"].last
      BY <2>1, <2>2, <2>3, ItemsFacts DEF Threads, Actors, Chain, ConsumerPlaces
    <2>5. \A s \in Slots : /\ InHand("task", s)' <=> InHand("task", s)
                           /\ InHand("consumer", s)' <=> s = head
                           /\ ~InHand("consumer", s)
      BY <1>1, <2>4 DEF InHand, Hands
    <2>6. ThreadsApart'
      BY <2>3, <2>4, ItemsFacts DEF ItemsIInv, ThreadsApart, ThreadOK, ConsumerPlaces, Hands
    <2>7. Stopping'
      BY <1>1 DEF ItemsIInv, Stopping
    <2>8. \A s \in Slots : ItemHeld(s)' <=> ItemHeld(s)
      BY <2>3, <2>4, <2>5 DEF ItemHeld, Actors
    <2>9. OneHolder'
      <3>1. ~InHand("task", head) /\ head \notin Range(Chain)
        BY <2>2, <2>3 DEF ItemsIInv, OneHolder
      <3> QED BY <1>1, <2>2, <2>3, <2>4, <2>5, <3>1 DEF ItemsIInv, OneHolder, Actors
    <2> QED BY <1>1, <2>2, <2>3, <2>4, <2>6, <2>7, <2>8, <2>9, HandedOn, ItemsFacts DEF Actors
  <1> QED BY <1>2, <1>3

LEMMA RecallNextStep ==
    ASSUME ItemsIInv, RecallNext PROVE ItemsIInv'
  <1> DEFINE head == Head(Chain)
  <1>1. /\ actor["task"].pc = "recall"
        /\ actor' = [actor EXCEPT !["task"].pc = "return", !["task"].chain = Tail(@),
                                  !["task"].item = head]
        /\ UNCHANGED <<order, item, list, signalled, outstanding, heads, run>>
    BY DEF RecallNext, At, Chain
  <1>2. /\ NoTwice(Chain) /\ actor["task"].item = NoSlot /\ actor["task"].release = 0
        /\ ~actor["task"].last /\ Chain # <<>> /\ "task" \in Actors /\ "consumer" \in Actors
    BY <1>1 DEF ItemsIInv, OneHolder, ThreadsApart, ThreadOK, Hands, Actors
  <1>3. /\ head \in Range(Chain) /\ head \in Slots /\ Tail(Chain) \in Seq(Slots)
        /\ Range(Tail(Chain)) = Range(Chain) \ {head} /\ NoTwice(Tail(Chain))
    BY <1>2, ItemsFacts, RangePopped
  <1> HIDE DEF head
  <1>4. /\ actor' \in [Actors -> Threads] /\ actor'["consumer"] = actor["consumer"]
        /\ Chain' = Tail(Chain) /\ actor'["task"].pc = "return" /\ actor'["task"].item = head
        /\ actor'["task"].release = 0 /\ ~actor'["task"].last
    <2>1. actor' = [actor EXCEPT !["task"] = [actor["task"] EXCEPT !.pc = "return",
                                                 !.chain = Tail(Chain), !.item = head]]
      BY <1>1 DEF Chain
    <2>2. [actor["task"] EXCEPT !.pc = "return", !.chain = Tail(Chain), !.item = head] \in Threads
      BY <1>2, <1>3, ItemsFacts DEF Threads, TaskPlaces
    <2> QED BY <1>2, <2>1, <2>2, ItemsFacts DEF Threads, Actors, Chain
  <1>5. \A s \in Slots : /\ InHand("consumer", s)' <=> InHand("consumer", s)
                         /\ InHand("task", s)' <=> s = head
                         /\ ~InHand("task", s)
    BY <1>1, <1>4 DEF InHand, Hands
  <1>6. ThreadsApart'
    BY <1>3, <1>4, ItemsFacts DEF ItemsIInv, ThreadsApart, ThreadOK, TaskPlaces, Hands
  <1>7. Stopping'
    BY <1>1, <1>4 DEF ItemsIInv, Stopping
  <1>8. \A s \in Slots : ItemHeld(s)' <=> ItemHeld(s)
    BY <1>1, <1>3, <1>4, <1>5 DEF ItemHeld, Actors
  <1>9. OneHolder'
    <2>1. ~InHand("consumer", head) /\ head \notin Range(list)
      BY <1>2, <1>3 DEF ItemsIInv, OneHolder
    <2> QED BY <1>1, <1>2, <1>3, <1>4, <1>5, <2>1 DEF ItemsIInv, OneHolder, Actors
  <1> QED BY <1>1, <1>2, <1>3, <1>4, <1>6, <1>7, <1>8, <1>9, HandedOn, ItemsFacts DEF Actors

\* The list becomes the chain.
LEMMA DetachChainStep ==
    ASSUME ItemsIInv, actor["task"].pc = "idle", DetachChain,
           UNCHANGED <<order, item, signalled, outstanding, heads>>,
           DOMAIN run' = {"phase", "told", "acquires", "boundaries"},
           run'.phase \in {"running", "recall"},
           run'.phase = "recall" => actor["consumer"].pc = "done" /\ \A s \in Slots : item[s].published
    PROVE  ItemsIInv'
  <1> DEFINE pc == IF list = <<>> THEN "idle" ELSE "recall"
  <1>1. list' = <<>> /\ actor' = [actor EXCEPT !["task"].pc = pc, !["task"].chain = list]
    BY DEF DetachChain
  <1>2. /\ Chain = <<>> /\ Range(Chain) = {} /\ actor["task"].item = NoSlot
        /\ actor["task"].release = 0 /\ ~actor["task"].last
    BY RangeEmpty DEF ItemsIInv, ThreadsApart, ThreadOK, Hands
  <1>3. /\ actor' \in [Actors -> Threads] /\ actor'["consumer"] = actor["consumer"]
        /\ Chain' = list /\ actor'["task"].pc = pc /\ actor'["task"].item = NoSlot
        /\ actor'["task"].release = 0 /\ ~actor'["task"].last
    <2>1. pc \in TaskPlaces
      BY DEF TaskPlaces
    <2> HIDE DEF pc
    <2> QED BY <1>1, <1>2, <2>1, ItemsFacts DEF Threads, Actors, Chain
  <1>4. list' \in Seq(Slots) /\ Range(list') = {} /\ NoTwice(list')
    BY <1>1, RangeEmpty
  <1>5. \A s \in Slots : /\ InHand("consumer", s)' <=> InHand("consumer", s)
                         /\ ~InHand("task", s)' /\ ~InHand("task", s)
    BY <1>3 DEF InHand, Hands
  <1>6. ThreadsApart'
    BY <1>1, <1>3 DEF ItemsIInv, ThreadsApart, ThreadOK, TaskPlaces, Hands
  <1>7. Stopping'
    BY <1>1, <1>3 DEF Stopping
  <1>8. ASSUME NEW s \in Slots
        PROVE  /\ ItemHeld(s)' <=> ItemHeld(s)
               /\ Leaving(s)' <=> Leaving(s)
               /\ ~Filling(s)' /\ ~Filling(s) /\ ~Getting(s)' /\ ~Getting(s)
    BY <1>2, <1>3, <1>4, <1>5 DEF ItemHeld, Leaving, Filling, Getting, Actors
  <1>9. OneHolder'
    BY <1>2, <1>3, <1>4, <1>5 DEF ItemsIInv, OneHolder, Actors
  <1>10. InRing' = InRing /\ Charged' = Charged
    BY DEF InRing, Charged
  <1>11. \A s \in Slots : SlotOK(s)'
    BY <1>8, <1>10, SlotSame DEF ItemsIInv
  <1>12. ItemsTyped'
    BY <1>3, <1>4, <1>10 DEF ItemsIInv, ItemsTyped, InboundTypeOK
  <1>13. HeadKept' /\ HeadsMatch'
    BY DEF ItemsIInv, HeadKept, HeadsMatch, Oldest
  <1>14. QuotaMatches'
    BY <1>2, <1>3, <1>10 DEF ItemsIInv, QuotaMatches
  <1> QED BY <1>6, <1>7, <1>9, <1>11, <1>12, <1>13, <1>14 DEF ItemsIInv

LEMMA RecallStep ==
    ASSUME ItemsIInv, Recall PROVE ItemsIInv'
  <1>1. run' = [run EXCEPT !.boundaries = @ + 1] /\ run.phase = "running"
    BY DEF Recall
  <1>2. run'.phase = "running" /\ DOMAIN run' = {"phase", "told", "acquires", "boundaries"}
    BY <1>1 DEF ItemsIInv, ItemsTyped
  <1> QED BY <1>2, DetachChainStep DEF Recall, At

LEMMA JoinAllStep ==
    ASSUME ItemsIInv, JoinAll PROVE ItemsIInv'
  BY PhaseTo, DetachChainStep DEF JoinAll, At

LEMMA FreshFacts ==
    ASSUME NEW kind \in Kinds
    PROVE  /\ [Fresh EXCEPT !.kind = kind] \in Headers_
           /\ LET fresh == [Fresh EXCEPT !.kind = kind] IN
                /\ fresh.kind = kind /\ ~fresh.filled /\ ~fresh.published /\ ~fresh.taken
                /\ ~fresh.returned /\ fresh.charge = 0 /\ fresh.parties = 0
  <1>1. Fresh \in Headers_
    BY DEF Fresh, Headers_, Kinds, LOCAL_ITEM_PARTIES
  <1>2. /\ ~Fresh.filled /\ ~Fresh.published /\ ~Fresh.taken
        /\ ~Fresh.returned /\ Fresh.charge = 0 /\ Fresh.parties = 0
    BY DEF Fresh
  <1> QED BY <1>1, <1>2 DEF Headers_

LEMMA AbsentHeader ==
    /\ Absent \in Headers_ /\ Absent.charge = 0 /\ ~Absent.filled /\ ~Absent.taken
    /\ ~Absent.returned /\ Absent.published /\ Absent.kind = "MESSAGE" /\ Absent.parties = 0
  <1>1. Fresh \in Headers_
    BY DEF Fresh, Headers_, Kinds, LOCAL_ITEM_PARTIES
  <1>2. Absent \in Headers_
    BY <1>1 DEF Absent, Headers_
  <1>3. /\ Fresh.charge = 0 /\ ~Fresh.filled /\ ~Fresh.taken
        /\ ~Fresh.returned /\ Fresh.kind = "MESSAGE" /\ Fresh.parties = 0
    BY DEF Fresh
  <1> QED BY <1>1, <1>2, <1>3 DEF Absent, Headers_

\* A slot outside the ring holds nothing.
LEMMA AbsentFacts ==
    ASSUME ItemsIInv, NEW s \in Slots, s \notin InRing
    PROVE  /\ ~ItemHeld(s) /\ ~Leaving(s) /\ ~Filling(s) /\ ~Getting(s)
           /\ ~item[s].filled /\ ~item[s].taken /\ ~item[s].returned /\ item[s].charge = 0
           /\ item[s].kind = "MESSAGE" /\ item[s].parties = 0
           /\ \A a \in Actors : ~InHand(a, s)
           /\ s \notin Range(list) /\ s \notin Range(Chain)
  <1>1. SlotOK(s)
    BY DEF ItemsIInv
  <1>2. item[s] = [Absent EXCEPT !.published = item[s].published] /\ ~ItemHeld(s) /\ ~Leaving(s)
    BY <1>1 DEF SlotOK
  <1>3. /\ ~item[s].filled /\ ~item[s].taken /\ ~item[s].returned /\ item[s].charge = 0
        /\ item[s].kind = "MESSAGE" /\ item[s].parties = 0
    BY <1>2 DEF Absent, Fresh
  <1>4. ~Filling(s) /\ ~Getting(s)
    BY <1>2 DEF ItemHeld, InHand, Filling, Getting, Hands, Actors
  <1> QED BY <1>2, <1>3, <1>4 DEF ItemHeld

LEMMA AcquireFacts ==
    ASSUME ItemsIInv, NEW s \in FreeSlots, NEW kind \in Kinds, AcquireItem(s, kind)
    PROVE  /\ order' \in Seq(Slots) /\ NoTwice(order') /\ InRing' = InRing \cup {s} /\ s \notin InRing
           /\ item' \in [Slots -> Headers_] /\ s \in Slots
           /\ \A t \in Slots : t # s => item'[t] = item[t]
           /\ item'[s].kind = kind /\ ~item'[s].filled /\ ~item'[s].published /\ ~item'[s].taken
           /\ ~item'[s].returned /\ item'[s].charge = 0 /\ item'[s].parties = 0
           /\ Charged' = Charged /\ HeadKept'
           /\ \A t \in Slots : Oldest(t) => Oldest(t)'
           /\ (\E t \in Slots : AtStart(t) /\ item'[t].filled /\ ~item'[t].taken)
                <=> (\E t \in Slots : AtStart(t) /\ item[t].filled /\ ~item[t].taken)
           /\ run'.phase = run.phase
           /\ DOMAIN run' = {"phase", "told", "acquires", "boundaries"}
  <1> DEFINE fresh == [Fresh EXCEPT !.kind = kind]
  <1>1. s \in Slots /\ s \notin InRing
    BY DEF FreeSlots
  <1>2. /\ order' = Append(order, s) /\ item' = [item EXCEPT ![s] = fresh]
        /\ run' = [run EXCEPT !.acquires = @ + 1]
    BY DEF AcquireItem
  <1>3. /\ fresh \in Headers_ /\ fresh.kind = kind /\ ~fresh.filled /\ ~fresh.published
        /\ ~fresh.taken /\ ~fresh.returned /\ fresh.charge = 0 /\ fresh.parties = 0
    BY FreshFacts
  <1> HIDE DEF fresh
  <1>4. /\ item' \in [Slots -> Headers_] /\ item'[s] = fresh
        /\ \A t \in Slots : t # s => item'[t] = item[t]
    BY <1>1, <1>2, <1>3, ItemsFacts
  <1>5. /\ ~item[s].filled /\ ~item[s].taken /\ item[s].charge = 0
    BY <1>1, AbsentFacts
  <1>6. /\ order' \in Seq(Slots) /\ Len(order) \in Nat /\ DOMAIN order = 1 .. Len(order)
        /\ DOMAIN order' = 1 .. Len(order) + 1 /\ order'[Len(order) + 1] = s
        /\ \A i \in 1 .. Len(order) : order'[i] = order[i]
    BY <1>1, <1>2, ItemsFacts, Appended
  <1>7. Range(order') = Range(order) \cup {s} /\ NoTwice(order')
    BY <1>1, <1>2, ItemsFacts, RangeAppended DEF ItemsIInv, OneHolder
  <1>8. InRing' = InRing \cup {s}
    BY <1>7, ItemsFacts DEF InRing, Range
  <1>9. Charged' = Charged
    BY <1>1, <1>3, <1>4, <1>5 DEF Charged
  <1>10. \A i \in DOMAIN order : order[i] \in Slots /\ order[i] # s /\ item'[order[i]] = item[order[i]]
    BY <1>1, <1>4, <1>6, ItemsFacts DEF InRing
  <1>11. HeadKept'
    <2>1. CASE order = <<>>
      <3>1. order'[1] = s
        BY <1>6, <2>1
      <3> QED BY <1>3, <1>4, <3>1 DEF HeadKept
    <2>2. CASE order # <<>>
      <3>1. 1 \in DOMAIN order /\ order'[1] = order[1]
        BY <1>6, <2>2, ItemsFacts
      <3> QED BY <1>10, <2>2, <3>1 DEF ItemsIInv, HeadKept
    <2> QED BY <2>1, <2>2
  <1>12. ASSUME NEW t \in Slots, Oldest(t) PROVE Oldest(t)'
    <2>1. PICK i \in DOMAIN order :
            order[i] = t /\ ~item[t].taken /\ \A j \in 1 .. i - 1 : item[order[j]].taken
      BY <1>12 DEF Oldest
    <2>2. i \in DOMAIN order' /\ order'[i] = t /\ ~item'[t].taken
      BY <1>6, <1>10, <2>1
    <2>3. \A j \in 1 .. i - 1 : j \in DOMAIN order /\ order'[j] = order[j]
      BY <1>6
    <2> QED BY <1>10, <2>1, <2>2, <2>3 DEF Oldest
  <1>13. (\E t \in Slots : AtStart(t) /\ item'[t].filled /\ ~item'[t].taken)
                <=> (\E t \in Slots : AtStart(t) /\ item[t].filled /\ ~item[t].taken)
    BY <1>1, <1>3, <1>4, <1>5
  <1>14. run'.phase = run.phase /\ DOMAIN run' = {"phase", "told", "acquires", "boundaries"}
    BY <1>2 DEF ItemsIInv, ItemsTyped
  <1> QED BY <1>1, <1>3, <1>4, <1>6, <1>7, <1>8, <1>9, <1>11, <1>12, <1>13, <1>14

LEMMA AcquireMessageStep ==
    ASSUME ItemsIInv, AcquireMessage PROVE ItemsIInv'
  <1>1. PICK s \in FreeSlots : AcquireItem(s, "MESSAGE")
    BY DEF AcquireMessage
  <1>2. run.phase \in {"running", "stopping"} /\ UNCHANGED <<list, signalled, outstanding, heads, actor>>
    BY DEF AcquireMessage
  <1>3. "MESSAGE" \in Kinds
    BY DEF Kinds
  <1>4. \A t \in Slots : /\ ItemHeld(t)' <=> ItemHeld(t)
                         /\ Leaving(t)' <=> Leaving(t)
                         /\ Filling(t)' <=> Filling(t)
                         /\ Getting(t)' <=> Getting(t)
    BY <1>2 DEF ItemHeld, Leaving, Filling, Getting, InHand, Chain
  <1>5. SlotOK(s)'
    <2>1. s \in InRing' /\ ~ItemHeld(s)' /\ ~Leaving(s)' /\ ~Filling(s)' /\ ~Getting(s)'
      BY <1>1, <1>3, <1>4, AcquireFacts, AbsentFacts
    <2> QED BY <1>1, <1>3, <2>1, AcquireFacts DEF SlotOK, ReceivedItem
  <1>6. \A t \in Slots : SlotOK(t)'
    <2> TAKE t \in Slots
    <2>1. CASE t = s
      BY <1>5, <2>1
    <2>2. CASE t # s
      <3>1. item'[t] = item[t] /\ (t \in InRing' <=> t \in InRing) /\ SlotOK(t)
        BY <1>1, <1>3, <2>2, AcquireFacts DEF ItemsIInv
      <3> QED BY <1>4, <3>1, SlotSame
    <2> QED BY <2>1, <2>2
  <1>7. ItemsTyped'
    BY <1>1, <1>2, <1>3, AcquireFacts DEF ItemsIInv, ItemsTyped, InboundTypeOK, Headers_
  <1>8. ThreadsApart'
    BY <1>2 DEF ItemsIInv, ThreadsApart, ThreadOK, Chain
  <1>9. OneHolder'
    BY <1>1, <1>2, <1>3, AcquireFacts DEF ItemsIInv, OneHolder, InHand, Chain
  <1>10. HeadKept' /\ HeadsMatch'
    BY <1>1, <1>2, <1>3, AcquireFacts, ItemsFacts DEF ItemsIInv, HeadsMatch, One
  <1>11. Stopping'
    BY <1>1, <1>2, <1>3, AcquireFacts DEF Stopping
  <1>12. QuotaMatches'
    BY <1>1, <1>2, <1>3, AcquireFacts DEF ItemsIInv, QuotaMatches, Charged
  <1> QED BY <1>6, <1>7, <1>8, <1>9, <1>10, <1>11, <1>12 DEF ItemsIInv

LEMMA AcquireLocalStep ==
    ASSUME ItemsIInv, AcquireLocal PROVE ItemsIInv'
  <1>1. PICK s \in FreeSlots :
          AcquireItem(s, "LOCAL") /\ actor' = [actor EXCEPT !["task"].pc = "fill", !["task"].item = s]
    BY DEF AcquireLocal
  <1>2. /\ run.phase = "running" /\ actor["task"].pc = "idle"
        /\ UNCHANGED <<list, signalled, outstanding, heads>>
    BY DEF AcquireLocal, At
  <1>3. "LOCAL" \in Kinds /\ s \in Slots /\ s \notin InRing
    BY DEF Kinds, FreeSlots
  <1>4. /\ Chain = <<>> /\ actor["task"].item = NoSlot /\ actor["task"].release = 0
        /\ ~actor["task"].last
    BY <1>2 DEF ItemsIInv, ThreadsApart, ThreadOK, Hands
  <1>5. /\ actor' \in [Actors -> Threads] /\ actor'["consumer"] = actor["consumer"]
        /\ actor'["task"].pc = "fill" /\ actor'["task"].item = s /\ Chain' = Chain
        /\ actor'["task"].release = 0 /\ ~actor'["task"].last
    BY <1>1, <1>3, <1>4, ItemsFacts DEF Threads, Actors, Chain, TaskPlaces
  <1>6. \A t \in Slots : /\ InHand("task", t)' <=> t = s
                         /\ ~InHand("task", t)
                         /\ InHand("consumer", t)' <=> InHand("consumer", t)
    BY <1>2, <1>5 DEF InHand, Hands
  <1>7. \A t \in Slots : /\ t # s => (ItemHeld(t)' <=> ItemHeld(t))
                         /\ Leaving(t)' <=> Leaving(t)
                         /\ Filling(t)' <=> t = s
                         /\ ~Filling(t)
                         /\ Getting(t)' <=> Getting(t)
    BY <1>2, <1>4, <1>5, <1>6 DEF ItemHeld, Leaving, Filling, Getting, Actors
  <1>8. SlotOK(s)'
    <2>1. ItemHeld(s)'
      BY <1>3, <1>6 DEF ItemHeld, Actors
    <2>2. s \in InRing' /\ ~Leaving(s)' /\ Filling(s)' /\ ~Getting(s)'
      BY <1>1, <1>3, <1>7, AcquireFacts, AbsentFacts
    <2>3. /\ item'[s].kind = "LOCAL" /\ ~item'[s].filled /\ ~item'[s].published
          /\ ~item'[s].taken /\ ~item'[s].returned /\ item'[s].charge = 0 /\ item'[s].parties = 0
      BY <1>1, <1>3, AcquireFacts
    <2>4. item'[s].published = item'[s].filled
      BY <1>1, <1>3, <2>3, AcquireFacts DEF Headers_
    <2>5. LocalItem(s)'
      BY <2>1, <2>2, <2>3, <2>4 DEF LocalItem, One
    <2> QED BY <2>2, <2>3, <2>5 DEF SlotOK
  <1>9. \A t \in Slots : SlotOK(t)'
    <2> TAKE t \in Slots
    <2>1. CASE t = s
      BY <1>8, <2>1
    <2>2. CASE t # s
      <3>1. item'[t] = item[t] /\ (t \in InRing' <=> t \in InRing) /\ SlotOK(t)
        BY <1>1, <1>3, <2>2, AcquireFacts DEF ItemsIInv
      <3> QED BY <1>7, <2>2, <3>1, SlotSame
    <2> QED BY <2>1, <2>2
  <1>10. ItemsTyped'
    BY <1>1, <1>2, <1>3, <1>5, AcquireFacts DEF ItemsIInv, ItemsTyped, InboundTypeOK, Headers_
  <1>11. ThreadsApart'
    BY <1>3, <1>4, <1>5, ItemsFacts DEF ItemsIInv, ThreadsApart, ThreadOK, TaskPlaces, Hands
  <1>12. OneHolder'
    <2>1. ~InHand("consumer", s) /\ s \notin Range(list) /\ s \notin Range(Chain)
      BY <1>3, AbsentFacts DEF Actors
    <2>2. NoTwice(order')
      BY <1>1, <1>3, AcquireFacts
    <2> QED BY <1>2, <1>5, <1>6, <2>1, <2>2 DEF ItemsIInv, OneHolder, Actors
  <1>13. HeadKept' /\ HeadsMatch'
    BY <1>1, <1>2, <1>3, AcquireFacts, ItemsFacts DEF ItemsIInv, HeadsMatch, One
  <1>14. Stopping'
    BY <1>1, <1>2, <1>3, AcquireFacts DEF Stopping
  <1>15. QuotaMatches'
    BY <1>1, <1>2, <1>3, <1>4, <1>5, AcquireFacts DEF ItemsIInv, QuotaMatches, Charged
  <1> QED BY <1>9, <1>10, <1>11, <1>12, <1>13, <1>14, <1>15 DEF ItemsIInv

\* One item comes further, nothing else changing.
LEMMA ItemComesOn ==
    ASSUME ItemsIInv, NEW s \in Slots, item' \in [Slots -> Headers_],
           \A t \in Slots : t # s => item'[t] = item[t],
           item'[s].charge = item[s].charge, item'[s].taken = item[s].taken,
           item'[s].returned = item[s].returned, item[s].published => item'[s].published,
           UNCHANGED <<order, list, signalled, outstanding, actor, run>>,
           SlotOK(s)', heads' \in [ahead : -1 .. 1, pending : {heads.pending}],
           heads'.ahead = One(\E t \in Slots : AtStart(t) /\ item'[t].filled /\ ~item'[t].taken)
                            - One(heads.pending # NoSlot)
    PROVE  ItemsIInv'
  <1>1. InRing' = InRing /\ Charged' = Charged
    BY DEF InRing, Charged
  <1>2. \A t \in Slots : /\ ItemHeld(t)' <=> ItemHeld(t)
                         /\ Leaving(t)' <=> Leaving(t)
                         /\ Filling(t)' <=> Filling(t)
                         /\ Getting(t)' <=> Getting(t)
    BY DEF ItemHeld, Leaving, Filling, Getting, InHand, Chain
  <1>3. \A t \in Slots : SlotOK(t)'
    <2> TAKE t \in Slots
    <2>1. CASE t # s
      <3>1. item'[t] = item[t] /\ SlotOK(t)
        BY <2>1 DEF ItemsIInv
      <3> QED BY <1>1, <1>2, <3>1, SlotSame
    <2>2. CASE t = s
      BY <2>2
    <2> QED BY <2>1, <2>2
  <1>4. \A i \in DOMAIN order : /\ item'[order[i]].taken = item[order[i]].taken
                                /\ item'[order[i]].returned = item[order[i]].returned
    BY ItemsFacts DEF InRing
  <1>5. ItemsTyped'
    BY <1>1, ItemsFacts DEF ItemsIInv, ItemsTyped, InboundTypeOK, Headers_
  <1>6. ThreadsApart' /\ OneHolder'
    BY DEF ItemsIInv, ThreadsApart, ThreadOK, OneHolder, InHand, Chain
  <1>7. HeadKept'
    <2>1. order # <<>> => 1 \in DOMAIN order
      BY ItemsFacts
    <2> QED BY <1>4, <2>1 DEF ItemsIInv, HeadKept
  <1>8. \A t \in Slots : Oldest(t) => Oldest(t)'
    <2>1. \A i \in DOMAIN order : \A j \in 1 .. i - 1 : j \in DOMAIN order
      BY ItemsFacts
    <2> QED BY <1>4, <2>1 DEF Oldest
  <1>9. HeadsMatch'
    BY <1>8, ItemsFacts DEF ItemsIInv, HeadsMatch
  <1>10. Stopping'
    BY DEF ItemsIInv, Stopping, Chain
  <1>11. QuotaMatches'
    BY <1>1 DEF ItemsIInv, QuotaMatches, Charged
  <1> QED BY <1>3, <1>5, <1>6, <1>7, <1>9, <1>10, <1>11 DEF ItemsIInv

LEMMA CountCompletionStep ==
    ASSUME ItemsIInv, NEW s \in Slots, CountCompletion(s) PROVE ItemsIInv'
  <1>1. /\ s \in InRing /\ AtStart(s) /\ ~item[s].filled /\ item[s].kind # "LOCAL"
        /\ heads' = [heads EXCEPT !.ahead = @ + 1]
        /\ UNCHANGED <<order, list, signalled, outstanding, actor, run>>
    BY DEF CountCompletion
  <1>2. PICK kind \in {"MESSAGE", "DISCARD"} :
          item' = [item EXCEPT ![s] = [item[s] EXCEPT !.kind = kind, !.filled = TRUE]]
    BY DEF CountCompletion
  <1>3. item[s] \in Headers_ /\ kind \in Kinds /\ SlotOK(s)
    BY ItemsFacts DEF Kinds, ItemsIInv
  <1>4. /\ item' \in [Slots -> Headers_] /\ item'[s] = [item[s] EXCEPT !.kind = kind, !.filled = TRUE]
        /\ \A t \in Slots : t # s => item'[t] = item[t]
    <2>1. [item[s] EXCEPT !.kind = kind, !.filled = TRUE] \in Headers_
      BY <1>3 DEF Headers_
    <2> QED BY <1>2, <2>1, ItemsFacts
  <1>5. /\ item'[s].kind = kind /\ item'[s].filled /\ item'[s].published = item[s].published
        /\ item'[s].taken = item[s].taken /\ item'[s].returned = item[s].returned
        /\ item'[s].charge = item[s].charge /\ item'[s].parties = item[s].parties
    BY <1>3, <1>4 DEF Headers_
  <1>6. ~item[s].taken /\ ~item[s].returned /\ ~ItemHeld(s) /\ ~Leaving(s) /\ ~Filling(s)
        /\ item[s].parties = 0 /\ item[s].charge # 1
    BY <1>1, <1>3 DEF SlotOK, ReceivedItem
  <1>7. ~Getting(s)
    BY <1>6 DEF Getting, ItemHeld, InHand, Hands, Actors
  <1>8. SlotOK(s)'
    <2>1. /\ s \in InRing' /\ ~ItemHeld(s)' /\ ~Leaving(s)' /\ ~Filling(s)' /\ ~Getting(s)'
      BY <1>1, <1>6, <1>7 DEF InRing, ItemHeld, Leaving, Filling, Getting, InHand, Chain
    <2> QED BY <1>5, <1>6, <2>1 DEF SlotOK, ReceivedItem
  <1>9. heads.ahead = 0 - One(heads.pending # NoSlot)
    <2>1. ~ \E t \in Slots : AtStart(t) /\ item[t].filled /\ ~item[t].taken
      BY <1>1 DEF AtStart
    <2> QED BY <2>1 DEF ItemsIInv, HeadsMatch, One
  <1>10. /\ heads' \in [ahead : -1 .. 1, pending : {heads.pending}]
         /\ heads'.ahead = 1 - One(heads.pending # NoSlot)
    <2>1. PICK k \in -1 .. 1 : k = heads.ahead + 1 /\ k = 1 - One(heads.pending # NoSlot)
      BY <1>9 DEF One
    <2>2. heads' = [heads EXCEPT !.ahead = k]
      BY <1>1, <2>1
    <2> QED BY <2>1, <2>2, ItemsFacts
  <1>11. \E t \in Slots : AtStart(t) /\ item'[t].filled /\ ~item'[t].taken
    BY <1>1, <1>5, <1>6
  <1>12. heads'.ahead = One(\E t \in Slots : AtStart(t) /\ item'[t].filled /\ ~item'[t].taken)
                            - One(heads.pending # NoSlot)
    BY <1>10, <1>11 DEF One
  <1> QED BY <1>1, <1>4, <1>5, <1>8, <1>10, <1>12, ItemComesOn

LEMMA PublishStep ==
    ASSUME ItemsIInv, NEW s \in Slots, Publish(s) PROVE ItemsIInv'
  <1>1. /\ ~item[s].published /\ item[s].kind # "LOCAL"
        /\ UNCHANGED <<order, list, signalled, outstanding, heads, actor, run>>
    BY DEF Publish
  <1>2. item[s] \in Headers_ /\ SlotOK(s)
    BY ItemsFacts DEF ItemsIInv
  <1>3. \A t \in Slots : /\ ItemHeld(t)' <=> ItemHeld(t)
                         /\ Leaving(t)' <=> Leaving(t)
                         /\ Filling(t)' <=> Filling(t)
                         /\ Getting(t)' <=> Getting(t)
    BY <1>1 DEF ItemHeld, Leaving, Filling, Getting, InHand, Chain
  <1>4. InRing' = InRing
    BY <1>1 DEF InRing
  <1>5. heads' \in [ahead : -1 .. 1, pending : {heads.pending}]
    BY <1>1, ItemsFacts
  <1>6. CASE s \notin InRing
    <2>1. item' = [item EXCEPT ![s] = Absent]
      BY <1>6 DEF Publish
    <2>2. /\ item' \in [Slots -> Headers_] /\ item'[s] = Absent
          /\ \A t \in Slots : t # s => item'[t] = item[t]
      BY <2>1, AbsentHeader, ItemsFacts
    <2>3. /\ Absent.charge = 0 /\ ~Absent.filled /\ ~Absent.taken /\ ~Absent.returned
          /\ Absent.published /\ [Absent EXCEPT !.published = Absent.published] = Absent
      BY AbsentHeader DEF Headers_
    <2>4. SlotOK(s)'
      BY <1>2, <1>3, <1>4, <1>6, <2>2, <2>3 DEF SlotOK
    <2>5. item'[s].charge = item[s].charge /\ item'[s].taken = item[s].taken
          /\ item'[s].returned = item[s].returned /\ item'[s].filled = item[s].filled
          /\ item'[s].published
      BY <1>2, <1>6, <2>2, <2>3, AbsentFacts DEF Headers_
    <2>6. (\E t \in Slots : AtStart(t) /\ item'[t].filled /\ ~item'[t].taken)
                <=> (\E t \in Slots : AtStart(t) /\ item[t].filled /\ ~item[t].taken)
      BY <2>2, <2>5
    <2> QED BY <1>1, <1>5, <2>2, <2>4, <2>5, <2>6, ItemComesOn DEF ItemsIInv, HeadsMatch, One
  <1>7. CASE s \in InRing
    <2>1. PICK kind \in Kinds :
            /\ item[s].filled => kind = item[s].kind
            /\ kind # "LOCAL"
            /\ AtStart(s) => item[s].filled
            /\ item' = [item EXCEPT ![s] = [item[s] EXCEPT !.kind = kind, !.filled = TRUE,
                                                           !.published = TRUE]]
      <3>1. \E kind \in IF item[s].filled THEN {item[s].kind} ELSE {"MESSAGE", "DISCARD"} :
               item' = [item EXCEPT ![s].kind = kind, ![s].filled = TRUE, ![s].published = TRUE]
        BY <1>7 DEF Publish
      <3>2. item[s].kind \in Kinds
        BY <1>2 DEF Headers_
      <3> QED BY <1>1, <1>7, <3>1, <3>2 DEF Publish, Kinds
    <2>2. /\ item' \in [Slots -> Headers_] /\ \A t \in Slots : t # s => item'[t] = item[t]
          /\ item'[s] = [item[s] EXCEPT !.kind = kind, !.filled = TRUE, !.published = TRUE]
      <3>1. [item[s] EXCEPT !.kind = kind, !.filled = TRUE, !.published = TRUE] \in Headers_
        BY <1>2 DEF Headers_
      <3> QED BY <2>1, <3>1, ItemsFacts
    <2>3. /\ item'[s].kind = kind /\ item'[s].filled /\ item'[s].published
          /\ item'[s].taken = item[s].taken /\ item'[s].returned = item[s].returned
          /\ item'[s].charge = item[s].charge /\ item'[s].parties = item[s].parties
      BY <1>2, <2>2 DEF Headers_
    <2>4. Getting(s) => item[s].filled
      <3>1. Getting(s) => ItemHeld(s)
        BY DEF Getting, ItemHeld, InHand, Hands, Actors
      <3> QED BY <1>1, <1>2, <1>7, <3>1 DEF SlotOK, ReceivedItem
    <2>5. SlotOK(s)'
      BY <1>1, <1>2, <1>3, <1>4, <1>7, <2>1, <2>3, <2>4 DEF SlotOK, ReceivedItem
    <2>6. (\E t \in Slots : AtStart(t) /\ item'[t].filled /\ ~item'[t].taken)
                <=> (\E t \in Slots : AtStart(t) /\ item[t].filled /\ ~item[t].taken)
      BY <2>1, <2>2, <2>3
    <2> QED BY <1>1, <1>5, <2>2, <2>3, <2>5, <2>6, ItemComesOn DEF ItemsIInv, HeadsMatch, One
  <1> QED BY <1>6, <1>7

\* The protocol task hands on what it holds, charged or not.
LEMMA Handed ==
    ASSUME ItemsIInv, NEW s \in Slots, actor["task"].item = s, actor["task"].pc \in {"got", "fill"},
           run.phase \in {"running", "stopping"}, NEW c \in {0, 1}, NEW pc \in {"return", "append"},
           actor' = [actor EXCEPT !["task"].pc = pc, !["task"].item = s],
           item' \in [Slots -> Headers_], \A t \in Slots : t # s => item'[t] = item[t],
           item'[s].kind = item[s].kind, item'[s].filled = TRUE,
           item'[s].published = (item[s].published \/ actor["task"].pc = "fill"),
           item'[s].taken = item[s].taken, item'[s].returned = item[s].returned,
           item'[s].charge = c, item'[s].parties = item[s].parties,
           outstanding' = outstanding + c, outstanding' \in 0 .. QuotaLimit,
           heads' \in [ahead : -1 .. 1, pending : {heads.pending}],
           heads'.ahead = One(\E t \in Slots : AtStart(t) /\ item'[t].filled /\ ~item'[t].taken)
                            - One(heads.pending # NoSlot),
           UNCHANGED <<order, list, signalled, run>>
    PROVE  ItemsIInv'
  <1>1. /\ "task" \in Actors /\ "consumer" \in Actors /\ Chain = <<>>
        /\ actor["task"].release = 0 /\ ~actor["task"].last /\ InHand("task", s)
    BY DEF ItemsIInv, ThreadsApart, ThreadOK, InHand, Hands, Actors
  <1>2. ItemHeld(s) /\ SlotOK(s) /\ s \in InRing /\ item[s] \in Headers_
    <2>1. ItemHeld(s) /\ SlotOK(s)
      BY <1>1 DEF ItemHeld, ItemsIInv
    <2> QED BY <2>1, ItemsFacts DEF SlotOK
  <1>3. /\ actor' \in [Actors -> Threads] /\ actor'["consumer"] = actor["consumer"]
        /\ actor'["task"].pc = pc /\ actor'["task"].item = s /\ Chain' = Chain
        /\ actor'["task"].release = 0 /\ ~actor'["task"].last
    BY <1>1, ItemsFacts DEF Threads, Actors, Chain, TaskPlaces
  <1>4. \A t \in Slots, a \in Actors : InHand(a, t)' <=> InHand(a, t)
    BY <1>1, <1>3 DEF InHand, Hands, Actors
  <1>5. \A t \in Slots : /\ ItemHeld(t)' <=> ItemHeld(t)
                         /\ Leaving(t)' <=> Leaving(t)
                         /\ ~Filling(t)' /\ ~Getting(t)'
                         /\ t # s => ~Filling(t)
    BY <1>1, <1>3, <1>4 DEF ItemHeld, Leaving, Filling, Getting, Actors
  <1>6. InRing' = InRing
    BY DEF InRing
  <1>7. item[s].charge = 0 /\ (actor["task"].pc = "got" => item[s].taken /\ item[s].filled)
    <2>1. CASE actor["task"].pc = "got"
      <3>1. Getting(s) /\ ~Filling(s)
        BY <2>1 DEF Getting, Filling
      <3> QED BY <1>2, <3>1 DEF SlotOK, ReceivedItem
    <2>2. CASE actor["task"].pc = "fill"
      <3>1. Filling(s)
        BY <2>2 DEF Filling
      <3> QED BY <1>2, <2>2, <3>1 DEF SlotOK
    <2> QED BY <2>1, <2>2
  <1>8. SlotOK(s)'
    <2>1. actor["task"].pc = "got" => item[s].kind = "MESSAGE"
      BY <1>2 DEF SlotOK, Getting
    <2>2. actor["task"].pc = "fill" => item[s].kind = "LOCAL"
      BY <1>2 DEF SlotOK, ReceivedItem, Filling
    <2>3. CASE item[s].kind = "LOCAL"
      <3>1. LocalItem(s) /\ item'[s].published
        BY <1>2, <2>1, <2>3 DEF SlotOK
      <3>2. LocalItem(s)'
        BY <1>2, <1>5, <3>1 DEF LocalItem, One
      <3> QED BY <1>2, <1>5, <1>6, <2>3, <3>2 DEF SlotOK
    <2>4. CASE item[s].kind # "LOCAL"
      <3>1. ReceivedItem(s)'
        BY <1>2, <1>5, <2>4 DEF SlotOK, ReceivedItem
      <3> QED BY <1>2, <1>5, <1>6, <2>4, <3>1 DEF SlotOK
    <2> QED BY <2>3, <2>4
  <1>9. \A t \in Slots : SlotOK(t)'
    <2> TAKE t \in Slots
    <2>1. CASE t = s
      BY <1>8, <2>1
    <2>2. CASE t # s
      <3>1. item'[t] = item[t] /\ SlotOK(t)
        BY <2>2 DEF ItemsIInv
      <3> QED BY <1>5, <1>6, <2>2, <3>1, SlotSame
    <2> QED BY <2>1, <2>2
  <1>10. IsFiniteSet(Charged') /\ Cardinality(Charged') = Cardinality(Charged) + c
    <2>1. CASE c = 1
      <3>1. Charged' = Charged \cup {s} /\ s \notin Charged
        BY <1>7, <2>1 DEF Charged
      <3>2. Cardinality(Charged \cup {s}) = Cardinality(Charged) + 1 /\ IsFiniteSet(Charged \cup {s})
        BY <3>1, ItemsFacts, FS_AddElement, ZenonT(40)
      <3> QED BY <2>1, <3>1, <3>2
    <2>2. CASE c = 0
      <3>1. Charged' = Charged
        BY <1>7, <2>2 DEF Charged
      <3> QED BY <2>2, <3>1, ItemsFacts
    <2> QED BY <2>1, <2>2
  <1>11. ItemsTyped'
    BY <1>3, <1>10, ItemsFacts DEF ItemsIInv, ItemsTyped, InboundTypeOK, Headers_
  <1>12. ThreadsApart'
    BY <1>1, <1>3, ItemsFacts DEF ItemsIInv, ThreadsApart, ThreadOK, TaskPlaces, Hands
  <1>13. OneHolder'
    BY <1>1, <1>3, <1>4 DEF ItemsIInv, OneHolder
  <1>14. HeadKept'
    <2>1. order # <<>> => order[1] \in Slots
      BY ItemsFacts
    <2>2. \A t \in Slots : item'[t].returned = item[t].returned
      OBVIOUS
    <2> QED BY <2>1, <2>2 DEF ItemsIInv, HeadKept
  <1>15. HeadsMatch'
    <2>1. \A t \in Slots : item'[t].taken = item[t].taken
      OBVIOUS
    <2>2. \A i \in DOMAIN order : order[i] \in Slots /\ \A j \in 1 .. i - 1 : order[j] \in Slots
      BY ItemsFacts
    <2>3. \A t \in Slots : Oldest(t) => Oldest(t)'
      BY <2>1, <2>2 DEF Oldest
    <2> QED BY <2>3, ItemsFacts DEF ItemsIInv, HeadsMatch
  <1>16. Stopping'
    BY DEF Stopping
  <1>17. QuotaMatches'
    <2>1. outstanding = Cardinality(Charged) + actor["task"].release + actor["consumer"].release
      BY DEF ItemsIInv, QuotaMatches, Charged
    <2>2. /\ actor["task"].release = 0 /\ actor'["task"].release = 0
          /\ actor'["consumer"].release = actor["consumer"].release
          /\ actor["consumer"].release \in Nat
      BY <1>1, <1>3, ItemsFacts DEF Threads
    <2>3. Cardinality(Charged) \in Nat /\ Cardinality(Charged)' = Cardinality(Charged) + c
      BY <1>10, ItemsFacts
    <2>4. outstanding' = Cardinality(Charged)' + actor'["task"].release + actor'["consumer"].release
      BY <2>1, <2>2, <2>3
    <2> QED BY <2>4 DEF QuotaMatches, Charged
  <1> QED BY <1>9, <1>11, <1>12, <1>13, <1>14, <1>15, <1>16, <1>17 DEF ItemsIInv

LEMMA ChargeTo ==
    ASSUME ItemsIInv, NEW s \in Slots, NEW header \in [Slots -> Headers_],
           \E exempt \in BOOLEAN : Charge(s, header, exempt)
    PROVE  \E c \in {0, 1}, pc \in {"return", "append"} :
             /\ actor' = [actor EXCEPT !["task"].pc = pc, !["task"].item = s]
             /\ \/ item' = [header EXCEPT ![s].charge = c]
                \/ c = 0 /\ item' = header
             /\ outstanding' = outstanding + c /\ outstanding' \in 0 .. QuotaLimit
  <1>1. PICK exempt \in BOOLEAN : Charge(s, header, exempt)
    OBVIOUS
  <1>2. outstanding \in 0 .. QuotaLimit /\ QuotaLimit \in Nat
    BY ItemsFacts
  <1>3. CASE ~exempt /\ outstanding >= QuotaLimit
    <2>1. /\ actor' = [actor EXCEPT !["task"].pc = "return", !["task"].item = s]
          /\ item' = header /\ outstanding' = outstanding
      BY <1>1, <1>3 DEF Charge, StartsReturn
    <2> QED BY <1>2, <2>1
  <1>4. CASE ~(~exempt /\ outstanding >= QuotaLimit)
    <2>0. actor' = [actor EXCEPT !["task"].pc = "append", !["task"].item = s]
      BY <1>1, <1>4 DEF Charge
    <2>1. CASE exempt
      <3>1. item' = [header EXCEPT ![s].charge = 0] /\ outstanding' = outstanding + 0
        BY <1>1, <1>4, <2>1 DEF Charge
      <3>2. outstanding' \in 0 .. QuotaLimit
        BY <1>2, <3>1
      <3> WITNESS 0 \in {0, 1}, "append" \in {"return", "append"}
      <3> QED BY <2>0, <3>1, <3>2
    <2>2. CASE ~exempt
      <3>1. item' = [header EXCEPT ![s].charge = 1] /\ outstanding' = outstanding + 1
        BY <1>1, <1>4, <2>2 DEF Charge
      <3>2. outstanding' \in 0 .. QuotaLimit
        BY <1>2, <1>4, <2>2, <3>1
      <3> WITNESS 1 \in {0, 1}, "append" \in {"return", "append"}
      <3> QED BY <2>0, <3>1, <3>2
    <2> QED BY <2>1, <2>2
  <1> QED BY <1>3, <1>4

LEMMA HandMessageStep ==
    ASSUME ItemsIInv, HandMessage PROVE ItemsIInv'
  <1> DEFINE s == actor["task"].item
  <1>1. /\ actor["task"].pc = "got" /\ run.phase = "running" /\ Charge(s, item, FALSE)
        /\ UNCHANGED <<order, list, signalled, heads, run>>
    BY DEF HandMessage, At
  <1>2. s \in Slots
    BY <1>1, ItemsFacts DEF ItemsIInv, ThreadsApart, ThreadOK, Threads, Actors, Hands
  <1>3. item \in [Slots -> Headers_] /\ item[s] \in Headers_ /\ SlotOK(s)
    BY <1>2, ItemsFacts DEF ItemsIInv
  <1>4. item[s].charge = 0 /\ item[s].filled
    <2>1. Getting(s) /\ ItemHeld(s)
      BY <1>1 DEF Getting, ItemHeld, InHand, Hands, Actors
    <2>2. item[s].kind = "MESSAGE" /\ s \in InRing
      BY <1>3, <2>1 DEF SlotOK
    <2> QED BY <1>3, <2>1, <2>2 DEF SlotOK, ReceivedItem
  <1>5. PICK c \in {0, 1}, pc \in {"return", "append"} :
             /\ actor' = [actor EXCEPT !["task"].pc = pc, !["task"].item = s]
             /\ \/ item' = [item EXCEPT ![s].charge = c]
                \/ c = 0 /\ item' = item
             /\ outstanding' = outstanding + c /\ outstanding' \in 0 .. QuotaLimit
    <2>1. \E exempt \in BOOLEAN : Charge(s, item, exempt)
      BY <1>1
    <2> QED BY <1>2, <1>3, <2>1, ChargeTo
  <1> HIDE DEF s
  <1>6. /\ item' \in [Slots -> Headers_] /\ \A t \in Slots : t # s => item'[t] = item[t]
        /\ item'[s].kind = item[s].kind /\ item'[s].filled = item[s].filled
        /\ item'[s].published = item[s].published
        /\ item'[s].taken = item[s].taken /\ item'[s].returned = item[s].returned
        /\ item'[s].charge = c /\ item'[s].parties = item[s].parties
    <2>1. CASE item' = [item EXCEPT ![s].charge = c]
      <3>1. item' = [item EXCEPT ![s] = [item[s] EXCEPT !.charge = c]]
        BY <2>1
      <3>2. [item[s] EXCEPT !.charge = c] \in Headers_
        BY <1>3 DEF Headers_
      <3>3. /\ item' \in [Slots -> Headers_] /\ \A t \in Slots : t # s => item'[t] = item[t]
            /\ item'[s] = [item[s] EXCEPT !.charge = c]
        BY <1>2, <1>3, <3>1, <3>2
      <3> QED BY <1>3, <3>3 DEF Headers_
    <2>2. CASE c = 0 /\ item' = item
      BY <1>3, <1>4, <2>2
    <2> QED BY <1>5, <2>1, <2>2
  <1>7. (\E t \in Slots : AtStart(t) /\ item'[t].filled /\ ~item'[t].taken)
                <=> (\E t \in Slots : AtStart(t) /\ item[t].filled /\ ~item[t].taken)
    BY <1>2, <1>6
  <1>8. heads' \in [ahead : -1 .. 1, pending : {heads.pending}]
    BY <1>1, ItemsFacts
  <1>9. heads'.ahead = One(\E t \in Slots : AtStart(t) /\ item'[t].filled /\ ~item'[t].taken)
                            - One(heads.pending # NoSlot)
    BY <1>1, <1>7 DEF ItemsIInv, HeadsMatch, One
  <1>10. item'[s].filled = TRUE /\ item'[s].published = (item[s].published \/ actor["task"].pc = "fill")
    BY <1>1, <1>3, <1>4, <1>6 DEF Headers_
  <1>11. actor["task"].item = s
    BY DEF s
  <1> QED BY <1>1, <1>2, <1>5, <1>6, <1>8, <1>9, <1>10, <1>11, Handed

LEMMA HandLocalStep ==
    ASSUME ItemsIInv, HandLocal PROVE ItemsIInv'
  <1> DEFINE mem == [item EXCEPT ![actor["task"].item] =
                       [item[actor["task"].item] EXCEPT !.filled = TRUE, !.published = TRUE]]
  <1>1. PICK s : s = actor["task"].item
    OBVIOUS
  <1>2. /\ actor["task"].pc = "fill"
        /\ heads' = [heads EXCEPT !.ahead = IF AtStart(s) THEN @ + 1 ELSE @]
        /\ UNCHANGED <<order, list, signalled, run>>
    BY <1>1 DEF HandLocal, At
  <1>3. s \in Slots
    BY <1>1, <1>2, ItemsFacts DEF ItemsIInv, ThreadsApart, ThreadOK, Threads, Actors, Hands
  <1>4. item \in [Slots -> Headers_] /\ item[s] \in Headers_ /\ SlotOK(s)
    BY <1>3, ItemsFacts DEF ItemsIInv
  <1>5. item[s].charge = 0 /\ ~item[s].filled /\ ~item[s].taken
    <2>1. Filling(s) /\ ItemHeld(s)
      BY <1>1, <1>2 DEF Filling, ItemHeld, InHand, Hands, Actors
    <2> QED BY <1>4, <2>1 DEF SlotOK
  <1>6. PICK header : header = mem
    OBVIOUS
  <1>7. \E exempt \in BOOLEAN : Charge(s, header, exempt)
    BY <1>1, <1>6 DEF HandLocal, Charge
  <1>8. /\ header \in [Slots -> Headers_] /\ \A t \in Slots : t # s => header[t] = item[t]
        /\ header[s] = [item[s] EXCEPT !.filled = TRUE, !.published = TRUE]
    <2>1. [item[s] EXCEPT !.filled = TRUE, !.published = TRUE] \in Headers_
      BY <1>4 DEF Headers_
    <2> QED BY <1>1, <1>6, <1>3, <1>4, <2>1
  <1>9. /\ header[s] \in Headers_ /\ header[s].charge = 0
        /\ header[s].kind = item[s].kind /\ header[s].filled = TRUE /\ header[s].published = TRUE
        /\ header[s].taken = item[s].taken /\ header[s].returned = item[s].returned
        /\ header[s].parties = item[s].parties
    BY <1>3, <1>4, <1>5, <1>8 DEF Headers_
  <1>10. run.phase \in {"running", "stopping"}
    BY <1>2 DEF ItemsIInv, Stopping, ItemsTyped
  <1>11. PICK c \in {0, 1}, pc \in {"return", "append"} :
             /\ actor' = [actor EXCEPT !["task"].pc = pc, !["task"].item = s]
             /\ \/ item' = [header EXCEPT ![s].charge = c]
                \/ c = 0 /\ item' = header
             /\ outstanding' = outstanding + c /\ outstanding' \in 0 .. QuotaLimit
    <2>1. header \in [Slots -> Headers_]
      BY <1>8
    <2> QED BY <1>3, <1>7, <2>1, ChargeTo, Zenon
  <1>12. /\ item' \in [Slots -> Headers_] /\ \A t \in Slots : t # s => item'[t] = item[t]
         /\ item'[s].kind = item[s].kind /\ item'[s].filled = TRUE /\ item'[s].published = TRUE
         /\ item'[s].taken = item[s].taken /\ item'[s].returned = item[s].returned
         /\ item'[s].charge = c /\ item'[s].parties = item[s].parties
    <2>1. CASE item' = [header EXCEPT ![s].charge = c]
      <3>1. item' = [header EXCEPT ![s] = [header[s] EXCEPT !.charge = c]]
        BY <2>1
      <3>2. [header[s] EXCEPT !.charge = c] \in Headers_
        BY <1>9 DEF Headers_
      <3>3. /\ item' \in [Slots -> Headers_] /\ \A t \in Slots : t # s => item'[t] = header[t]
            /\ item'[s] = [header[s] EXCEPT !.charge = c]
        BY <1>3, <1>8, <3>1, <3>2
      <3> QED BY <1>8, <1>9, <3>3 DEF Headers_
    <2>2. CASE c = 0 /\ item' = header
      BY <1>8, <1>9, <2>2
    <2> QED BY <1>11, <2>1, <2>2
  <1> DEFINE waiting == \E t \in Slots : AtStart(t) /\ item[t].filled /\ ~item[t].taken
             waits == \E t \in Slots : AtStart(t) /\ item'[t].filled /\ ~item'[t].taken
  <1>13. (AtStart(s) => ~waiting /\ waits) /\ (~AtStart(s) => (waits <=> waiting))
    <2>1. AtStart(s) => \A t \in Slots : AtStart(t) => t = s
      BY DEF AtStart
    <2> QED BY <1>3, <1>5, <1>12, <2>1
  <1>14. heads.ahead = One(waiting) - One(heads.pending # NoSlot) /\ heads.ahead \in -1 .. 1
    BY ItemsFacts DEF ItemsIInv, HeadsMatch
  <1> HIDE DEF waiting, waits
  <1>15. /\ heads' \in [ahead : -1 .. 1, pending : {heads.pending}]
         /\ heads'.ahead = One(waits) - One(heads.pending # NoSlot)
    <2>1. PICK k \in -1 .. 1 : /\ k = IF AtStart(s) THEN heads.ahead + 1 ELSE heads.ahead
                               /\ k = One(waits) - One(heads.pending # NoSlot)
      BY <1>13, <1>14 DEF One
    <2>2. heads' = [heads EXCEPT !.ahead = k]
      BY <1>2, <2>1
    <2> QED BY <2>1, <2>2, ItemsFacts
  <1>16. heads'.ahead = One(\E t \in Slots : AtStart(t) /\ item'[t].filled /\ ~item'[t].taken)
                            - One(heads.pending # NoSlot)
    BY <1>15 DEF waits
  <1>17. item'[s].published = (item[s].published \/ actor["task"].pc = "fill")
    BY <1>2, <1>12
  <1> QED BY <1>2, <1>3, <1>11, <1>10, <1>1, <1>12, <1>15, <1>16, <1>17, Handed
-----------------------------------------------------------------------------
(* Returns *)

\* A thread goes on with a return, holding nothing in hand.
LEMMA MovedOn ==
    ASSUME ItemsIInv, NEW a \in Actors, NEW rest \in Threads, Moves(a, rest), list' = list,
           rest.chain = actor[a].chain, rest.last => rest.item # NoSlot,
           run.phase # "done", run'.phase = run.phase,
           a = "consumer" => actor["consumer"].pc # "done",
           \A s \in Slots : item[s].published => item'[s].published,
           \A b \in Actors : b # a /\ rest.last /\ actor[b].last => actor[b].item # rest.item,
           NoTwice(order')
    PROVE  /\ actor' \in [Actors -> Threads] /\ ThreadsApart' /\ OneHolder' /\ Stopping' /\ Chain' = Chain
           /\ \A b \in Actors : b # a => actor'[b] = actor[b]
           /\ actor'[a].release = rest.release
           /\ \A s \in Slots :
                /\ ~InHand(a, s)'
                /\ \A b \in Actors : b # a => (InHand(b, s)' <=> InHand(b, s))
                /\ Leaving(s)' <=> \/ rest.last /\ rest.item = s
                                   \/ \E b \in Actors : b # a /\ actor[b].item = s /\ actor[b].last
                /\ Filling(s)' => Filling(s) /\ a # "task"
                /\ Getting(s)' => Getting(s) /\ a # "task"
                /\ a # "task" => (Filling(s)' <=> Filling(s))
  <1>1. "task" \in Actors /\ "consumer" \in Actors /\ Actors = {"task", "consumer"}
    BY DEF Actors
  <1>2. /\ actor' \in [Actors -> Threads]
        /\ \A b \in Actors : b # a => actor'[b] = actor[b]
        /\ actor'[a].release = rest.release /\ actor'[a].last = rest.last
        /\ actor'[a].chain = rest.chain
        /\ actor'[a].pc = IF rest.release # 0 THEN "release" ELSE IF rest.last THEN "giveBack"
                          ELSE IF a = "consumer" THEN "poll"
                          ELSE IF rest.chain = <<>> THEN "idle" ELSE "recall"
        /\ actor'[a].item = IF rest.release # 0 \/ rest.last THEN rest.item ELSE NoSlot
    BY MovesTo, ItemsFacts
  <1>3. Chain' = Chain
    BY <1>1, <1>2 DEF Chain
  <1>4. actor'[a].pc \notin Hands /\ \A b \in Actors : b # a => ThreadOK(b)' 
    BY <1>1, <1>2 DEF Hands, ItemsIInv, ThreadsApart, ThreadOK
  <1>5. ThreadOK(a)'
    BY <1>2 DEF ThreadOK, Hands
  <1>6. ThreadsApart'
    <2>1. CASE a = "task"
      BY <1>1, <1>2, <1>3, <1>4, <1>5, <2>1 DEF ItemsIInv, ThreadsApart, TaskPlaces, Chain
    <2>2. CASE a = "consumer"
      BY <1>1, <1>2, <1>3, <1>4, <1>5, <2>2 DEF ItemsIInv, ThreadsApart, ConsumerPlaces, Chain
    <2> QED BY <1>1, <2>1, <2>2
  <1>7. \A s \in Slots : ~InHand(a, s)' /\ \A b \in Actors : b # a => (InHand(b, s)' <=> InHand(b, s))
    BY <1>2, <1>4 DEF InHand
  <1>8. OneHolder'
    <2>1. NoTwice(list') /\ NoTwice(Chain')
      BY <1>3 DEF ItemsIInv, OneHolder
    <2>2. actor'["task"].last /\ actor'["consumer"].last => actor'["task"].item # actor'["consumer"].item
      BY <1>1, <1>2
    <2>3. ASSUME NEW s \in Slots
          PROVE  /\ s \in Range(list') => s \notin Range(Chain')
                 /\ s \in Range(list') \cup Range(Chain') => \A b \in Actors : ~InHand(b, s)'
                 /\ InHand("task", s)' => ~InHand("consumer", s)'
      BY <1>1, <1>3, <1>7 DEF ItemsIInv, OneHolder
    <2> QED BY <2>1, <2>2, <2>3 DEF OneHolder
  <1>9. Stopping'
    <2>1. ASSUME run.phase \in {"recall", "reset"}
          PROVE  a = "task" /\ actor'["consumer"] = actor["consumer"]
                 /\ actor'["task"].pc \in {"idle", "recall", "release", "giveBack"}
                 /\ (Chain = <<>> => actor'["task"].pc # "recall")
      <3>1. actor["consumer"].pc = "done"
        BY <2>1 DEF ItemsIInv, Stopping
      <3>2. a = "task"
        BY <1>1, <3>1
      <3> QED BY <1>1, <1>2, <3>2 DEF Chain
    <2> QED BY <1>3, <2>1 DEF ItemsIInv, Stopping
  <1>10. ASSUME NEW s \in Slots
        PROVE  Leaving(s)' <=> \/ rest.last /\ rest.item = s
                               \/ \E b \in Actors : b # a /\ actor[b].item = s /\ actor[b].last
    BY <1>2 DEF Leaving
  <1>11. ASSUME NEW s \in Slots
         PROVE  /\ Filling(s)' => Filling(s) /\ a # "task"
                /\ Getting(s)' => Getting(s) /\ a # "task"
                /\ a # "task" => (Filling(s)' <=> Filling(s))
    BY <1>1, <1>2, <1>4 DEF Filling, Getting, Hands
  <1> QED BY <1>2, <1>3, <1>6, <1>7, <1>8, <1>9, <1>10, <1>11

LEMMA ReleaseChargeStep ==
    ASSUME ItemsIInv, NEW a \in Actors, ReleaseCharge(a) PROVE ItemsIInv'
  <1> DEFINE rest == [actor[a] EXCEPT !.release = 0]
  <1>1. /\ actor[a].pc = "release" /\ outstanding' = outstanding - actor[a].release
        /\ Moves(a, rest) /\ UNCHANGED <<order, item, list, signalled, heads, run>>
    BY DEF ReleaseCharge, At
  <1>2. /\ rest \in Threads /\ rest.release = 0 /\ rest.last = actor[a].last
        /\ rest.item = actor[a].item /\ rest.chain = actor[a].chain
    BY ItemsFacts DEF Threads
  <1> HIDE DEF rest
  <1>3. /\ "task" \in Actors /\ "consumer" \in Actors /\ Actors = {"task", "consumer"}
        /\ actor[a].last => actor[a].item # NoSlot
    BY DEF ItemsIInv, ThreadsApart, ThreadOK, Actors
  <1>4. run.phase # "done"
    BY <1>1, <1>3 DEF ItemsIInv, Stopping
  <1>5. /\ actor' \in [Actors -> Threads] /\ ThreadsApart' /\ OneHolder' /\ Stopping' /\ Chain' = Chain
        /\ \A b \in Actors : b # a => actor'[b] = actor[b]
        /\ actor'[a].release = 0
        /\ \A s \in Slots :
             /\ ~InHand(a, s)'
             /\ \A b \in Actors : b # a => (InHand(b, s)' <=> InHand(b, s))
             /\ Leaving(s)' <=> \/ rest.last /\ rest.item = s
                                \/ \E b \in Actors : b # a /\ actor[b].item = s /\ actor[b].last
             /\ Filling(s)' => Filling(s) /\ a # "task"
             /\ Getting(s)' => Getting(s) /\ a # "task"
             /\ a # "task" => (Filling(s)' <=> Filling(s))
    <2>1. \A b \in Actors : b # a /\ rest.last /\ actor[b].last => actor[b].item # rest.item
      <3>1. Slots # {} => (actor["task"].last /\ actor["consumer"].last
                             => actor["task"].item # actor["consumer"].item)
        BY DEF ItemsIInv, OneHolder
      <3>2. actor[a].last => actor[a].item \in Slots
        BY <1>3, ItemsFacts DEF Threads
      <3> QED BY <1>2, <1>3, <3>1, <3>2
    <2>2. NoTwice(order')
      BY <1>1 DEF ItemsIInv, OneHolder
    <2> QED BY <1>1, <1>2, <1>3, <1>4, <2>1, <2>2, MovedOn
  <1>6. \A s \in Slots, b \in Actors : InHand(b, s)' <=> InHand(b, s)
    BY <1>1, <1>5 DEF InHand, Hands
  <1>7. ASSUME NEW s \in Slots
        PROVE  /\ ItemHeld(s)' <=> ItemHeld(s)
               /\ Leaving(s)' <=> Leaving(s)
               /\ Filling(s)' <=> Filling(s)
               /\ Getting(s)' => Getting(s)
    <2>1. Leaving(s)' <=> Leaving(s)
      BY <1>2, <1>5 DEF Leaving
    <2>2. a = "task" => ~Filling(s)
      BY <1>1 DEF Filling
    <2> QED BY <1>1, <1>5, <1>6, <2>1, <2>2 DEF ItemHeld
  <1>8. \A s \in Slots : SlotOK(s)'
    <2>1. InRing' = InRing
      BY <1>1 DEF InRing
    <2> QED BY <1>1, <1>7, <2>1, SlotSame DEF ItemsIInv
  <1>9. outstanding' \in 0 .. QuotaLimit /\ QuotaMatches'
    <2>1. outstanding = Cardinality(Charged) + actor["task"].release + actor["consumer"].release
      BY DEF ItemsIInv, QuotaMatches, Charged
    <2>2. /\ Cardinality(Charged) \in Nat /\ outstanding \in 0 .. QuotaLimit /\ QuotaLimit \in Nat
          /\ actor["task"].release \in Nat /\ actor["consumer"].release \in Nat
      BY <1>3, ItemsFacts DEF Threads
    <2>3. outstanding' = Cardinality(Charged) + actor'["task"].release + actor'["consumer"].release
      <3>1. CASE a = "task"
        <4>1. actor'["task"].release = 0 /\ actor'["consumer"].release = actor["consumer"].release
          BY <1>3, <1>5, <3>1
        <4> QED BY <1>1, <2>1, <2>2, <3>1, <4>1
      <3>2. CASE a = "consumer"
        <4>1. actor'["consumer"].release = 0 /\ actor'["task"].release = actor["task"].release
          BY <1>3, <1>5, <3>2
        <4> QED BY <1>1, <2>1, <2>2, <3>2, <4>1
      <3> QED BY <1>3, <3>1, <3>2
    <2>4. outstanding' \in 0 .. QuotaLimit
      <3>1. actor[a].release \in Nat /\ actor[a].release <= outstanding
        BY <1>3, <2>1, <2>2
      <3> QED BY <1>1, <2>2, <3>1
    <2>5. Charged' = Charged
      BY <1>1 DEF Charged
    <2> QED BY <2>3, <2>4, <2>5 DEF QuotaMatches, Charged
  <1>10. ItemsTyped'
    <2>1. Charged' = Charged
      BY <1>1 DEF Charged
    <2> QED BY <1>1, <1>5, <1>9, <2>1 DEF ItemsIInv, ItemsTyped, InboundTypeOK
  <1>11. HeadKept' /\ HeadsMatch'
    BY <1>1 DEF ItemsIInv, HeadKept, HeadsMatch, Oldest
  <1> QED BY <1>5, <1>8, <1>9, <1>10, <1>11 DEF ItemsIInv

LEMMA CountReturnStep ==
    ASSUME ItemsIInv, NEW a \in Actors, CountReturn(a) PROVE ItemsIInv'
  <1>1. PICK s : s = actor[a].item
    OBVIOUS
  <1>2. /\ "task" \in Actors /\ "consumer" \in Actors /\ Actors = {"task", "consumer"}
        /\ actor[a].pc \in {"got", "return"} /\ UNCHANGED <<order, list, signalled, outstanding,
             heads, run>>
    BY DEF CountReturn, At, Actors
  <1>3. s \in Slots /\ InHand(a, s) /\ ItemHeld(s) /\ actor[a].release = 0 /\ ~actor[a].last
    <2>1. InHand(a, s) /\ actor[a].item # NoSlot /\ actor[a].release = 0 /\ ~actor[a].last
      BY <1>1, <1>2 DEF ItemsIInv, ThreadsApart, ThreadOK, InHand, Hands
    <2> QED BY <1>1, <2>1, ItemsFacts DEF Threads, ItemHeld
  <1>4. item[s] \in Headers_ /\ SlotOK(s) /\ s \in InRing
    <2>1. item[s] \in Headers_ /\ SlotOK(s)
      BY <1>3, ItemsFacts DEF ItemsIInv
    <2> QED BY <1>3, <2>1 DEF SlotOK
  <1> DEFINE local == item[s].kind = "LOCAL"
  <1>5. /\ local => item[s].parties = One(item[s].taken)
        /\ ~item[s].returned /\ ~Leaving(s) /\ (~local => item[s].parties = 0 /\ item[s].taken)
    BY <1>3, <1>4 DEF SlotOK, LocalItem, ReceivedItem, One
  <1>6. PICK p \in 0 .. LOCAL_ITEM_PARTIES : p = IF local THEN item[s].parties + 1 ELSE item[s].parties
    BY <1>5 DEF One, LOCAL_ITEM_PARTIES
  <1> DEFINE rest == [actor[a] EXCEPT !.release = item[s].charge,
                                      !.last = ~local \/ item[s].parties + 1 >= LOCAL_ITEM_PARTIES]
  <1>7. Moves(a, rest) /\ item' = [item EXCEPT ![s] = [item[s] EXCEPT !.charge = 0, !.parties = p]]
    <2>1. Moves(a, rest) /\ item' = [item EXCEPT ![s].charge = 0,
                                         ![s].parties = IF local THEN @ + 1 ELSE @]
      BY <1>1 DEF CountReturn
    <2> QED BY <1>4, <1>6, <2>1, ItemsFacts
  <1>8. /\ rest \in Threads /\ rest.release = item[s].charge /\ rest.item = s
        /\ (rest.last <=> item[s].taken) /\ rest.chain = actor[a].chain
    <2>1. (~local \/ item[s].parties + 1 >= LOCAL_ITEM_PARTIES) <=> item[s].taken
      BY <1>4, <1>5 DEF One, LOCAL_ITEM_PARTIES
    <2>2. item[s].charge \in Nat
      BY <1>4 DEF Headers_
    <2> HIDE DEF local
    <2> QED BY <1>1, <1>3, <2>1, <2>2, ItemsFacts DEF Threads
  <1> HIDE DEF rest
  <1>9. /\ item' \in [Slots -> Headers_] /\ \A t \in Slots : t # s => item'[t] = item[t]
        /\ item'[s].kind = item[s].kind /\ item'[s].filled = item[s].filled
        /\ item'[s].published = item[s].published /\ item'[s].taken = item[s].taken
        /\ item'[s].returned = item[s].returned /\ item'[s].charge = 0 /\ item'[s].parties = p
    <2>1. [item[s] EXCEPT !.charge = 0, !.parties = p] \in Headers_
      BY <1>4, <1>6 DEF Headers_
    <2>2. /\ item' \in [Slots -> Headers_] /\ \A t \in Slots : t # s => item'[t] = item[t]
          /\ item'[s] = [item[s] EXCEPT !.charge = 0, !.parties = p]
      BY <1>3, <1>7, <2>1, ItemsFacts
    <2> QED BY <1>4, <2>2 DEF Headers_
  <1> HIDE DEF local
  <1>10. run.phase # "done" /\ (a = "consumer" => actor["consumer"].pc # "done")
    BY <1>2 DEF ItemsIInv, Stopping
  <1>11. /\ actor' \in [Actors -> Threads] /\ ThreadsApart' /\ OneHolder' /\ Stopping' /\ Chain' = Chain
         /\ \A b \in Actors : b # a => actor'[b] = actor[b]
         /\ actor'[a].release = item[s].charge
         /\ \A t \in Slots :
              /\ ~InHand(a, t)'
              /\ \A b \in Actors : b # a => (InHand(b, t)' <=> InHand(b, t))
              /\ Leaving(t)' <=> \/ rest.last /\ rest.item = t
                                 \/ \E b \in Actors : b # a /\ actor[b].item = t /\ actor[b].last
              /\ Filling(t)' => Filling(t) /\ a # "task"
              /\ Getting(t)' => Getting(t) /\ a # "task"
              /\ a # "task" => (Filling(t)' <=> Filling(t))
    <2>1. \A b \in Actors : b # a /\ rest.last /\ actor[b].last => actor[b].item # rest.item
      BY <1>5, <1>8 DEF Leaving
    <2>2. NoTwice(order')
      BY <1>2 DEF ItemsIInv, OneHolder
    <2>3. \A t \in Slots : item[t].published => item'[t].published
      BY <1>9
    <2>4. rest.last => rest.item # NoSlot
      BY <1>3, <1>8, ItemsFacts
    <2> QED BY <1>2, <1>7, <1>8, <1>10, <2>1, <2>2, <2>3, <2>4, MovedOn
  <1>12. \A t \in Slots : t # s => ~InHand(a, t)
    BY <1>1 DEF InHand
  <1>13. /\ ~ItemHeld(s)' /\ (Leaving(s)' <=> item[s].taken) /\ ~Filling(s)' /\ ~Getting(s)'
    <2>1. s \notin Range(list) /\ s \notin Range(Chain) /\ \A b \in Actors : b # a => ~InHand(b, s)
      BY <1>2, <1>3 DEF ItemsIInv, OneHolder
    <2>2. ~ItemHeld(s)'
      BY <1>2, <1>3, <1>11, <2>1 DEF ItemHeld
    <2>3. Leaving(s)' <=> item[s].taken
      BY <1>3, <1>5, <1>8, <1>11 DEF Leaving
    <2>4. a # "task" => ~Filling(s) /\ ~Getting(s)
      BY <1>2, <2>1 DEF Filling, Getting, InHand, Hands
    <2> QED BY <1>3, <1>11, <2>2, <2>3, <2>4
  <1>14. ASSUME NEW t \in Slots, t # s
         PROVE  /\ ItemHeld(t)' <=> ItemHeld(t)
                /\ Leaving(t)' <=> Leaving(t)
                /\ Filling(t)' <=> Filling(t)
                /\ Getting(t)' => Getting(t)
    <2>1. ItemHeld(t)' <=> ItemHeld(t)
      BY <1>2, <1>11, <1>12, <1>14 DEF ItemHeld
    <2>2. Leaving(t)' <=> Leaving(t)
      BY <1>3, <1>8, <1>11, <1>14 DEF Leaving
    <2>3. a = "task" => ~Filling(t)
      BY <1>1, <1>14 DEF Filling
    <2> QED BY <1>11, <2>1, <2>2, <2>3
  <1>15. InRing' = InRing
    BY <1>2 DEF InRing
  <1>16. SlotOK(s)'
    <2>1. CASE local
      <3>1. p = One(item[s].taken) + 1 /\ item[s].parties = One(item[s].taken)
        BY <1>5, <1>6, <2>1
      <3>2. p = One(item'[s].taken) + One(~ItemHeld(s)')
        BY <1>9, <1>13, <3>1 DEF One
      <3>3. LocalItem(s)'
        <4>1. (Leaving(s)' <=> p = 2 /\ ~item'[s].returned)
          BY <1>5, <1>9, <1>13, <3>1 DEF One
        <4>2. item[s].filled
          <5>1. Filling(s) => a = "task"
            BY <1>2, <1>3 DEF Filling, InHand, Hands, ItemsIInv, OneHolder
          <5>2. a = "task" => ~Filling(s)
            BY <1>2 DEF Filling
          <5> QED BY <1>4, <2>1, <5>1, <5>2 DEF SlotOK, LocalItem, local
        <4> QED BY <1>4, <1>5, <1>9, <2>1, <3>2, <4>1, <4>2 DEF SlotOK, LocalItem, local
      <3> QED BY <1>4, <1>5, <1>9, <1>13, <1>15, <2>1, <3>3 DEF SlotOK, local
    <2>2. CASE ~local
      <3>1. ReceivedItem(s)'
        BY <1>5, <1>6, <1>9, <1>13, <2>2 DEF ReceivedItem
      <3> QED BY <1>4, <1>5, <1>9, <1>13, <1>15, <2>2, <3>1 DEF SlotOK, local
    <2> QED BY <2>1, <2>2
  <1>17. \A t \in Slots : SlotOK(t)'
    <2> TAKE t \in Slots
    <2>1. CASE t = s
      BY <1>16, <2>1
    <2>2. CASE t # s
      BY <1>9, <1>14, <1>15, <2>2, SlotSame DEF ItemsIInv
    <2> QED BY <2>1, <2>2
  <1>18. IsFiniteSet(Charged') /\ Cardinality(Charged) = Cardinality(Charged)' + item[s].charge
    <2>1. Charged' = Charged \ {s} /\ (s \in Charged <=> item[s].charge = 1)
      BY <1>3, <1>9 DEF Charged
    <2>2. CASE item[s].charge = 1
      <3>1. IsFiniteSet(Charged \ {s}) /\ Cardinality(Charged \ {s}) = Cardinality(Charged) - 1
        BY <2>1, <2>2, ItemsFacts, FS_RemoveElement
      <3> QED BY <2>1, <2>2, <3>1, ItemsFacts
    <2>3. CASE item[s].charge = 0
      <3>1. Charged' = Charged
        BY <2>1, <2>3
      <3> QED BY <2>3, <3>1, ItemsFacts
    <2> QED BY <1>4, <2>2, <2>3 DEF Headers_
  <1>19. QuotaMatches'
    <2>1. outstanding = Cardinality(Charged) + actor["task"].release + actor["consumer"].release
      BY DEF ItemsIInv, QuotaMatches, Charged
    <2>4. Cardinality(Charged)' \in Nat
      BY <1>18, FS_CardinalityType
    <2>5. item[s].charge \in Nat
      BY <1>4 DEF Headers_
    <2>2. /\ Cardinality(Charged)' \in Nat /\ item[s].charge \in Nat
          /\ actor["task"].release \in Nat /\ actor["consumer"].release \in Nat
      BY <1>2, <2>4, <2>5, ItemsFacts DEF Threads
    <2>3. outstanding' = Cardinality(Charged)' + actor'["task"].release + actor'["consumer"].release
      <3>1. CASE a = "task"
        <4>1. /\ actor'["task"].release = item[s].charge /\ actor["task"].release = 0
              /\ actor'["consumer"].release = actor["consumer"].release
          BY <1>2, <1>3, <1>11, <3>1
        <4> QED BY <1>2, <1>18, <2>1, <2>2, <4>1
      <3>2. CASE a = "consumer"
        <4>1. /\ actor'["consumer"].release = item[s].charge /\ actor["consumer"].release = 0
              /\ actor'["task"].release = actor["task"].release
          BY <1>2, <1>3, <1>11, <3>2
        <4> QED BY <1>2, <1>18, <2>1, <2>2, <4>1
      <3> QED BY <1>2, <3>1, <3>2
    <2> QED BY <2>3 DEF QuotaMatches, Charged
  <1>20. ItemsTyped'
    BY <1>2, <1>9, <1>11, <1>18 DEF ItemsIInv, ItemsTyped, InboundTypeOK, Headers_
  <1>21. HeadKept' /\ HeadsMatch'
    <2>1. \A t \in Slots : /\ item'[t].taken = item[t].taken /\ item'[t].filled = item[t].filled
                           /\ item'[t].returned = item[t].returned
      BY <1>9
    <2>2. \A i \in DOMAIN order : order[i] \in Slots /\ \A j \in 1 .. i - 1 : order[j] \in Slots
      BY ItemsFacts
    <2>3. \A t \in Slots : Oldest(t) => Oldest(t)'
      BY <1>2, <2>1, <2>2 DEF Oldest
    <2>4. order # <<>> => order[1] \in Slots
      BY ItemsFacts
    <2>5. HeadKept'
      BY <1>2, <2>1, <2>4 DEF ItemsIInv, HeadKept
    <2> QED BY <1>2, <2>1, <2>3, <2>5, ItemsFacts DEF ItemsIInv, HeadsMatch, One
  <1> QED BY <1>11, <1>17, <1>19, <1>20, <1>21 DEF ItemsIInv

LEMMA ReleaseChargesStep ==
    ASSUME ItemsIInv, ReleaseCharges PROVE ItemsIInv'
  <1> DEFINE charged == {s \in Slots : item[s].charge = 1 /\ \E i \in DOMAIN list : list[i] = s}
             rest == [actor["task"] EXCEPT !.release = Cardinality(charged)]
  <1>1. /\ actor["task"].pc = "idle" /\ run.phase = "running"
        /\ run' = [run EXCEPT !.boundaries = @ + 1] /\ Moves("task", rest)
        /\ item' = [s \in Slots |-> IF s \in charged THEN [item[s] EXCEPT !.charge = 0] ELSE item[s]]
        /\ UNCHANGED <<order, list, signalled, outstanding, heads>>
    BY DEF ReleaseCharges, At
  <1>2. "task" \in Actors /\ "consumer" \in Actors /\ Actors = {"task", "consumer"}
    BY DEF Actors
  <1>3. charged \subseteq Charged
    BY DEF Charged
  <1>4. IsFiniteSet(charged) /\ Cardinality(charged) \in Nat
    BY <1>3, ItemsFacts, FS_Subset, FS_CardinalityType
  <1>5. \A s \in charged : s \in Slots
    OBVIOUS
  <1> HIDE DEF charged
  <1>6. /\ rest \in Threads /\ rest.release = Cardinality(charged) /\ ~rest.last
        /\ rest.item = NoSlot /\ rest.chain = actor["task"].chain /\ Chain = <<>>
        /\ actor["task"].release = 0
    <2>1. actor["task"].item = NoSlot /\ ~actor["task"].last /\ Chain = <<>> /\ actor["task"].release = 0
      BY <1>1 DEF ItemsIInv, ThreadsApart, ThreadOK, Hands
    <2>2. actor["task"] \in Threads
      BY <1>2, ItemsFacts
    <2> QED BY <1>4, <2>1, <2>2 DEF Threads
  <1> HIDE DEF rest
  <1>7. run'.phase = "running" /\ DOMAIN run' = {"phase", "told", "acquires", "boundaries"}
    BY <1>1 DEF ItemsIInv, ItemsTyped
  <1>8. ASSUME NEW s \in Slots
        PROVE  /\ item'[s] \in Headers_
               /\ item'[s].kind = item[s].kind /\ item'[s].filled = item[s].filled
               /\ item'[s].published = item[s].published /\ item'[s].taken = item[s].taken
               /\ item'[s].returned = item[s].returned /\ item'[s].parties = item[s].parties
               /\ item'[s].charge = 1 => item[s].charge = 1 /\ s \notin charged
               /\ s \notin charged => item'[s] = item[s]
               /\ item[s].charge = 0 => item'[s].charge = 0
    <2>1. item[s] \in Headers_
      BY ItemsFacts
    <2>2. item'[s] = IF s \in charged THEN [item[s] EXCEPT !.charge = 0] ELSE item[s]
      BY <1>1
    <2> QED BY <2>1, <2>2 DEF Headers_
  <1>9. item' \in [Slots -> Headers_]
    BY <1>1, <1>8
  <1>10. /\ actor' \in [Actors -> Threads] /\ ThreadsApart' /\ OneHolder' /\ Stopping' /\ Chain' = Chain
         /\ actor'["consumer"] = actor["consumer"] /\ actor'["task"].release = Cardinality(charged)
         /\ \A t \in Slots :
              /\ ~InHand("task", t)'
              /\ InHand("consumer", t)' <=> InHand("consumer", t)
              /\ Leaving(t)' <=> actor["consumer"].item = t /\ actor["consumer"].last
              /\ ~Filling(t)' /\ ~Getting(t)'
    <2>1. NoTwice(order')
      BY <1>1 DEF ItemsIInv, OneHolder
    <2>2. \A t \in Slots : item[t].published => item'[t].published
      BY <1>8
    <2>3. run.phase # "done" /\ run'.phase = run.phase
      BY <1>1, <1>7
    <2>4. \A b \in Actors : b # "task" => b = "consumer"
      BY <1>2
    <2> HIDE DEF Chain
    <2>5. /\ actor' \in [Actors -> Threads] /\ ThreadsApart' /\ OneHolder' /\ Stopping' /\ Chain' = Chain
          /\ \A b \in Actors : b # "task" => actor'[b] = actor[b]
          /\ actor'["task"].release = rest.release
          /\ \A t \in Slots :
               /\ ~InHand("task", t)'
               /\ \A b \in Actors : b # "task" => (InHand(b, t)' <=> InHand(b, t))
               /\ Leaving(t)' <=> \/ rest.last /\ rest.item = t
                                  \/ \E b \in Actors : b # "task" /\ actor[b].item = t /\ actor[b].last
               /\ Filling(t)' => Filling(t) /\ "task" # "task"
               /\ Getting(t)' => Getting(t) /\ "task" # "task"
      BY <1>1, <1>2, <1>6, <2>1, <2>2, <2>3, MovedOn
    <2> QED BY <1>2, <1>6, <2>4, <2>5
  <1>11. ASSUME NEW t \in Slots
         PROVE  /\ ItemHeld(t)' <=> ItemHeld(t)
                /\ Leaving(t)' <=> Leaving(t)
                /\ Filling(t)' <=> Filling(t)
                /\ Getting(t)' <=> Getting(t)
    <2>1. ~InHand("task", t) /\ ~Filling(t) /\ ~Getting(t)
      BY <1>1 DEF InHand, Filling, Getting, Hands
    <2>2. ItemHeld(t)' <=> ItemHeld(t)
      BY <1>1, <1>2, <1>10, <2>1 DEF ItemHeld
    <2>3. ~actor["task"].last
      BY <1>1 DEF ItemsIInv, ThreadsApart, ThreadOK
    <2>4. Leaving(t)' <=> Leaving(t)
      BY <1>2, <1>10, <2>3 DEF Leaving
    <2> QED BY <1>10, <2>1, <2>2, <2>4
  <1>12. InRing' = InRing
    BY <1>1 DEF InRing
  <1>13. \A t \in Slots : SlotOK(t)'
    <2> TAKE t \in Slots
    <2>1. SlotOK(t)
      BY DEF ItemsIInv
    <2>2. CASE t \notin charged
      BY <1>8, <1>11, <1>12, <2>1, <2>2, SlotSame
    <2>3. CASE t \in charged
      <3>1. t \in InRing
        <4>1. item[t].charge = 1
          BY <2>3 DEF charged
        <4> QED BY <4>1, AbsentFacts
      <3>2. LocalItem(t) => LocalItem(t)'
        BY <1>8, <1>11 DEF LocalItem, One
      <3>3. ReceivedItem(t) => ReceivedItem(t)'
        BY <1>8, <1>11 DEF ReceivedItem
      <3>4. item[t].charge = 0 => item'[t].charge = 0
        BY <1>8
      <3> QED BY <1>8, <1>11, <1>12, <2>1, <3>1, <3>2, <3>3, <3>4 DEF SlotOK
    <2> QED BY <2>2, <2>3
  <1>14. IsFiniteSet(Charged') /\ Cardinality(Charged) = Cardinality(Charged)' + Cardinality(charged)
    <2>1. Charged' = Charged \ charged
      <3>1. \A t \in charged : item'[t].charge # 1
        BY <1>5, <1>8
      <3> QED BY <1>8, <3>1 DEF Charged
    <2>2. IsFiniteSet(Charged \ charged)
          /\ Cardinality(Charged \ charged) = Cardinality(Charged) - Cardinality(Charged \cap charged)
      BY ItemsFacts, FS_Difference
    <2>3. Charged \cap charged = charged
      BY <1>3
    <2>4. Cardinality(Charged \ charged) = Cardinality(Charged) - Cardinality(charged)
      BY <2>2, <2>3
    <2>5. Cardinality(Charged') = Cardinality(Charged) - Cardinality(charged)
      BY <2>1, <2>4
    <2>6. IsFiniteSet(Charged')
      BY <2>1, <2>2
    <2>7. Cardinality(Charged') \in Nat /\ Cardinality(Charged) \in Nat
      BY <2>6, ItemsFacts, FS_CardinalityType
    <2>8. Cardinality(Charged) = Cardinality(Charged') + Cardinality(charged)
      BY <1>4, <2>5, <2>7
    <2> QED BY <2>6, <2>8
  <1>15. QuotaMatches'
    <2>1. outstanding = Cardinality(Charged) + actor["task"].release + actor["consumer"].release
      BY DEF ItemsIInv, QuotaMatches, Charged
    <2>2. Cardinality(Charged)' \in Nat
      BY <1>14, FS_CardinalityType
    <2>3. actor["consumer"].release \in Nat /\ actor'["consumer"].release = actor["consumer"].release
      BY <1>2, <1>10, ItemsFacts DEF Threads
    <2>4. outstanding' = Cardinality(Charged)' + actor'["task"].release + actor'["consumer"].release
      BY <1>1, <1>4, <1>6, <1>10, <1>14, <2>1, <2>2, <2>3
    <2> QED BY <2>4 DEF QuotaMatches, Charged
  <1>16. ItemsTyped'
    BY <1>1, <1>7, <1>9, <1>10, <1>14 DEF ItemsIInv, ItemsTyped, InboundTypeOK, Headers_
  <1>17. HeadKept' /\ HeadsMatch'
    <2>2. \A i \in DOMAIN order : order[i] \in Slots /\ \A j \in 1 .. i - 1 : order[j] \in Slots
      BY ItemsFacts
    <2>3. \A t \in Slots : Oldest(t) => Oldest(t)'
      BY <1>1, <1>8, <2>2 DEF Oldest
    <2>4. order # <<>> => order[1] \in Slots
      BY ItemsFacts
    <2>5. HeadKept'
      BY <1>1, <1>8, <2>4 DEF ItemsIInv, HeadKept
    <2> QED BY <1>1, <1>8, <2>3, <2>5, ItemsFacts DEF ItemsIInv, HeadsMatch, One
  <1> QED BY <1>10, <1>13, <1>15, <1>16, <1>17 DEF ItemsIInv
-----------------------------------------------------------------------------
(* Taking *)

\* The oldest item, complete, leaves take().
LEMMA DeliverStep ==
    ASSUME ItemsIInv, NEW s \in Slots, actor["task"].pc = "idle", run.phase # "done",
           Oldest(s), item[s].filled, Deliver(s),
           UNCHANGED <<order, list, signalled, outstanding, run>>,
           heads' \in [ahead : -1 .. 1, pending : {NoSlot}],
           heads'.ahead = One(\E t \in Slots : AtStart(t) /\ item[t].filled /\ ~item[t].taken /\ t # s)
    PROVE  ItemsIInv'
  <1> DEFINE local == item[s].kind = "LOCAL"
             handler == item[s].kind = "MESSAGE" /\ run.phase # "reset"
  <1>1. "task" \in Actors /\ "consumer" \in Actors /\ Actors = {"task", "consumer"}
    BY DEF Actors
  <1>2. /\ s \in InRing /\ ~item[s].taken /\ item[s] \in Headers_ /\ SlotOK(s)
    <2>1. item[s] \in Headers_ /\ SlotOK(s)
      BY ItemsFacts DEF ItemsIInv
    <2> QED BY <2>1 DEF Oldest, InRing
  <1>3. /\ Chain = <<>> /\ actor["task"].item = NoSlot /\ actor["task"].release = 0
        /\ ~actor["task"].last
    BY DEF ItemsIInv, ThreadsApart, ThreadOK, Hands
  <1>4. /\ ~item[s].returned /\ ~Leaving(s) /\ ~Filling(s)
        /\ local => item[s].parties = One(~ItemHeld(s)) /\ item[s].published
        /\ ~local => item[s].parties = 0 /\ ~ItemHeld(s) /\ item[s].charge # 1
    <2>1. CASE local
      <3>1. item[s].parties = One(FALSE) + One(~ItemHeld(s))
        BY <1>2, <2>1 DEF SlotOK, LocalItem, One
      <3>2. item[s].parties = One(~ItemHeld(s)) /\ item[s].parties # 2
        BY <3>1 DEF One
      <3> QED BY <1>2, <2>1, <3>2 DEF SlotOK, LocalItem
    <2>2. CASE ~local
      BY <1>2, <2>2 DEF SlotOK, ReceivedItem
    <2> QED BY <2>1, <2>2
  <1>5. PICK p \in 0 .. LOCAL_ITEM_PARTIES : p = item[s].parties + (IF local THEN 1 ELSE 0)
    BY <1>4 DEF One, LOCAL_ITEM_PARTIES
  <1>6. item' = [item EXCEPT ![s] = [item[s] EXCEPT !.taken = TRUE, !.parties = p]]
    BY <1>5 DEF Deliver
  <1>7. /\ item' \in [Slots -> Headers_] /\ \A t \in Slots : t # s => item'[t] = item[t]
        /\ item'[s].kind = item[s].kind /\ item'[s].filled = item[s].filled
        /\ item'[s].published = item[s].published /\ item'[s].taken = TRUE
        /\ item'[s].returned = item[s].returned /\ item'[s].charge = item[s].charge
        /\ item'[s].parties = p
    <2>1. [item[s] EXCEPT !.taken = TRUE, !.parties = p] \in Headers_
      BY <1>2, <1>5 DEF Headers_
    <2>2. /\ item' \in [Slots -> Headers_] /\ \A t \in Slots : t # s => item'[t] = item[t]
          /\ item'[s] = [item[s] EXCEPT !.taken = TRUE, !.parties = p]
      BY <1>6, <2>1, ItemsFacts
    <2> QED BY <1>2, <2>2 DEF Headers_
  \* What the task does with the item: a message is in its hand, another gone or going.
  <1>8. /\ actor' \in [Actors -> Threads] /\ ThreadsApart' /\ OneHolder' /\ Stopping' /\ Chain' = Chain
        /\ actor'["consumer"] = actor["consumer"] /\ actor'["task"].release = 0
        /\ \A t \in Slots :
             /\ InHand("task", t)' <=> handler /\ t = s
             /\ InHand("consumer", t)' <=> InHand("consumer", t)
             /\ Leaving(t)' <=> \/ ~handler /\ (local => p = 2) /\ t = s
                                \/ actor["consumer"].item = t /\ actor["consumer"].last
             /\ ~Filling(t)' /\ (Getting(t)' <=> handler /\ t = s)
    <2>0. \A t \in Slots : item[t].published => item'[t].published
      BY <1>7
    <2>1. CASE handler
      <3>1. actor' = [actor EXCEPT !["task"].pc = "got", !["task"].item = s]
        BY <2>1 DEF Deliver
      <3>2. /\ actor' \in [Actors -> Threads] /\ actor'["consumer"] = actor["consumer"]
            /\ actor'["task"].pc = "got" /\ actor'["task"].item = s /\ Chain' = Chain
            /\ actor'["task"].release = 0 /\ ~actor'["task"].last
        BY <1>1, <1>3, <3>1, ItemsFacts DEF Threads, Chain, TaskPlaces
      <3>3. ThreadsApart'
        BY <1>3, <3>2, ItemsFacts DEF ItemsIInv, ThreadsApart, ThreadOK, TaskPlaces, Hands
      <3>4. ASSUME NEW t \in Slots
            PROVE  /\ InHand("task", t)' <=> t = s
                   /\ InHand("consumer", t)' <=> InHand("consumer", t)
                   /\ Leaving(t)' <=> actor["consumer"].item = t /\ actor["consumer"].last
                   /\ ~Filling(t)' /\ (Getting(t)' <=> t = s)
        BY <1>1, <3>2 DEF InHand, Hands, Leaving, Filling, Getting
      <3>5. OneHolder'
        <4>1. s \notin Range(list) /\ s \notin Range(Chain) /\ ~InHand("consumer", s)
          BY <1>1, <1>4, <2>1 DEF ItemHeld
        <4> QED BY <1>1, <3>2, <3>4, <4>1 DEF ItemsIInv, OneHolder
      <3>6. Stopping'
        BY <2>0, <2>1, <3>2 DEF ItemsIInv, Stopping
      <3> QED BY <2>1, <3>2, <3>3, <3>4, <3>5, <3>6
    <2>2. CASE ~handler
      <3> DEFINE rest == [actor["task"] EXCEPT !.item = s, !.last = local => p >= LOCAL_ITEM_PARTIES]
      <3>1. Moves("task", rest)
        BY <1>5, <2>2 DEF Deliver
      <3>2. /\ rest \in Threads /\ rest.release = 0 /\ rest.item = s
            /\ (rest.last <=> (local => p = 2)) /\ rest.chain = actor["task"].chain
        <4>1. (local => p >= LOCAL_ITEM_PARTIES) <=> (local => p = 2)
          BY <1>5 DEF LOCAL_ITEM_PARTIES
        <4>2. actor["task"] \in Threads
          BY <1>1, ItemsFacts
        <4> HIDE DEF local
        <4> QED BY <1>3, <4>1, <4>2 DEF Threads
      <3> HIDE DEF rest
      <3>3. NoTwice(order')
        BY DEF ItemsIInv, OneHolder
      <3>4. \A b \in Actors : b # "task" /\ rest.last /\ actor[b].last => actor[b].item # rest.item
        BY <1>4, <3>2 DEF Leaving
      <3>5. rest.last => rest.item # NoSlot
        BY <3>2, ItemsFacts
      <3>6. \A b \in Actors : b # "task" <=> b = "consumer"
        BY <1>1
      <3> HIDE DEF local, handler
      <3>7. /\ actor' \in [Actors -> Threads] /\ ThreadsApart' /\ OneHolder' /\ Stopping'
                 /\ Chain' = Chain
            /\ \A b \in Actors : b # "task" => actor'[b] = actor[b]
            /\ actor'["task"].release = 0
            /\ \A t \in Slots :
                 /\ ~InHand("task", t)'
                 /\ \A b \in Actors : b # "task" => (InHand(b, t)' <=> InHand(b, t))
                 /\ Leaving(t)' <=> \/ rest.last /\ rest.item = t
                                    \/ \E b \in Actors : b # "task" /\ actor[b].item = t /\ actor[b].last
                 /\ ~Filling(t)' /\ ~Getting(t)'
        BY <1>1, <2>0, <3>1, <3>2, <3>3, <3>4, <3>5, MovedOn
      <3> QED BY <1>1, <2>2, <3>2, <3>6, <3>7
    <2> QED BY <2>1, <2>2
  <1> HIDE DEF local, handler
  <1>9. ASSUME NEW t \in Slots, t # s
        PROVE  /\ ItemHeld(t)' <=> ItemHeld(t)
               /\ Leaving(t)' <=> Leaving(t)
               /\ Filling(t)' <=> Filling(t)
               /\ Getting(t)' <=> Getting(t)
    <2>1. ~InHand("task", t) /\ ~Filling(t) /\ ~Getting(t)
      BY DEF InHand, Filling, Getting, Hands
    <2>2. ItemHeld(t)' <=> ItemHeld(t)
      BY <1>1, <1>8, <1>9, <2>1 DEF ItemHeld
    <2>3. Leaving(t)' <=> Leaving(t)
      BY <1>1, <1>3, <1>8, <1>9 DEF Leaving
    <2> QED BY <1>8, <1>9, <2>1, <2>2, <2>3
  <1>10. InRing' = InRing
    BY DEF InRing
  <1>11. (ItemHeld(s)' <=> ItemHeld(s) \/ handler) /\ (Leaving(s)' <=> ~handler /\ (local => p = 2))
    <2>1. ~InHand("task", s)
      BY DEF InHand, Hands
    <2>2. ItemHeld(s)' <=> ItemHeld(s) \/ handler
      BY <1>1, <1>8, <2>1 DEF ItemHeld
    <2>3. Leaving(s)' <=> ~handler /\ (local => p = 2)
      BY <1>1, <1>3, <1>4, <1>8 DEF Leaving
    <2> QED BY <2>2, <2>3
  <1>12. SlotOK(s)'
    <2>1. CASE local
      <3>1. p = 1 + One(~ItemHeld(s)) /\ ~handler
        BY <1>4, <1>5, <2>1 DEF One, local, handler
      <3>2. item'[s].parties = One(item'[s].taken) + One(~ItemHeld(s)')
        BY <1>7, <1>11, <3>1 DEF One
      <3>3. Leaving(s)' <=> item'[s].parties = 2 /\ ~item'[s].returned
        BY <1>4, <1>7, <1>11, <2>1, <3>1
      <3>4. LocalItem(s)'
        BY <1>2, <1>4, <1>7, <2>1, <3>2, <3>3 DEF SlotOK, LocalItem, local
      <3> QED BY <1>2, <1>4, <1>7, <1>8, <1>10, <1>11, <2>1, <3>1, <3>4 DEF SlotOK, local
    <2>2. CASE ~local
      <3>1. p = 0
        BY <1>4, <1>5, <2>2
      <3>2. ReceivedItem(s)'
        BY <1>4, <1>7, <1>8, <1>11, <2>2, <3>1 DEF ReceivedItem
      <3>3. handler => item[s].kind = "MESSAGE" /\ item[s].charge = 0
        BY <1>2, <1>4, <2>2 DEF handler, Headers_
      <3> QED BY <1>2, <1>4, <1>7, <1>8, <1>10, <1>11, <2>2, <3>2, <3>3 DEF SlotOK, local
    <2> QED BY <2>1, <2>2
  <1>13. \A t \in Slots : SlotOK(t)'
    <2> TAKE t \in Slots
    <2>1. CASE t = s
      BY <1>12, <2>1
    <2>2. CASE t # s
      BY <1>7, <1>9, <1>10, <2>2, SlotSame DEF ItemsIInv
    <2> QED BY <2>1, <2>2
  <1>14. Charged' = Charged
    BY <1>7 DEF Charged
  <1>15. QuotaMatches'
    <2>1. outstanding = Cardinality(Charged) + actor["task"].release + actor["consumer"].release
      BY DEF ItemsIInv, QuotaMatches, Charged
    <2> QED BY <1>3, <1>8, <1>14, <2>1 DEF QuotaMatches, Charged
  <1>16. ItemsTyped'
    BY <1>7, <1>8, <1>14 DEF ItemsIInv, ItemsTyped, InboundTypeOK, Headers_
  <1>17. HeadKept'
    <2>1. \A t \in Slots : item'[t].returned = item[t].returned
      BY <1>7
    <2>2. order # <<>> => order[1] \in Slots
      BY ItemsFacts
    <2> QED BY <2>1, <2>2 DEF ItemsIInv, HeadKept
  <1>18. HeadsMatch'
    <2>1. (\E t \in Slots : AtStart(t) /\ item'[t].filled /\ ~item'[t].taken)
            <=> \E t \in Slots : AtStart(t) /\ item[t].filled /\ ~item[t].taken /\ t # s
      BY <1>7
    <2>2. heads'.ahead = One(\E t \in Slots : AtStart(t) /\ item'[t].filled /\ ~item'[t].taken)
      BY <2>1 DEF One
    <2>3. heads'.pending = NoSlot
      OBVIOUS
    <2>4. One(heads'.pending # NoSlot) = 0
      BY <2>3 DEF One
    <2>5. heads'.ahead = One(\E t \in Slots : AtStart(t) /\ item'[t].filled /\ ~item'[t].taken)
                            - One(heads'.pending # NoSlot)
      BY <2>2, <2>4 DEF One
    <2> QED BY <2>3, <2>5 DEF HeadsMatch
  <1> QED BY <1>8, <1>13, <1>15, <1>16, <1>17, <1>18 DEF ItemsIInv

LEMMA TakePendingStep ==
    ASSUME ItemsIInv, TakePending PROVE ItemsIInv'
  <1>1. PICK s : s = heads.pending
    OBVIOUS
  <1>2. /\ actor["task"].pc = "idle" /\ s # NoSlot /\ heads.ahead >= 0 /\ Deliver(s)
        /\ heads' = [heads EXCEPT !.pending = NoSlot]
        /\ UNCHANGED <<order, list, signalled, outstanding, run>>
    BY <1>1 DEF TakePending, At
  <1>3. s \in Slots /\ AtStart(s) /\ Oldest(s) /\ run.phase # "done"
    BY <1>1, <1>2, ItemsFacts DEF ItemsIInv, HeadsMatch, Stopping
  <1> DEFINE waiting == \E t \in Slots : AtStart(t) /\ item[t].filled /\ ~item[t].taken
  <1>4. waiting /\ heads.ahead = 0
    <2>1. heads.ahead = One(waiting) - 1
      BY <1>1, <1>2 DEF ItemsIInv, HeadsMatch, One
    <2> HIDE DEF waiting
    <2> QED BY <1>2, <2>1 DEF One
  <1>5. \A t \in Slots : AtStart(t) => t = s
    BY <1>3 DEF AtStart
  <1>6. item[s].filled
    BY <1>4, <1>5
  <1>7. heads' \in [ahead : -1 .. 1, pending : {NoSlot}] /\ heads'.ahead = 0
    BY <1>2, <1>4, ItemsFacts
  <1>8. heads'.ahead = One(\E t \in Slots : AtStart(t) /\ item[t].filled /\ ~item[t].taken /\ t # s)
    BY <1>5, <1>7 DEF One
  <1> QED BY <1>2, <1>3, <1>6, <1>7, <1>8, DeliverStep

LEMMA TakeOneStep ==
    ASSUME ItemsIInv, TakeOne PROVE ItemsIInv'
  <1>1. /\ actor["task"].pc = "idle" /\ run.phase \in {"running", "reset"} /\ heads.pending = NoSlot
        /\ UNCHANGED <<order, list, signalled, outstanding, run>>
    BY DEF TakeOne, At
  <1>2. PICK s \in Slots :
          /\ Oldest(s)
          /\ item[s].published \/ AtStart(s)
          /\ IF AtStart(s)
               THEN /\ heads' = [heads EXCEPT !.ahead = @ - 1, !.pending = s]
                    /\ UNCHANGED <<item, actor>>
               ELSE Deliver(s) /\ UNCHANGED heads
    BY DEF TakeOne
  <1> DEFINE waiting == \E t \in Slots : AtStart(t) /\ item[t].filled /\ ~item[t].taken
  <1>3. heads.ahead = One(waiting)
    <2>1. heads.ahead = One(waiting) - One(FALSE)
      BY <1>1 DEF ItemsIInv, HeadsMatch, One
    <2> HIDE DEF waiting
    <2> QED BY <2>1 DEF One
  <1>4. CASE AtStart(s)
    <2>1. heads' = [heads EXCEPT !.ahead = @ - 1, !.pending = s] /\ UNCHANGED <<item, actor>>
      BY <1>2, <1>4
    <2>2. PICK k \in -1 .. 1 : k = heads.ahead - 1 /\ k = One(waiting) - 1
      <3> HIDE DEF waiting
      <3> QED BY <1>3 DEF One
    <2>3. heads' = [heads EXCEPT !.ahead = k, !.pending = s]
      BY <2>1, <2>2
    <2>4. /\ heads' \in [ahead : -1 .. 1, pending : Slots \cup {NoSlot}]
          /\ heads'.ahead = k /\ heads'.pending = s
      BY <2>3, ItemsFacts
    <2>5. HeadsMatch'
      <3>1. Oldest(s)'
        BY <1>1, <1>2, <2>1 DEF Oldest
      <3>2. s # NoSlot
        BY ItemsFacts
      <3>3. heads'.ahead = One(waiting) - One(heads'.pending # NoSlot)
        BY <2>2, <2>4, <3>2 DEF One
      <3>4. heads'.ahead = One(\E t \in Slots : AtStart(t) /\ item'[t].filled /\ ~item'[t].taken)
                             - One(heads'.pending # NoSlot)
        BY <2>1, <3>3
      <3> QED BY <1>4, <2>4, <3>1, <3>4 DEF HeadsMatch
    <2>6. \A t \in Slots : /\ ItemHeld(t)' <=> ItemHeld(t)
                           /\ Leaving(t)' <=> Leaving(t)
                           /\ Filling(t)' <=> Filling(t)
                           /\ Getting(t)' <=> Getting(t)
      BY <1>1, <2>1 DEF ItemHeld, Leaving, Filling, Getting, InHand, Chain
    <2>7. InRing' = InRing /\ Charged' = Charged
      BY <1>1, <2>1 DEF InRing, Charged
    <2>8. \A t \in Slots : SlotOK(t)'
      BY <2>1, <2>6, <2>7, SlotSame DEF ItemsIInv
    <2>9. ItemsTyped'
      BY <1>1, <2>1, <2>4, <2>7 DEF ItemsIInv, ItemsTyped, InboundTypeOK
    <2>10. ThreadsApart' /\ OneHolder' /\ HeadKept' /\ QuotaMatches'
      BY <1>1, <2>1 DEF ItemsIInv, ThreadsApart, ThreadOK, OneHolder, HeadKept, QuotaMatches,
         InHand, Chain
    <2>11. Stopping'
      BY <1>1, <2>1 DEF ItemsIInv, Stopping, Chain
    <2> QED BY <2>5, <2>8, <2>9, <2>10, <2>11 DEF ItemsIInv
  <1>5. CASE ~AtStart(s)
    <2>1. Deliver(s) /\ UNCHANGED heads
      BY <1>2, <1>5
    <2>2. item[s].filled
      <3>1. s \in InRing /\ item[s].published /\ SlotOK(s)
        BY <1>2, <1>5 DEF Oldest, InRing, ItemsIInv
      <3> QED BY <3>1 DEF SlotOK
    <2>3. heads' \in [ahead : -1 .. 1, pending : {NoSlot}]
      BY <1>1, <2>1, ItemsFacts
    <2>4. heads'.ahead = One(\E t \in Slots : AtStart(t) /\ item[t].filled /\ ~item[t].taken /\ t # s)
      <3>1. waiting <=> \E t \in Slots : AtStart(t) /\ item[t].filled /\ ~item[t].taken /\ t # s
        BY <1>5
      <3> QED BY <1>3, <2>1, <3>1 DEF One
    <2>5. run.phase # "done"
      BY <1>1
    <2> QED BY <1>1, <1>2, <2>1, <2>2, <2>3, <2>4, <2>5, DeliverStep
  <1> QED BY <1>4, <1>5
-----------------------------------------------------------------------------
(* Giving back *)

\* What is left of a list behind the items at its head that are not kept
RestOf(q, kept) == IF kept = {} THEN <<>> ELSE SubSeq(q, Min(kept), Len(q))

RestFrom(q, kept, r, m) ==
    /\ DOMAIN r = 1 .. Len(q) - m + 1 /\ Len(r) = Len(q) - m + 1
    /\ \A i \in 1 .. Len(q) - m + 1 : r[i] = q[i + m - 1]
    /\ \A k \in kept : m <= k
    /\ m <= Len(q) => m \in kept

LEMMA Rest ==
    ASSUME NEW S, NEW q \in Seq(S), NEW kept, kept \subseteq DOMAIN q, NEW r, r = RestOf(q, kept)
    PROVE  r \in Seq(S) /\ \E m \in 1 .. Len(q) + 1 : RestFrom(q, kept, r, m)
  <1>1. Len(q) \in Nat /\ DOMAIN q = 1 .. Len(q)
    OBVIOUS
  <1>2. CASE kept = {}
    <2>1. r = <<>> /\ Len(r) = 0 /\ r \in Seq(S) /\ DOMAIN r = 1 .. 0
      BY <1>2 DEF RestOf
    <2>2. Len(q) + 1 \in 1 .. Len(q) + 1 /\ Len(q) - (Len(q) + 1) + 1 = 0 /\ ~(Len(q) + 1 <= Len(q))
      BY <1>1
    <2>3. RestFrom(q, kept, r, Len(q) + 1)
      BY <1>1, <1>2, <2>1, <2>2 DEF RestFrom
    <2> QED BY <2>1, <2>2, <2>3
  <1>3. CASE kept # {}
    <2>1. PICK m \in kept : \A k \in kept : m <= k
      <3>1. kept \subseteq Nat
        BY <1>1
      <3> QED BY <1>3, <3>1, LeastOf
    <2>2. m = Min(kept)
      <3>1. Min(kept) \in kept /\ \A k \in kept : Min(kept) <= k
        BY <2>1 DEF Min
      <3> QED BY <1>1, <2>1, <3>1
    <2>3. m \in 1 .. Len(q) /\ r = SubSeq(q, m, Len(q))
      BY <1>1, <1>3, <2>2 DEF RestOf
    <2>4. \A i \in m .. Len(q) : q[i] \in S
      BY <1>1, <2>3
    <2>5. /\ r \in Seq(S) /\ Len(r) = Len(q) - m + 1
          /\ \A i \in 1 .. Len(q) - m + 1 : r[i] = q[i + m - 1]
      <3>1. /\ SubSeq(q, m, Len(q)) \in Seq(S)
            /\ Len(SubSeq(q, m, Len(q))) = IF m <= Len(q) THEN Len(q) - m + 1 ELSE 0
            /\ \A i \in 1 .. Len(q) - m + 1 : SubSeq(q, m, Len(q))[i] = q[m + i - 1]
        <4>1. m \in Int /\ Len(q) \in Int
          BY <1>1, <2>3
        <4> QED BY <2>4, <4>1, SubSeqProperties
      <3>2. \A i \in 1 .. Len(q) - m + 1 : r[i] = q[i + m - 1]
        <4> TAKE i \in 1 .. Len(q) - m + 1
        <4>1. m + i - 1 = i + m - 1
          BY <1>1, <2>3
        <4>2. r[i] = q[m + i - 1]
          BY <2>3, <3>1
        <4> QED BY <4>1, <4>2
      <3>3. Len(r) = Len(q) - m + 1
        <4>1. m <= Len(q)
          BY <1>1, <2>3
        <4> QED BY <2>3, <3>1, <4>1, Zenon
      <3> QED BY <2>3, <3>1, <3>2, <3>3
    <2>6. DOMAIN r = 1 .. Len(q) - m + 1
      BY <2>5
    <2>7. m \in 1 .. Len(q) + 1
      BY <1>1, <2>3
    <2>8. RestFrom(q, kept, r, m)
      BY <2>1, <2>5, <2>6 DEF RestFrom
    <2> QED BY <2>5, <2>7, <2>8
  <1> QED BY <1>2, <1>3

\* The places of the list whose items stay, once those in mem are returned
KeptIn(mem) == {i \in DOMAIN order : ~mem[order[i]].returned}

\* What a return has done: s is the item, mem the headers with it returned, m where the ring's rest begins
GaveBackFrom(a, s, mem, m) ==
    /\ s = actor[a].item /\ Leaving(s) /\ SlotOK(s) /\ s \in InRing
    /\ item[s].taken /\ ~item[s].returned /\ ~ItemHeld(s)
    /\ item[s].kind = "LOCAL" => item[s].parties = 2
    /\ \A t \in Slots : t # s => mem[t] = item[t]
    /\ mem[s].kind = item[s].kind /\ mem[s].filled = item[s].filled
    /\ mem[s].published = item[s].published /\ mem[s].taken = item[s].taken
    /\ mem[s].returned = TRUE /\ mem[s].charge = item[s].charge /\ mem[s].parties = item[s].parties
    /\ order' = RestOf(order, KeptIn(mem))
    /\ order' \in Seq(Slots) /\ DOMAIN order' = 1 .. Len(order) - m + 1
    /\ \A k \in KeptIn(mem) : m <= k
    /\ m <= Len(order) => m \in KeptIn(mem)
    /\ \A i \in DOMAIN order' : i + m - 1 \in DOMAIN order /\ order'[i] = order[i + m - 1]
    /\ \A i \in DOMAIN order :
         i >= m => i - m + 1 \in DOMAIN order' /\ order'[i - m + 1] = order[i]
    /\ NoTwice(order')
    /\ \A t \in Slots : t \in InRing' <=> \E i \in DOMAIN order' : order'[i] = t
    /\ InRing' \subseteq InRing
    /\ \A t \in InRing : t \notin InRing' => mem[t].returned
    /\ \A t \in Slots :
         /\ t \in InRing' => item'[t] = mem[t]
         /\ t \notin InRing' => item'[t] = [Absent EXCEPT !.published = item[t].published]
         /\ t \notin InRing' => ~item'[t].filled /\ ~item'[t].taken /\ item'[t].charge = 0
                                /\ ~item'[t].returned
         /\ item'[t].published = item[t].published /\ item'[t] \in Headers_
    /\ item' \in [Slots -> Headers_]

LEMMA GaveBack ==
    ASSUME ItemsIInv, NEW a \in Actors, GiveBack(a)
    PROVE  \E s \in Slots, mem \in [Slots -> Headers_], m \in 1 .. Len(order) + 1 :
             GaveBackFrom(a, s, mem, m)
  <1>1. PICK s, mem : s = actor[a].item /\ mem = [item EXCEPT ![s].returned = TRUE]
    OBVIOUS
  <1> DEFINE kept == {i \in DOMAIN order : ~mem[order[i]].returned}
  <1>2. /\ "task" \in Actors /\ "consumer" \in Actors /\ Actors = {"task", "consumer"}
        /\ actor[a].pc = "giveBack"
    BY DEF GiveBack, At, Actors
  <1>3. /\ order' = IF kept = {} THEN <<>> ELSE SubSeq(order, Min(kept), Len(order))
        /\ item' = [t \in Slots |-> IF \E i \in DOMAIN order' : order'[i] = t THEN mem[t]
                                    ELSE [Absent EXCEPT !.published = mem[t].published]]
    BY <1>1 DEF GiveBack
  <1>4. /\ s \in Slots /\ actor[a].last /\ actor[a].release = 0 /\ actor[a] \in Threads /\ Leaving(s)
    <2>1. actor[a].last /\ actor[a].release = 0 /\ s # NoSlot
      BY <1>1, <1>2 DEF ItemsIInv, ThreadsApart, ThreadOK
    <2> QED BY <1>1, <2>1, ItemsFacts DEF Threads, Leaving
  <1>5. item[s] \in Headers_ /\ SlotOK(s) /\ s \in InRing
    <2>1. item[s] \in Headers_ /\ SlotOK(s)
      BY <1>4, ItemsFacts DEF ItemsIInv
    <2> QED BY <1>4, <2>1 DEF SlotOK
  <1>6. /\ item[s].taken /\ ~item[s].returned /\ ~ItemHeld(s)
        /\ item[s].kind = "LOCAL" => item[s].parties = 2
    <2>1. CASE item[s].kind = "LOCAL"
      <3>1. item[s].parties = 2 /\ ~item[s].returned
              /\ item[s].parties = One(item[s].taken) + One(~ItemHeld(s))
        BY <1>4, <1>5, <2>1 DEF SlotOK, LocalItem
      <3> QED BY <1>5, <3>1 DEF One, Headers_
    <2>2. CASE item[s].kind # "LOCAL"
      BY <1>4, <1>5, <2>2 DEF SlotOK, ReceivedItem
    <2> QED BY <2>1, <2>2
  <1>7. /\ mem \in [Slots -> Headers_] /\ \A t \in Slots : t # s => mem[t] = item[t]
        /\ mem[s] = [item[s] EXCEPT !.returned = TRUE]
    <2>1. [item[s] EXCEPT !.returned = TRUE] \in Headers_
      BY <1>5 DEF Headers_
    <2>2. mem = [item EXCEPT ![s] = [item[s] EXCEPT !.returned = TRUE]]
      BY <1>1
    <2> QED BY <1>4, <2>1, <2>2, ItemsFacts
  <1>8. /\ mem[s].kind = item[s].kind /\ mem[s].filled = item[s].filled
        /\ mem[s].published = item[s].published /\ mem[s].taken = item[s].taken
        /\ mem[s].returned = TRUE /\ mem[s].charge = item[s].charge /\ mem[s].parties = item[s].parties
    BY <1>5, <1>7 DEF Headers_
  <1>9. PICK m \in 1 .. Len(order) + 1 :
              /\ order' \in Seq(Slots) /\ DOMAIN order' = 1 .. Len(order) - m + 1
              /\ \A i \in 1 .. Len(order) - m + 1 : order'[i] = order[i + m - 1]
              /\ \A k \in kept : m <= k
              /\ m <= Len(order) => m \in kept
    <2>1. PICK r, left, q : r = order' /\ left = kept /\ q = order
      OBVIOUS
    <2>2. r = RestOf(q, left)
      BY <1>3, <2>1 DEF RestOf
    <2>3. q \in Seq(Slots) /\ left \subseteq DOMAIN q
      BY <2>1, ItemsFacts
    <2> HIDE DEF kept
    <2>4. r \in Seq(Slots) /\ \E m \in 1 .. Len(q) + 1 : RestFrom(q, left, r, m)
      BY <2>2, <2>3, Rest
    <2> QED BY <2>1, <2>4 DEF RestFrom
  <1>10. Len(order) \in Nat /\ DOMAIN order = 1 .. Len(order)
           /\ \A i \in DOMAIN order : order[i] \in Slots
    BY ItemsFacts
  \* What remains is a part of what there was, and what left has been returned.
  <1>11. \A i \in DOMAIN order' : i + m - 1 \in DOMAIN order /\ order'[i] = order[i + m - 1]
    <2> TAKE i \in DOMAIN order'
    <2>1. i \in 1 .. Len(order) - m + 1
      BY <1>9
    <2>2. i + m - 1 \in 1 .. Len(order)
      BY <1>10, <2>1
    <2>3. order'[i] = order[i + m - 1]
      BY <1>9, <2>1
    <2> QED BY <1>10, <2>2, <2>3
  <1>12. \A i \in DOMAIN order : i >= m => i - m + 1 \in DOMAIN order' /\ order'[i - m + 1] = order[i]
    <2> SUFFICES ASSUME NEW i \in DOMAIN order, i >= m
                 PROVE  i - m + 1 \in DOMAIN order' /\ order'[i - m + 1] = order[i]
      OBVIOUS
    <2>1. i - m + 1 \in 1 .. Len(order) - m + 1 /\ (i - m + 1) + m - 1 = i
      BY <1>9, <1>10
    <2> QED BY <1>9, <2>1
  <1>13. NoTwice(order')
    <2>1. \A i, j \in DOMAIN order' : i + m - 1 = j + m - 1 => i = j
      BY <1>9, <1>10
    <2> QED BY <1>11, <2>1 DEF ItemsIInv, OneHolder, NoTwice
  <1>14. /\ \A t \in Slots : t \in InRing' <=> \E i \in DOMAIN order' : order'[i] = t
         /\ InRing' \subseteq InRing
         /\ \A t \in InRing : t \notin InRing' => mem[t].returned
    <2>1. InRing' = {order'[i] : i \in DOMAIN order'}
      BY DEF InRing
    <2>2. InRing' \subseteq InRing
      BY <1>11, <2>1 DEF InRing
    <2>3. ASSUME NEW t \in InRing, t \notin InRing' PROVE mem[t].returned
      <3>1. PICK i \in DOMAIN order : order[i] = t
        BY DEF InRing
      <3>2. ~(i >= m)
        BY <1>12, <2>1, <2>3, <3>1
      <3>3. i \notin kept
        BY <1>9, <1>10, <3>2
      <3> QED BY <3>1, <3>3
    <2> QED BY <2>1, <2>2, <2>3
  <1>15. ASSUME NEW t \in Slots
         PROVE  /\ t \in InRing' => item'[t] = mem[t]
                /\ t \notin InRing' => item'[t] = [Absent EXCEPT !.published = item[t].published]
                /\ t \notin InRing' => ~item'[t].filled /\ ~item'[t].taken /\ item'[t].charge = 0
                                       /\ ~item'[t].returned
                /\ item'[t].published = item[t].published /\ item'[t] \in Headers_
    <2>1. mem[t] \in Headers_ /\ mem[t].published = item[t].published
      BY <1>7, <1>8
    <2>2. item'[t] = IF t \in InRing' THEN mem[t] ELSE [Absent EXCEPT !.published = item[t].published]
      BY <1>3, <1>14, <2>1
    <2>3. item[t].published \in BOOLEAN
      BY ItemsFacts DEF Headers_
    <2>4. CASE t \in InRing'
      BY <2>1, <2>2, <2>4
    <2>5. CASE t \notin InRing'
      <3>1. item'[t] = [Absent EXCEPT !.published = item[t].published]
        BY <2>2, <2>5
      <3> QED BY <2>3, <2>5, <3>1, AbsentHeader DEF Headers_
    <2> QED BY <2>4, <2>5
  <1>16. item' \in [Slots -> Headers_]
    BY <1>3, <1>15
  <1>17. order' = RestOf(order, KeptIn(mem)) /\ KeptIn(mem) = kept
    BY <1>3 DEF RestOf, KeptIn
  <1> HIDE DEF kept
  <1>18. GaveBackFrom(a, s, mem, m)
    BY <1>1, <1>4, <1>5, <1>6, <1>7, <1>8, <1>9, <1>11, <1>12, <1>13, <1>14, <1>15, <1>16, <1>17
       DEF GaveBackFrom
  <1> QED BY <1>4, <1>7, <1>18

LEMMA GiveBackStep ==
    ASSUME ItemsIInv, NEW a \in Actors, GiveBack(a) PROVE ItemsIInv'
  <1>1. PICK s \in Slots, mem \in [Slots -> Headers_], m \in 1 .. Len(order) + 1 :
          GaveBackFrom(a, s, mem, m)
    BY GaveBack
  <1> DEFINE kept == KeptIn(mem)
             rest == [actor[a] EXCEPT !.last = FALSE]
  <1> HIDE DEF kept
  <1>2. /\ "task" \in Actors /\ "consumer" \in Actors /\ Actors = {"task", "consumer"}
        /\ actor[a].pc = "giveBack" /\ Moves(a, rest)
        /\ UNCHANGED <<list, signalled, outstanding, heads, run>>
    BY DEF GiveBack, At, Actors
  <1>3. actor[a].last /\ actor[a].release = 0 /\ actor[a] \in Threads
    <2>1. actor[a].last /\ actor[a].release = 0
      BY <1>2 DEF ItemsIInv, ThreadsApart, ThreadOK
    <2> QED BY <2>1, ItemsFacts
  <1>4. /\ rest \in Threads /\ rest.release = 0 /\ ~rest.last /\ rest.chain = actor[a].chain
    BY <1>3 DEF Threads
  <1>5. item[s] \in Headers_ /\ SlotOK(s) /\ s \in InRing
    BY <1>1, ItemsFacts DEF GaveBackFrom
  <1>6. /\ item[s].taken /\ ~item[s].returned /\ ~ItemHeld(s)
        /\ item[s].kind = "LOCAL" => item[s].parties = 2
    BY <1>1 DEF GaveBackFrom
  <1>7. /\ mem \in [Slots -> Headers_] /\ \A t \in Slots : t # s => mem[t] = item[t]
    BY <1>1 DEF GaveBackFrom
  <1>8. /\ mem[s].kind = item[s].kind /\ mem[s].filled = item[s].filled
        /\ mem[s].published = item[s].published /\ mem[s].taken = item[s].taken
        /\ mem[s].returned = TRUE /\ mem[s].charge = item[s].charge /\ mem[s].parties = item[s].parties
    BY <1>1 DEF GaveBackFrom
  <1>9. /\ order' \in Seq(Slots) /\ DOMAIN order' = 1 .. Len(order) - m + 1
        /\ \A k \in kept : m <= k
        /\ m <= Len(order) => m \in kept
        /\ kept = {i \in DOMAIN order : ~mem[order[i]].returned}
    BY <1>1 DEF kept, KeptIn, GaveBackFrom
  <1>10. Len(order) \in Nat /\ DOMAIN order = 1 .. Len(order)
           /\ \A i \in DOMAIN order : order[i] \in Slots
    BY ItemsFacts
  <1>11. \A i \in DOMAIN order' : i + m - 1 \in DOMAIN order /\ order'[i] = order[i + m - 1]
    BY <1>1 DEF GaveBackFrom
  <1>12. \A i \in DOMAIN order : i >= m => i - m + 1 \in DOMAIN order' /\ order'[i - m + 1] = order[i]
    BY <1>1 DEF GaveBackFrom
  <1>13. NoTwice(order')
    BY <1>1 DEF GaveBackFrom
  <1>14. /\ \A t \in Slots : t \in InRing' <=> \E i \in DOMAIN order' : order'[i] = t
         /\ InRing' \subseteq InRing
         /\ \A t \in InRing : t \notin InRing' => mem[t].returned
    BY <1>1 DEF GaveBackFrom
  <1> HIDE DEF rest
  <1>15. ASSUME NEW t \in Slots
         PROVE  /\ t \in InRing' => item'[t] = mem[t]
                /\ t \notin InRing' => item'[t] = [Absent EXCEPT !.published = item[t].published]
                /\ t \notin InRing' => ~item'[t].filled /\ ~item'[t].taken /\ item'[t].charge = 0
                                       /\ ~item'[t].returned
                /\ item'[t].published = item[t].published /\ item'[t] \in Headers_
    BY <1>1 DEF GaveBackFrom
  <1>16. item' \in [Slots -> Headers_]
    BY <1>1 DEF GaveBackFrom
  <1>17. run.phase # "done" /\ (a = "consumer" => actor["consumer"].pc # "done")
    BY <1>2 DEF ItemsIInv, Stopping
  <1>18. /\ actor' \in [Actors -> Threads] /\ ThreadsApart' /\ OneHolder' /\ Stopping' /\ Chain' = Chain
         /\ \A b \in Actors : b # a => actor'[b] = actor[b]
         /\ actor'[a].release = 0
         /\ \A t \in Slots :
              /\ ~InHand(a, t)'
              /\ \A b \in Actors : b # a => (InHand(b, t)' <=> InHand(b, t))
              /\ Leaving(t)' <=> \E b \in Actors : b # a /\ actor[b].item = t /\ actor[b].last
              /\ Filling(t)' => Filling(t) /\ a # "task"
              /\ Getting(t)' => Getting(t) /\ a # "task"
              /\ a # "task" => (Filling(t)' <=> Filling(t))
    <2>1. \A t \in Slots : item[t].published => item'[t].published
      BY <1>15
    <2> QED BY <1>2, <1>4, <1>13, <1>17, <2>1, MovedOn
  <1>19. \A t \in Slots, b \in Actors : InHand(b, t)' <=> InHand(b, t)
    BY <1>2, <1>18 DEF InHand, Hands
  <1>20. ASSUME NEW t \in Slots
         PROVE  /\ ItemHeld(t)' <=> ItemHeld(t)
                /\ Filling(t)' <=> Filling(t)
                /\ Getting(t)' => Getting(t)
                /\ t # s => (Leaving(t)' <=> Leaving(t))
                /\ t = s => ~Leaving(t)'
    <2>1. ItemHeld(t)' <=> ItemHeld(t)
      BY <1>2, <1>18, <1>19 DEF ItemHeld
    <2>2. t # s => (Leaving(t)' <=> Leaving(t))
      BY <1>1, <1>18 DEF Leaving, GaveBackFrom
    <2>3. t = s => ~Leaving(t)'
      <3>1. \A b \in Actors : b # a /\ actor[b].last => actor[b].item # actor[a].item
        BY <1>2, <1>3 DEF ItemsIInv, OneHolder
      <3> QED BY <1>1, <1>18, <3>1 DEF GaveBackFrom
    <2>4. a = "task" => ~Filling(t)
      BY <1>2 DEF Filling
    <2> QED BY <1>18, <2>1, <2>2, <2>3, <2>4
  <1>21. ASSUME NEW t \in Slots, t \in InRing PROVE item[t].charge = 1 => t \in InRing'
    <2>1. SlotOK(t)
      BY DEF ItemsIInv
    <2>2. mem[t].returned => ~ItemHeld(t)
      <3>1. CASE t = s
        BY <1>6, <3>1
      <3>2. CASE t # s
        <4>1. mem[t] = item[t] /\ item[t] \in Headers_
          BY <1>7, <3>2, ItemsFacts
        <4>2. item[t].returned /\ item[t].kind = "LOCAL" => ~ItemHeld(t)
          <5>1. item[t].returned /\ item[t].kind = "LOCAL"
                  => item[t].parties = 2 /\ item[t].parties = One(item[t].taken) + One(~ItemHeld(t))
            BY <1>21, <2>1 DEF SlotOK, LocalItem
          <5> QED BY <5>1 DEF One
        <4>3. item[t].returned /\ item[t].kind # "LOCAL" => ~ItemHeld(t)
          BY <1>21, <2>1 DEF SlotOK, ReceivedItem
        <4> QED BY <4>1, <4>2, <4>3
      <3> QED BY <3>1, <3>2
    <2>3. item[t].charge = 1 => ItemHeld(t)
      BY <1>21, <2>1 DEF SlotOK
    <2> QED BY <1>14, <1>21, <2>2, <2>3
  <1>22. ASSUME NEW t \in Slots, t \in InRing, t \notin InRing' PROVE ~ItemHeld(t)
                  /\ ~Leaving(t)' /\ item[t].taken
    <2>1. mem[t].returned /\ SlotOK(t)
      BY <1>14, <1>22 DEF ItemsIInv
    <2>2. CASE t = s
      BY <1>6, <1>20, <2>2
    <2>3. CASE t # s
      <3>1. item[t].returned /\ item[t].taken
        <4>1. mem[t] = item[t]
          BY <1>7, <2>3
        <4> QED BY <1>22, <2>1, <4>1 DEF SlotOK
      <3>2. item[t].kind = "LOCAL" => ~ItemHeld(t) /\ ~Leaving(t)
        <4>1. item[t].kind = "LOCAL"
                => /\ item[t].parties = 2 /\ item[t].parties = One(item[t].taken) + One(~ItemHeld(t))
                   /\ ~Leaving(t)
          BY <1>22, <2>1, <3>1 DEF SlotOK, LocalItem
        <4> QED BY <4>1 DEF One
      <3>3. item[t].kind # "LOCAL" => ~ItemHeld(t) /\ ~Leaving(t)
        BY <1>22, <2>1, <3>1 DEF SlotOK, ReceivedItem
      <3> QED BY <1>20, <2>3, <3>1, <3>2, <3>3
    <2> QED BY <2>2, <2>3
  <1>23. \A t \in Slots : SlotOK(t)'
    <2> TAKE t \in Slots
    <2>1. SlotOK(t)
      BY DEF ItemsIInv
    <2>2. CASE t \notin InRing'
      <3>1. item'[t] = [Absent EXCEPT !.published = item'[t].published]
        BY <1>15, <2>2
      <3>2. ~ItemHeld(t) /\ ~Leaving(t)'
        <4>1. CASE t \in InRing
          BY <1>22, <2>2, <4>1
        <4>2. CASE t \notin InRing
          BY <1>5, <1>20, <4>2, AbsentFacts
        <4> QED BY <4>1, <4>2
      <3> QED BY <1>20, <2>2, <3>1, <3>2 DEF SlotOK
    <2>3. CASE t \in InRing' /\ t # s
      <3>1. item'[t] = item[t] /\ t \in InRing
        BY <1>7, <1>14, <1>15, <2>3
      <3> QED BY <1>20, <2>1, <2>3, <3>1, SlotSame
    <2>4. CASE t \in InRing' /\ t = s
      <3>1. /\ item'[s].kind = item[s].kind /\ item'[s].filled = item[s].filled
            /\ item'[s].published = item[s].published /\ item'[s].taken = item[s].taken
            /\ item'[s].returned = TRUE /\ item'[s].charge = item[s].charge
            /\ item'[s].parties = item[s].parties
        BY <1>8, <1>15, <2>4
      <3>2. item[s].kind = "LOCAL" => LocalItem(s)'
        <4>1. item[s].kind = "LOCAL" => LocalItem(s) /\ item[s].parties = 2
          BY <1>5, <1>6 DEF SlotOK
        <4> QED BY <1>3, <1>20, <3>1, <4>1 DEF LocalItem, One
      <3>3. item[s].kind # "LOCAL" => ReceivedItem(s)'
        <4>1. item[s].kind # "LOCAL" => ReceivedItem(s)
          BY <1>5 DEF SlotOK
        <4> QED BY <1>3, <1>6, <1>20, <3>1, <4>1 DEF ReceivedItem
      <3>4. SlotOK(s)'
        BY <1>3, <1>5, <1>6, <1>20, <2>4, <3>1, <3>2, <3>3 DEF SlotOK
      <3> QED BY <2>4, <3>4
    <2> QED BY <2>2, <2>3, <2>4
  <1>24. Charged' = Charged
    <2>1. ASSUME NEW t \in Slots PROVE item'[t].charge = 1 <=> item[t].charge = 1
      <3>1. CASE t \in InRing'
        <4>1. item'[t] = mem[t]
          BY <1>15, <3>1
        <4>2. mem[t].charge = item[t].charge
          BY <1>7, <1>8
        <4> QED BY <4>1, <4>2
      <3>2. CASE t \notin InRing'
        <4>1. item[t].charge # 1
          BY <1>21, <3>2, AbsentFacts
        <4>2. item'[t].charge = 0
          BY <1>15, <3>2
        <4> QED BY <4>1, <4>2
      <3> QED BY <3>1, <3>2
    <2> QED BY <2>1 DEF Charged
  <1>25. QuotaMatches'
    <2>1. outstanding = Cardinality(Charged) + actor["task"].release + actor["consumer"].release
      BY DEF ItemsIInv, QuotaMatches, Charged
    <2>2. actor'["task"].release = actor["task"].release
            /\ actor'["consumer"].release = actor["consumer"].release
      BY <1>2, <1>3, <1>18
    <2> QED BY <1>2, <1>24, <2>1, <2>2 DEF QuotaMatches, Charged
  <1>26. ItemsTyped'
    BY <1>2, <1>9, <1>16, <1>18, <1>24 DEF ItemsIInv, ItemsTyped, InboundTypeOK, Headers_
  <1>27. HeadKept'
    <2> SUFFICES ASSUME order' # <<>> PROVE ~item'[order'[1]].returned
      BY DEF HeadKept
    <2>1. 1 \in DOMAIN order'
      BY <1>9
    <2>2. m \in kept /\ order'[1] = order[m]
      <3>1. order'[1] = order[1 + m - 1] /\ 1 + m - 1 = m
        BY <1>11, <2>1
      <3>2. m <= Len(order)
        BY <1>9, <1>10, <2>1
      <3> QED BY <1>9, <3>1, <3>2
    <2>3. ~mem[order[m]].returned /\ order[m] \in Slots /\ order[m] \in InRing'
      <3>1. m \in DOMAIN order /\ ~mem[order[m]].returned
        BY <1>9, <2>2
      <3> QED BY <1>10, <1>14, <2>1, <2>2, <3>1
    <2> QED BY <1>15, <2>2, <2>3
  <1>28. ASSUME NEW t \in Slots PROVE Oldest(t) => Oldest(t)'
    <2> SUFFICES ASSUME Oldest(t) PROVE Oldest(t)'
      OBVIOUS
    <2>1. PICK i \in DOMAIN order : order[i] = t /\ ~item[t].taken
                 /\ \A j \in 1 .. i - 1 : item[order[j]].taken
      BY DEF Oldest
    <2>2. t # s /\ t \in InRing' /\ item'[t].taken = item[t].taken /\ i \in kept
      <3>1. t # s /\ t \in InRing
        BY <1>6, <2>1 DEF InRing
      <3>2. t \in InRing' /\ ~mem[t].returned
        <4>1. ~item[t].returned
          BY <2>1, <3>1 DEF ItemsIInv, SlotOK
        <4> QED BY <1>7, <1>14, <3>1, <4>1
      <3>3. i \in kept
        BY <1>9, <2>1, <3>2
      <3> QED BY <1>7, <1>15, <2>1, <3>1, <3>2, <3>3, ZenonT(40)
    <2>3. i - m + 1 \in DOMAIN order' /\ order'[i - m + 1] = t
      BY <1>9, <1>10, <1>12, <2>1, <2>2
    <2>4. ASSUME NEW j \in 1 .. (i - m + 1) - 1 PROVE item'[order'[j]].taken
      <3>1. j + m - 1 \in 1 .. i - 1 /\ j \in DOMAIN order'
        BY <1>9, <1>10, <2>1
      <3>2. order'[j] = order[j + m - 1] /\ item[order'[j]].taken /\ order'[j] \in Slots
              /\ order'[j] \in InRing'
        BY <1>10, <1>11, <1>14, <2>1, <3>1
      <3> QED BY <1>7, <1>8, <1>15, <3>2, ZenonT(40)
    <2> QED BY <2>1, <2>2, <2>3, <2>4 DEF Oldest
  <1>29. HeadsMatch'
    <2>1. ASSUME NEW t \in Slots
          PROVE  item'[t].filled /\ ~item'[t].taken <=> item[t].filled /\ ~item[t].taken
      <3>1. CASE t \in InRing'
        BY <1>7, <1>8, <1>15, <3>1
      <3>2. CASE t \notin InRing'
        <4>1. item[t].taken \/ ~item[t].filled
          BY <1>22, <3>2, AbsentFacts
        <4> QED BY <1>15, <3>2, <4>1
      <3> QED BY <3>1, <3>2
    <2>2. (\E t \in Slots : AtStart(t) /\ item'[t].filled /\ ~item'[t].taken)
            <=> \E t \in Slots : AtStart(t) /\ item[t].filled /\ ~item[t].taken
      BY <2>1
    <2> QED BY <1>2, <1>28, <2>2, ItemsFacts DEF ItemsIInv, HeadsMatch, One
  <1> QED BY <1>18, <1>23, <1>25, <1>26, <1>27, <1>29 DEF ItemsIInv
-----------------------------------------------------------------------------
(* The invariant *)

LEMMA ItemsStarted ==
    ASSUME NEW phase \in {"running", "done"}, InboundStarts(phase) PROVE ItemsIInv
  <1>1. /\ order = <<>> /\ list = <<>> /\ signalled = FALSE /\ outstanding = 0
        /\ item = [s \in Slots |-> Absent]
        /\ heads = [ahead |-> 0, pending |-> NoSlot]
        /\ run = [phase |-> phase, told |-> phase = "done", acquires |-> 0, boundaries |-> 0]
    BY DEF InboundStarts
  <1>2. PICK at : at = (IF phase = "done" THEN "done" ELSE "poll")
    OBVIOUS
  <1>3. actor = [a \in Actors |-> [pc |-> IF a = "task" THEN "idle" ELSE at,
                                   item |-> NoSlot, release |-> 0, last |-> FALSE, chain |-> <<>>]]
    BY <1>2 DEF InboundStarts
  <1>4. /\ actor \in [Actors -> Threads]
        /\ \A a \in Actors : /\ actor[a].item = NoSlot /\ actor[a].release = 0 /\ ~actor[a].last
                             /\ actor[a].chain = <<>>
        /\ actor["task"].pc = "idle" /\ actor["consumer"].pc = at /\ at \in {"poll", "done"}
        /\ Chain = <<>>
    BY <1>2, <1>3 DEF Actors, Threads, TaskPlaces, ConsumerPlaces, Chain
  <1>5. \A s \in Slots : item[s] = Absent
    BY <1>1
  <1>6. InRing = {} /\ Range(list) = {} /\ Range(Chain) = {}
    BY <1>1, <1>4, RangeEmpty DEF InRing
  <1>7. Charged = {} /\ IsFiniteSet(Charged) /\ Cardinality(Charged) = 0
    <2>1. Charged = {}
      BY <1>5, AbsentHeader DEF Charged
    <2> QED BY <2>1, FS_EmptySet
  <1>8. "task" \in Actors /\ "consumer" \in Actors
    BY DEF Actors
  <1>9. \A s \in Slots, a \in Actors : ~InHand(a, s)
    BY <1>4 DEF InHand, Hands, Actors
  <1>10. \A s \in Slots : SlotOK(s)
    <2> TAKE s \in Slots
    <2>1. ~ItemHeld(s) /\ ~Leaving(s)
      BY <1>4, <1>6, <1>9 DEF ItemHeld, Leaving
    <2>2. [Absent EXCEPT !.published = Absent.published] = Absent
      BY AbsentHeader DEF Headers_
    <2> QED BY <1>5, <1>6, <2>1, <2>2 DEF SlotOK
  <1>11. ItemsTyped
    <2>1. item \in [Slots -> Headers_]
      BY <1>1, AbsentHeader
    <2>2. outstanding \in 0 .. QuotaLimit /\ heads \in [ahead : -1 .. 1, pending : Slots \cup {NoSlot}]
      BY <1>1, InboundAssumption
    <2>3. /\ DOMAIN run = {"phase", "told", "acquires", "boundaries"}
          /\ run.phase = phase
      BY <1>1
    <2>4. InboundTypeOK
      <3>1. order \in Seq(Slots) /\ list \in Seq(Slots)
        BY <1>1
      <3>2. signalled \in BOOLEAN
        BY <1>1, Zenon
      <3> QED BY <2>1, <2>2, <3>1, <3>2 DEF InboundTypeOK, Headers_
    <2> QED BY <1>4, <1>7, <2>3, <2>4 DEF ItemsTyped
  <1>12. ThreadsApart
    BY <1>4, <1>8 DEF ThreadsApart, ThreadOK, TaskPlaces, ConsumerPlaces, Hands
  <1>13. OneHolder
    BY <1>1, <1>4, <1>6, <1>8, <1>9, RangeEmpty DEF OneHolder
  <1>14. HeadKept /\ Stopping
    BY <1>1, <1>2, <1>4, <1>5, AbsentHeader DEF HeadKept, Stopping
  <1>15. HeadsMatch
    <2>1. ~ \E s \in Slots : AtStart(s) /\ item[s].filled /\ ~item[s].taken
      BY <1>5, AbsentHeader
    <2>2. heads.ahead = 0 /\ heads.pending = NoSlot
      BY <1>1
    <2> QED BY <2>1, <2>2 DEF HeadsMatch, One
  <1>16. QuotaMatches
    BY <1>1, <1>4, <1>7, <1>8 DEF QuotaMatches, Charged
  <1> QED BY <1>10, <1>11, <1>12, <1>13, <1>14, <1>15, <1>16 DEF ItemsIInv

LEMMA ItemsStutter ==
    ASSUME ItemsIInv, UNCHANGED inboundVars PROVE ItemsIInv'
  <1>1. UNCHANGED <<order, item, list, signalled, outstanding, heads, actor, run>>
    BY DEF inboundVars
  <1>2. Stopping'
    BY <1>1 DEF ItemsIInv, Stopping, Chain
  <1> QED BY <1>1, <1>2, RunGoesOn, ItemsFacts DEF ItemsIInv, ItemsTyped

LEMMA ItemsStep ==
    ASSUME ItemsIInv, [InboundNext]_inboundVars PROVE ItemsIInv'
  <1>1. CASE Transports
    BY <1>1, AcquireMessageStep, CountCompletionStep, PublishStep DEF Transports
  <1>2. ASSUME NEW a \in Actors, Returning(a) PROVE ItemsIInv'
    BY <1>2, CountReturnStep, ReleaseChargeStep, GiveBackStep DEF Returning
  <1>3. CASE ProtocolTakes
    <2>1. CASE HandsOn
      BY <2>1, HandLocalStep, AppendItemStep, SignalAppendedStep, RecallNextStep DEF HandsOn
    <2>2. CASE Returning("task")
      BY <1>2, <2>2 DEF Actors
    <2> QED BY <1>3, <2>1, <2>2, TakeOneStep, TakePendingStep, HandMessageStep, AcquireLocalStep,
               RecallStep, ReleaseChargesStep DEF ProtocolTakes
  <1>4. CASE ConsumerSteps
    <2>1. CASE Returning("consumer")
      BY <1>2, <2>1 DEF Actors
    <2> QED BY <1>4, <2>1, PopStep, WakeConsumerStep, ConsumerExitStep DEF ConsumerSteps
  <1>5. CASE BeginStop
    BY <1>5, BeginStopStep
  <1>6. CASE StopSteps
    BY <1>6, TellConsumerStep, JoinAllStep, EmptyRingStep, RingEmptiedStep DEF StopSteps
  <1>7. CASE UNCHANGED inboundVars
    BY <1>7, ItemsStutter
  <1> QED BY <1>1, <1>3, <1>4, <1>5, <1>6, <1>7 DEF InboundNext

LEMMA ItemsCorrect ==
    ASSUME ItemsIInv PROVE InboundTypeOK /\ ItemsAccounted
  <1>1. InboundTypeOK /\ QuotaMatches
    BY DEF ItemsIInv, ItemsTyped
  <1>2. HeldItemsStay
    <2> SUFFICES ASSUME NEW s \in Slots,
                        \/ \E i \in DOMAIN list : list[i] = s
                        \/ \E a \in Actors : Touches(a) /\ actor[a].item = s
                 PROVE  s \in InRing /\ ~item[s].returned
      BY DEF HeldItemsStay
    <2>1. ItemHeld(s) \/ Leaving(s)
      <3>1. CASE \E i \in DOMAIN list : list[i] = s
        BY <3>1 DEF ItemHeld, Range
      <3>2. ASSUME NEW a \in Actors, Touches(a), actor[a].item = s PROVE ItemHeld(s) \/ Leaving(s)
        <4>1. ThreadOK(a)
          BY DEF ItemsIInv, ThreadsApart, Actors
        <4> QED BY <3>2, <4>1 DEF Touches, ThreadOK, ItemHeld, InHand, Leaving
      <3> QED BY <3>1, <3>2
    <2>2. s \in InRing /\ SlotOK(s)
      BY <2>1, AbsentFacts DEF ItemsIInv
    <2>3. item[s].kind = "LOCAL" /\ item[s].returned => FALSE
      <3>1. item[s].kind = "LOCAL" /\ item[s].returned
              => item[s].parties = 2 /\ item[s].parties = One(item[s].taken) + One(~ItemHeld(s))
                 /\ ~Leaving(s)
        BY <2>2 DEF SlotOK, LocalItem
      <3> QED BY <2>1, <3>1 DEF One
    <2>4. item[s].kind # "LOCAL" => ~item[s].returned
      BY <2>1, <2>2 DEF SlotOK, ReceivedItem
    <2> QED BY <2>2, <2>3, <2>4
  <1>3. ASSUME run.phase = "done" PROVE order = <<>> /\ list = <<>> /\ outstanding = 0
    <2>1. /\ order = <<>> /\ list = <<>> /\ actor["task"].pc = "idle" /\ actor["consumer"].pc = "done"
      BY <1>3 DEF ItemsIInv, Stopping
    <2>2. actor["task"].release = 0 /\ actor["consumer"].release = 0
      BY <2>1 DEF ItemsIInv, ThreadsApart, ThreadOK
    <2>3. Charged = {}
      <3>1. InRing = {}
        BY <2>1 DEF InRing
      <3>2. \A s \in Slots : item[s].charge = 0
        BY <3>1, AbsentFacts
      <3> QED BY <3>2 DEF Charged
    <2>4. Cardinality(Charged) = 0
      BY <2>3, FS_EmptySet
    <2>5. outstanding = Cardinality(Charged) + actor["task"].release + actor["consumer"].release
      BY <1>1 DEF QuotaMatches, Charged
    <2> QED BY <2>1, <2>2, <2>4, <2>5
  <1> QED BY <1>1, <1>2, <1>3 DEF ItemsAccounted

LEMMA ItemsInductive == InboundPathSpec => []ItemsIInv
  <1>1. InboundPathInit => ItemsIInv
    <2> SUFFICES ASSUME InboundPathInit PROVE ItemsIInv
      OBVIOUS
    <2>1. InboundStarts(IF part = "items" THEN "running" ELSE "done")
      BY DEF InboundPathInit
    <2>2. CASE part = "items"
      BY <2>1, <2>2, ItemsStarted
    <2>3. CASE part # "items"
      BY <2>1, <2>3, ItemsStarted
    <2> QED BY <2>2, <2>3
  <1>2. ItemsIInv /\ [InboundPathNext]_inboundPathVars => ItemsIInv'
    BY ItemsStep DEF InboundPathNext, inboundPathVars
  <1> QED BY <1>1, <1>2, PTL DEF InboundPathSpec

\* What the threads make of the items and their quota: an item somebody holds is still in the
\* ring, the quota counts what the consumer has not returned, and a stop leaves nothing behind
\* (inbound_ring.h); beside them, a connection's buffer has one user at a time (connection.cpp).
LEMMA ItemsAndMessagesSafe ==
    InboundPathSpec => [](InboundTypeOK /\ ItemsAccounted /\ GateTypeOK /\ GateSafe)
  <1>1. ItemsIInv /\ GateIInv => InboundTypeOK /\ ItemsAccounted /\ GateTypeOK /\ GateSafe
    BY ItemsCorrect, GateCorrect
  <1> QED BY <1>1, ItemsInductive, GateInductive, PTL
-----------------------------------------------------------------------------
(* The items as the queue they promise to be *)

LEMMA StageStays ==
    ASSUME ItemsIInv, order' = order,
           \A t \in Slots : /\ item'[t].filled = item[t].filled
                            /\ item'[t].taken = item[t].taken
                            /\ item'[t].returned = item[t].returned
    PROVE  RingItems' = RingItems
  <1>1. \A i \in DOMAIN order : order[i] \in Slots
    BY ItemsFacts
  <1>2. \A i \in DOMAIN order : ItemStage(order[i])' = ItemStage(order[i])
    BY <1>1 DEF ItemStage
  <1> QED BY <1>2 DEF RingItems

LEMMA RingItemsFacts ==
    ASSUME ItemsIInv
    PROVE  /\ DOMAIN RingItems = DOMAIN order /\ Len(order) \in Nat /\ DOMAIN order = 1 .. Len(order)
           /\ \A i \in DOMAIN order : /\ order[i] \in Slots /\ order[i] \in InRing
                                      /\ RingItems[i] = [len |-> 0, stage |-> ItemStage(order[i])]
           /\ RingItems \in Seq([len : {0}, stage : Inbound!Stages]) /\ Len(RingItems) = Len(order)
  <1>1. /\ DOMAIN RingItems = DOMAIN order /\ Len(order) \in Nat /\ DOMAIN order = 1 .. Len(order)
        /\ \A i \in DOMAIN order : /\ order[i] \in Slots /\ order[i] \in InRing
                                   /\ RingItems[i] = [len |-> 0, stage |-> ItemStage(order[i])]
    BY ItemsFacts DEF RingItems, InRing
  <1>2. \A i \in DOMAIN order : RingItems[i] \in [len : {0}, stage : Inbound!Stages]
    BY <1>1 DEF ItemStage, Inbound!Stages
  <1>3. RingItems \in [1 .. Len(order) -> [len : {0}, stage : Inbound!Stages]]
    BY <1>1, <1>2 DEF RingItems
  <1> QED BY <1>1, <1>3, Listed

LEMMA AcquiredThere ==
    ASSUME ItemsIInv, NEW s \in FreeSlots, NEW kind \in Kinds, AcquireItem(s, kind)
    PROVE  Inbound!QueueNext
  <1>1. /\ order' = Append(order, s) /\ s \in Slots /\ s \notin InRing
        /\ \A t \in Slots : t # s => item'[t] = item[t]
        /\ ~item'[s].filled /\ ~item'[s].taken /\ ~item'[s].returned
    BY AcquireFacts DEF AcquireItem
  <1> DEFINE one == [len |-> 0, stage |-> "acquired"]
             Q == [len : {0}, stage : Inbound!Stages]
  <1>2. one \in Q /\ RingItems \in Seq(Q)
    BY RingItemsFacts DEF Inbound!Stages
  <1>3. /\ Len(order) \in Nat /\ DOMAIN order' = 1 .. Len(order) + 1 /\ order'[Len(order) + 1] = s
        /\ \A i \in 1 .. Len(order) : order'[i] = order[i]
    BY <1>1, ItemsFacts, Appended
  <1>4. /\ Len(RingItems) = Len(order) /\ DOMAIN Append(RingItems, one) = 1 .. Len(order) + 1
        /\ \A i \in 1 .. Len(order) : Append(RingItems, one)[i] = RingItems[i]
        /\ Append(RingItems, one)[Len(order) + 1] = one
        /\ Append(RingItems, one) \in Seq(Q)
    <2> HIDE DEF one, Q
    <2> QED BY <1>2, RingItemsFacts, Appended
  <1>5. \A i \in 1 .. Len(order) : RingItems'[i] = RingItems[i]
    <2> TAKE i \in 1 .. Len(order)
    <2>1. order[i] \in Slots /\ order[i] # s /\ order'[i] = order[i] /\ i \in DOMAIN order
            /\ i \in DOMAIN order'
      BY <1>1, <1>3, RingItemsFacts
    <2>2. ItemStage(order[i])' = ItemStage(order[i])
      BY <1>1, <2>1 DEF ItemStage
    <2> QED BY <2>1, <2>2 DEF RingItems
  <1>6. RingItems'[Len(order) + 1] = one
    <2>1. ItemStage(s)' = "acquired"
      BY <1>1 DEF ItemStage
    <2> QED BY <1>3, <2>1 DEF RingItems
  <1>7. RingItems' = Append(RingItems, one)
    <2>1. RingItems' = [i \in 1 .. Len(order) + 1 |-> RingItems'[i]]
      BY <1>3 DEF RingItems
    <2>2. Append(RingItems, one) = [i \in 1 .. Len(order) + 1 |-> Append(RingItems, one)[i]]
      <3> HIDE DEF one, Q
      <3>1. PICK q : q = Append(RingItems, one)
        OBVIOUS
      <3>2. q \in Seq(Q) /\ DOMAIN q = 1 .. Len(order) + 1
        BY <1>4, <3>1
      <3>3. q = [i \in 1 .. Len(order) + 1 |-> q[i]]
        BY <3>2
      <3> QED BY <3>1, <3>3
    <2>3. \A i \in 1 .. Len(order) + 1 : RingItems'[i] = Append(RingItems, one)[i]
      <3> TAKE i \in 1 .. Len(order) + 1
      <3>1. i \in 1 .. Len(order) \/ i = Len(order) + 1
        BY <1>3
      <3> HIDE DEF one, Q
      <3> QED BY <1>4, <1>5, <1>6, <3>1
    <2> HIDE DEF one
    <2> QED BY <2>1, <2>2, <2>3
  <1>8. Inbound!Acquire
    BY <1>7 DEF Inbound!Acquire
  <1> QED BY <1>8 DEF Inbound!QueueNext

\* One item comes further.
LEMMA StageComesOn ==
    ASSUME ItemsIInv, NEW i \in DOMAIN order, NEW stage, ItemStage(order[i])' = stage, order' = order,
           \A t \in Slots : t # order[i] => item'[t] = item[t]
    PROVE  RingItems' = [RingItems EXCEPT ![i].stage = stage]
  <1>1. \A j \in DOMAIN order : j # i => order[j] # order[i] /\ order[j] \in Slots
    BY ItemsFacts DEF ItemsIInv, OneHolder, NoTwice
  <1>2. \A j \in DOMAIN order : j # i => ItemStage(order[j])' = ItemStage(order[j])
    BY <1>1 DEF ItemStage
  <1>3. RingItems' = [j \in DOMAIN order |-> [len |-> 0,
          stage |-> IF j = i THEN stage ELSE ItemStage(order[j])]]
    BY <1>2 DEF RingItems
  <1>4. [RingItems EXCEPT ![i].stage = stage]
          = [j \in DOMAIN order |-> IF j = i THEN [RingItems[i] EXCEPT !.stage = stage] ELSE RingItems[j]]
    BY DEF RingItems
  <1>5. [RingItems[i] EXCEPT !.stage = stage] = [len |-> 0, stage |-> stage]
    BY RingItemsFacts
  <1> QED BY <1>3, <1>4, <1>5, RingItemsFacts

\* An item a writer has filled is complete there.
LEMMA CompletedThere ==
    ASSUME ItemsIInv, NEW s \in InRing, ~item[s].filled, item'[s].filled,
           item'[s].taken = item[s].taken, item'[s].returned = item[s].returned,
           order' = order, \A t \in Slots : t # s => item'[t] = item[t]
    PROVE  Inbound!QueueNext
  <1>1. PICK i \in DOMAIN order : order[i] = s
    BY DEF InRing
  <1>2. ~item[s].taken /\ ~item[s].returned
    <2>1. SlotOK(s)
      BY ItemsFacts DEF ItemsIInv
    <2> QED BY <2>1 DEF SlotOK
  <1>3. ItemStage(order[i])' = "written" /\ ItemStage(order[i]) = "acquired"
    <2>1. ItemStage(s)' = "written" /\ ItemStage(s) = "acquired"
      BY <1>2 DEF ItemStage
    <2>2. order'[i] = s
      BY <1>1
    <2> QED BY <1>1, <1>2, <2>2 DEF ItemStage
  <1>4. RingItems' = [RingItems EXCEPT ![i].stage = "written"]
    BY <1>1, <1>3, StageComesOn
  <1>5. RingItems[i].stage = "acquired" /\ i \in DOMAIN RingItems
    BY <1>3, RingItemsFacts
  <1>6. Inbound!Complete(i)
    BY <1>4, <1>5 DEF Inbound!Complete
  <1> QED BY <1>5, <1>6 DEF Inbound!QueueNext

\* An item that leaves take() is taken there.
LEMMA TakenThere ==
    ASSUME ItemsIInv, NEW s \in Slots, Oldest(s), item[s].filled, Deliver(s), order' = order
    PROVE  Inbound!QueueNext
  <1>1. PICK i \in DOMAIN order :
          order[i] = s /\ ~item[s].taken /\ \A j \in 1 .. i - 1 : item[order[j]].taken
    BY DEF Oldest
  <1>2. SlotOK(s) /\ s \in InRing /\ item[s] \in Headers_
    BY <1>1, ItemsFacts DEF ItemsIInv, InRing
  <1>3. ~item[s].returned
    BY <1>1, <1>2 DEF SlotOK
  <1>4. PICK p : item' = [item EXCEPT ![s] = [item[s] EXCEPT !.taken = TRUE, !.parties = p]]
    BY DEF Deliver
  <1>5. /\ \A t \in Slots : t # s => item'[t] = item[t]
        /\ item'[s].taken /\ item'[s].filled /\ ~item'[s].returned
    <2>1. /\ \A t \in Slots : t # s => item'[t] = item[t]
          /\ item'[s] = [item[s] EXCEPT !.taken = TRUE, !.parties = p]
      BY <1>4, ItemsFacts
    <2> QED BY <1>2, <1>3, <2>1 DEF Headers_
  <1>6. ItemStage(s) = "written" /\ ItemStage(s)' = "taken"
    BY <1>1, <1>3, <1>5 DEF ItemStage
  <1>7. RingItems' = [RingItems EXCEPT ![i].stage = "taken"]
    <2>1. ItemStage(order[i])' = "taken"
      BY <1>1, <1>5 DEF ItemStage
    <2> QED BY <1>1, <1>5, <2>1, StageComesOn
  <1>8. RingItems[i].stage = "written" /\ i \in DOMAIN RingItems
    BY <1>1, <1>6, RingItemsFacts
  <1>9. ASSUME NEW j \in 1 .. i - 1 PROVE RingItems[j].stage \in {"taken", "returned"}
    <2>1. j \in DOMAIN order
      BY RingItemsFacts
    <2>2. ItemStage(order[j]) \in {"taken", "returned"}
      BY <1>1 DEF ItemStage
    <2> QED BY <2>1, <2>2, RingItemsFacts
  <1>10. Inbound!Take(i)
    BY <1>7, <1>8, <1>9 DEF Inbound!Take
  <1> QED BY <1>8, <1>10 DEF Inbound!QueueNext

\* An item given back is returned there, and the room at the head goes with it.
LEMMA ReturnedThere ==
    ASSUME ItemsIInv, NEW a \in Actors, GiveBack(a)
    PROVE  Inbound!QueueNext
  <1>1. PICK s \in Slots, mem \in [Slots -> Headers_], m \in 1 .. Len(order) + 1 :
          GaveBackFrom(a, s, mem, m)
    BY GaveBack
  <1>2. PICK i \in DOMAIN order : order[i] = s
    BY <1>1 DEF InRing, GaveBackFrom
  <1>3. /\ DOMAIN RingItems = DOMAIN order /\ Len(order) \in Nat /\ DOMAIN order = 1 .. Len(order)
        /\ \A j \in DOMAIN order : /\ order[j] \in Slots /\ order[j] \in InRing
                                   /\ RingItems[j] = [len |-> 0, stage |-> ItemStage(order[j])]
    BY RingItemsFacts
  <1>4. RingItems[i].stage = "taken"
    BY <1>1, <1>2, <1>3 DEF GaveBackFrom, ItemStage
  <1>5. PICK items : items = [RingItems EXCEPT ![i].stage = "returned"]
    OBVIOUS
  <1>6. PICK Q : Q = [len : {0}, stage : Inbound!Stages]
    OBVIOUS
  <1>7. /\ DOMAIN items = DOMAIN order
        /\ \A j \in DOMAIN order : j # i => items[j] = RingItems[j]
        /\ items[i] = [len |-> 0, stage |-> "returned"]
    <2>1. items = [RingItems EXCEPT ![i] = [RingItems[i] EXCEPT !.stage = "returned"]]
      BY <1>5
    <2>2. [RingItems[i] EXCEPT !.stage = "returned"] = [len |-> 0, stage |-> "returned"]
      BY <1>3
    <2> QED BY <1>3, <2>1, <2>2
  <1>8. items \in Seq(Q) /\ Len(items) = Len(order)
    <2>1. \A j \in 1 .. Len(order) : items[j] \in Q
      BY <1>3, <1>7, <1>6 DEF Inbound!Stages, ItemStage
    <2>2. items = [j \in 1 .. Len(order) |-> items[j]]
      BY <1>3, <1>5, <1>7 DEF RingItems
    <2>3. items \in [1 .. Len(order) -> Q]
      <3> QED BY <2>1, <2>2
    <2> QED BY <1>3, <2>3, Listed
  <1>9. \A j \in DOMAIN order : j # i => order[j] # s
    BY <1>2 DEF ItemsIInv, OneHolder, NoTwice
  <1>10. \A j \in DOMAIN order : items[j].stage = "returned" <=> mem[order[j]].returned
    <2> TAKE j \in DOMAIN order
    <2>1. CASE j = i
      BY <1>1, <1>2, <1>7, <2>1 DEF GaveBackFrom
    <2>2. CASE j # i
      <3>1. mem[order[j]] = item[order[j]]
        BY <1>1, <1>3, <1>9, <2>2 DEF GaveBackFrom
      <3>2. items[j].stage = ItemStage(order[j])
        BY <1>3, <1>7, <2>2
      <3> QED BY <3>1, <3>2 DEF ItemStage
    <2> QED BY <2>1, <2>2
  <1>11. PICK left : left = {j \in DOMAIN items : items[j].stage # "returned"}
    OBVIOUS
  <1>12. left = KeptIn(mem) /\ left \subseteq DOMAIN items
    BY <1>7, <1>10, <1>11 DEF KeptIn
  <1>13. PICK rest : rest = RestOf(items, left)
    OBVIOUS
  <1>14. PICK n \in 1 .. Len(order) + 1 :
           /\ rest \in Seq(Q) /\ DOMAIN rest = 1 .. Len(order) - n + 1
           /\ \A j \in 1 .. Len(order) - n + 1 : rest[j] = items[j + n - 1]
           /\ \A k \in left : n <= k
           /\ n <= Len(order) => n \in left
    <2>1. items \in Seq(Q) /\ left \subseteq DOMAIN items /\ rest = RestOf(items, left)
      BY <1>8, <1>12, <1>13
    <2>2. rest \in Seq(Q) /\ \E n \in 1 .. Len(items) + 1 : RestFrom(items, left, rest, n)
      BY <2>1, Rest
    <2> QED BY <1>8, <2>2 DEF RestFrom
  <1>15. n = m
    <2>1. /\ \A k \in left : m <= k
          /\ m <= Len(order) => m \in left
      BY <1>1, <1>12 DEF GaveBackFrom
    <2> QED BY <1>3, <1>14, <2>1
  <1>16. DOMAIN RingItems' = 1 .. Len(order) - m + 1
    BY <1>1 DEF GaveBackFrom, RingItems
  <1>17. ASSUME NEW j \in 1 .. Len(order) - m + 1 PROVE RingItems'[j] = rest[j]
    <2>1. /\ j \in DOMAIN order' /\ j + m - 1 \in DOMAIN order /\ order'[j] = order[j + m - 1]
      BY <1>1 DEF GaveBackFrom
    <2>2. rest[j] = items[j + m - 1]
      BY <1>14, <1>15
    <2>3. item'[order'[j]] = mem[order'[j]] /\ order'[j] \in Slots
      <3>1. order'[j] \in Slots
        BY <1>3, <2>1
      <3> QED BY <1>1, <2>1, <3>1 DEF GaveBackFrom
    <2>6. PICK u : u = order[j + m - 1]
      OBVIOUS
    <2>4. RingItems'[j] = [len |-> 0, stage |-> ItemStage(u)']
      BY <2>1, <2>6 DEF RingItems, ItemStage
    <2>5. items[j + m - 1] = [len |-> 0, stage |-> ItemStage(u)']
      <3>1. CASE j + m - 1 = i
        BY <1>1, <1>2, <1>7, <2>1, <2>3, <2>6, <3>1 DEF GaveBackFrom, ItemStage
      <3>2. CASE j + m - 1 # i
        <4>1. item'[u] = item[u]
          <5>1. u # s /\ u \in Slots /\ item'[u] = mem[u]
            BY <1>3, <1>9, <2>1, <2>3, <2>6, <3>2
          <5> QED BY <1>1, <5>1 DEF GaveBackFrom
        <4>2. items[j + m - 1] = [len |-> 0, stage |-> ItemStage(u)]
          BY <1>3, <1>7, <2>1, <2>6, <3>2
        <4> QED BY <4>1, <4>2 DEF ItemStage
      <3> QED BY <3>1, <3>2
    <2> QED BY <2>2, <2>4, <2>5
  <1>18. RingItems' = rest
    <2>1. RingItems' = [j \in 1 .. Len(order) - m + 1 |-> RingItems'[j]]
      BY <1>16 DEF RingItems
    <2>2. rest = [j \in 1 .. Len(order) - m + 1 |-> rest[j]]
      BY <1>14, <1>15
    <2> QED BY <1>17, <2>1, <2>2
  <1>19. rest = Inbound!Reclaimed(items)
    BY <1>11, <1>13 DEF Inbound!Reclaimed, RestOf, Min, Inbound!Min
  <1>20. Inbound!Return(i)
    BY <1>4, <1>5, <1>18, <1>19 DEF Inbound!Return
  <1>21. i \in DOMAIN RingItems
    BY <1>3
  <1> QED BY <1>20, <1>21 DEF Inbound!QueueNext
-----------------------------------------------------------------------------

\* Only the order of the ring and how far its items have come are the queue's.
LEMMA NothingThere ==
    ASSUME ItemsIInv,
           \/ /\ order' = order
              /\ \A t \in Slots : /\ item'[t].filled = item[t].filled
                                  /\ item'[t].taken = item[t].taken
                                  /\ item'[t].returned = item[t].returned
           \/ UNCHANGED <<order, item>>
    PROVE  [Inbound!QueueNext]_RingItems
  BY StageStays

LEMMA PublishThere ==
    ASSUME ItemsIInv, NEW s \in Slots, CountCompletion(s) \/ Publish(s)
    PROVE  [Inbound!QueueNext]_RingItems
  <1>1. item \in [Slots -> Headers_] /\ item[s] \in Headers_ /\ SlotOK(s) /\ order' = order
    BY ItemsFacts DEF ItemsIInv, CountCompletion, Publish
  <1>2. CASE s \notin InRing
    <2>1. item' = [item EXCEPT ![s] = Absent]
      BY <1>2 DEF Publish, CountCompletion
    <2>2. item'[s] = Absent /\ \A t \in Slots : t # s => item'[t] = item[t]
      BY <1>1, <2>1
    <2>3. ~Absent.filled /\ ~Absent.taken /\ ~Absent.returned
      BY AbsentHeader DEF Headers_
    <2>4. item'[s].filled = item[s].filled /\ item'[s].taken = item[s].taken
          /\ item'[s].returned = item[s].returned
      <3>1. ~item[s].filled /\ ~item[s].taken /\ ~item[s].returned
        BY <1>2, AbsentFacts
      <3>2. Absent \in Headers_
        BY AbsentHeader
      <3> QED BY <1>1, <2>2, <2>3, <3>1, <3>2 DEF Headers_
    <2> QED BY <1>1, <2>2, <2>4, NothingThere
  <1>3. CASE s \in InRing
    <2>1. PICK kind \in Kinds, published \in BOOLEAN :
            item' = [item EXCEPT ![s] = [item[s] EXCEPT !.kind = kind, !.filled = TRUE,
                                                        !.published = published]]
      <3>1. CASE CountCompletion(s)
        <4>1. PICK kind \in Kinds : item' = [item EXCEPT ![s].kind = kind, ![s].filled = TRUE]
          BY <3>1 DEF CountCompletion, Kinds
        <4>2. [item[s] EXCEPT !.kind = kind, !.filled = TRUE]
                = [item[s] EXCEPT !.kind = kind, !.filled = TRUE, !.published = item[s].published]
          BY <1>1 DEF Headers_
        <4>3. item' = [item EXCEPT ![s] = [item[s] EXCEPT !.kind = kind, !.filled = TRUE]]
          BY <4>1
        <4>4. item[s].published \in BOOLEAN
          BY <1>1 DEF Headers_
        <4> QED BY <4>2, <4>3, <4>4
      <3>2. CASE Publish(s)
        <4>1. \E kind \in IF item[s].filled THEN {item[s].kind} ELSE {"MESSAGE", "DISCARD"} :
                 item' = [item EXCEPT ![s].kind = kind, ![s].filled = TRUE, ![s].published = TRUE]
          BY <1>3, <3>2 DEF Publish
        <4>2. item[s].kind \in Kinds
          BY <1>1 DEF Headers_
        <4> QED BY <4>1, <4>2, ZenonT(40) DEF Kinds
      <3> QED BY <3>1, <3>2
    <2>2. /\ \A t \in Slots : t # s => item'[t] = item[t]
          /\ item'[s].filled = TRUE
          /\ item'[s].taken = item[s].taken /\ item'[s].returned = item[s].returned
      <3>1. /\ \A t \in Slots : t # s => item'[t] = item[t]
            /\ item'[s] = [item[s] EXCEPT !.kind = kind, !.filled = TRUE, !.published = published]
        BY <1>1, <2>1
      <3> QED BY <1>1, <3>1 DEF Headers_
    <2>3. CASE ~item[s].filled
      BY <1>1, <1>3, <2>2, <2>3, CompletedThere
    <2>4. CASE item[s].filled
      <3>1. item[s].filled = TRUE
        BY <1>1, <2>4 DEF Headers_
      <3>2. \A t \in Slots : /\ item'[t].filled = item[t].filled
                             /\ item'[t].taken = item[t].taken
                             /\ item'[t].returned = item[t].returned
        BY <2>2, <3>1
      <3> QED BY <1>1, <3>2, NothingThere
    <2> QED BY <2>3, <2>4
  <1> QED BY <1>2, <1>3

LEMMA HandLocalThere ==
    ASSUME ItemsIInv, HandLocal PROVE Inbound!QueueNext
  <1> DEFINE mem == [item EXCEPT ![actor["task"].item] =
                       [item[actor["task"].item] EXCEPT !.filled = TRUE, !.published = TRUE]]
  <1>1. PICK s : s = actor["task"].item
    OBVIOUS
  <1>2. actor["task"].pc = "fill" /\ order' = order
    BY DEF HandLocal, At
  <1>3. s \in Slots
    BY <1>1, <1>2, ItemsFacts DEF ItemsIInv, ThreadsApart, ThreadOK, Threads, Actors, Hands
  <1>4. item \in [Slots -> Headers_] /\ item[s] \in Headers_ /\ SlotOK(s)
    BY <1>3, ItemsFacts DEF ItemsIInv
  <1>5. ~item[s].filled /\ s \in InRing
    <2>1. Filling(s) /\ ItemHeld(s)
      BY <1>1, <1>2 DEF Filling, ItemHeld, InHand, Hands, Actors
    <2> QED BY <1>3, <1>4, <2>1, AbsentFacts DEF SlotOK
  <1>6. PICK header : header = mem
    OBVIOUS
  <1>7. /\ header \in [Slots -> Headers_] /\ \A t \in Slots : t # s => header[t] = item[t]
        /\ header[s] = [item[s] EXCEPT !.filled = TRUE, !.published = TRUE]
    <2>1. [item[s] EXCEPT !.filled = TRUE, !.published = TRUE] \in Headers_
      BY <1>4 DEF Headers_
    <2> QED BY <1>1, <1>6, <1>3, <1>4, <2>1
  <1>8. \E exempt \in BOOLEAN : Charge(s, header, exempt)
    BY <1>1, <1>6 DEF HandLocal, Charge
  <1>9. item' = header \/ \E c : item' = [header EXCEPT ![s].charge = c]
    BY <1>8, Zenon DEF Charge
  <1>10. /\ \A t \in Slots : t # s => item'[t] = item[t]
        /\ item'[s].filled /\ item'[s].taken = item[s].taken /\ item'[s].returned = item[s].returned
    <2>1. header[s].filled /\ header[s].taken = item[s].taken /\ header[s].returned = item[s].returned
          /\ header[s] \in Headers_
      BY <1>3, <1>4, <1>7 DEF Headers_
    <2>2. CASE item' = header
      BY <1>7, <2>1, <2>2
    <2>3. ASSUME NEW c, item' = [header EXCEPT ![s].charge = c]
          PROVE  /\ \A t \in Slots : t # s => item'[t] = item[t]
                 /\ item'[s].filled /\ item'[s].taken = item[s].taken
                      /\ item'[s].returned = item[s].returned
      <3>1. /\ \A t \in Slots : t # s => item'[t] = header[t]
            /\ item'[s] = [header[s] EXCEPT !.charge = c]
        BY <1>3, <1>7, <2>3
      <3> QED BY <1>7, <2>1, <3>1 DEF Headers_
    <2> QED BY <1>9, <2>2, <2>3
  <1> QED BY <1>2, <1>5, <1>10, CompletedThere

LEMMA TakesThere ==
    ASSUME ItemsIInv, TakeOne \/ TakePending PROVE [Inbound!QueueNext]_RingItems
  <1>1. CASE TakePending
    <2>0. PICK s : s = heads.pending
      OBVIOUS
    <2>1. s # NoSlot /\ heads.ahead >= 0 /\ Deliver(s) /\ order' = order
      BY <1>1, <2>0 DEF TakePending
    <2>2. s \in Slots /\ AtStart(s) /\ Oldest(s)
      BY <2>0, <2>1, ItemsFacts DEF ItemsIInv, HeadsMatch
    <2> DEFINE waiting == \E t \in Slots : AtStart(t) /\ item[t].filled /\ ~item[t].taken
    <2>3. waiting
      <3>1. heads.ahead = One(waiting) - 1
        BY <2>0, <2>1 DEF ItemsIInv, HeadsMatch, One
      <3> HIDE DEF waiting
      <3> QED BY <2>1, <3>1 DEF One
    <2>4. item[s].filled
      BY <2>2, <2>3 DEF AtStart
    <2> QED BY <2>1, <2>2, <2>4, TakenThere
  <1>2. CASE TakeOne
    <2>1. PICK s \in Slots :
            /\ Oldest(s) /\ order' = order
            /\ item[s].published \/ AtStart(s)
            /\ IF AtStart(s) THEN UNCHANGED item ELSE Deliver(s)
      BY <1>2 DEF TakeOne
    <2>2. CASE AtStart(s)
      BY <2>1, <2>2, NothingThere
    <2>3. CASE ~AtStart(s)
      <3>1. s \in InRing /\ item[s].published /\ SlotOK(s)
        BY <2>1, <2>3 DEF Oldest, InRing, ItemsIInv
      <3> QED BY <2>1, <2>3, <3>1, TakenThere DEF SlotOK
    <2> QED BY <2>2, <2>3
  <1> QED BY <1>1, <1>2

\* Counting a return, a charge or a boundary leaves the ring as it is.
LEMMA ChargesThere ==
    ASSUME ItemsIInv, HandMessage \/ ReleaseCharges \/ \E a \in Actors : CountReturn(a)
    PROVE  [Inbound!QueueNext]_RingItems
  <1>1. order' = order /\ item \in [Slots -> Headers_]
    BY ItemsFacts DEF HandMessage, ReleaseCharges, CountReturn
  <1>2. \A t \in Slots : /\ item'[t].filled = item[t].filled
                         /\ item'[t].taken = item[t].taken
                         /\ item'[t].returned = item[t].returned
    <2>1. CASE HandMessage
      <3>1. PICK s, mem : s = actor["task"].item /\ mem = item
        OBVIOUS
      <3>2. Charge(s, mem, FALSE)
        BY <2>1, <3>1 DEF HandMessage, Charge
      <3>3. item' = mem \/ \E c : item' = [mem EXCEPT ![s].charge = c]
        BY <3>2, Zenon DEF Charge
      <3> TAKE t \in Slots
      <3>4. CASE item' = mem
        BY <3>1, <3>4
      <3>5. ASSUME NEW c, item' = [mem EXCEPT ![s].charge = c]
            PROVE  /\ item'[t].filled = item[t].filled
                   /\ item'[t].taken = item[t].taken
                   /\ item'[t].returned = item[t].returned
        <4>1. item[t] \in Headers_ /\ item'[t] = IF t = s THEN [item[t] EXCEPT !.charge = c] ELSE item[t]
          BY <1>1, <3>1, <3>5
        <4>2. CASE t = s
          <5>1. item'[t] = [item[t] EXCEPT !.charge = c]
            BY <4>1, <4>2
          <5> QED BY <4>1, <5>1 DEF Headers_
        <4> QED BY <4>1, <4>2
      <3> QED BY <3>3, <3>4, <3>5
    <2>2. CASE ReleaseCharges
      <3>1. PICK S : item' = [s \in Slots |-> IF s \in S THEN [item[s] EXCEPT !.charge = 0] ELSE item[s]]
        BY <2>2 DEF ReleaseCharges
      <3> QED BY <1>1, <3>1 DEF Headers_
    <2>3. ASSUME NEW a \in Actors, CountReturn(a)
          PROVE  \A t \in Slots : /\ item'[t].filled = item[t].filled
                                  /\ item'[t].taken = item[t].taken
                                  /\ item'[t].returned = item[t].returned
      <3>1. PICK s, p : item' = [item EXCEPT ![s] = [item[s] EXCEPT !.charge = 0, !.parties = p]]
        <4>1. PICK s : s = actor[a].item
          OBVIOUS
        <4>2. item' = [item EXCEPT ![s].charge = 0,
                                   ![s].parties = IF item[s].kind = "LOCAL" THEN @ + 1 ELSE @]
          BY <2>3, <4>1 DEF CountReturn
        <4>3. PICK p : p = IF item[s].kind = "LOCAL" THEN item[s].parties + 1 ELSE item[s].parties
          OBVIOUS
        <4>4. item' = [item EXCEPT ![s] = [item[s] EXCEPT !.charge = 0, !.parties = p]]
          BY <4>2, <4>3
        <4> QED BY <4>4
      <3> QED BY <1>1, <3>1 DEF Headers_
    <2> QED BY <2>1, <2>2, <2>3
  <1> QED BY <1>1, <1>2, NothingThere

LEMMA QueueStep ==
    ASSUME ItemsIInv, [InboundNext]_inboundVars PROVE [Inbound!QueueNext]_RingItems
  <1>1. CASE Transports
    <2>1. CASE AcquireMessage
      <3>1. \E s \in FreeSlots : AcquireItem(s, "MESSAGE")
        BY <2>1 DEF AcquireMessage
      <3> QED BY <3>1, AcquiredThere DEF Kinds
    <2> QED BY <1>1, <2>1, PublishThere DEF Transports
  <1>2. ASSUME NEW a \in Actors, Returning(a) PROVE [Inbound!QueueNext]_RingItems
    <2>1. CASE ReleaseCharge(a)
      BY <2>1, NothingThere DEF ReleaseCharge
    <2> QED BY <1>2, <2>1, ChargesThere, ReturnedThere DEF Returning
  <1>3. CASE ProtocolTakes
    <2>1. CASE HandsOn
      <3>1. CASE AppendItem \/ SignalAppended \/ RecallNext
        BY <3>1, NothingThere DEF AppendItem, SignalAppended, RecallNext
      <3> QED BY <2>1, <3>1, HandLocalThere DEF HandsOn
    <2>2. CASE Returning("task")
      BY <1>2, <2>2 DEF Actors
    <2>3. CASE AcquireLocal
      <3>1. \E s \in FreeSlots : AcquireItem(s, "LOCAL")
        BY <2>3 DEF AcquireLocal
      <3> QED BY <3>1, AcquiredThere DEF Kinds
    <2>4. CASE Recall
      BY <2>4, NothingThere DEF Recall
    <2> QED BY <1>3, <2>1, <2>2, <2>3, <2>4, TakesThere, ChargesThere DEF ProtocolTakes
  <1>4. CASE ConsumerSteps
    <2>1. CASE Returning("consumer")
      BY <1>2, <2>1 DEF Actors
    <2>2. CASE Pop \/ WakeConsumer \/ ConsumerExit
      BY <2>2, NothingThere DEF Pop, WakeConsumer, ConsumerExit
    <2> QED BY <1>4, <2>1, <2>2 DEF ConsumerSteps
  <1>5. CASE BeginStop \/ StopSteps
    BY <1>5, NothingThere DEF BeginStop, StopSteps, TellConsumer, JoinAll, EmptyRing, RingEmptied
  <1>6. CASE UNCHANGED inboundVars
    BY <1>6, NothingThere DEF inboundVars
  <1> QED BY <1>1, <1>3, <1>4, <1>5, <1>6 DEF InboundNext

\* What the protocol task and the consumer make of the shared ring is the queue it promises
\* (inbound_ring.h): every item is taken once, in ring order and when it is complete, and goes back
\* once, after it was taken, whichever thread returns it.
THEOREM HandsOver == InboundPathSpec => HandsOverInOrder
  <1>1. InboundPathInit => Inbound!QueueInit
    <2> SUFFICES ASSUME InboundPathInit PROVE Inbound!QueueInit
      OBVIOUS
    <2>1. order = <<>>
      BY DEF InboundPathInit, InboundStarts
    <2> QED BY <2>1 DEF Inbound!QueueInit, RingItems
  <1>2. ItemsIInv /\ [InboundPathNext]_inboundPathVars => [Inbound!QueueNext]_RingItems
    BY QueueStep DEF InboundPathNext, inboundPathVars
  <1> QED BY <1>1, <1>2, ItemsInductive, PTL DEF InboundPathSpec, HandsOverInOrder, Inbound!QueueSpec
-----------------------------------------------------------------------------
(* The loops over the headers of the storage *)

Memories == [Offsets -> Headers]

LEMMA BehindIn ==
    ASSUME NEW mem \in Memories, NEW o \in Offsets
    PROVE  Behind(mem, o) \in Offsets
  <1>1. mem[o].len \in Nat /\ RingUnits \in Nat /\ RingUnits >= 8 /\ o \in Nat
    BY RingAssumption DEF Memories, Headers, ITEM_HEADER, Offsets
  <1>2. 0 \in Offsets
    BY <1>1 DEF Offsets
  <1>3. Wrap(o + StoredSize(mem[o].len)) \in Offsets
    BY <1>1, <1>2 DEF Wrap, StoredSize, ITEM_HEADER, Offsets
  <1> QED BY <1>2, <1>3 DEF Behind

\* What a loop does from each header, when it has so many steps left
Steps(f, mem, passes, end, m) ==
    \A o \in Offsets, left \in 0 .. m :
      f[left][o] = IF o \notin passes THEN <<>>
                   ELSE <<o>> \o IF Behind(mem, o) = end \/ left = 0 THEN <<>>
                                 ELSE f[left - 1][Behind(mem, o)]

StepsExist(mem, passes, end, m) ==
    \E f : f \in [0 .. m -> [Offsets -> Seq(Offsets)]] /\ Steps(f, mem, passes, end, m)

LEMMA LoopsEnd ==
    ASSUME NEW mem \in Memories, NEW passes, NEW end, NEW m \in Nat
    PROVE  StepsExist(mem, passes, end, m)
  <1> DEFINE None == {k \in Nat : ~StepsExist(mem, passes, end, k)}
  <1>1. SUFFICES ASSUME m \in None PROVE FALSE
    OBVIOUS
  <1> HIDE DEF None
  <1>2. PICK k \in None : \A j \in None : k <= j
    <2>1. None \subseteq Nat /\ None # {}
      BY <1>1 DEF None
    <2> QED BY <2>1, LeastOf
  <1>3. k \in Nat
    BY DEF None
  <1>4. k # 0
    <2> DEFINE f == [left \in 0 .. 0 |-> [o \in Offsets |-> IF o \notin passes THEN <<>> ELSE <<o>>]]
    <2>1. f \in [0 .. 0 -> [Offsets -> Seq(Offsets)]] /\ Steps(f, mem, passes, end, 0)
      <3>1. f \in [0 .. 0 -> [Offsets -> Seq(Offsets)]]
        OBVIOUS
      <3>2. ASSUME NEW o \in Offsets, NEW left \in 0 .. 0
            PROVE  f[left][o] = IF o \notin passes THEN <<>>
                      ELSE <<o>> \o IF Behind(mem, o) = end \/ left = 0 THEN <<>>
                                    ELSE f[left - 1][Behind(mem, o)]
        <4>1. f[left][o] = IF o \notin passes THEN <<>> ELSE <<o>>
          OBVIOUS
        <4>2. <<o>> \o <<>> = <<o>>
          OBVIOUS
        <4> HIDE DEF f
        <4> QED BY <4>1, <4>2
      <3> HIDE DEF f
      <3> QED BY <3>1, <3>2 DEF Steps
    <2> HIDE DEF f
    <2> QED BY <2>1 DEF None, StepsExist
  <1>5. PICK g : g \in [0 .. k - 1 -> [Offsets -> Seq(Offsets)]] /\ Steps(g, mem, passes, end, k - 1)
    <2>1. k - 1 \in Nat /\ k - 1 \notin None
      BY <1>2, <1>3, <1>4
    <2> QED BY <2>1 DEF None, StepsExist
  <1> DEFINE more(o) == IF o \notin passes THEN <<>>
                        ELSE <<o>> \o IF Behind(mem, o) = end THEN <<>>
                                      ELSE g[k - 1][Behind(mem, o)]
             f == [left \in 0 .. k |-> IF left < k THEN g[left] ELSE [o \in Offsets |-> more(o)]]
  <1>6. \A o \in Offsets, left \in 0 .. k - 1 : g[left][o] \in Seq(Offsets)
    BY <1>5 DEF Steps
  <1>7. \A o \in Offsets : more(o) \in Seq(Offsets)
    <2> TAKE o \in Offsets
    <2>1. Behind(mem, o) \in Offsets /\ k - 1 \in 0 .. k - 1
      BY <1>3, <1>4, BehindIn
    <2>2. g[k - 1][Behind(mem, o)] \in Seq(Offsets)
      BY <1>6, <2>1
    <2> QED BY <2>2
  <1> HIDE DEF more
  <1>8. \A o \in Offsets, left \in 0 .. k : f[left][o] = IF left < k THEN g[left][o] ELSE more(o)
    OBVIOUS
  <1>9. f \in [0 .. k -> [Offsets -> Seq(Offsets)]]
    <2>1. \A left \in 0 .. k : left < k => g[left] \in [Offsets -> Seq(Offsets)]
      BY <1>3, <1>5 DEF Steps
    <2> QED BY <1>7, <2>1
  <1> HIDE DEF f
  <1>10. ASSUME NEW o \in Offsets, NEW left \in 0 .. k
         PROVE  f[left][o] = IF o \notin passes THEN <<>>
                             ELSE <<o>> \o IF Behind(mem, o) = end \/ left = 0 THEN <<>>
                                           ELSE f[left - 1][Behind(mem, o)]
    <2>1. Behind(mem, o) \in Offsets /\ left \in Nat
      BY BehindIn
    <2>2. left # 0 => /\ left - 1 \in 0 .. k /\ left - 1 < k
                      /\ f[left - 1][Behind(mem, o)] = g[left - 1][Behind(mem, o)]
      BY <1>3, <1>8, <2>1
    <2>3. CASE left < k
      <3>1. left \in 0 .. k - 1 /\ f[left][o] = g[left][o]
        BY <1>3, <1>8, <2>3
      <3> QED BY <1>5, <2>2, <3>1 DEF Steps
    <2>4. CASE ~(left < k)
      <3>1. left = k /\ f[left][o] = more(o)
        BY <1>3, <1>8, <2>4
      <3> QED BY <1>4, <2>2, <3>1 DEF more
    <2> QED BY <2>3, <2>4
  <1>11. Steps(f, mem, passes, end, k)
    BY <1>10 DEF Steps
  <1> QED BY <1>3, <1>9, <1>11 DEF None, StepsExist

LEMMA RunSteps ==
    ASSUME NEW mem \in Memories, NEW passes, NEW end, NEW start
    PROVE  \E f : Steps(f, mem, passes, end, RingUnits) /\ Run(mem, start, passes,
            end) = f[RingUnits][start]
  <1> DEFINE Body(f) == [left \in 0 .. RingUnits |-> [o \in Offsets |->
                           IF o \notin passes THEN <<>>
                           ELSE <<o>> \o IF Behind(mem, o) = end \/ left = 0 THEN <<>>
                                         ELSE f[left - 1][Behind(mem, o)]]]
             f == CHOOSE g : g = Body(g)
  <1>1. Run(mem, start, passes, end) = f[RingUnits][start]
    BY DEF Run
  <1>2. PICK g : g \in [0 .. RingUnits -> [Offsets -> Seq(Offsets)]]
                  /\ Steps(g, mem, passes, end, RingUnits)
    BY LoopsEnd, RingAssumption DEF StepsExist
  <1>3. g = Body(g)
    BY <1>2 DEF Steps
  <1>4. f = Body(f)
    <2> HIDE DEF Body
    <2> QED BY <1>3
  <1>5. Steps(f, mem, passes, end, RingUnits)
    <2>1. PICK h : h = f
      OBVIOUS
    <2> HIDE DEF f
    <2>2. h = Body(h)
      BY <1>4, <2>1
    <2>3. Steps(h, mem, passes, end, RingUnits)
      <3>1. SUFFICES ASSUME NEW o \in Offsets, NEW left \in 0 .. RingUnits
                     PROVE  h[left][o] = IF o \notin passes THEN <<>>
                              ELSE <<o>> \o IF Behind(mem, o) = end \/ left = 0 THEN <<>>
                                            ELSE h[left - 1][Behind(mem, o)]
        BY DEF Steps
      <3>2. PICK b : b = Body(h)
        OBVIOUS
      <3>3. b[left][o] = IF o \notin passes THEN <<>>
                         ELSE <<o>> \o IF Behind(mem, o) = end \/ left = 0 THEN <<>>
                                       ELSE h[left - 1][Behind(mem, o)]
        BY <3>2
      <3> HIDE DEF Body
      <3>4. h = b
        BY <2>2, <3>2
      <3> QED BY <3>3, <3>4
    <2> QED BY <2>1, <2>3
  <1> HIDE DEF Body, f
  <1> QED BY <1>1, <1>5

LEMMA Prefixed ==
    ASSUME NEW S, NEW x \in S, NEW d \in Nat, NEW g \in [1 .. d -> S]
    PROVE  <<x>> \o g = [i \in 1 .. d + 1 |-> IF i = 1 THEN x ELSE g[i - 1]]
  <1>1. g \in Seq(S) /\ Len(g) = d /\ <<x>> \in Seq(S) /\ Len(<<x>>) = 1
    BY Listed
  <1>2. PICK c : c = <<x>> \o g
    OBVIOUS
  <1>3. c \in Seq(S) /\ Len(c) = d + 1
          /\ \A i \in 1 .. Len(c) : c[i] = IF i <= 1 THEN <<x>>[i] ELSE g[i - 1]
    BY <1>1, <1>2, ConcatProperties
  <1>4. c = [i \in 1 .. d + 1 |-> c[i]]
    BY <1>3
  <1>5. \A i \in 1 .. d + 1 : c[i] = IF i = 1 THEN x ELSE g[i - 1]
    BY <1>3
  <1> QED BY <1>2, <1>4, <1>5

\* A loop that comes by the headers at[0], at[1] and so on ends at the last one.
Comes(at, n, mem, passes, end) ==
    /\ n \in 0 .. RingUnits /\ at \in [0 .. n -> Offsets]
    /\ \A k \in 0 .. n - 1 : at[k] \in passes /\ Behind(mem, at[k]) = at[k + 1]
    /\ \A k \in 1 .. n - 1 : at[k] # end
    /\ at[n] \notin passes \/ (n > 0 /\ at[n] = end)

LEMMA RunIs ==
    ASSUME NEW mem \in Memories, NEW passes, NEW end, NEW n, NEW at, Comes(at, n, mem, passes, end)
    PROVE  /\ Run(mem, at[0], passes, end) = [i \in 1 .. n |-> at[i - 1]]
           /\ EndOf(mem, Run(mem, at[0], passes, end), at[0]) = at[n]
  <1>1. PICK f : /\ Steps(f, mem, passes, end, RingUnits)
                 /\ Run(mem, at[0], passes, end) = f[RingUnits][at[0]]
    BY RunSteps
  <1>2. /\ n \in Nat /\ n <= RingUnits /\ RingUnits \in Nat /\ at \in [0 .. n -> Offsets]
        /\ \A k \in 0 .. n - 1 : at[k] \in passes /\ Behind(mem, at[k]) = at[k + 1]
        /\ \A k \in 1 .. n - 1 : at[k] # end
        /\ at[n] \notin passes \/ (n > 0 /\ at[n] = end)
    BY RingAssumption DEF Comes
  <1> DEFINE Ends(d) == [i \in 1 .. d |-> at[n - d + i - 1]]
             Right(d) == \A left \in 0 .. RingUnits : left >= d - 1 => f[left][at[n - d]] = Ends(d)
             Wrong == {d \in Nat : d <= n /\ (d = 0 => at[n] \notin passes) /\ ~Right(d)}
  <1>3. Wrong = {}
    <2> SUFFICES ASSUME Wrong # {} PROVE FALSE
      OBVIOUS
    <2>1. PICK d \in Wrong : \A j \in Wrong : d <= j
      <3>1. Wrong \subseteq Nat
        OBVIOUS
      <3> HIDE DEF Wrong
      <3> QED BY <3>1, LeastOf
    <2>2. d \in Nat /\ d <= n /\ (d = 0 => at[n] \notin passes) /\ ~Right(d)
      OBVIOUS
    <2> HIDE DEF Right, Ends
    <2>3. CASE d = 0
      <3>1. at[n - d] = at[n] /\ at[n] \in Offsets
        BY <1>2, <2>3
      <3>2. \A left \in 0 .. RingUnits : f[left][at[n - d]] = <<>>
        BY <1>1, <2>2, <2>3, <3>1 DEF Steps
      <3>3. Ends(d) = <<>>
        BY <2>3 DEF Ends
      <3> QED BY <2>2, <3>2, <3>3 DEF Right
    <2>4. CASE d # 0
      <3>1. PICK k \in 0 .. n - 1 : k = n - d
        BY <1>2, <2>2, <2>4
      <3>2. at[k] \in passes /\ Behind(mem, at[k]) = at[k + 1] /\ at[k] \in Offsets
              /\ at[k + 1] \in Offsets
        BY <1>2
      <3>3. d - 1 \in Nat /\ d - 1 <= n /\ n - (d - 1) = k + 1 /\ ~(d <= d - 1)
        BY <1>2, <2>2, <2>4, <3>1
      <3>4. (d - 1 = 0 => at[n] \notin passes) => Right(d - 1)
        BY <2>1, <3>3
      <3>5. Ends(d - 1) \in [1 .. d - 1 -> Offsets]
        BY <1>2, <2>2, <3>3 DEF Ends
      <3>6. Ends(d) = <<at[k]>> \o Ends(d - 1)
        <4>1. <<at[k]>> \o Ends(d - 1)
                = [i \in 1 .. d - 1 + 1 |-> IF i = 1 THEN at[k] ELSE Ends(d - 1)[i - 1]]
          BY <3>2, <3>3, <3>5, Prefixed
        <4>2. \A i \in 1 .. d : (IF i = 1 THEN at[k] ELSE Ends(d - 1)[i - 1]) = at[n - d + i - 1]
          <5> TAKE i \in 1 .. d
          <5>1. CASE i = 1
            BY <1>2, <2>2, <3>1, <5>1
          <5>2. CASE i # 1
            <6>1. i - 1 \in 1 .. d - 1 /\ n - (d - 1) + (i - 1) - 1 = n - d + i - 1
              BY <1>2, <2>2, <5>2
            <6> QED BY <5>2, <6>1 DEF Ends
          <5> QED BY <5>1, <5>2
        <4>3. d - 1 + 1 = d
          BY <2>2
        <4> QED BY <4>1, <4>2, <4>3 DEF Ends
      <3>7. <<at[k]>> \o <<>> = <<at[k]>>
        OBVIOUS
      <3>8. d = 1 => Ends(d) = <<at[k]>>
        <4> HAVE d = 1
        <4>1. Ends(0) = <<>>
          BY DEF Ends
        <4> QED BY <3>6, <3>7, <4>1
      <3>9. ASSUME NEW left \in 0 .. RingUnits, left >= d - 1
            PROVE  f[left][at[k]] = Ends(d)
        <4>1. f[left][at[k]] = <<at[k]>> \o IF at[k + 1] = end \/ left = 0 THEN <<>>
                                             ELSE f[left - 1][at[k + 1]]
          BY <1>1, <3>2 DEF Steps
        <4>2. CASE at[k + 1] = end \/ left = 0
          <5>1. d = 1
            <6>1. CASE left = 0
              BY <2>2, <2>4, <3>9, <6>1
            <6>2. CASE at[k + 1] = end
              <7>1. ~(k + 1 \in 1 .. n - 1)
                BY <1>2, <6>2
              <7> QED BY <1>2, <2>2, <3>1, <7>1
            <6> QED BY <4>2, <6>1, <6>2
          <5> QED BY <3>7, <3>8, <4>1, <4>2, <5>1
        <4>3. CASE ~(at[k + 1] = end \/ left = 0)
          <5>1. Right(d - 1)
            <6>1. d - 1 = 0 => k + 1 = n
              BY <1>2, <2>2, <3>1
            <6> QED BY <1>2, <3>4, <4>3, <6>1
          <5>2. left - 1 \in 0 .. RingUnits /\ left - 1 >= d - 1 - 1
            BY <1>2, <2>2, <3>9, <4>3
          <5>3. f[left - 1][at[k + 1]] = Ends(d - 1)
            BY <3>3, <5>1, <5>2 DEF Right
          <5> QED BY <3>6, <4>1, <4>3, <5>3
        <4> QED BY <4>2, <4>3
      <3> QED BY <2>2, <3>1, <3>9 DEF Right
    <2> QED BY <2>3, <2>4
  <1>4. CASE n = 0
    <2>1. f[RingUnits][at[0]] = <<>>
      <3>1. at[0] \notin passes /\ at[0] \in Offsets /\ RingUnits \in 0 .. RingUnits
        BY <1>2, <1>4
      <3> QED BY <1>1, <3>1 DEF Steps
    <2> QED BY <1>1, <1>4, <2>1 DEF EndOf
  <1>5. CASE n # 0
    <2>1. n \notin Wrong
      BY <1>3
    <2>2. Right(n)
      BY <1>2, <1>5, <2>1
    <2>3. f[RingUnits][at[n - n]] = Ends(n)
      <3>1. RingUnits \in 0 .. RingUnits /\ RingUnits >= n - 1
        BY <1>2
      <3> HIDE DEF Ends
      <3> QED BY <2>2, <3>1
    <2>4. Ends(n) = [i \in 1 .. n |-> at[i - 1]]
      <3>1. \A i \in 1 .. n : n - n + i - 1 = i - 1
        BY <1>2
      <3> QED BY <3>1
    <2>5. Run(mem, at[0], passes, end) = [i \in 1 .. n |-> at[i - 1]]
      <3>1. n - n = 0
        BY <1>2
      <3> HIDE DEF Ends
      <3> QED BY <1>1, <2>3, <2>4, <3>1
    <2>6. EndOf(mem, Run(mem, at[0], passes, end), at[0]) = at[n]
      <3>1. PICK s : s = [i \in 1 .. n |-> at[i - 1]]
        OBVIOUS
      <3>2. s \in [1 .. n -> Offsets]
        BY <1>2, <3>1
      <3>3. Len(s) = n /\ s # <<>>
        BY <1>2, <1>5, <3>2, Listed
      <3>4. s[n] = at[n - 1] /\ Behind(mem, at[n - 1]) = at[n]
        BY <1>2, <1>5, <3>1
      <3> QED BY <2>5, <3>1, <3>3, <3>4 DEF EndOf
    <2> QED BY <2>5, <2>6
  <1> QED BY <1>4, <1>5
-----------------------------------------------------------------------------
(* How the storage is laid out: the inductive invariant *)

\* A place counts on over the end of the storage, where its offset begins again.
Off(x) == IF x >= RingUnits THEN x - RingUnits ELSE x

RingRecords == [acquire : Offsets, write : Offsets, read : Offsets, free : Offsets,
                waiting : 0 .. RingUnits, full : BOOLEAN]

\* Headers lie at the places q[1] to q[n], one behind the other, and q[n + 1] is the next to acquire;
\* the f-th, if any, is a filler, and the next one lies at the start of the storage.
Laid(n, q, f, mem, rg) ==
    /\ n \in Nat /\ q \in [1 .. n + 1 -> Nat] /\ f \in 0 .. n
    /\ q[1] = rg.free /\ Off(q[n + 1]) = rg.acquire
    /\ \A k \in 1 .. n + 1 : Off(q[k]) \in 0 .. RingUnits - ITEM_HEADER
    /\ \A j, k \in 1 .. n + 1 : j <= k => q[j] + (k - j) <= q[k]
    /\ q[n + 1] <= q[1] + RingUnits
    /\ rg.full <=> n > 0 /\ q[n + 1] = q[1] + RingUnits
    /\ \A k \in 1 .. n : Behind(mem, Off(q[k])) = Off(q[k + 1])
    /\ \A k \in 1 .. n : "DUMMY" \in mem[Off(q[k])].flags <=> k = f
    /\ f # 0 => f < n /\ q[f + 1] = RingUnits
    /\ \A k \in 1 .. n : k # f => Off(q[k]) + StoredSize(mem[Off(q[k])].len) <= RingUnits

\* An item is being written until it is completed, and then held from when it is taken until it is
\* returned.
Staged(k, w, r, o, mem, wr, hd) ==
    /\ o \in wr <=> "WRITTEN" \notin mem[o].flags
    /\ k < w => o \notin wr
    /\ k < r => (o \in hd <=> "FREE" \notin mem[o].flags)
    /\ k >= r => o \notin hd /\ "FREE" \notin mem[o].flags

Waiting(n, q, f, r, mem) ==
    {o \in Offsets : \E k \in r .. n : k # f /\ o = Off(q[k]) /\ "WRITTEN" \in mem[o].flags}

\* The w-th header is the oldest not completed, the r-th the next to take.
Placed(n, q, f, w, r, mem, rg, wr, hd) ==
    /\ w \in 1 .. n + 1 /\ r \in 1 .. w
    /\ rg.write = Off(q[w]) /\ rg.read = Off(q[r])
    /\ f # 0 => r # f + 1
    /\ \A k \in 1 .. n : k # f => Staged(k, w, r, Off(q[k]), mem, wr, hd)
    /\ w <= n => IF w = f THEN Off(q[f + 1]) \in wr ELSE Off(q[w]) \in wr
    /\ \A o \in wr \cup hd : \E k \in 1 .. n : k # f /\ o = Off(q[k])
    /\ rg.waiting = Cardinality(Waiting(n, q, f, r, mem))

Shape(n, q, f, w, r, mem, rg, wr, hd) ==
    Laid(n, q, f, mem, rg) /\ Placed(n, q, f, w, r, mem, rg, wr, hd)

RingIInv ==
    /\ storage \in Memories /\ ring \in RingRecords /\ junk \subseteq Flags
    /\ \E n, q, f, w, r : Shape(n, q, f, w, r, storage, ring, writing, held)
-----------------------------------------------------------------------------
(* Places *)

LEMMA PlaceFacts ==
    ASSUME NEW n, NEW q, NEW f, NEW mem, NEW rg, rg \in RingRecords, Laid(n, q, f, mem, rg)
    PROVE  /\ RingUnits \in Nat /\ RingUnits >= 8 /\ n \in Nat /\ n <= RingUnits /\ f \in Nat /\ f <= n
           /\ \A k \in 1 .. n + 1 : /\ q[k] \in Nat /\ q[1] <= q[k] /\ q[k] <= q[1] + RingUnits
                                    /\ q[k] <= q[n + 1]
                                    /\ Off(q[k]) \in Offsets /\ Off(q[k]) + 2 <= RingUnits
           /\ \A j, k \in 1 .. n + 1 : j < k => q[j] < q[k]
           /\ 1 \in 1 .. n + 1 /\ n + 1 \in 1 .. n + 1 /\ q[1] < RingUnits
           /\ \A k \in 1 .. n : k \in 1 .. n + 1 /\ k + 1 \in 1 .. n + 1
  <1>1. RingUnits \in Nat /\ RingUnits >= 8
    BY RingAssumption DEF ITEM_HEADER
  <1>2. /\ n \in Nat /\ f \in Nat /\ f <= n /\ q \in [1 .. n + 1 -> Nat]
        /\ \A j, k \in 1 .. n + 1 : j <= k => q[j] + (k - j) <= q[k]
        /\ q[n + 1] <= q[1] + RingUnits
        /\ \A k \in 1 .. n + 1 : Off(q[k]) \in 0 .. RingUnits - 2
    BY SMTT(30) DEF Laid, ITEM_HEADER
  <1>3. 1 \in 1 .. n + 1 /\ n + 1 \in 1 .. n + 1 /\ \A k \in 1 .. n : k \in 1 .. n + 1
          /\ k + 1 \in 1 .. n + 1
    BY <1>2
  <1>4. n <= RingUnits
    <2>1. q[1] + (n + 1 - 1) <= q[n + 1] /\ q[1] \in Nat /\ q[n + 1] \in Nat
      BY <1>2, <1>3
    <2> QED BY <1>1, <1>2, <2>1, SMTT(30)
  <1>5. ASSUME NEW j \in 1 .. n + 1, NEW k \in 1 .. n + 1, j < k PROVE q[j] < q[k]
    <2>1. j \in Nat /\ k \in Nat /\ j <= k
      BY <1>2, <1>5
    <2>2. q[j] \in Nat /\ q[k] \in Nat
      BY <1>2
    <2>3. q[j] + (k - j) <= q[k]
      BY <1>2, <2>1
    <2> QED BY <1>5, <2>1, <2>2, <2>3
  <1>6. q[1] < RingUnits
    <2>1. q[1] \in 0 .. RingUnits - 1
      BY DEF Laid, RingRecords, Offsets
    <2> QED BY <1>1, <2>1
  <1>7. \A k \in 1 .. n + 1 : /\ q[k] \in Nat /\ q[1] <= q[k] /\ q[k] <= q[1] + RingUnits
                              /\ q[k] <= q[n + 1]
    <2> TAKE k \in 1 .. n + 1
    <2>1. q[1] + (k - 1) <= q[k] /\ q[k] + (n + 1 - k) <= q[n + 1]
      BY <1>2, <1>3
    <2>2. q[1] \in Nat /\ q[k] \in Nat /\ q[n + 1] \in Nat /\ k \in Nat /\ 1 <= k /\ k <= n + 1
      BY <1>2, <1>3
    <2> QED BY <1>1, <1>2, <2>1, <2>2, SMTT(30)
  <1>8. \A k \in 1 .. n + 1 : Off(q[k]) \in Offsets /\ Off(q[k]) + 2 <= RingUnits
    <2> TAKE k \in 1 .. n + 1
    <2>1. Off(q[k]) \in 0 .. RingUnits - 2
      BY <1>2
    <2> HIDE DEF Off
    <2> QED BY <1>1, <2>1 DEF Offsets
  <1> QED BY <1>1, <1>2, <1>3, <1>4, <1>5, <1>6, <1>7, <1>8

\* Places less than a turn apart are different offsets.
LEMMA OffsApart ==
    ASSUME NEW x \in Nat, NEW y \in Nat, x < y, RingUnits \in Nat
    PROVE  /\ y < x + RingUnits => Off(x) # Off(y) \/ x >= 2 * RingUnits \/ y >= 2 * RingUnits
           /\ Off(x) = Off(y) => y = x + RingUnits
  BY DEF Off

LEMMA Apart ==
    ASSUME NEW n, NEW q, NEW f, NEW mem, NEW rg, rg \in RingRecords, Laid(n, q, f, mem, rg),
           NEW j \in 1 .. n + 1, NEW k \in 1 .. n + 1, Off(q[j]) = Off(q[k])
    PROVE  \/ j = k
           \/ j = 1 /\ k = n + 1 /\ q[n + 1] = q[1] + RingUnits
           \/ j = n + 1 /\ k = 1 /\ q[n + 1] = q[1] + RingUnits
  <1>1. ASSUME NEW i \in 1 .. n + 1, NEW l \in 1 .. n + 1, i < l, Off(q[i]) = Off(q[l])
        PROVE  i = 1 /\ l = n + 1 /\ q[n + 1] = q[1] + RingUnits
    <2>1. /\ q[i] \in Nat /\ q[l] \in Nat /\ q[i] < q[l] /\ RingUnits \in Nat /\ n \in Nat
          /\ q[1] \in Nat /\ q[n + 1] \in Nat /\ q[l] <= q[n + 1] /\ q[n + 1] <= q[1] + RingUnits
          /\ q[1] <= q[i]
      BY <1>1, PlaceFacts
    <2>2. q[l] = q[i] + RingUnits
      BY <1>1, <2>1, OffsApart
    <2>3. i = 1
      <3>1. 1 < i => q[1] < q[i]
        BY <1>1, <2>1, PlaceFacts
      <3> QED BY <2>1, <2>2, <3>1
    <2>4. l = n + 1
      <3>1. l < n + 1 => q[l] < q[n + 1]
        BY <1>1, <2>1, PlaceFacts
      <3> QED BY <2>1, <2>2, <3>1
    <2> QED BY <2>1, <2>2, <2>3, <2>4
  <1>2. n \in Nat
    BY PlaceFacts
  <1>3. CASE j < k
    BY <1>1, <1>3
  <1>4. CASE k < j
    BY <1>1, <1>4
  <1> QED BY <1>2, <1>3, <1>4

LEMMA OneThere ==
    ASSUME NEW n, NEW q, NEW f, NEW mem, NEW rg, rg \in RingRecords, Laid(n, q, f, mem, rg),
           NEW j \in 1 .. n, NEW k \in 1 .. n, Off(q[j]) = Off(q[k])
    PROVE  j = k
  <1>1. n \in Nat
    BY DEF Laid
  <1> QED BY <1>1, Apart, PlaceFacts
-----------------------------------------------------------------------------
(* The headers in use and the items among them *)

PathOf(mem, rg) ==
    IF rg.acquire = rg.free /\ ~rg.full THEN <<>> ELSE Run(mem, rg.free, Offsets, rg.acquire)

LiveOf(mem, path) ==
    LET fillers == {i \in DOMAIN path : "DUMMY" \in mem[path[i]].flags}
        filler == CHOOSE i \in fillers : TRUE
    IN IF fillers = {} THEN path
       ELSE SubSeq(path, 1, filler - 1) \o SubSeq(path, filler + 1, Len(path))

StageOf(mem, wr, hd, o) ==
    IF o \in wr THEN "acquired"
    ELSE IF o \in hd THEN "taken"
    ELSE IF "FREE" \in mem[o].flags THEN "returned" ELSE "written"

\* The i-th item is the i-th header, or the one behind it when a filler comes before.
Nth(f, i) == IF f = 0 \/ i < f THEN i ELSE i + 1
Count(n, f) == IF f = 0 THEN n ELSE n - 1

QueueItem(mem, wr, hd, o) == [len |-> mem[o].len, stage |-> StageOf(mem, wr, hd, o)]
ItemsOf(n, q, f, mem, wr, hd) ==
    [i \in 1 .. Count(n, f) |-> QueueItem(mem, wr, hd, Off(q[Nth(f, i)]))]

LEMMA PathIs ==
    ASSUME NEW mem \in Memories, NEW rg \in RingRecords, NEW n, NEW q, NEW f, Laid(n, q, f, mem, rg)
    PROVE  PathOf(mem, rg) = [k \in 1 .. n |-> Off(q[k])]
  <1>1. /\ n \in Nat /\ n <= RingUnits /\ RingUnits \in Nat /\ q[1] < RingUnits /\ q[1] \in Nat
        /\ q[1] = rg.free /\ Off(q[n + 1]) = rg.acquire
        /\ rg.full <=> n > 0 /\ q[n + 1] = q[1] + RingUnits
        /\ \A k \in 1 .. n + 1 : Off(q[k]) \in Offsets /\ q[k] \in Nat
        /\ \A k \in 1 .. n : Behind(mem, Off(q[k])) = Off(q[k + 1])
        /\ 1 \in 1 .. n + 1 /\ n + 1 \in 1 .. n + 1
    <2>1. /\ q[1] = rg.free /\ Off(q[n + 1]) = rg.acquire
          /\ rg.full <=> n > 0 /\ q[n + 1] = q[1] + RingUnits
          /\ \A k \in 1 .. n : Behind(mem, Off(q[k])) = Off(q[k + 1])
      BY DEF Laid
    <2>2. /\ n \in Nat /\ n <= RingUnits /\ RingUnits \in Nat /\ q[1] < RingUnits
          /\ \A k \in 1 .. n + 1 : Off(q[k]) \in Offsets /\ q[k] \in Nat
          /\ 1 \in 1 .. n + 1 /\ n + 1 \in 1 .. n + 1
      BY PlaceFacts
    <2> QED BY <2>1, <2>2
  <1>2. Off(q[1]) = rg.free
    BY <1>1 DEF Off
  <1>3. CASE n = 0
    <2>1. PathOf(mem, rg) = <<>>
      BY <1>1, <1>2, <1>3 DEF PathOf
    <2> QED BY <1>3, <2>1
  <1>4. CASE n # 0
    <2>1. ~(rg.acquire = rg.free /\ ~rg.full)
      <3> SUFFICES ASSUME rg.acquire = rg.free, ~rg.full PROVE FALSE
        OBVIOUS
      <3>1. Off(q[n + 1]) = Off(q[1])
        BY <1>1, <1>2
      <3>2. n + 1 = 1 \/ q[n + 1] = q[1] + RingUnits
        BY <1>1, <3>1, Apart
      <3> QED BY <1>1, <1>4, <3>2
    <2> DEFINE at == [k \in 0 .. n |-> Off(q[k + 1])]
    <2>2. /\ at \in [0 .. n -> Offsets]
          /\ \A k \in 0 .. n : at[k] = Off(q[k + 1])
      BY <1>1
    <2>3. \A k \in 1 .. n - 1 : at[k] # rg.acquire
      <3> SUFFICES ASSUME NEW k \in 1 .. n - 1, at[k] = rg.acquire PROVE FALSE
        OBVIOUS
      <3>1. k + 1 \in 1 .. n + 1 /\ k \in 0 .. n /\ k + 1 # n + 1 /\ k + 1 # 1
        BY <1>1
      <3>2. Off(q[k + 1]) = Off(q[n + 1])
        BY <1>1, <2>2, <3>1
      <3> QED BY <1>1, <3>1, <3>2, Apart
    <2>4. \A k \in 0 .. n - 1 : at[k] \in Offsets /\ Behind(mem, at[k]) = at[k + 1]
      <3> TAKE k \in 0 .. n - 1
      <3>1. k + 1 \in 1 .. n /\ k + 1 \in 0 .. n /\ k \in 0 .. n /\ k + 1 \in 1 .. n + 1
        BY <1>1
      <3> HIDE DEF at
      <3> QED BY <1>1, <2>2, <3>1
    <2>5. n > 0 /\ at[n] = rg.acquire
      BY <1>1, <1>4, <2>2
    <2>6. at[0] = rg.free /\ \A i \in 1 .. n : at[i - 1] = Off(q[i])
      BY <1>1, <1>2, <2>2
    <2> HIDE DEF at
    <2>7. Comes(at, n, mem, Offsets, rg.acquire)
      BY <1>1, <2>2, <2>3, <2>4, <2>5 DEF Comes
    <2>8. Run(mem, at[0], Offsets, rg.acquire) = [i \in 1 .. n |-> at[i - 1]]
      BY <2>7, RunIs
    <2>9. [i \in 1 .. n |-> at[i - 1]] = [i \in 1 .. n |-> Off(q[i])]
      BY <2>6
    <2> QED BY <2>1, <2>6, <2>8, <2>9 DEF PathOf
  <1> QED BY <1>3, <1>4

LEMMA NthFacts ==
    ASSUME NEW n \in Nat, NEW f \in 0 .. n
    PROVE  /\ Count(n, f) \in Nat
           /\ \A i \in 1 .. Count(n, f) : /\ Nth(f, i) \in 1 .. n /\ Nth(f, i) # f
                                          /\ \A j \in 1 .. i - 1 : Nth(f, j) < Nth(f, i)
           /\ \A k \in 1 .. n : k # f => \E i \in 1 .. Count(n, f) : Nth(f, i) = k
           /\ \A i, j \in 1 .. Count(n, f) : Nth(f, i) = Nth(f, j) => i = j
  <1>1. \A k \in 1 .. n : k # f => \E i \in 1 .. Count(n, f) : Nth(f, i) = k
    <2> TAKE k \in 1 .. n
    <2> HAVE k # f
    <2>1. CASE f = 0 \/ k < f
      BY <2>1 DEF Count, Nth
    <2>2. CASE ~(f = 0 \/ k < f)
      <3>1. k - 1 \in 1 .. Count(n, f) /\ Nth(f, k - 1) = k
        BY <2>2 DEF Count, Nth
      <3> QED BY <3>1
    <2> QED BY <2>1, <2>2
  <1>2. Count(n, f) \in Nat
    BY DEF Count
  <1>3. ASSUME NEW i \in 1 .. Count(n, f)
        PROVE  /\ Nth(f, i) \in 1 .. n /\ Nth(f, i) # f
               /\ \A j \in 1 .. i - 1 : Nth(f, j) < Nth(f, i)
    BY DEF Count, Nth
  <1>4. ASSUME NEW i \in 1 .. Count(n, f), NEW j \in 1 .. Count(n, f), Nth(f, i) = Nth(f, j)
        PROVE  i = j
    BY <1>4 DEF Count, Nth
  <1> QED BY <1>1, <1>2, <1>3, <1>4

LEMMA LiveIs ==
    ASSUME NEW mem \in Memories, NEW rg \in RingRecords, NEW n, NEW q, NEW f, Laid(n, q, f, mem, rg)
    PROVE  LiveOf(mem, PathOf(mem, rg)) = [i \in 1 .. Count(n, f) |-> Off(q[Nth(f, i)])]
  <1>1. /\ n \in Nat /\ f \in 0 .. n /\ f \in Nat
        /\ \A k \in 1 .. n : "DUMMY" \in mem[Off(q[k])].flags <=> k = f
        /\ \A k \in 1 .. n + 1 : Off(q[k]) \in Offsets
        /\ \A k \in 1 .. n : k \in 1 .. n + 1
    <2>1. /\ f \in 0 .. n
          /\ \A k \in 1 .. n : "DUMMY" \in mem[Off(q[k])].flags <=> k = f
      BY DEF Laid
    <2> QED BY <2>1, PlaceFacts
  <1>2. PICK p : p = [k \in 1 .. n |-> Off(q[k])]
    OBVIOUS
  <1>3. /\ p \in [1 .. n -> Offsets] /\ p \in Seq(Offsets) /\ Len(p) = n /\ DOMAIN p = 1 .. n
        /\ \A k \in 1 .. n : p[k] = Off(q[k])
    <2>1. p \in [1 .. n -> Offsets]
      BY <1>1, <1>2
    <2>2. p \in Seq(Offsets) /\ Len(p) = n
      BY <1>1, <2>1, Listed
    <2> QED BY <1>2, <2>1, <2>2
  <1> DEFINE fillers == {i \in DOMAIN p : "DUMMY" \in mem[p[i]].flags}
             live == [i \in 1 .. Count(n, f) |-> Off(q[Nth(f, i)])]
  <1>4. fillers = IF f = 0 THEN {} ELSE {f}
    <2>1. \A k : k \in fillers <=> k \in 1 .. n /\ k = f
      BY <1>1, <1>3
    <2> HIDE DEF fillers
    <2> QED BY <1>1, <2>1
  <1>5. CASE f = 0
    <2>1. LiveOf(mem, p) = p
      BY <1>4, <1>5 DEF LiveOf
    <2>2. Count(n, f) = n /\ \A i \in 1 .. n : Nth(f, i) = i
      BY <1>1, <1>5 DEF Count, Nth
    <2>3. live = p
      BY <1>2, <2>2
    <2>4. PathOf(mem, rg) = p
      BY <1>2, PathIs
    <2> QED BY <2>1, <2>3, <2>4
  <1>6. CASE f # 0
    <2>1. (CHOOSE i \in fillers : TRUE) = f
      BY <1>4, <1>6
    <2>2. LiveOf(mem, p) = SubSeq(p, 1, f - 1) \o SubSeq(p, f + 1, n)
      <3> HIDE DEF fillers
      <3>1. fillers # {}
        BY <1>4, <1>6
      <3> QED BY <1>3, <2>1, <3>1 DEF LiveOf, fillers
    <2>3. PICK a, b : a = SubSeq(p, 1, f - 1) /\ b = SubSeq(p, f + 1, n)
      OBVIOUS
    <2>4. /\ a \in Seq(Offsets) /\ Len(a) = f - 1
          /\ \A i \in 1 .. f - 1 : a[i] = p[i]
      <3>1. \A i \in 1 .. f - 1 : p[i] \in Offsets
        BY <1>1, <1>3
      <3>2. 1 \in Int /\ f - 1 \in Int /\ (IF 1 <= f - 1 THEN f - 1 - 1 + 1 ELSE 0) = f - 1
              /\ f - 1 - 1 + 1 = f - 1 /\ \A i \in 1 .. f - 1 : 1 + i - 1 = i
        BY <1>1, <1>6
      <3>3. /\ a \in Seq(Offsets) /\ Len(a) = IF 1 <= f - 1 THEN f - 1 - 1 + 1 ELSE 0
            /\ \A i \in 1 .. f - 1 - 1 + 1 : a[i] = p[1 + i - 1]
        BY <2>3, <3>1, <3>2, SubSeqProperties
      <3> QED BY <3>2, <3>3
    <2>5. /\ b \in Seq(Offsets) /\ Len(b) = n - f
          /\ \A i \in 1 .. n - f : b[i] = p[f + i]
      <3>1. \A i \in f + 1 .. n : p[i] \in Offsets
        BY <1>1, <1>3
      <3>2. n \in Int /\ f + 1 \in Int /\ (IF f + 1 <= n THEN n - (f + 1) + 1 ELSE 0) = n - f
              /\ n - (f + 1) + 1 = n - f /\ \A i \in 1 .. n - f : f + 1 + i - 1 = f + i
        BY <1>1, <1>6
      <3>3. /\ b \in Seq(Offsets) /\ Len(b) = IF f + 1 <= n THEN n - (f + 1) + 1 ELSE 0
            /\ \A i \in 1 .. n - (f + 1) + 1 : b[i] = p[f + 1 + i - 1]
        BY <2>3, <3>1, <3>2, SubSeqProperties
      <3> QED BY <3>2, <3>3
    <2>6. PICK c : c = a \o b
      OBVIOUS
    <2>7. /\ c \in Seq(Offsets) /\ Len(c) = n - 1
          /\ \A i \in 1 .. n - 1 : c[i] = IF i <= f - 1 THEN a[i] ELSE b[i - (f - 1)]
      <3>1. f - 1 + (n - f) = n - 1
        BY <1>1
      <3>2. /\ c \in Seq(Offsets) /\ Len(c) = Len(a) + Len(b)
            /\ \A i \in 1 .. Len(a) + Len(b) : c[i] = IF i <= Len(a) THEN a[i] ELSE b[i - Len(a)]
        BY <2>4, <2>5, <2>6, ConcatProperties
      <3> QED BY <2>4, <2>5, <3>1, <3>2
    <2>8. Count(n, f) = n - 1
      BY <1>6 DEF Count
    <2>9. \A i \in 1 .. n - 1 : c[i] = Off(q[Nth(f, i)])
      <3> TAKE i \in 1 .. n - 1
      <3>1. CASE i < f
        <4>1. i \in 1 .. f - 1 /\ i <= f - 1 /\ i \in 1 .. n /\ Nth(f, i) = i
          BY <1>1, <3>1 DEF Nth
        <4> QED BY <1>3, <2>4, <2>7, <4>1
      <3>2. CASE ~(i < f)
        <4>1. /\ i - (f - 1) \in 1 .. n - f /\ ~(i <= f - 1) /\ f + (i - (f - 1)) = i + 1
              /\ i + 1 \in 1 .. n /\ Nth(f, i) = i + 1
          BY <1>1, <1>6, <3>2 DEF Nth
        <4> QED BY <1>3, <2>5, <2>7, <4>1
      <3> QED BY <3>1, <3>2
    <2>10. c = [i \in 1 .. n - 1 |-> c[i]]
      BY <2>7
    <2>11. c = live
      BY <2>8, <2>9, <2>10
    <2>12. LiveOf(mem, p) = live
      <3> HIDE DEF live
      <3> QED BY <2>2, <2>3, <2>6, <2>11
    <2>13. PathOf(mem, rg) = p
      BY <1>2, PathIs
    <2> QED BY <2>12, <2>13
  <1> QED BY <1>5, <1>6
-----------------------------------------------------------------------------
(* acquire() *)

Fits(len, rg) ==
    IF rg.acquire = rg.free THEN ~rg.full
    ELSE IF rg.free > rg.acquire THEN StoredSize(len) <= rg.free - rg.acquire
    ELSE \/ StoredSize(len) <= RingUnits - rg.acquire
         \/ StoredSize(len) <= rg.free

LEMMA HalfOfIt ==
    ASSUME NEW len \in Nat, len <= MaxItemSize
    PROVE  /\ StoredSize(len) = len + 2 /\ 2 * StoredSize(len) <= RingUnits + 1
           /\ RingUnits \in Nat /\ RingUnits >= 8
  <1>1. RingUnits \in Nat /\ RingUnits >= 8
    BY RingAssumption DEF ITEM_HEADER
  <1>2. StoredSize(len) = len + 2
    BY DEF StoredSize, ITEM_HEADER
  <1>3. 2 * ((RingUnits + 1) \div 2) <= RingUnits + 1 /\ (RingUnits + 1) \div 2 \in Int
    BY <1>1
  <1>4. len <= (RingUnits + 1) \div 2 - 2
    BY DEF MaxItemSize, ITEM_HEADER
  <1> QED BY <1>1, <1>2, <1>3, <1>4

\* An item lies between the places a and z, at most a turn from the oldest.
Room(a, z, len, wraps, at, end, n, q, f, rg) ==
    /\ Off(a) = at /\ Off(z) = end /\ a + StoredSize(len) <= z /\ z <= q[1] + RingUnits
    /\ at \in 0 .. RingUnits - 2 /\ end \in 0 .. RingUnits - 2
    /\ at + StoredSize(len) <= RingUnits
    /\ ~rg.full /\ q[n + 1] < q[1] + RingUnits
    /\ IF wraps THEN a = RingUnits /\ q[n + 1] < RingUnits /\ f = 0 ELSE a = q[n + 1]
    /\ end = rg.free <=> z = q[1] + RingUnits

LEMMA AcquireRoom ==
    ASSUME NEW mem \in Memories, NEW rg \in RingRecords, NEW n, NEW q, NEW f, Laid(n, q, f, mem, rg),
           NEW len \in Nat, len <= MaxItemSize, Fits(len, rg),
           NEW wraps \in BOOLEAN, wraps <=> RingUnits - rg.acquire < StoredSize(len),
           NEW at, at = IF wraps THEN 0 ELSE rg.acquire,
           NEW end, end = Wrap(at + StoredSize(len))
    PROVE  \E a, z \in Nat : Room(a, z, len, wraps, at, end, n, q, f, rg)
  <1> DEFINE S == StoredSize(len)
  <1>1. /\ S = len + 2 /\ 2 * S <= RingUnits + 1 /\ RingUnits \in Nat /\ RingUnits >= 8 /\ S \in Nat
    BY HalfOfIt
  <1>2. PICK x, y \in Nat : x = rg.acquire /\ y = rg.free
    BY DEF RingRecords, Offsets
  <1>3. PICK u \in Nat : u = q[n + 1]
    BY PlaceFacts
  <1>4. /\ q[1] = y /\ Off(u) = x /\ u <= y + RingUnits /\ y <= u /\ n \in Nat /\ y < RingUnits
        /\ y \in 0 .. RingUnits - 2 /\ x \in 0 .. RingUnits - 2
        /\ rg.full <=> n > 0 /\ u = y + RingUnits
        /\ n > 0 => y < u
        /\ n = 0 => u = y
    <2>1. /\ q[1] = y /\ Off(u) = x
          /\ rg.full <=> n > 0 /\ u = y + RingUnits
      BY <1>2, <1>3 DEF Laid
    <2>2. /\ u <= y + RingUnits /\ y <= u /\ n \in Nat /\ y < RingUnits
          /\ n > 0 => q[1] < q[n + 1]
          /\ n = 0 => q[1] = q[n + 1]
      BY <1>2, <1>3, <2>1, PlaceFacts
    <2>3. Off(y) = y
      BY <1>1, <2>2 DEF Off
    <2>4. Off(q[1]) \in 0 .. RingUnits - 2 /\ Off(q[n + 1]) \in 0 .. RingUnits - 2
      <3>1. 1 \in 1 .. n + 1 /\ n + 1 \in 1 .. n + 1
        BY PlaceFacts
      <3> QED BY <3>1 DEF Laid, ITEM_HEADER
    <2> QED BY <1>3, <2>1, <2>2, <2>3, <2>4
  <1>5. /\ wraps <=> RingUnits - x < S
        /\ at = IF wraps THEN 0 ELSE x
        /\ end = IF RingUnits - (at + S) < 2 THEN 0 ELSE at + S
    BY <1>2 DEF Wrap, ITEM_HEADER
  <1>6. IF x = y THEN ~rg.full
        ELSE IF y > x THEN S <= y - x ELSE S <= RingUnits - x \/ S <= y
    BY <1>2 DEF Fits
  <1>7. f # 0 => RingUnits < u
    <2> HAVE f # 0
    <2>1. f < n /\ q[f + 1] = RingUnits /\ f \in 0 .. n
      BY DEF Laid
    <2>2. f + 1 \in 1 .. n + 1 /\ f + 1 < n + 1
      BY <1>4, <2>1
    <2>3. q[f + 1] < q[n + 1]
      BY <2>2, PlaceFacts
    <2> QED BY <1>3, <2>1, <2>3
  <1> DEFINE a == IF wraps THEN RingUnits ELSE u
             z == IF end = 0 THEN a - at + RingUnits ELSE a + S
  <1> HIDE DEF S
  <1>8. ~rg.full /\ u < y + RingUnits /\ (x = y => n = 0 /\ u = y)
    <2>1. ~rg.full
      <3> SUFFICES ASSUME rg.full PROVE FALSE
        OBVIOUS
      <3>1. x = y
        BY <1>1, <1>4 DEF Off
      <3> QED BY <1>6, <3>1
    <2>2. u < y + RingUnits
      BY <1>1, <1>4, <2>1
    <2> QED BY <1>1, <1>4, <2>1, <2>2 DEF Off
  <1>9. CASE wraps
    <2>1. /\ u < RingUnits /\ u = x /\ S <= y /\ at = 0 /\ a = RingUnits
      BY <1>1, <1>4, <1>5, <1>6, <1>8, <1>9 DEF Off
    <2>2. end = S /\ z = RingUnits + S
      BY <1>1, <1>5, <2>1
    <2>3. /\ a \in Nat /\ z \in Nat /\ Off(a) = at /\ Off(z) = end
      BY <1>1, <2>1, <2>2 DEF Off
    <2>4. /\ a + S <= z /\ z <= y + RingUnits
          /\ at \in 0 .. RingUnits - 2 /\ end \in 0 .. RingUnits - 2 /\ at + S <= RingUnits
          /\ end = y <=> z = y + RingUnits
      BY <1>1, <1>4, <2>1, <2>2
    <2>5. f = 0
      BY <1>1, <1>7, <2>1
    <2> HIDE DEF a, z
    <2> QED BY <1>2, <1>3, <1>4, <1>8, <1>9, <2>1, <2>3, <2>4, <2>5 DEF S, Room
  <1>10. CASE ~wraps
    <2>1. at = x /\ a = u /\ x + S <= RingUnits
      BY <1>1, <1>4, <1>5, <1>10
    <2>2. \/ u = x /\ y <= x
          \/ u = x + RingUnits /\ x < y /\ S <= y - x
      BY <1>1, <1>4, <1>6, <1>8 DEF Off
    <2>3. /\ z \in Nat /\ a + S <= z /\ z <= y + RingUnits
          /\ end \in 0 .. RingUnits - 2 /\ at \in 0 .. RingUnits - 2
      <3>1. CASE end = 0
        BY <1>1, <1>4, <1>5, <2>1, <2>2, <3>1
      <3>2. CASE end # 0
        BY <1>1, <1>4, <1>5, <2>1, <2>2, <3>2
      <3> QED BY <3>1, <3>2
    <2>4. Off(a) = at /\ Off(z) = end
      <3>1. CASE end = 0
        <4>1. u = x /\ z = RingUnits
          BY <1>1, <1>4, <1>5, <2>1, <2>2, <3>1
        <4>2. Off(z) = end
          BY <1>1, <3>1, <4>1 DEF Off
        <4> HIDE DEF z
        <4> QED BY <1>4, <2>1, <4>2
      <3>2. CASE end # 0
        BY <1>1, <1>4, <1>5, <2>1, <2>2, <3>2 DEF Off
      <3> QED BY <3>1, <3>2
    <2>5. end = y <=> z = y + RingUnits
      <3>1. CASE end = 0
        BY <1>1, <1>4, <1>5, <2>1, <2>2, <3>1
      <3>2. CASE end # 0
        BY <1>1, <1>4, <1>5, <2>1, <2>2, <3>2
      <3> QED BY <3>1, <3>2
    <2> HIDE DEF a, z
    <2> QED BY <1>2, <1>3, <1>4, <1>8, <1>10, <2>1, <2>3, <2>4, <2>5 DEF S, Room
  <1> QED BY <1>9, <1>10

AcquiredMem(mem, rg, len, wraps, at, over) ==
    [o \in Offsets |->
        IF o = at THEN [len |-> len, flags |-> {}]
        ELSE IF o \in at .. at + StoredSize(len) - 1 THEN over
        ELSE IF wraps /\ o = rg.acquire THEN [len |-> 0, flags |-> {"DUMMY"}]
        ELSE mem[o]]

\* What acquire() has done, when the item lies from place a to place z.
Acquired(len, wraps, at, end, a, z, n, q, f, mem, rg, mem2, rg2) ==
    /\ len \in Nat /\ StoredSize(len) \in Nat /\ StoredSize(len) >= 2 /\ a \in Nat /\ z \in Nat
    /\ wraps \in BOOLEAN
    /\ Room(a, z, len, wraps, at, end, n, q, f, rg)
    /\ end = Wrap(at + StoredSize(len))
    /\ rg2 = [rg EXCEPT !.acquire = end, !.full = @ \/ end = rg.free]
    /\ mem2[at] = [len |-> len, flags |-> {}]
    /\ \A o \in Offsets : o \notin at .. at + StoredSize(len) - 1 /\ ~(wraps /\ o = rg.acquire)
         => mem2[o] = mem[o]
    /\ wraps => mem2[rg.acquire] = [len |-> 0, flags |-> {"DUMMY"}]

Extended(wraps, a, z, n, q, f, m, q2, g) ==
    /\ g = IF wraps THEN n + 1 ELSE f
    /\ m = IF wraps THEN n + 2 ELSE n + 1
    /\ q2 \in [1 .. m + 1 -> Nat]
    /\ \A k \in 1 .. n + 1 : q2[k] = q[k]
    /\ q2[m] = a /\ q2[m + 1] = z

\* The headers that were there are as they were, and elsewhere.
LEMMA KeptByAcquire ==
    ASSUME NEW mem \in Memories, NEW rg \in RingRecords, NEW n, NEW q, NEW f, Laid(n, q, f, mem, rg),
           NEW len, NEW wraps, NEW at, NEW end, NEW a, NEW z, NEW mem2, NEW rg2,
           Acquired(len, wraps, at, end, a, z, n, q, f, mem, rg, mem2, rg2),
           NEW k \in 1 .. n
    PROVE  mem2[Off(q[k])] = mem[Off(q[k])] /\ Off(q[k]) # at
  <1>1. PICK S \in Nat : S = StoredSize(len) /\ S >= 2
    BY DEF Acquired, Room
  <1>2. PICK x, u, y \in Nat : x = q[k] /\ u = q[n + 1] /\ y = q[1]
    BY PlaceFacts
  <1>3. /\ y <= x /\ x < u /\ u < y + RingUnits /\ y < RingUnits
        /\ RingUnits \in Nat /\ n \in Nat /\ Off(q[k]) \in Offsets
        /\ k \in 1 .. n + 1 /\ n + 1 \in 1 .. n + 1
    <2>1. /\ k \in 1 .. n + 1 /\ n + 1 \in 1 .. n + 1 /\ n \in Nat /\ k < n + 1
          /\ RingUnits \in Nat
      BY PlaceFacts
    <2>2. /\ q[1] <= q[k] /\ q[k] < q[n + 1] /\ q[1] < RingUnits /\ Off(q[k]) \in Offsets
      BY <2>1, PlaceFacts
    <2> QED BY <1>2, <2>1, <2>2 DEF Acquired, Room
  <1>4. /\ a \in Nat /\ z \in Nat /\ Off(a) = at /\ a + S <= z /\ z <= y + RingUnits
        /\ at \in Nat /\ u <= a
    BY <1>1, <1>2, <1>3 DEF Acquired, Room
  <1>5. Off(x) \notin at .. at + S - 1
    BY <1>1, <1>3, <1>4 DEF Off
  <1>6. Off(q[k]) # rg.acquire
    <2>1. Off(q[n + 1]) = rg.acquire
      BY DEF Laid
    <2>2. k # n + 1 /\ q[n + 1] # q[1] + RingUnits
      BY <1>2, <1>3
    <2> QED BY <1>3, <2>1, <2>2, Apart
  <1>7. at \in at .. at + S - 1
    BY <1>1, <1>4
  <1> QED BY <1>1, <1>2, <1>3, <1>5, <1>6, <1>7 DEF Acquired, Room

LEMMA AcquiredLaid ==
    ASSUME NEW mem \in Memories, NEW rg \in RingRecords, NEW n, NEW q, NEW f, Laid(n, q, f, mem, rg),
           NEW len, NEW wraps, NEW at, NEW end, NEW a, NEW z, NEW mem2, NEW rg2,
           Acquired(len, wraps, at, end, a, z, n, q, f, mem, rg, mem2, rg2),
           NEW m, NEW q2, NEW g, Extended(wraps, a, z, n, q, f, m, q2, g)
    PROVE  Laid(m, q2, g, mem2, rg2)
  <1> m = (IF wraps THEN n + 2 ELSE n + 1) /\ q2 \in [1 .. m + 1 -> Nat]
        /\ (\A k \in 1 .. n + 1 : q2[k] = q[k]) /\ q2[m] = a /\ q2[m + 1] = z
    BY DEF Extended
  <1>1. g = IF wraps THEN n + 1 ELSE f
    BY DEF Extended
  <1>2. /\ n \in Nat /\ RingUnits \in Nat /\ f \in 0 .. n /\ wraps \in BOOLEAN
        /\ a \in Nat /\ z \in Nat /\ a + 2 <= z /\ z <= q[1] + RingUnits
        /\ IF wraps THEN a = RingUnits /\ q[n + 1] < RingUnits /\ f = 0 ELSE a = q[n + 1]
    <2>1. n \in Nat /\ RingUnits \in Nat /\ f \in 0 .. n
      <3>1. n \in Nat /\ f \in 0 .. n
        BY DEF Laid
      <3> QED BY <3>1, RingAssumption
    <2>2. /\ StoredSize(len) \in Nat /\ StoredSize(len) >= 2 /\ a \in Nat /\ z \in Nat
          /\ a + StoredSize(len) <= z /\ z <= q[1] + RingUnits /\ wraps \in BOOLEAN
          /\ IF wraps THEN a = RingUnits /\ q[n + 1] < RingUnits /\ f = 0 ELSE a = q[n + 1]
      BY DEF Acquired, Room
    <2> QED BY <2>1, <2>2
  <1>3. /\ m \in Nat /\ m > 0 /\ g \in 0 .. m
        /\ \A k \in 1 .. m + 1 : k \in 1 .. n + 1 \/ k = m \/ k = m + 1
        /\ \A k \in 1 .. m : k \in 1 .. n \/ (k = n + 1 /\ wraps /\ k = g) \/ k = m
        /\ 1 \in 1 .. n + 1 /\ n + 1 \in 1 .. n + 1
        /\ \A k \in 1 .. n : k \in 1 .. n + 1 /\ k + 1 \in 1 .. n + 1
    BY <1>1, <1>2
  <1>4. q2[1] = q[1] /\ q2[n + 1] = q[n + 1]
    BY <1>3
  <1>5. \A j \in 1 .. m : q2[j] + (m - j) <= a
    <2> TAKE j \in 1 .. m
    <2>1. CASE j \in 1 .. n + 1
      <3>1. q[j] + (n + 1 - j) <= q[n + 1] /\ q[j] \in Nat /\ q[n + 1] \in Nat /\ q2[j] = q[j]
        <4>1. j <= n + 1
          BY <1>2, <2>1
        <4>2. q[j] + (n + 1 - j) <= q[n + 1]
          BY <1>3, <2>1, <4>1 DEF Laid
        <4> QED BY <1>3, <2>1, <4>2, PlaceFacts
      <3> QED BY <1>2, <1>3, <2>1, <3>1, SMTT(30)
    <2>2. CASE j = m
      BY <1>2, <1>3, <2>2
    <2> QED BY <1>3, <2>1, <2>2
  <1>6. \A j, k \in 1 .. m + 1 : j <= k => q2[j] + (k - j) <= q2[k]
    <2> TAKE j, k \in 1 .. m + 1
    <2> HAVE j <= k
    <2>1. CASE k = m + 1
      <3>1. CASE j = m + 1
        BY <1>2, <1>3, <2>1, <3>1
      <3>2. CASE j \in 1 .. m
        <4>1. q2[j] + (m - j) <= a /\ q2[j] \in Nat
          BY <1>3, <1>5, <3>2
        <4> QED BY <1>2, <1>3, <2>1, <3>2, <4>1
      <3> QED BY <1>3, <3>1, <3>2
    <2>2. CASE k = m
      BY <1>3, <1>5, <2>2
    <2>3. CASE k \in 1 .. n + 1
      <3>1. j \in 1 .. n + 1
        BY <1>2, <2>3
      <3>2. q[j] + (k - j) <= q[k]
        BY <2>3, <3>1 DEF Laid
      <3> QED BY <2>3, <3>1, <3>2
    <2> QED BY <1>3, <2>1, <2>2, <2>3
  <1>7. /\ rg2.acquire = end /\ rg2.free = rg.free /\ rg2.full = (end = rg.free)
        /\ end = rg.free <=> z = q[1] + RingUnits
        /\ Off(z) = end /\ Off(a) = at /\ at \in 0 .. RingUnits - 2 /\ end \in 0 .. RingUnits - 2
    <2>1. rg2 = [rg EXCEPT !.acquire = end, !.full = @ \/ end = rg.free] /\ ~rg.full
      BY DEF Acquired, Room
    <2>2. rg2.acquire = end /\ rg2.free = rg.free /\ rg2.full = (rg.full \/ end = rg.free)
      BY <2>1 DEF RingRecords
    <2> QED BY <2>1, <2>2 DEF Acquired, Room
  <1>8. \A k \in 1 .. m + 1 : Off(q2[k]) \in 0 .. RingUnits - ITEM_HEADER
    <2>1. \A k \in 1 .. n + 1 : Off(q2[k]) \in 0 .. RingUnits - ITEM_HEADER
      BY DEF Laid
    <2>2. Off(q2[m]) \in 0 .. RingUnits - ITEM_HEADER /\ Off(q2[m + 1]) \in 0 .. RingUnits - ITEM_HEADER
      BY <1>7 DEF ITEM_HEADER
    <2> QED BY <1>3, <2>1, <2>2
  <1>9. Off(q2[m + 1]) = rg2.acquire /\ q2[1] = rg2.free /\ q2[m + 1] <= q2[1] + RingUnits
    <2>1. q[1] = rg.free
      BY DEF Laid
    <2> QED BY <1>2, <1>4, <1>7, <2>1
  <1>10. rg2.full <=> m > 0 /\ q2[m + 1] = q2[1] + RingUnits
    BY <1>3, <1>4, <1>7
  <1>11. \A k \in 1 .. m : /\ Behind(mem2, Off(q2[k])) = Off(q2[k + 1])
                           /\ "DUMMY" \in mem2[Off(q2[k])].flags <=> k = g
    <2> TAKE k \in 1 .. m
    <2>1. CASE k \in 1 .. n
      <3>1. mem2[Off(q[k])] = mem[Off(q[k])]
        BY <2>1, KeptByAcquire
      <3>2. Behind(mem, Off(q[k])) = Off(q[k + 1]) /\ ("DUMMY" \in mem[Off(q[k])].flags <=> k = f)
        BY <2>1 DEF Laid
      <3>3. k = f <=> k = g
        BY <1>1, <1>2, <2>1
      <3>4. q2[k] = q[k] /\ q2[k + 1] = q[k + 1]
        BY <1>3, <2>1
      <3> QED BY <3>1, <3>2, <3>3, <3>4 DEF Behind
    <2>2. CASE k = n + 1 /\ wraps /\ k = g
      <3>1. q2[k] = q[n + 1] /\ q2[k + 1] = a /\ a = RingUnits
        BY <1>2, <1>4, <2>2
      <3>2. Off(q2[k]) = rg.acquire /\ Off(q2[k + 1]) = 0
        BY <1>2, <3>1 DEF Laid, Off
      <3>3. mem2[rg.acquire] = [len |-> 0, flags |-> {"DUMMY"}]
        BY <2>2 DEF Acquired, Room
      <3> QED BY <2>2, <3>2, <3>3 DEF Behind
    <2>3. CASE k = m
      <3>1. mem2[at] = [len |-> len, flags |-> {}] /\ end = Wrap(at + StoredSize(len))
        BY DEF Acquired, Room
      <3>2. Off(q2[k]) = at /\ Off(q2[k + 1]) = end
        BY <1>7, <2>3
      <3>3. k # g
        BY <1>1, <1>2, <2>3
      <3> QED BY <3>1, <3>2, <3>3 DEF Behind
    <2> QED BY <1>3, <2>1, <2>2, <2>3
  <1>12. g # 0 => g < m /\ q2[g + 1] = RingUnits
    <2>1. CASE wraps
      BY <1>1, <1>2, <2>1
    <2>2. CASE ~wraps
      <3>1. f # 0 => f < n /\ q[f + 1] = RingUnits
        BY DEF Laid
      <3> QED BY <1>1, <1>2, <2>2, <3>1
    <2> QED BY <1>2, <2>1, <2>2
  <1>13. \A k \in 1 .. m : k # g => Off(q2[k]) + StoredSize(mem2[Off(q2[k])].len) <= RingUnits
    <2> TAKE k \in 1 .. m
    <2> HAVE k # g
    <2>1. CASE k \in 1 .. n
      <3>1. mem2[Off(q[k])] = mem[Off(q[k])]
        BY <2>1, KeptByAcquire
      <3>2. k # f /\ q2[k] = q[k]
        BY <1>1, <1>2, <1>3, <2>1
      <3>3. Off(q[k]) + StoredSize(mem[Off(q[k])].len) <= RingUnits
        BY <2>1, <3>2 DEF Laid
      <3> QED BY <3>1, <3>2, <3>3
    <2>2. CASE k = m
      <3>1. mem2[at] = [len |-> len, flags |-> {}] /\ at + StoredSize(len) <= RingUnits
        BY DEF Acquired, Room
      <3>2. mem2[at].len = len /\ Off(q2[k]) = at
        BY <1>7, <2>2, <3>1
      <3> QED BY <3>1, <3>2
    <2> QED BY <1>3, <2>1, <2>2
  <1>14. Laid(m, q2, g, mem2, rg2)
    BY <1>3, <1>6, <1>8, <1>9, <1>10, <1>11, <1>12, <1>13 DEF Laid
  <1> QED BY <1>1, <1>14

LEMMA AcquiredPlaced ==
    ASSUME NEW mem \in Memories, NEW rg \in RingRecords, NEW n, NEW q, NEW f, Laid(n, q, f, mem, rg),
           NEW w, NEW r, NEW wr, NEW hd, Placed(n, q, f, w, r, mem, rg, wr, hd),
           NEW len, NEW wraps, NEW at, NEW end, NEW a, NEW z, NEW mem2, NEW rg2,
           Acquired(len, wraps, at, end, a, z, n, q, f, mem, rg, mem2, rg2),
           NEW m, NEW q2, NEW g, Extended(wraps, a, z, n, q, f, m, q2, g)
    PROVE  Placed(m, q2, g, w, r, mem2, rg2, wr \cup {at}, hd)
  <1> m = (IF wraps THEN n + 2 ELSE n + 1) /\ q2 \in [1 .. m + 1 -> Nat]
        /\ (\A k \in 1 .. n + 1 : q2[k] = q[k]) /\ q2[m] = a /\ q2[m + 1] = z
    BY DEF Extended
  <1>1. g = IF wraps THEN n + 1 ELSE f
    BY DEF Extended
  <1>2. n \in Nat /\ f \in 0 .. n /\ wraps \in BOOLEAN /\ (wraps => f = 0)
    <2>1. wraps \in BOOLEAN /\ (wraps => f = 0)
      BY DEF Acquired, Room
    <2> QED BY <2>1 DEF Laid
  <1>3. /\ m \in Nat /\ m > n /\ g \in 0 .. m /\ m # g
        /\ \A k \in 1 .. m : k \in 1 .. n \/ (k = n + 1 /\ wraps /\ k = g) \/ k = m
        /\ \A k \in 1 .. n : k \in 1 .. n + 1 /\ k + 1 \in 1 .. n + 1 /\ (k = f <=> k = g)
    BY <1>1, <1>2
  <1>4. /\ w \in 1 .. n + 1 /\ r \in 1 .. w
        /\ rg.write = Off(q[w]) /\ rg.read = Off(q[r])
        /\ f # 0 => r # f + 1
        /\ \A k \in 1 .. n : k # f => Staged(k, w, r, Off(q[k]), mem, wr, hd)
        /\ w <= n => IF w = f THEN Off(q[f + 1]) \in wr ELSE Off(q[w]) \in wr
        /\ \A o \in wr \cup hd : \E k \in 1 .. n : k # f /\ o = Off(q[k])
        /\ rg.waiting = Cardinality(Waiting(n, q, f, r, mem))
    BY DEF Placed
  <1>5. /\ rg2.write = rg.write /\ rg2.read = rg.read /\ rg2.waiting = rg.waiting
        /\ Off(a) = at /\ mem2[at] = [len |-> len, flags |-> {}]
    BY DEF Acquired, Room
  <1>6. \A k \in 1 .. n : /\ mem2[Off(q[k])] = mem[Off(q[k])] /\ Off(q[k]) # at
                          /\ q2[k] = q[k] /\ q2[k + 1] = q[k + 1]
    BY <1>3, KeptByAcquire
  <1>7. w \in 1 .. m + 1 /\ r \in 1 .. w /\ q2[w] = q[w] /\ q2[r] = q[r]
    BY <1>2, <1>3, <1>4
  <1>8. at \notin wr \cup hd
    BY <1>4, <1>6
  <1>9. g # 0 => r # g + 1
    BY <1>1, <1>2, <1>4
  <1>10. ASSUME NEW k \in 1 .. m, k # g
         PROVE  Staged(k, w, r, Off(q2[k]), mem2, wr \cup {at}, hd)
    <2>1. CASE k \in 1 .. n
      <3>1. Staged(k, w, r, Off(q[k]), mem, wr, hd)
        BY <1>3, <1>4, <1>10, <2>1
      <3>2. mem2[Off(q[k])] = mem[Off(q[k])] /\ Off(q[k]) # at /\ q2[k] = q[k]
        BY <1>6, <2>1
      <3> QED BY <3>1, <3>2 DEF Staged
    <2>2. CASE k = m
      <3>1. ~(k < w) /\ ~(k < r)
        BY <1>2, <1>3, <1>4, <2>2
      <3>2. Off(q2[k]) = at /\ mem2[at].flags = {}
        BY <1>5, <2>2
      <3> QED BY <1>8, <3>1, <3>2 DEF Staged
    <2> QED BY <1>3, <1>10, <2>1, <2>2
  <1>11. w <= m => IF w = g THEN Off(q2[g + 1]) \in wr \cup {at} ELSE Off(q2[w]) \in wr \cup {at}
    <2>1. CASE w <= n
      <3>1. w \in 1 .. n /\ (w = f <=> w = g)
        BY <1>3, <1>4, <2>1
      <3> QED BY <1>4, <1>6, <2>1, <3>1
    <2>2. CASE ~(w <= n)
      <3>1. w = n + 1
        BY <1>2, <1>4, <2>2
      <3>2. CASE wraps
        <4>1. w = g /\ g + 1 = m
          BY <1>1, <1>2, <3>1, <3>2
        <4> QED BY <1>5, <4>1
      <3>3. CASE ~wraps
        <4>1. w = m /\ w # g
          BY <1>1, <1>2, <3>1, <3>3
        <4> QED BY <1>5, <4>1
      <3> QED BY <1>2, <3>2, <3>3
    <2> QED BY <2>1, <2>2
  <1>12. \A o \in wr \cup {at} \cup hd : \E k \in 1 .. m : k # g /\ o = Off(q2[k])
    <2>1. \A o \in wr \cup hd : \E k \in 1 .. m : k # g /\ o = Off(q2[k])
      <3> TAKE o \in wr \cup hd
      <3>1. PICK k \in 1 .. n : k # f /\ o = Off(q[k])
        BY <1>4
      <3>2. k \in 1 .. m /\ k # g /\ q2[k] = q[k]
        <4>1. k \in 1 .. m
          BY <1>2, <1>3
        <4>2. k # g
          BY <1>3, <3>1
        <4> QED BY <1>6, <4>1, <4>2
      <3> QED BY <3>1, <3>2
    <2>2. m \in 1 .. m /\ m # g /\ at = Off(q2[m])
      BY <1>2, <1>3, <1>5
    <2> QED BY <2>1, <2>2
  <1>13. Waiting(m, q2, g, r, mem2) = Waiting(n, q, f, r, mem)
    <2>1. ASSUME NEW o, NEW k \in r .. m, k # g, o = Off(q2[k]), "WRITTEN" \in mem2[o].flags
          PROVE  k \in r .. n /\ k # f /\ o = Off(q[k]) /\ "WRITTEN" \in mem[o].flags
      <3>1. k \in 1 .. m /\ k # m
        <4>1. k \in 1 .. m
          BY <1>3, <1>4
        <4>2. mem2[Off(q2[m])].flags = {}
          BY <1>5
        <4> QED BY <2>1, <4>1, <4>2
      <3>2. k \in 1 .. n
        BY <1>3, <2>1, <3>1
      <3>3. k \in r .. n
        BY <1>4, <3>2
      <3> QED BY <1>3, <1>6, <2>1, <3>2, <3>3
    <2>2. ASSUME NEW o, NEW k \in r .. n, k # f, o = Off(q[k]), "WRITTEN" \in mem[o].flags
          PROVE  k \in r .. m /\ k # g /\ o = Off(q2[k]) /\ "WRITTEN" \in mem2[o].flags
      <3>1. k \in 1 .. n /\ k \in r .. m
        BY <1>2, <1>3, <1>4
      <3> QED BY <1>3, <1>6, <2>2, <3>1
    <2> QED BY <2>1, <2>2 DEF Waiting
  <1>14. Placed(m, q2, g, w, r, mem2, rg2, wr \cup {at}, hd)
    BY <1>4, <1>5, <1>7, <1>9, <1>10, <1>11, <1>12, <1>13 DEF Placed
  <1> QED BY <1>1, <1>14

LEMMA AppendIs ==
    ASSUME NEW S, NEW c \in Nat, NEW g \in [1 .. c -> S], NEW x \in S
    PROVE  Append(g, x) = [i \in 1 .. c + 1 |-> IF i <= c THEN g[i] ELSE x]
  <1>1. g \in Seq(S) /\ Len(g) = c
    BY Listed
  <1>2. PICK p : p = Append(g, x)
    OBVIOUS
  <1>3. /\ p \in Seq(S) /\ DOMAIN p = 1 .. c + 1
        /\ \A i \in 1 .. c : p[i] = g[i]
        /\ p[c + 1] = x
    BY <1>1, <1>2, Appended
  <1>4. p = [i \in 1 .. c + 1 |-> p[i]]
    BY <1>3
  <1>5. \A i \in 1 .. c + 1 : p[i] = IF i <= c THEN g[i] ELSE x
    BY <1>3
  <1> QED BY <1>2, <1>4, <1>5

QueueItems == [len : Nat, stage : Queue!Stages]

LEMMA ItemsOfFacts ==
    ASSUME NEW mem \in Memories, NEW rg \in RingRecords, NEW n, NEW q, NEW f, Laid(n, q, f, mem, rg),
           NEW wr, NEW hd
    PROVE  /\ Count(n, f) \in Nat
           /\ ItemsOf(n, q, f, mem, wr, hd) \in [1 .. Count(n, f) -> QueueItems]
           /\ \A i \in 1 .. Count(n, f) :
                ItemsOf(n, q, f, mem, wr, hd)[i] = QueueItem(mem, wr, hd, Off(q[Nth(f, i)]))
  <1>1. n \in Nat /\ f \in 0 .. n
    BY DEF Laid
  <1>2. Count(n, f) \in Nat /\ \A i \in 1 .. Count(n, f) : Nth(f, i) \in 1 .. n
    BY <1>1, NthFacts
  <1>3. \A i \in 1 .. Count(n, f) : QueueItem(mem, wr, hd, Off(q[Nth(f, i)])) \in QueueItems
    <2> TAKE i \in 1 .. Count(n, f)
    <2>1. PICK o : o = Off(q[Nth(f, i)])
      OBVIOUS
    <2>2. o \in Offsets
      <3>1. Nth(f, i) \in 1 .. n + 1
        BY <1>2, PlaceFacts
      <3> QED BY <2>1, <3>1, PlaceFacts
    <2>3. mem[o].len \in Nat
      BY <2>2, RingAssumption DEF Memories, Headers
    <2>4. StageOf(mem, wr, hd, o) \in Queue!Stages
      BY DEF StageOf, Queue!Stages
    <2> QED BY <2>1, <2>3, <2>4 DEF QueueItem, QueueItems
  <1> QED BY <1>2, <1>3 DEF ItemsOf

AppendedNew(s, len) == Append(s, [len |-> len, stage |-> "acquired"])

LEMMA AcquiredItems ==
    ASSUME NEW mem \in Memories, NEW rg \in RingRecords, NEW n, NEW q, NEW f, Laid(n, q, f, mem, rg),
           NEW wr, NEW hd, NEW len, NEW wraps, NEW at, NEW end, NEW a, NEW z, NEW mem2, NEW rg2,
           Acquired(len, wraps, at, end, a, z, n, q, f, mem, rg, mem2, rg2),
           at \notin hd, NEW s, s = ItemsOf(n, q, f, mem, wr, hd),
           NEW m, NEW q2, NEW g, Extended(wraps, a, z, n, q, f, m, q2, g)
    PROVE  ItemsOf(m, q2, g, mem2, wr \cup {at}, hd)
            = AppendedNew(s, len)
  <1> m = (IF wraps THEN n + 2 ELSE n + 1) /\ q2 \in [1 .. m + 1 -> Nat]
        /\ (\A k \in 1 .. n + 1 : q2[k] = q[k]) /\ q2[m] = a /\ q2[m + 1] = z
    BY DEF Extended
  <1>1. PICK c : g = (IF wraps THEN n + 1 ELSE f) /\ c = Count(n, f)
    BY DEF Extended
  <1>2. /\ n \in Nat /\ f \in 0 .. n /\ wraps \in BOOLEAN /\ (wraps => f = 0)
        /\ len \in Nat /\ mem2[at] = [len |-> len, flags |-> {}] /\ Off(a) = at
    <2>1. wraps \in BOOLEAN /\ (wraps => f = 0) /\ len \in Nat
      BY DEF Acquired, Room
    <2>2. n \in Nat /\ f \in 0 .. n
      BY DEF Laid
    <2>3. mem2[at] = [len |-> len, flags |-> {}] /\ Off(a) = at
      BY DEF Acquired, Room
    <2> QED BY <2>1, <2>2, <2>3
  <1>3. c \in Nat /\ \A i \in 1 .. c : Nth(f, i) \in 1 .. n
    BY <1>1, <1>2, NthFacts
  <1>4. Count(m, g) = c + 1 /\ Nth(g, c + 1) = m /\ \A i \in 1 .. c : Nth(g, i) = Nth(f, i)
    <2>1. f # 0 => f < n
      BY DEF Laid
    <2> QED BY <1>1, <1>2, <2>1 DEF Count, Nth
  <1>5. PICK s2, one : /\ s = ItemsOf(n, q, f, mem, wr, hd)
                       /\ s2 = ItemsOf(m, q2, g, mem2, wr \cup {at}, hd)
                       /\ one = [len |-> len, stage |-> "acquired"]
    OBVIOUS
  <1>6. s \in [1 .. c -> QueueItems] /\ \A i \in 1 .. c : s[i] = QueueItem(mem, wr, hd, Off(q[Nth(f, i)]))
    BY <1>1, <1>5, ItemsOfFacts
  <1>7. one \in QueueItems
    BY <1>2, <1>5 DEF QueueItems, Queue!Stages
  <1>8. Append(s, one) = [i \in 1 .. c + 1 |-> IF i <= c THEN s[i] ELSE one]
    BY <1>3, <1>6, <1>7, AppendIs
  <1>9. s2 = [i \in 1 .. c + 1 |-> QueueItem(mem2, wr \cup {at}, hd, Off(q2[Nth(g, i)]))]
    BY <1>4, <1>5 DEF ItemsOf
  <1>10. ASSUME NEW i \in 1 .. c + 1
         PROVE  QueueItem(mem2, wr \cup {at}, hd, Off(q2[Nth(g, i)])) = IF i <= c THEN s[i] ELSE one
    <2>1. CASE i \in 1 .. c
      <3>1. PICK k \in 1 .. n : k = Nth(f, i)
        BY <1>3, <2>1
      <3>2. mem2[Off(q[k])] = mem[Off(q[k])] /\ Off(q[k]) # at
        BY KeptByAcquire
      <3>3. q2[k] = q[k]
        BY <1>2
      <3>4. StageOf(mem2, wr \cup {at}, hd, Off(q[k])) = StageOf(mem, wr, hd, Off(q[k]))
        BY <3>2 DEF StageOf
      <3>5. QueueItem(mem2, wr \cup {at}, hd, Off(q2[k])) = QueueItem(mem, wr, hd, Off(q[k]))
        BY <3>2, <3>3, <3>4 DEF QueueItem
      <3>6. i <= c /\ Nth(g, i) = k
        BY <1>3, <1>4, <2>1, <3>1
      <3> QED BY <1>6, <2>1, <3>1, <3>5, <3>6
    <2>2. CASE i = c + 1
      <3>1. Off(q2[Nth(g, i)]) = at
        BY <1>2, <1>4, <2>2
      <3>2. StageOf(mem2, wr \cup {at}, hd, at) = "acquired"
        BY DEF StageOf
      <3>3. ~(i <= c)
        BY <1>3, <2>2
      <3> QED BY <1>2, <1>5, <3>1, <3>2, <3>3 DEF QueueItem
    <2> QED BY <1>3, <2>1, <2>2
  <1>11. s2 = Append(s, one)
    BY <1>8, <1>9, <1>10
  <1> QED BY <1>1, <1>5, <1>11 DEF AppendedNew

\* A step of the queue, between its contents before and after.
QueueMoves(s, t) ==
    \/ \E len \in ItemLengths : t = Append(s, [len |-> len, stage |-> "acquired"])
    \/ \E i \in DOMAIN s : s[i].stage = "acquired" /\ t = [s EXCEPT ![i].stage = "written"]
    \/ \E i \in DOMAIN s :
        /\ s[i].stage = "written"
        /\ \A j \in 1 .. i - 1 : s[j].stage \in {"taken", "returned"}
        /\ t = [s EXCEPT ![i].stage = "taken"]
    \/ \E i \in DOMAIN s :
        s[i].stage = "taken" /\ t = Queue!Reclaimed([s EXCEPT ![i].stage = "returned"])

\* What every step of the ring shows
GoesOn(n, q, f) ==
    /\ storage' \in Memories /\ ring' \in RingRecords /\ junk' \subseteq Flags
    /\ \E n2, q2, f2, w2, r2 :
        /\ Shape(n2, q2, f2, w2, r2, storage', ring', writing', held')
        /\ QueueMoves(ItemsOf(n, q, f, storage, writing, held),
                  ItemsOf(n2, q2, f2, storage', writing', held'))

LEMMA RingAcquireStep ==
    ASSUME NEW n, NEW q, NEW f, NEW w, NEW r, Shape(n, q, f, w, r, storage, ring, writing, held),
           storage \in Memories, ring \in RingRecords, junk \subseteq Flags,
           NEW len \in ItemLengths, RingAcquire(len)
    PROVE  GoesOn(n, q, f)
  <1>1. PICK mem, rg, over, wr, hd : /\ mem = storage /\ rg = ring /\ over = Junk
                                     /\ wr = writing /\ hd = held
    OBVIOUS
  <1>2. PICK mem2, rg2 : mem2 = storage' /\ rg2 = ring'
    OBVIOUS
  <1>3. PICK wraps, at, end :
           /\ wraps = (RingUnits - rg.acquire < StoredSize(len))
           /\ at = IF wraps THEN 0 ELSE rg.acquire
           /\ end = Wrap(at + StoredSize(len))
    OBVIOUS
  <1>4. /\ len \in Nat /\ len <= MaxItemSize /\ Fits(len, rg) /\ wraps \in BOOLEAN
        /\ wraps <=> RingUnits - rg.acquire < StoredSize(len)
    <2>1. len \in Nat
      BY RingAssumption
    <2>2. len <= MaxItemSize /\ ItemFits(len)
      BY DEF RingAcquire
    <2>3. Fits(len, rg)
      BY <1>1, <2>2 DEF ItemFits, Fits
    <2>4. (RingUnits - rg.acquire < StoredSize(len)) \in BOOLEAN
      OBVIOUS
    <2>5. wraps \in BOOLEAN
      BY <1>3, <2>4
    <2>6. wraps <=> RingUnits - rg.acquire < StoredSize(len)
      BY <1>3
    <2> QED BY <2>1, <2>2, <2>3, <2>5, <2>6
  <1>5. /\ mem2 = AcquiredMem(mem, rg, len, wraps, at, over)
        /\ rg2 = [rg EXCEPT !.acquire = end, !.full = @ \/ end = rg.free]
        /\ writing' = wr \cup {at} /\ held' = hd /\ junk' = junk
    <2>1. /\ storage' = [o \in Offsets |->
                IF o = at THEN [len |-> len, flags |-> {}]
                ELSE IF o \in at .. at + StoredSize(len) - 1 THEN Junk
                ELSE IF wraps /\ o = ring.acquire THEN [len |-> 0, flags |-> {"DUMMY"}]
                ELSE storage[o]]
          /\ ring' = [ring EXCEPT !.acquire = end, !.full = @ \/ end = ring.free]
          /\ writing' = writing \cup {at} /\ held' = held /\ junk' = junk
      BY <1>1, <1>3 DEF RingAcquire
    <2> QED BY <1>1, <1>2, <2>1 DEF AcquiredMem
  <1>6. Laid(n, q, f, mem, rg) /\ Placed(n, q, f, w, r, mem, rg, wr, hd) /\ mem \in Memories
          /\ rg \in RingRecords
    BY <1>1 DEF Shape
  <1>7. PICK a, z \in Nat : Room(a, z, len, wraps, at, end, n, q, f, rg)
    BY <1>3, <1>4, <1>6, AcquireRoom, ZenonT(40)
  <1>8. StoredSize(len) = len + 2 /\ RingUnits \in Nat /\ RingUnits >= 8
          /\ 2 * StoredSize(len) <= RingUnits + 1
    BY <1>4, HalfOfIt
  <1>9. at \in Offsets /\ end \in Offsets /\ rg.acquire \in Offsets
    BY <1>6, <1>7, <1>8 DEF Offsets, RingRecords, Room
  <1>10. ASSUME wraps PROVE rg.acquire \notin at .. at + StoredSize(len) - 1
    BY <1>3, <1>4, <1>8, <1>9, <1>10 DEF Offsets
  <1>11. Acquired(len, wraps, at, end, a, z, n, q, f, mem, rg, mem2, rg2)
    <2>1. mem2[at] = [len |-> len, flags |-> {}]
      BY <1>5, <1>9 DEF AcquiredMem
    <2>2. \A o \in Offsets : o \notin at .. at + StoredSize(len) - 1 /\ ~(wraps /\ o = rg.acquire)
            => mem2[o] = mem[o]
      <3>1. at \in at .. at + StoredSize(len) - 1
        BY <1>4, <1>7, <1>8 DEF Room
      <3> QED BY <1>5, <3>1 DEF AcquiredMem
    <2>3. wraps => mem2[rg.acquire] = [len |-> 0, flags |-> {"DUMMY"}]
      <3>1. at \in at .. at + StoredSize(len) - 1
        BY <1>4, <1>7, <1>8 DEF Room
      <3> QED BY <1>5, <1>9, <1>10, <3>1 DEF AcquiredMem
    <2>4. StoredSize(len) \in Nat /\ StoredSize(len) >= 2
      BY <1>4, <1>8
    <2> QED BY <1>3, <1>4, <1>5, <1>7, <2>1, <2>2, <2>3, <2>4 DEF Acquired, Room
  <1>12. mem2 \in Memories
    <2>1. over \in Headers
      BY <1>1, <1>8 DEF Junk, Headers
    <2>2. [len |-> len, flags |-> {}] \in Headers /\ [len |-> 0, flags |-> {"DUMMY"}] \in Headers
      BY <1>4, <1>8 DEF Headers, Flags
    <2> QED BY <1>5, <1>6, <2>1, <2>2 DEF AcquiredMem, Memories
  <1>13. rg2 \in RingRecords
    <2>1. (rg.full \/ end = rg.free) \in BOOLEAN
      BY <1>6 DEF RingRecords
    <2> QED BY <1>5, <1>6, <1>9, <2>1 DEF RingRecords
  <1>14. PICK m : m = IF wraps THEN n + 2 ELSE n + 1
    OBVIOUS
  <1>15. PICK q2 : q2 = [k \in 1 .. m + 1 |-> IF k <= n + 1 THEN q[k] ELSE IF k = m THEN a ELSE z]
    OBVIOUS
  <1>16. /\ q2 \in [1 .. m + 1 -> Nat] /\ \A k \in 1 .. n + 1 : q2[k] = q[k]
         /\ q2[m] = a /\ q2[m + 1] = z
    <2>1. n \in Nat /\ \A k \in 1 .. n + 1 : q[k] \in Nat
      BY <1>6, PlaceFacts
    <2>2. CASE wraps
      BY <1>14, <1>15, <2>1, <2>2
    <2>3. CASE ~wraps
      BY <1>7, <1>14, <1>15, <2>1, <2>3 DEF Room
    <2> QED BY <2>2, <2>3
  <1>17. PICK g : g = IF wraps THEN n + 1 ELSE f
    OBVIOUS
  <1>18. Extended(wraps, a, z, n, q, f, m, q2, g)
    BY <1>14, <1>16, <1>17 DEF Extended
  <1>19. Shape(m, q2, g, w, r, mem2, rg2, wr \cup {at}, hd)
    <2>1. Laid(m, q2, g, mem2, rg2)
      BY <1>6, <1>11, <1>18, AcquiredLaid
    <2>2. Placed(m, q2, g, w, r, mem2, rg2, wr \cup {at}, hd)
      BY <1>6, <1>11, <1>18, AcquiredPlaced
    <2> QED BY <2>1, <2>2 DEF Shape
  <1>20. at \notin hd
    <2> SUFFICES ASSUME at \in hd PROVE FALSE
      OBVIOUS
    <2>1. PICK k \in 1 .. n : at = Off(q[k])
      BY <1>6 DEF Placed
    <2> QED BY <1>6, <1>11, <2>1, KeptByAcquire
  <1>21. ItemsOf(m, q2, g, mem2, wr \cup {at}, hd)
          = Append(ItemsOf(n, q, f, mem, wr, hd), [len |-> len, stage |-> "acquired"])
    <2>1. PICK s : s = ItemsOf(n, q, f, mem, wr, hd)
      OBVIOUS
    <2>2. ItemsOf(m, q2, g, mem2, wr \cup {at}, hd) = AppendedNew(s, len)
      BY <1>6, <1>11, <1>20, <1>18, <2>1, AcquiredItems
    <2> QED BY <2>1, <2>2 DEF AppendedNew
  <1>22. QueueMoves(ItemsOf(n, q, f, mem, wr, hd), ItemsOf(m, q2, g, mem2, wr \cup {at}, hd))
    BY <1>21 DEF QueueMoves
  <1> QED BY <1>1, <1>2, <1>5, <1>12, <1>13, <1>19, <1>22 DEF GoesOn
-----------------------------------------------------------------------------
(* The loops of complete() and return_item() *)

Marks == {"WRITTEN", "FREE"}

MarkedAs(mem2, mem, offs, flag) == mem2 = Marked(mem, offs, flag)

LEMMA MarkedHeader ==
    ASSUME NEW mem \in Memories, NEW offs, NEW flag \in Marks,
           NEW mem2, MarkedAs(mem2, mem, offs, flag), NEW o \in Offsets
    PROVE  /\ mem2[o] \in Headers
           /\ mem2[o].flags = mem[o].flags \cup IF o \in offs THEN {flag} ELSE {}
           /\ Behind(mem2, o) = Behind(mem, o)
           /\ "DUMMY" \in mem2[o].flags <=> "DUMMY" \in mem[o].flags
  <1>1. mem2[o] = IF o \in offs THEN [mem[o] EXCEPT !.flags = @ \cup {flag}] ELSE mem[o]
    BY DEF Marked, MarkedAs
  <1>2. /\ mem[o] \in [len : 0 .. RingUnits, flags : SUBSET Flags]
        /\ mem[o].flags \cup {flag} \in SUBSET Flags
    BY DEF Memories, Headers, Flags, Marks
  <1>3. /\ mem2[o] \in Headers /\ mem2[o].len = mem[o].len
        /\ mem2[o].flags = mem[o].flags \cup IF o \in offs THEN {flag} ELSE {}
    BY <1>1, <1>2 DEF Headers
  <1>4. "DUMMY" \in mem2[o].flags <=> "DUMMY" \in mem[o].flags
    <2>1. flag # "DUMMY"
      BY DEF Marks
    <2> QED BY <1>3, <2>1
  <1>5. Behind(mem2, o) = Behind(mem, o)
    BY <1>3, <1>4 DEF Behind
  <1> QED BY <1>3, <1>4, <1>5

LEMMA MarkedLen ==
    ASSUME NEW mem \in Memories, NEW offs, NEW flag \in Marks,
           NEW mem2, MarkedAs(mem2, mem, offs, flag), NEW o \in Offsets
    PROVE  mem2[o].len = mem[o].len
  <1>1. mem2[o] = IF o \in offs THEN [mem[o] EXCEPT !.flags = @ \cup {flag}] ELSE mem[o]
    BY DEF Marked, MarkedAs
  <1>2. mem[o] \in [len : 0 .. RingUnits, flags : SUBSET Flags]
    BY DEF Memories, Headers
  <1> QED BY <1>1, <1>2

LEMMA MarkedTyped ==
    ASSUME NEW mem \in Memories, NEW offs, NEW flag \in Marks,
           NEW mem2, MarkedAs(mem2, mem, offs, flag)
    PROVE  mem2 \in Memories
  <1>1. \A o \in Offsets : mem2[o] \in Headers
    BY MarkedHeader
  <1> QED BY <1>1 DEF Marked, MarkedAs, Memories

LEMMA MarkedLaid ==
    ASSUME NEW mem \in Memories, NEW rg \in RingRecords, NEW n, NEW q, NEW f, Laid(n, q, f, mem, rg),
           NEW offs, NEW flag \in Marks, NEW mem2, MarkedAs(mem2, mem, offs, flag)
    PROVE  Laid(n, q, f, mem2, rg)
  <1>1. \A k \in 1 .. n : Off(q[k]) \in Offsets
    BY PlaceFacts
  <1>2. \A k \in 1 .. n : /\ Behind(mem2, Off(q[k])) = Behind(mem, Off(q[k]))
                          /\ "DUMMY" \in mem2[Off(q[k])].flags <=> "DUMMY" \in mem[Off(q[k])].flags
    <2>1. \A o \in Offsets : /\ Behind(mem2, o) = Behind(mem, o)
                             /\ "DUMMY" \in mem2[o].flags <=> "DUMMY" \in mem[o].flags
      BY MarkedHeader
    <2> QED BY <1>1, <2>1
  <1>3. \A k \in 1 .. n : k # f => Off(q[k]) + StoredSize(mem2[Off(q[k])].len) <= RingUnits
    <2> TAKE k \in 1 .. n
    <2> HAVE k # f
    <2>1. PICK o \in Offsets : o = Off(q[k])
      BY <1>1
    <2>2. o + StoredSize(mem[o].len) <= RingUnits
      BY <2>1 DEF Laid
    <2>3. mem2[o].len = mem[o].len
      BY MarkedLen
    <2> QED BY <2>1, <2>2, <2>3
  <1>4. Laid(n, q, f, mem2, rg)
    BY <1>2, <1>3 DEF Laid
  <1> QED BY <1>4

LoopRun(over, i, e, q, mem, passes) == over = Run(mem, Off(q[i]), passes, Off(q[e]))

\* The loop has passed the headers from the i-th to before the v-th.
PassedTo(v, over, i, e, q, mem, passes) ==
    /\ \A k \in i .. v - 1 : Off(q[k]) \in passes
    /\ v = e \/ Off(q[v]) \notin passes
    /\ Range(over) = {Off(q[k]) : k \in i .. v - 1}
    /\ EndOf(mem, over, Off(q[i])) = Off(q[v])
    /\ over = <<>> <=> v = i

\* A loop from the i-th header up to the e-th stops at the first that it does not pass.
LEMMA LoopOver ==
    ASSUME NEW mem \in Memories, NEW rg \in RingRecords, NEW n, NEW q, NEW f, Laid(n, q, f, mem, rg),
           NEW e \in 1 .. n + 1, NEW i \in 1 .. n, i < e, NEW passes,
           NEW over, LoopRun(over, i, e, q, mem, passes)
    PROVE  \E v \in i .. e : PassedTo(v, over, i, e, q, mem, passes)
  <1>1. n \in Nat /\ n <= RingUnits /\ RingUnits \in Nat /\ e \in Nat /\ i \in Nat
    BY PlaceFacts
  <1>2. PICK v \in i .. e : /\ \A k \in i .. v - 1 : Off(q[k]) \in passes
                            /\ v = e \/ Off(q[v]) \notin passes
    <2> DEFINE Stops == {k \in i .. e : k = e \/ Off(q[k]) \notin passes}
    <2>1. Stops \subseteq Nat /\ e \in Stops
      BY <1>1
    <2>2. PICK v \in Stops : \A k \in Stops : v <= k
      <3> HIDE DEF Stops
      <3> QED BY <2>1, LeastOf
    <2>3. \A k \in i .. v - 1 : Off(q[k]) \in passes
      <3> SUFFICES ASSUME NEW k \in i .. v - 1, Off(q[k]) \notin passes PROVE FALSE
        OBVIOUS
      <3>1. k \in i .. e /\ ~(v <= k)
        BY <1>1
      <3> QED BY <2>2, <3>1
    <2> QED BY <2>2, <2>3
  <1> DEFINE at == [k \in 0 .. v - i |-> Off(q[i + k])]
  <1>3. \A k \in 0 .. v - i : at[k] = Off(q[i + k]) /\ i + k \in 1 .. n + 1
    BY <1>1
  <1>4. v - i \in 0 .. RingUnits /\ v - i \in Nat /\ at \in [0 .. v - i -> Offsets]
    <2>1. \A k \in 0 .. v - i : Off(q[i + k]) \in Offsets
      BY <1>3, PlaceFacts
    <2> QED BY <1>1, <2>1
  <1> HIDE DEF at
  <1>5. ASSUME NEW k \in 0 .. v - i - 1
        PROVE  at[k] \in passes /\ Behind(mem, at[k]) = at[k + 1]
    <2>1. /\ k \in 0 .. v - i /\ k + 1 \in 0 .. v - i /\ i + k \in i .. v - 1 /\ i + k \in 1 .. n
          /\ i + (k + 1) = i + k + 1
      BY <1>1
    <2>2. at[k] = Off(q[i + k]) /\ at[k + 1] = Off(q[i + k + 1])
      BY <1>3, <2>1
    <2>3. Behind(mem, Off(q[i + k])) = Off(q[i + k + 1])
      BY <2>1 DEF Laid
    <2> QED BY <1>2, <2>1, <2>2, <2>3
  <1>6. ASSUME NEW k \in 1 .. v - i - 1 PROVE at[k] # Off(q[e])
    <2>1. k \in 0 .. v - i /\ i + k \in 1 .. n + 1 /\ i + k # 1 /\ i + k # e /\ i + k # n + 1
      BY <1>1
    <2>2. Off(q[i + k]) # Off(q[e])
      BY <2>1, Apart
    <2> QED BY <1>3, <2>1, <2>2
  <1>7. at[v - i] = Off(q[v]) /\ at[0] = Off(q[i])
    <2>1. i + (v - i) = v /\ i + 0 = i /\ v - i \in 0 .. v - i /\ 0 \in 0 .. v - i
      BY <1>1
    <2> QED BY <1>3, <2>1
  <1>8. Comes(at, v - i, mem, passes, Off(q[e]))
    <2>1. at[v - i] \notin passes \/ (v - i > 0 /\ at[v - i] = Off(q[e]))
      BY <1>1, <1>2, <1>7
    <2> QED BY <1>4, <1>5, <1>6, <2>1 DEF Comes
  <1>9. over = [k \in 1 .. v - i |-> at[k - 1]] /\ EndOf(mem, over, Off(q[i])) = Off(q[v])
    BY <1>7, <1>8, RunIs DEF LoopRun
  <1>10. over = <<>> <=> v = i
    <2>1. over \in [1 .. v - i -> Offsets]
      <3>1. \A k \in 1 .. v - i : at[k - 1] \in Offsets
        <4> TAKE k \in 1 .. v - i
        <4>1. k - 1 \in 0 .. v - i
          BY <1>1
        <4> QED BY <1>4, <4>1
      <3> QED BY <1>9, <3>1
    <2>2. Len(over) = v - i /\ over \in Seq(Offsets)
      BY <1>4, <2>1, Listed
    <2>3. over = <<>> <=> Len(over) = 0
      BY <2>2
    <2> QED BY <1>1, <2>2, <2>3
  <1>11. Range(over) = {Off(q[k]) : k \in i .. v - 1}
    <2>1. DOMAIN over = 1 .. v - i
      BY <1>9
    <2>2. \A k \in 1 .. v - i : over[k] = Off(q[i + k - 1]) /\ i + k - 1 \in i .. v - 1
      <3> TAKE k \in 1 .. v - i
      <3>1. k - 1 \in 0 .. v - i /\ i + (k - 1) = i + k - 1 /\ i + k - 1 \in i .. v - 1
        BY <1>1
      <3> QED BY <1>3, <1>9, <3>1
    <2>3. \A k \in i .. v - 1 : k - i + 1 \in 1 .. v - i /\ i + (k - i + 1) - 1 = k
      BY <1>1
    <2>4. ASSUME NEW k \in 1 .. v - i PROVE over[k] \in {Off(q[j]) : j \in i .. v - 1}
      BY <2>2
    <2>5. ASSUME NEW k \in i .. v - 1 PROVE \E j \in 1 .. v - i : over[j] = Off(q[k])
      BY <2>2, <2>3
    <2>6. Range(over) = {over[k] : k \in 1 .. v - i}
      BY <2>1 DEF Range
    <2> QED BY <2>4, <2>5, <2>6
  <1> QED BY <1>2, <1>9, <1>10, <1>11 DEF PassedTo
-----------------------------------------------------------------------------
(* complete() *)

\* What complete() has done: the item is marked, and the fillers of the run that the loop passes.
CompletedTo(o, mem, rg, wr, mid, over, mem2, rg2, wr2) ==
    /\ o \in wr
    /\ MarkedAs(mid, mem, {o}, "WRITTEN")
    /\ over = Run(mid, rg.write, Flagged(mid, {"WRITTEN", "DUMMY"}), rg.acquire)
    /\ MarkedAs(mem2, mid, Fillers(mid, Range(over)), "WRITTEN")
    /\ rg2 = [rg EXCEPT !.write = EndOf(mid, over, rg.write), !.waiting = @ + 1]
    /\ wr2 = wr \ {o}

LEMMA CompletedShape ==
    ASSUME NEW mem \in Memories, NEW rg \in RingRecords, NEW n, NEW q, NEW f, NEW w, NEW r,
           NEW wr, NEW hd, Shape(n, q, f, w, r, mem, rg, wr, hd),
           NEW o, NEW mid, NEW over, NEW mem2, NEW rg2, NEW wr2,
           CompletedTo(o, mem, rg, wr, mid, over, mem2, rg2, wr2)
    PROVE  \E w2 : Shape(n, q, f, w2, r, mem2, rg2, wr2, hd)
  <1>1. Laid(n, q, f, mem, rg) /\ Placed(n, q, f, w, r, mem, rg, wr, hd)
    BY DEF Shape
  <1>2. n \in Nat /\ f \in 0 .. n /\ RingUnits \in Nat
        /\ (f # 0 => f < n)
        /\ (\A k \in 1 .. n : "DUMMY" \in mem[Off(q[k])].flags <=> k = f)
    BY <1>1, RingAssumption DEF Laid
  <1>3. /\ w \in 1 .. n + 1 /\ r \in 1 .. w
        /\ rg.write = Off(q[w]) /\ rg.read = Off(q[r])
        /\ f # 0 => r # f + 1
        /\ \A k \in 1 .. n : k # f => Staged(k, w, r, Off(q[k]), mem, wr, hd)
        /\ w <= n => IF w = f THEN Off(q[f + 1]) \in wr ELSE Off(q[w]) \in wr
        /\ \A u \in wr \cup hd : \E k \in 1 .. n : k # f /\ u = Off(q[k])
        /\ rg.waiting = Cardinality(Waiting(n, q, f, r, mem))
    BY <1>1 DEF Placed
  <1>4. o \in wr /\ wr2 = wr \ {o}
    BY DEF CompletedTo
  <1>5. PICK x \in 1 .. n : x # f /\ o = Off(q[x])
    BY <1>3, <1>4
  <1>6. w <= x
    <2>1. x < w => o \notin wr
      BY <1>3, <1>5 DEF Staged
    <2> QED BY <1>2, <1>3, <1>4, <2>1
  <1>7. \A k \in 1 .. n : Off(q[k]) \in Offsets /\ (Off(q[k]) = o => k = x)
    BY <1>1, <1>5, OneThere, PlaceFacts
  <1>8. o \in Offsets
    BY <1>5, <1>7
  <1>9. /\ mid \in Memories
        /\ \A u \in Offsets : /\ mid[u].flags = mem[u].flags \cup IF u = o THEN {"WRITTEN"} ELSE {}
                              /\ "DUMMY" \in mid[u].flags <=> "DUMMY" \in mem[u].flags
        /\ Laid(n, q, f, mid, rg)
    <2>1. MarkedAs(mid, mem, {o}, "WRITTEN") /\ "WRITTEN" \in Marks
      BY DEF CompletedTo, Marks
    <2>2. \A u \in Offsets : /\ mid[u].flags = mem[u].flags \cup IF u \in {o} THEN {"WRITTEN"} ELSE {}
                             /\ "DUMMY" \in mid[u].flags <=> "DUMMY" \in mem[u].flags
      BY <2>1, MarkedHeader
    <2> QED BY <1>1, <2>1, <2>2, MarkedTyped, MarkedLaid
  <1> DEFINE passes == Flagged(mid, {"WRITTEN", "DUMMY"})
  <1>10. \A k \in 1 .. n : /\ Off(q[k]) \in passes <=> k = f \/ "WRITTEN" \in mid[Off(q[k])].flags
                           /\ "DUMMY" \in mid[Off(q[k])].flags <=> k = f
    <2> TAKE k \in 1 .. n
    <2>1. PICK u \in Offsets : u = Off(q[k])
      BY <1>7
    <2>2. u \in passes <=> "WRITTEN" \in mid[u].flags \/ "DUMMY" \in mid[u].flags
      BY DEF Flagged
    <2>3. "DUMMY" \in mid[u].flags <=> k = f
      BY <1>2, <1>9, <2>1
    <2> HIDE DEF passes
    <2> QED BY <2>1, <2>2, <2>3
  <1>11. LoopRun(over, w, n + 1, q, mid, passes)
    BY <1>1, <1>3 DEF CompletedTo, Laid, LoopRun
  <1> HIDE DEF passes
  <1>12. PICK v \in w .. n + 1 : PassedTo(v, over, w, n + 1, q, mid, passes)
    <2>1. w \in 1 .. n /\ n + 1 \in 1 .. n + 1 /\ w < n + 1
      BY <1>2, <1>3, <1>6
    <2> QED BY <1>9, <1>11, <2>1, LoopOver
  <1>13. /\ \A k \in w .. v - 1 : Off(q[k]) \in passes
         /\ v = n + 1 \/ Off(q[v]) \notin passes
         /\ EndOf(mid, over, Off(q[w])) = Off(q[v])
    BY <1>12 DEF PassedTo
  <1>14. /\ mem2 \in Memories /\ Laid(n, q, f, mem2, rg)
         /\ \A k \in 1 .. n : k # f => mem2[Off(q[k])].flags = mid[Off(q[k])].flags
    <2>1. MarkedAs(mem2, mid, Fillers(mid, Range(over)), "WRITTEN") /\ "WRITTEN" \in Marks
      BY DEF CompletedTo, Marks
    <2>2. ASSUME NEW k \in 1 .. n, k # f
          PROVE  mem2[Off(q[k])].flags = mid[Off(q[k])].flags
      <3>1. Off(q[k]) \in Offsets /\ Off(q[k]) \notin Fillers(mid, Range(over))
        BY <1>7, <1>10, <2>2 DEF Fillers
      <3>2. PICK u \in Offsets : u = Off(q[k])
        BY <3>1
      <3>3. mem2[u].flags = mid[u].flags \cup IF u \in Fillers(mid, Range(over)) THEN {"WRITTEN"} ELSE {}
        BY <1>9, <2>1, MarkedHeader
      <3> QED BY <3>1, <3>2, <3>3
    <2> QED BY <1>9, <2>1, <2>2, MarkedTyped, MarkedLaid
  <1>15. /\ rg2.acquire = rg.acquire /\ rg2.free = rg.free /\ rg2.full = rg.full /\ rg2.read = rg.read
         /\ rg2.write = Off(q[v]) /\ rg2.waiting = rg.waiting + 1
    <2>1. rg2 = [rg EXCEPT !.write = EndOf(mid, over, rg.write), !.waiting = @ + 1]
      BY DEF CompletedTo
    <2> QED BY <1>3, <1>13, <2>1 DEF RingRecords
  <1>16. Laid(n, q, f, mem2, rg2)
    BY <1>14, <1>15 DEF Laid
  <1>17. \A k \in 1 .. n : k # f =>
           mem2[Off(q[k])].flags = mem[Off(q[k])].flags \cup IF k = x THEN {"WRITTEN"} ELSE {}
    <2> TAKE k \in 1 .. n
    <2> HAVE k # f
    <2>1. Off(q[k]) \in Offsets /\ (Off(q[k]) = o <=> k = x)
      BY <1>5, <1>7
    <2>2. mid[Off(q[k])].flags = mem[Off(q[k])].flags \cup IF k = x THEN {"WRITTEN"} ELSE {}
      BY <1>9, <2>1
    <2> QED BY <1>14, <2>2
  <1>18. v \in 1 .. n + 1 /\ r \in 1 .. v
    BY <1>2, <1>3
  <1>19. ASSUME NEW k \in 1 .. n, k # f
         PROVE  Staged(k, v, r, Off(q[k]), mem2, wr2, hd)
    <2>1. Staged(k, w, r, Off(q[k]), mem, wr, hd)
      BY <1>3, <1>19
    <2>2. /\ "WRITTEN" \in mem2[Off(q[k])].flags <=> k = x \/ "WRITTEN" \in mem[Off(q[k])].flags
          /\ "FREE" \in mem2[Off(q[k])].flags <=> "FREE" \in mem[Off(q[k])].flags
          /\ Off(q[k]) = o <=> k = x
      BY <1>5, <1>7, <1>17, <1>19
    <2>3. Off(q[k]) \in wr2 <=> "WRITTEN" \notin mem2[Off(q[k])].flags
      BY <1>4, <2>1, <2>2 DEF Staged
    <2>4. k < v => Off(q[k]) \notin wr2
      <3>1. CASE k < w
        BY <1>4, <2>1, <3>1 DEF Staged
      <3>2. CASE ~(k < w)
        <4> HAVE k < v
        <4>1. k \in w .. v - 1
          BY <1>2, <1>3, <3>2
        <4>2. "WRITTEN" \in mid[Off(q[k])].flags
          BY <1>10, <1>13, <1>19, <4>1
        <4> QED BY <1>14, <1>19, <2>3, <4>2
      <3> QED BY <3>1, <3>2
    <2> QED BY <2>1, <2>2, <2>3, <2>4 DEF Staged
  <1>20. v <= n => IF v = f THEN Off(q[f + 1]) \in wr2 ELSE Off(q[v]) \in wr2
    <2> HAVE v <= n
    <2>1. v \in 1 .. n /\ v # n + 1
      BY <1>2, <1>3
    <2>2. v # f /\ "WRITTEN" \notin mid[Off(q[v])].flags
      BY <1>10, <1>13, <2>1
    <2>3. "WRITTEN" \notin mem2[Off(q[v])].flags
      BY <1>14, <2>1, <2>2
    <2> QED BY <1>19, <2>1, <2>2, <2>3 DEF Staged
  <1>21. \A u \in wr2 \cup hd : \E k \in 1 .. n : k # f /\ u = Off(q[k])
    BY <1>3, <1>4
  <1>22. rg2.waiting = Cardinality(Waiting(n, q, f, r, mem2))
    <2>1. x \in r .. n /\ "WRITTEN" \notin mem[o].flags
      <3>1. "WRITTEN" \notin mem[o].flags
        BY <1>3, <1>4, <1>5 DEF Staged
      <3> QED BY <1>2, <1>3, <1>5, <1>6, <3>1
    <2>2. o \notin Waiting(n, q, f, r, mem)
      BY <2>1 DEF Waiting
    <2>3. Waiting(n, q, f, r, mem2) = Waiting(n, q, f, r, mem) \cup {o}
      <3>1. \A k \in r .. n : k # f => ("WRITTEN" \in mem2[Off(q[k])].flags
                                          <=> k = x \/ "WRITTEN" \in mem[Off(q[k])].flags)
        <4> TAKE k \in r .. n
        <4>1. k \in 1 .. n
          BY <1>2, <1>3
        <4> QED BY <1>17, <4>1
      <3>2. ASSUME NEW u PROVE u \in Waiting(n, q, f, r, mem2) <=> u \in Waiting(n, q, f, r, mem) \/ u = o
        BY <1>5, <1>8, <2>1, <3>1 DEF Waiting
      <3> QED BY <3>2
    <2>4. IsFiniteSet(Waiting(n, q, f, r, mem))
      <3>1. IsFiniteSet(Offsets)
        BY <1>2, FS_Interval DEF Offsets
      <3>2. Waiting(n, q, f, r, mem) \subseteq Offsets
        BY DEF Waiting
      <3> QED BY <3>1, <3>2, FS_Subset
    <2>5. Cardinality(Waiting(n, q, f, r, mem) \cup {o}) = Cardinality(Waiting(n, q, f, r, mem)) + 1
      BY <2>2, <2>4, FS_AddElement
    <2> QED BY <1>3, <1>15, <2>3, <2>5
  <1>23. Placed(n, q, f, v, r, mem2, rg2, wr2, hd)
    BY <1>3, <1>15, <1>18, <1>19, <1>20, <1>21, <1>22 DEF Placed
  <1> QED BY <1>16, <1>23 DEF Shape
-----------------------------------------------------------------------------
\* The headers keep their places and lengths, and only that at the x-th gets another stage.
Restaged(x, st, n, q, f, mem, wr, hd, mem2, wr2, hd2) ==
    /\ \A o \in Offsets : mem2[o].len = mem[o].len
    /\ \A k \in 1 .. n : k # f =>
         StageOf(mem2, wr2, hd2, Off(q[k])) = IF k = x THEN st ELSE StageOf(mem, wr, hd, Off(q[k]))

OneStage(s, i, st) == [s EXCEPT ![i].stage = st]

LEMMA RestagedItems ==
    ASSUME NEW mem \in Memories, NEW rg \in RingRecords, NEW n, NEW q, NEW f, Laid(n, q, f, mem, rg),
           NEW wr, NEW hd, NEW mem2 \in Memories, NEW wr2, NEW hd2,
           NEW i \in 1 .. Count(n, f), NEW st \in Queue!Stages,
           Restaged(Nth(f, i), st, n, q, f, mem, wr, hd, mem2, wr2, hd2),
           NEW s, s = ItemsOf(n, q, f, mem, wr, hd)
    PROVE  ItemsOf(n, q, f, mem2, wr2, hd2) = OneStage(s, i, st)
  <1>1. PICK c : c = Count(n, f)
    OBVIOUS
  <1>2. n \in Nat /\ f \in 0 .. n
    BY DEF Laid
  <1>3. /\ c \in Nat
        /\ \A j \in 1 .. c : Nth(f, j) \in 1 .. n /\ Nth(f, j) # f /\ (Nth(f, j) = Nth(f, i) <=> j = i)
    <2>1. i \in 1 .. c
      BY <1>1
    <2>2. c \in Nat /\ \A j \in 1 .. c : Nth(f, j) \in 1 .. n /\ Nth(f, j) # f
      BY <1>1, <1>2, NthFacts
    <2>3. \A j \in 1 .. c : Nth(f, j) = Nth(f, i) => j = i
      BY <1>1, <1>2, <2>1, NthFacts
    <2> QED BY <2>2, <2>3
  <1>4. s \in [1 .. c -> QueueItems] /\ \A j \in 1 .. c : s[j] = QueueItem(mem, wr, hd, Off(q[Nth(f, j)]))
    BY <1>1, ItemsOfFacts
  <1>5. \A j \in 1 .. c : Off(q[Nth(f, j)]) \in Offsets
    <2> TAKE j \in 1 .. c
    <2>1. Nth(f, j) \in 1 .. n + 1
      BY <1>3, PlaceFacts
    <2> QED BY <2>1, PlaceFacts
  <1>6. ItemsOf(n, q, f, mem2, wr2, hd2) = [j \in 1 .. c |-> QueueItem(mem2, wr2, hd2, Off(q[Nth(f, j)]))]
    BY <1>1 DEF ItemsOf
  <1>7. ASSUME NEW j \in 1 .. c
        PROVE  QueueItem(mem2, wr2, hd2, Off(q[Nth(f,
                j)])) = IF j = i THEN [s[j] EXCEPT !.stage = st] ELSE s[j]
    <2>1. PICK k, o : k = Nth(f, j) /\ o = Off(q[k])
      OBVIOUS
    <2>2. k \in 1 .. n /\ k # f /\ o \in Offsets /\ (k = Nth(f, i) <=> j = i)
      BY <1>3, <1>5, <2>1
    <2>3. mem2[o].len = mem[o].len
      BY <2>2 DEF Restaged
    <2>4. StageOf(mem2, wr2, hd2, o) = IF j = i THEN st ELSE StageOf(mem, wr, hd, o)
      BY <2>1, <2>2 DEF Restaged
    <2>5. s[j] = [len |-> mem[o].len, stage |-> StageOf(mem, wr, hd, o)]
      BY <1>4, <2>1 DEF QueueItem
    <2>6. QueueItem(mem2, wr2, hd2, o)
            = [len |-> mem[o].len, stage |-> IF j = i THEN st ELSE StageOf(mem, wr, hd, o)]
      BY <2>3, <2>4 DEF QueueItem
    <2> QED BY <2>1, <2>5, <2>6
  <1>8. [s EXCEPT ![i].stage = st] = [j \in 1 .. c |-> IF j = i THEN [s[j] EXCEPT !.stage = st] ELSE s[j]]
    BY <1>4
  <1> QED BY <1>6, <1>7, <1>8 DEF OneStage

LEMMA CompletedStages ==
    ASSUME NEW mem \in Memories, NEW rg \in RingRecords, NEW n, NEW q, NEW f, NEW w, NEW r,
           NEW wr, NEW hd, Shape(n, q, f, w, r, mem, rg, wr, hd),
           NEW o, NEW mid, NEW over, NEW mem2, NEW rg2, NEW wr2,
           CompletedTo(o, mem, rg, wr, mid, over, mem2, rg2, wr2),
           NEW x \in 1 .. n, x # f, o = Off(q[x])
    PROVE  mem2 \in Memories /\ Restaged(x, "written", n, q, f, mem, wr, hd, mem2, wr2, hd)
  <1>1. Laid(n, q, f, mem, rg) /\ Placed(n, q, f, w, r, mem, rg, wr, hd)
    BY DEF Shape
  <1>2. /\ n \in Nat /\ w \in 1 .. n + 1 /\ r \in 1 .. w
        /\ \A k \in 1 .. n : k # f => Staged(k, w, r, Off(q[k]), mem, wr, hd)
        /\ \A k \in 1 .. n : "DUMMY" \in mem[Off(q[k])].flags <=> k = f
    BY <1>1 DEF Laid, Placed
  <1>3. o \in wr /\ wr2 = wr \ {o}
    BY DEF CompletedTo
  <1>4. \A k \in 1 .. n : Off(q[k]) \in Offsets /\ (Off(q[k]) = o => k = x)
    BY <1>1, OneThere, PlaceFacts
  <1>5. MarkedAs(mid, mem, {o}, "WRITTEN") /\ MarkedAs(mem2, mid, Fillers(mid, Range(over)), "WRITTEN")
          /\ "WRITTEN" \in Marks
    BY DEF CompletedTo, Marks
  <1>6. mid \in Memories /\ mem2 \in Memories
    BY <1>5, MarkedTyped
  <1>7. ASSUME NEW u \in Offsets PROVE mem2[u].len = mem[u].len
    <2>1. mem2[u].len = mid[u].len
      BY <1>5, <1>6, MarkedLen
    <2>2. mid[u].len = mem[u].len
      BY <1>5, MarkedLen
    <2> QED BY <2>1, <2>2
  <1>8. ASSUME NEW k \in 1 .. n, k # f
        PROVE  "FREE" \in mem2[Off(q[k])].flags <=> "FREE" \in mem[Off(q[k])].flags
    <2>1. PICK u \in Offsets : u = Off(q[k])
      BY <1>4
    <2>2. mid[u].flags = mem[u].flags \cup IF u \in {o} THEN {"WRITTEN"} ELSE {}
      BY <1>5, MarkedHeader
    <2>3. mem2[u].flags = mid[u].flags \cup IF u \in Fillers(mid, Range(over)) THEN {"WRITTEN"} ELSE {}
      BY <1>5, <1>6, MarkedHeader
    <2> QED BY <2>1, <2>2, <2>3
  <1>9. ASSUME NEW k \in 1 .. n, k # f
        PROVE  StageOf(mem2, wr2, hd, Off(q[k])) = IF k = x THEN "written" ELSE StageOf(mem, wr,
                hd, Off(q[k]))
    <2>1. Off(q[k]) = o <=> k = x
      BY <1>4
    <2>2. CASE k = x
      <3>1. Staged(x, w, r, o, mem, wr, hd)
        BY <1>2
      <3>2. ~(x < w)
        BY <1>3, <3>1 DEF Staged
      <3>3. x >= r
        BY <1>2, <3>2
      <3>4. o \notin hd /\ "FREE" \notin mem[o].flags
        BY <3>1, <3>3 DEF Staged
      <3>5. o \notin wr2 /\ "FREE" \notin mem2[o].flags
        BY <1>3, <1>8, <3>4
      <3> QED BY <2>1, <2>2, <3>4, <3>5 DEF StageOf
    <2>3. CASE k # x
      <3>1. Off(q[k]) \in wr2 <=> Off(q[k]) \in wr
        BY <1>3, <2>1, <2>3
      <3> QED BY <1>8, <1>9, <2>3, <3>1 DEF StageOf
    <2> QED BY <2>2, <2>3
  <1> QED BY <1>6, <1>7, <1>9 DEF Restaged

\* What waits to be taken is among the items of the ring, which are fewer than its units.
LEMMA FewWait ==
    ASSUME NEW n, NEW q, NEW f, NEW r, NEW mem
    PROVE  /\ IsFiniteSet(Waiting(n, q, f, r, mem))
           /\ Cardinality(Waiting(n, q, f, r, mem)) \in 0 .. RingUnits
  <1>1. RingUnits \in Nat /\ RingUnits >= 8
    BY RingAssumption DEF ITEM_HEADER
  <1>2. IsFiniteSet(Offsets) /\ Cardinality(Offsets) = RingUnits
    BY <1>1, FS_Interval DEF Offsets
  <1>3. Waiting(n, q, f, r, mem) \subseteq Offsets
    BY DEF Waiting
  <1>4. IsFiniteSet(Waiting(n, q, f, r, mem)) /\ Cardinality(Waiting(n, q, f, r, mem)) <= RingUnits
    BY <1>2, <1>3, FS_Subset
  <1>5. Cardinality(Waiting(n, q, f, r, mem)) \in Nat
    BY <1>4, FS_CardinalityType
  <1> QED BY <1>1, <1>4, <1>5

LEMMA RingCompleteStep ==
    ASSUME NEW n, NEW q, NEW f, NEW w, NEW r, Shape(n, q, f, w, r, storage, ring, writing, held),
           storage \in Memories, ring \in RingRecords, junk \subseteq Flags,
           NEW o \in writing, RingComplete(o)
    PROVE  GoesOn(n, q, f)
  <1>1. PICK mem, rg, wr, hd, mem2, rg2, wr2 :
            /\ mem = storage /\ rg = ring /\ wr = writing /\ hd = held
            /\ mem2 = storage' /\ rg2 = ring' /\ wr2 = writing'
    OBVIOUS
  <1>2. PICK mid, over : mid = Marked(mem, {o}, "WRITTEN")
                         /\ over = Run(mid, rg.write, Flagged(mid, {"WRITTEN", "DUMMY"}), rg.acquire)
    OBVIOUS
  <1>3. held' = hd /\ junk' = junk
    BY <1>1 DEF RingComplete
  <1>4. CompletedTo(o, mem, rg, wr, mid, over, mem2, rg2, wr2)
    BY <1>1, <1>2 DEF RingComplete, CompletedRun, CompletedTo, MarkedAs
  <1>5. Shape(n, q, f, w, r, mem, rg, wr, hd) /\ mem \in Memories /\ rg \in RingRecords
    BY <1>1
  <1>6. PICK w2 : Shape(n, q, f, w2, r, mem2, rg2, wr2, hd)
    BY <1>4, <1>5, CompletedShape
  <1>7. Laid(n, q, f, mem, rg) /\ n \in Nat /\ f \in 0 .. n
    BY <1>5 DEF Shape, Laid
  <1>8. PICK x \in 1 .. n : x # f /\ o = Off(q[x])
    BY <1>1, <1>5 DEF Shape, Placed
  <1>9. PICK i \in 1 .. Count(n, f) : Nth(f, i) = x
    BY <1>7, <1>8, NthFacts
  <1>10. mem2 \in Memories /\ Restaged(x, "written", n, q, f, mem, wr, hd, mem2, wr2, hd)
    BY <1>4, <1>5, <1>8, CompletedStages
  <1>11. PICK s, t : s = ItemsOf(n, q, f, mem, wr, hd) /\ t = ItemsOf(n, q, f, mem2, wr2, hd)
    OBVIOUS
  <1>12. t = OneStage(s, i, "written")
    <2>1. "written" \in Queue!Stages
      BY DEF Queue!Stages
    <2> QED BY <1>5, <1>7, <1>9, <1>10, <1>11, <2>1, RestagedItems
  <1>13. DOMAIN s = 1 .. Count(n, f) /\ s[i].stage = "acquired"
    <2>1. s \in [1 .. Count(n, f) -> QueueItems] /\ s[i] = QueueItem(mem, wr, hd, Off(q[Nth(f, i)]))
      BY <1>5, <1>7, <1>11, ItemsOfFacts
    <2>2. s[i] = QueueItem(mem, wr, hd, o)
      BY <1>8, <1>9, <2>1
    <2> QED BY <1>1, <2>1, <2>2 DEF QueueItem, StageOf
  <1>14. QueueMoves(s, t)
    BY <1>12, <1>13 DEF OneStage, QueueMoves
  <1>15. rg2 \in RingRecords
    <2>1. rg2 = [rg EXCEPT !.write = EndOf(mid, over, rg.write), !.waiting = @ + 1]
      BY <1>4 DEF CompletedTo
    <2>2. /\ rg2.write = Off(q[w2]) /\ w2 \in 1 .. n + 1
          /\ rg2.waiting = Cardinality(Waiting(n, q, f, r, mem2))
      BY <1>6 DEF Shape, Placed
    <2>3. Off(q[w2]) \in Offsets
      BY <1>5, <1>7, <2>2, PlaceFacts
    <2>4. rg2.write \in Offsets /\ rg2.waiting \in 0 .. RingUnits
      BY <2>2, <2>3, FewWait
    <2>5. rg2.write = EndOf(mid, over, rg.write) /\ rg2.waiting = rg.waiting + 1
      BY <1>5, <2>1 DEF RingRecords
    <2> QED BY <1>5, <2>1, <2>4, <2>5 DEF RingRecords
  <1> QED BY <1>1, <1>3, <1>6, <1>10, <1>11, <1>14, <1>15 DEF GoesOn
-----------------------------------------------------------------------------
(* take() *)

\* The t-th header is that of the item take() finds.
NextItem(r, f) == IF r = f THEN r + 1 ELSE r

TakenTo(at, mem, rg, wr, hd, rg2, hd2) ==
    /\ rg.waiting # 0
    /\ at = IF "DUMMY" \in mem[rg.read].flags THEN 0 ELSE rg.read
    /\ "WRITTEN" \in mem[at].flags
    /\ hd2 = hd \cup {at}
    /\ rg2 = [rg EXCEPT !.read = Wrap(at + StoredSize(mem[at].len)), !.waiting = @ - 1]

LEMMA FoundItem ==
    ASSUME NEW mem \in Memories, NEW rg \in RingRecords, NEW n, NEW q, NEW f, NEW w, NEW r,
           NEW wr, NEW hd, Shape(n, q, f, w, r, mem, rg, wr, hd), rg.waiting # 0,
           NEW at, at = IF "DUMMY" \in mem[rg.read].flags THEN 0 ELSE rg.read, NEW t, t = NextItem(r, f)
    PROVE  t \in 1 .. n /\ t # f /\ at = Off(q[t]) /\ r \in 1 .. n
  <1>1. Laid(n, q, f, mem, rg) /\ Placed(n, q, f, w, r, mem, rg, wr, hd)
    BY DEF Shape
  <1>2. /\ n \in Nat /\ f \in 0 .. n /\ w \in 1 .. n + 1 /\ r \in 1 .. w /\ RingUnits \in Nat
        /\ f # 0 => f < n /\ q[f + 1] = RingUnits
        /\ rg.read = Off(q[r]) /\ rg.waiting = Cardinality(Waiting(n, q, f, r, mem))
        /\ \A k \in 1 .. n : "DUMMY" \in mem[Off(q[k])].flags <=> k = f
    BY <1>1, RingAssumption DEF Laid, Placed
  <1>3. r \in 1 .. n
    <2> SUFFICES ASSUME r \notin 1 .. n PROVE FALSE
      OBVIOUS
    <2>1. r .. n = {}
      BY <1>2
    <2>2. Waiting(n, q, f, r, mem) = {}
      BY <2>1 DEF Waiting
    <2> QED BY <1>2, <2>2, FS_EmptySet
  <1>4. CASE r = f
    <2>1. at = 0
      BY <1>2, <1>3, <1>4
    <2>2. Off(q[f + 1]) = 0 /\ f < n
      BY <1>2, <1>3, <1>4 DEF Off
    <2> QED BY <1>2, <1>3, <1>4, <2>1, <2>2 DEF NextItem
  <1>5. CASE r # f
    BY <1>2, <1>3, <1>5 DEF NextItem
  <1> QED BY <1>4, <1>5

LEMMA TakenShape ==
    ASSUME NEW mem \in Memories, NEW rg \in RingRecords, NEW n, NEW q, NEW f, NEW w, NEW r,
           NEW wr, NEW hd, Shape(n, q, f, w, r, mem, rg, wr, hd),
           NEW at, NEW rg2, NEW hd2, TakenTo(at, mem, rg, wr, hd, rg2, hd2), NEW t, t = NextItem(r, f)
    PROVE  Shape(n, q, f, w, t + 1, mem, rg2, wr, hd2)
  <1>1. Laid(n, q, f, mem, rg) /\ Placed(n, q, f, w, r, mem, rg, wr, hd)
    BY DEF Shape
  <1>2. t \in 1 .. n /\ t # f /\ at = Off(q[t]) /\ r \in 1 .. n
    BY FoundItem DEF TakenTo
  <1>3. /\ n \in Nat /\ f \in 0 .. n /\ w \in 1 .. n + 1 /\ r \in 1 .. w
        /\ rg.write = Off(q[w])
        /\ \A k \in 1 .. n : k # f => Staged(k, w, r, Off(q[k]), mem, wr, hd)
        /\ w <= n => IF w = f THEN Off(q[f + 1]) \in wr ELSE Off(q[w]) \in wr
        /\ \A u \in wr \cup hd : \E k \in 1 .. n : k # f /\ u = Off(q[k])
        /\ rg.waiting = Cardinality(Waiting(n, q, f, r, mem))
        /\ \A k \in 1 .. n : "DUMMY" \in mem[Off(q[k])].flags <=> k = f
        /\ \A k \in 1 .. n : Behind(mem, Off(q[k])) = Off(q[k + 1])
    BY <1>1 DEF Laid, Placed
  <1>4. \A k \in 1 .. n : Off(q[k]) \in Offsets /\ (Off(q[k]) = at => k = t)
    BY <1>1, <1>2, OneThere, PlaceFacts
  <1>5. "WRITTEN" \in mem[at].flags /\ hd2 = hd \cup {at}
    BY DEF TakenTo
  <1>6. at \notin wr
    BY <1>2, <1>3, <1>5 DEF Staged
  <1>7. r <= t /\ t <= r + 1 /\ (t = r + 1 => r = f) /\ (r = f => t = f + 1)
    BY <1>2 DEF NextItem
  <1>8. t < w
    <2>1. CASE w = t
      BY <1>2, <1>3, <1>6, <2>1
    <2>2. CASE w < t
      <3>1. w = f /\ t = f + 1
        BY <1>2, <1>3, <1>7, <2>2
      <3> QED BY <1>2, <1>3, <1>6, <3>1
    <2> QED BY <1>2, <1>3, <2>1, <2>2
  <1>9. /\ rg2.acquire = rg.acquire /\ rg2.free = rg.free /\ rg2.full = rg.full /\ rg2.write = rg.write
        /\ rg2.read = Off(q[t + 1]) /\ rg2.waiting = rg.waiting - 1
    <2>1. Wrap(at + StoredSize(mem[at].len)) = Behind(mem, at)
      BY <1>2, <1>3 DEF Behind
    <2>2. Wrap(at + StoredSize(mem[at].len)) = Off(q[t + 1])
      BY <1>2, <1>3, <2>1
    <2>3. rg2 = [rg EXCEPT !.read = Wrap(at + StoredSize(mem[at].len)), !.waiting = @ - 1]
      BY DEF TakenTo
    <2> QED BY <2>2, <2>3 DEF RingRecords
  <1>10. Laid(n, q, f, mem, rg2)
    BY <1>1, <1>9 DEF Laid
  <1>11. ASSUME NEW k \in 1 .. n, k # f
         PROVE  Staged(k, w, t + 1, Off(q[k]), mem, wr, hd2)
    <2>1. Staged(k, w, r, Off(q[k]), mem, wr, hd)
      BY <1>3, <1>11
    <2>2. CASE k = t
      <3>1. k >= r /\ k < t + 1 /\ ~(k >= t + 1)
        BY <1>2, <1>7, <2>2
      <3> QED BY <1>2, <1>5, <2>1, <2>2, <3>1 DEF Staged
    <2>3. CASE k # t
      <3>1. (k < t + 1 <=> k < r) /\ (k >= t + 1 <=> k >= r)
        BY <1>2, <1>7, <1>11, <2>3
      <3>2. Off(q[k]) \in hd2 <=> Off(q[k]) \in hd
        BY <1>4, <1>5, <2>3
      <3> QED BY <2>1, <3>1, <3>2 DEF Staged
    <2> QED BY <2>2, <2>3
  <1>12. rg2.waiting = Cardinality(Waiting(n, q, f, t + 1, mem))
    <2>1. at \in Waiting(n, q, f, r, mem)
      <3>1. t \in r .. n
        BY <1>2, <1>7
      <3> QED BY <1>2, <1>4, <1>5, <3>1 DEF Waiting
    <2>2. Waiting(n, q, f, t + 1, mem) = Waiting(n, q, f, r, mem) \ {at}
      <3>1. \A k \in 1 .. n : k # f => (k \in t + 1 .. n <=> k \in r .. n /\ k # t)
        BY <1>2, <1>3, <1>7
      <3>2. t + 1 .. n \subseteq 1 .. n /\ r .. n \subseteq 1 .. n
        BY <1>2, <1>3
      <3>3. ASSUME NEW u
            PROVE  u \in Waiting(n, q, f, t + 1, mem) <=> u \in Waiting(n, q, f, r, mem) /\ u # at
        BY <1>2, <1>4, <3>1, <3>2 DEF Waiting
      <3> QED BY <3>3
    <2>3. IsFiniteSet(Waiting(n, q, f, r, mem))
      BY FewWait
    <2>4. Cardinality(Waiting(n, q, f, r, mem) \ {at}) = Cardinality(Waiting(n, q, f, r, mem)) - 1
      BY <2>1, <2>3, FS_RemoveElement
    <2> QED BY <1>3, <1>9, <2>2, <2>4
  <1>13. \A u \in wr \cup hd2 : \E k \in 1 .. n : k # f /\ u = Off(q[k])
    BY <1>2, <1>3, <1>5
  <1>14. t + 1 \in 1 .. w /\ (f # 0 => t + 1 # f + 1)
    BY <1>2, <1>3, <1>8
  <1>15. Placed(n, q, f, w, t + 1, mem, rg2, wr, hd2)
    BY <1>3, <1>9, <1>11, <1>12, <1>13, <1>14 DEF Placed
  <1> QED BY <1>10, <1>15 DEF Shape

LEMMA TakenStages ==
    ASSUME NEW mem \in Memories, NEW rg \in RingRecords, NEW n, NEW q, NEW f, NEW w, NEW r,
           NEW wr, NEW hd, Shape(n, q, f, w, r, mem, rg, wr, hd),
           NEW at, NEW rg2, NEW hd2, TakenTo(at, mem, rg, wr, hd, rg2, hd2), NEW t, t = NextItem(r, f)
    PROVE  /\ Restaged(t, "taken", n, q, f, mem, wr, hd, mem, wr, hd2)
           /\ StageOf(mem, wr, hd, at) = "written"
           /\ \A k \in 1 .. n : k # f /\ k < t => StageOf(mem, wr, hd, Off(q[k])) \in {"taken",
                "returned"}
  <1>1. Laid(n, q, f, mem, rg) /\ Placed(n, q, f, w, r, mem, rg, wr, hd)
    BY DEF Shape
  <1>2. t \in 1 .. n /\ t # f /\ at = Off(q[t]) /\ r \in 1 .. n
    BY FoundItem DEF TakenTo
  <1>3. /\ n \in Nat /\ f \in 0 .. n /\ w \in 1 .. n + 1 /\ r \in 1 .. w
        /\ \A k \in 1 .. n : k # f => Staged(k, w, r, Off(q[k]), mem, wr, hd)
    BY <1>1 DEF Laid, Placed
  <1>4. \A k \in 1 .. n : Off(q[k]) = at => k = t
    BY <1>1, <1>2, OneThere
  <1>5. "WRITTEN" \in mem[at].flags /\ hd2 = hd \cup {at}
    BY DEF TakenTo
  <1>6. at \notin wr
    BY <1>2, <1>3, <1>5 DEF Staged
  <1>7. r <= t /\ t <= r + 1 /\ (t = r + 1 => r = f)
    BY <1>2 DEF NextItem
  <1>8. StageOf(mem, wr, hd, at) = "written"
    <2>1. Staged(t, w, r, at, mem, wr, hd)
      BY <1>2, <1>3
    <2>2. t >= r
      BY <1>2, <1>7
    <2> QED BY <1>6, <2>1, <2>2 DEF Staged, StageOf
  <1>9. ASSUME NEW k \in 1 .. n, k # f, k < t
        PROVE  StageOf(mem, wr, hd, Off(q[k])) \in {"taken", "returned"}
    <2>1. k < r /\ k < w
      BY <1>2, <1>3, <1>7, <1>9
    <2>2. Staged(k, w, r, Off(q[k]), mem, wr, hd)
      BY <1>3, <1>9
    <2> QED BY <2>1, <2>2 DEF Staged, StageOf
  <1>10. ASSUME NEW k \in 1 .. n, k # f
         PROVE  StageOf(mem, wr, hd2, Off(q[k])) = IF k = t THEN "taken" ELSE StageOf(mem, wr,
                 hd, Off(q[k]))
    <2>1. CASE k = t
      BY <1>2, <1>5, <1>6, <2>1 DEF StageOf
    <2>2. CASE k # t
      <3>1. Off(q[k]) \in hd2 <=> Off(q[k]) \in hd
        BY <1>4, <1>5, <2>2
      <3> QED BY <2>2, <3>1 DEF StageOf
    <2> QED BY <2>1, <2>2
  <1> QED BY <1>8, <1>9, <1>10 DEF Restaged

LEMMA RingTakeStep ==
    ASSUME NEW n, NEW q, NEW f, NEW w, NEW r, Shape(n, q, f, w, r, storage, ring, writing, held),
           storage \in Memories, ring \in RingRecords, junk \subseteq Flags, RingTake
    PROVE  GoesOn(n, q, f)
  <1>1. PICK mem, rg, wr, hd, rg2, hd2 :
            /\ mem = storage /\ rg = ring /\ wr = writing /\ hd = held
            /\ rg2 = ring' /\ hd2 = held'
    OBVIOUS
  <1>2. PICK at, t : at = (IF "DUMMY" \in mem[rg.read].flags THEN 0 ELSE rg.read) /\ t = NextItem(r, f)
    OBVIOUS
  <1>3. storage' = mem /\ junk' = junk /\ writing' = wr
    BY <1>1 DEF RingTake
  <1>4. TakenTo(at, mem, rg, wr, hd, rg2, hd2)
    BY <1>1, <1>2 DEF RingTake, ItemAvailable, TakenTo
  <1>5. Shape(n, q, f, w, r, mem, rg, wr, hd) /\ mem \in Memories /\ rg \in RingRecords
    BY <1>1
  <1>6. Shape(n, q, f, w, t + 1, mem, rg2, wr, hd2)
    BY <1>2, <1>4, <1>5, TakenShape
  <1>7. Laid(n, q, f, mem, rg) /\ n \in Nat /\ f \in 0 .. n
    BY <1>5 DEF Shape, Laid
  <1>8. t \in 1 .. n /\ t # f /\ at = Off(q[t])
    BY <1>2, <1>4, <1>5, FoundItem DEF TakenTo
  <1>9. PICK i \in 1 .. Count(n, f) : Nth(f, i) = t
    BY <1>7, <1>8, NthFacts
  <1>10. /\ Restaged(t, "taken", n, q, f, mem, wr, hd, mem, wr, hd2)
         /\ StageOf(mem, wr, hd, at) = "written"
         /\ \A k \in 1 .. n : k # f /\ k < t => StageOf(mem, wr, hd, Off(q[k])) \in {"taken", "returned"}
    BY <1>2, <1>4, <1>5, TakenStages
  <1>11. PICK s, s2 : s = ItemsOf(n, q, f, mem, wr, hd) /\ s2 = ItemsOf(n, q, f, mem, wr, hd2)
    OBVIOUS
  <1>12. s2 = OneStage(s, i, "taken")
    <2>1. "taken" \in Queue!Stages
      BY DEF Queue!Stages
    <2> QED BY <1>5, <1>7, <1>9, <1>10, <1>11, <2>1, RestagedItems
  <1>13. DOMAIN s = 1 .. Count(n, f)
         /\ \A j \in 1 .. Count(n, f) : s[j].stage = StageOf(mem, wr, hd, Off(q[Nth(f, j)]))
    <2>1. /\ s \in [1 .. Count(n, f) -> QueueItems]
          /\ \A j \in 1 .. Count(n, f) : s[j] = QueueItem(mem, wr, hd, Off(q[Nth(f, j)]))
      BY <1>5, <1>7, <1>11, ItemsOfFacts
    <2> QED BY <2>1 DEF QueueItem
  <1>14. s[i].stage = "written"
    BY <1>8, <1>9, <1>10, <1>13
  <1>15. \A j \in 1 .. i - 1 : s[j].stage \in {"taken", "returned"}
    <2> TAKE j \in 1 .. i - 1
    <2>1. j \in 1 .. Count(n, f) /\ Count(n, f) \in Nat
      BY <1>7, NthFacts
    <2>2. PICK k : k = Nth(f, j)
      OBVIOUS
    <2>3. k \in 1 .. n /\ k # f /\ k < t
      BY <1>7, <1>9, <2>1, <2>2, NthFacts
    <2>4. s[j].stage = StageOf(mem, wr, hd, Off(q[k]))
      BY <1>13, <2>1, <2>2
    <2> QED BY <1>10, <2>3, <2>4
  <1>16. QueueMoves(s, s2)
    BY <1>12, <1>13, <1>14, <1>15 DEF OneStage, QueueMoves
  <1>17. rg2 \in RingRecords
    <2>1. rg2 = [rg EXCEPT !.read = Wrap(at + StoredSize(mem[at].len)), !.waiting = @ - 1]
      BY <1>4 DEF TakenTo
    <2>2. rg2.read = Off(q[t + 1]) /\ rg2.waiting = Cardinality(Waiting(n, q, f, t + 1, mem))
      BY <1>6 DEF Shape, Placed
    <2>3. t + 1 \in 1 .. n + 1
      BY <1>5, <1>7, <1>8, PlaceFacts
    <2>4. Off(q[t + 1]) \in Offsets
      BY <1>5, <1>7, <2>3, PlaceFacts
    <2>5. rg2.read \in Offsets /\ rg2.waiting \in 0 .. RingUnits
      BY <2>2, <2>4, FewWait
    <2>6. rg2.read = Wrap(at + StoredSize(mem[at].len)) /\ rg2.waiting = rg.waiting - 1
      BY <1>5, <2>1 DEF RingRecords
    <2> QED BY <1>5, <2>1, <2>5, <2>6 DEF RingRecords
  <1> QED BY <1>1, <1>3, <1>5, <1>6, <1>11, <1>16, <1>17 DEF GoesOn
-----------------------------------------------------------------------------
(* return_item(): the room of the first v - 1 headers is given back *)

Freed(v, n, q, f, r, mem, rg, rg2) ==
    /\ v \in 1 .. r
    /\ \A k \in 1 .. v - 1 : k # f => "FREE" \in mem[Off(q[k])].flags
    /\ v = r \/ (v # f /\ "FREE" \notin mem[Off(q[v])].flags)
    /\ rg2.free = Off(q[v]) /\ (rg2.full <=> rg.full /\ v = 1)
    /\ rg2.acquire = rg.acquire /\ rg2.write = rg.write /\ rg2.read = rg.read
    /\ rg2.waiting = rg.waiting

\* The places of the headers that remain, from the first turn on.
Shifted(v, n, q, f, n2, q2, f2) ==
    /\ n2 = n - v + 1
    /\ q2 = [i \in 1 .. n2 + 1 |-> q[i + v - 1] - IF q[v] >= RingUnits THEN RingUnits ELSE 0]
    /\ f2 = IF f >= v THEN f - v + 1 ELSE 0

LEMMA ShiftFacts ==
    ASSUME NEW mem \in Memories, NEW rg \in RingRecords, NEW n, NEW q, NEW f, Laid(n, q, f, mem, rg),
           NEW v \in 1 .. n + 1, NEW n2, NEW q2, NEW f2, Shifted(v, n, q, f, n2, q2, f2)
    PROVE  /\ n2 \in Nat /\ n2 = n - v + 1 /\ f2 \in 0 .. n2
           /\ q2 \in [1 .. n2 + 1 -> Nat]
           /\ \A i \in 1 .. n2 + 1 : i + v - 1 \in 1 .. n + 1 /\ Off(q2[i]) = Off(q[i + v - 1])
           /\ \A i \in 1 .. n2 : i + v - 1 \in 1 .. n /\ (i = f2 <=> i + v - 1 = f)
  <1>1. n \in Nat /\ f \in 0 .. n /\ v \in Nat /\ v >= 1 /\ v <= n + 1 /\ RingUnits \in Nat
    BY RingAssumption DEF Laid
  <1>2. n2 = n - v + 1 /\ n2 \in Nat /\ f2 \in 0 .. n2
    BY <1>1 DEF Shifted
  <1>3. \A i \in 1 .. n2 + 1 : i + v - 1 \in 1 .. n + 1 /\ v <= i + v - 1
    BY <1>1, <1>2
  <1>4. PICK base : base = IF q[v] >= RingUnits THEN RingUnits ELSE 0
    OBVIOUS
  <1>5. q2 = [i \in 1 .. n2 + 1 |-> q[i + v - 1] - base]
    BY <1>4 DEF Shifted
  <1>6. ASSUME NEW i \in 1 .. n2 + 1
        PROVE  q2[i] \in Nat /\ Off(q2[i]) = Off(q[i + v - 1])
    <2>1. PICK x, y \in Nat : x = q[v] /\ y = q[i + v - 1]
      BY <1>3, PlaceFacts
    <2>2. x <= y
      <3>1. v < i + v - 1 => q[v] < q[i + v - 1]
        BY <1>3, PlaceFacts
      <3>2. v = i + v - 1 \/ v < i + v - 1
        BY <1>1, <1>3
      <3> QED BY <2>1, <3>1, <3>2
    <2>3. y < 2 * RingUnits
      <3>1. q[1] \in Nat /\ q[1] < RingUnits /\ q[i + v - 1] <= q[1] + RingUnits
        BY <1>3, PlaceFacts
      <3> QED BY <1>1, <2>1, <3>1
    <2>4. q2[i] = y - base
      BY <1>5, <2>1
    <2>5. base = IF x >= RingUnits THEN RingUnits ELSE 0
      BY <1>4, <2>1
    <2> QED BY <1>1, <2>1, <2>2, <2>3, <2>4, <2>5 DEF Off
  <1>7. q2 \in [1 .. n2 + 1 -> Nat]
    <2>1. q2 = [i \in 1 .. n2 + 1 |-> q2[i]]
      BY <1>5
    <2> QED BY <1>6, <2>1
  <1>8. \A i \in 1 .. n2 : i + v - 1 \in 1 .. n /\ (i = f2 <=> i + v - 1 = f)
    BY <1>1, <1>2 DEF Shifted
  <1> QED BY <1>2, <1>3, <1>6, <1>7, <1>8

LEMMA FreedLaid ==
    ASSUME NEW mem \in Memories, NEW rg \in RingRecords, NEW n, NEW q, NEW f, Laid(n, q, f, mem, rg),
           NEW r \in 1 .. n + 1, NEW v \in 1 .. n + 1, NEW rg2, Freed(v, n, q, f, r, mem, rg, rg2),
           NEW n2, NEW q2, NEW f2, Shifted(v, n, q, f, n2, q2, f2)
    PROVE  Laid(n2, q2, f2, mem, rg2)
  <1>1. /\ n2 \in Nat /\ n2 = n - v + 1 /\ f2 \in 0 .. n2
        /\ q2 \in [1 .. n2 + 1 -> Nat]
        /\ \A i \in 1 .. n2 + 1 : i + v - 1 \in 1 .. n + 1 /\ Off(q2[i]) = Off(q[i + v - 1])
        /\ \A i \in 1 .. n2 : i + v - 1 \in 1 .. n /\ (i = f2 <=> i + v - 1 = f)
    BY ShiftFacts
  <1>2. /\ n \in Nat /\ f \in 0 .. n /\ v \in Nat /\ v >= 1 /\ v <= n + 1 /\ RingUnits \in Nat
        /\ Off(q[n + 1]) = rg.acquire
        /\ \A k \in 1 .. n + 1 : Off(q[k]) \in 0 .. RingUnits - ITEM_HEADER
        /\ \A j, k \in 1 .. n + 1 : j <= k => q[j] + (k - j) <= q[k]
        /\ q[n + 1] <= q[1] + RingUnits
        /\ rg.full <=> n > 0 /\ q[n + 1] = q[1] + RingUnits
        /\ \A k \in 1 .. n : Behind(mem, Off(q[k])) = Off(q[k + 1])
        /\ \A k \in 1 .. n : "DUMMY" \in mem[Off(q[k])].flags <=> k = f
        /\ f # 0 => f < n /\ q[f + 1] = RingUnits
    BY RingAssumption DEF Laid
  <1>3. PICK base \in Nat : base = IF q[v] >= RingUnits THEN RingUnits ELSE 0
    BY <1>2
  <1>4. \A i \in 1 .. n2 + 1 : q2[i] = q[i + v - 1] - base
    BY <1>3 DEF Shifted
  <1>5. \A i \in 1 .. n2 + 1 : q2[i] \in Nat /\ q[i + v - 1] \in Nat
    BY <1>1, PlaceFacts
  <1>6. rg2.free = Off(q[v]) /\ (rg2.full <=> rg.full /\ v = 1) /\ rg2.acquire = rg.acquire
    BY DEF Freed
  <1>7. 1 \in 1 .. n2 + 1 /\ n2 + 1 \in 1 .. n2 + 1 /\ 1 + v - 1 = v /\ n2 + 1 + v - 1 = n + 1
    BY <1>1, <1>2
  <1>8. q2[1] = rg2.free
    <2>1. q2[1] = q[v] - base /\ q[v] \in Nat
      BY <1>4, <1>5, <1>7
    <2> QED BY <1>2, <1>3, <1>6, <2>1 DEF Off
  <1>9. Off(q2[n2 + 1]) = rg2.acquire
    BY <1>1, <1>2, <1>6, <1>7
  <1>10. \A i \in 1 .. n2 + 1 : Off(q2[i]) \in 0 .. RingUnits - ITEM_HEADER
    <2> TAKE i \in 1 .. n2 + 1
    <2>1. i + v - 1 \in 1 .. n + 1 /\ Off(q2[i]) = Off(q[i + v - 1])
      BY <1>1
    <2> QED BY <1>2, <2>1
  <1>11. \A i, j \in 1 .. n2 + 1 : i <= j => q2[i] + (j - i) <= q2[j]
    <2> TAKE i, j \in 1 .. n2 + 1
    <2> HAVE i <= j
    <2>1. PICK k, l \in 1 .. n + 1 : k = i + v - 1 /\ l = j + v - 1
      BY <1>1
    <2>2. k <= l /\ l - k = j - i
      BY <1>1, <1>2, <2>1
    <2>3. q[k] + (l - k) <= q[l]
      BY <1>2, <2>2
    <2>4. q2[i] = q[k] - base /\ q2[j] = q[l] - base /\ q[k] \in Nat /\ q[l] \in Nat
      BY <1>4, <1>5, <2>1
    <2>5. l - k \in Int
      BY <2>1, <1>2
    <2> QED BY <1>3, <2>2, <2>3, <2>4, <2>5
  <1>12. q2[1] = q[v] - base /\ q2[n2 + 1] = q[n + 1] - base /\ q[v] \in Nat /\ q[n + 1] \in Nat
         /\ q[1] \in Nat /\ q[1] <= q[v] /\ (v > 1 => q[1] < q[v]) /\ q[1] < RingUnits
    <2>1. q2[1] = q[v] - base /\ q2[n2 + 1] = q[n + 1] - base /\ q[v] \in Nat /\ q[n + 1] \in Nat
      BY <1>4, <1>5, <1>7
    <2>2. q[1] \in Nat /\ q[1] <= q[v] /\ (v > 1 => q[1] < q[v]) /\ q[1] < RingUnits
      BY PlaceFacts
    <2> QED BY <2>1, <2>2
  <1>13. q2[n2 + 1] <= q2[1] + RingUnits
    BY <1>2, <1>3, <1>12
  <1>14. rg2.full <=> n2 > 0 /\ q2[n2 + 1] = q2[1] + RingUnits
    <2>1. q2[n2 + 1] = q2[1] + RingUnits <=> q[n + 1] = q[v] + RingUnits
      BY <1>2, <1>3, <1>12
    <2>2. CASE v = 1
      <3>1. n2 = n
        BY <1>1, <1>2, <2>2
      <3> QED BY <1>2, <1>6, <2>1, <2>2, <3>1
    <2>3. CASE v # 1
      <3>1. v > 1
        BY <1>2, <2>3
      <3>2. q[n + 1] # q[v] + RingUnits
        BY <1>2, <1>12, <3>1
      <3> QED BY <1>6, <2>1, <2>3, <3>2
    <2> QED BY <2>2, <2>3
  <1>15. \A i \in 1 .. n2 : Behind(mem, Off(q2[i])) = Off(q2[i + 1])
    <2> TAKE i \in 1 .. n2
    <2>1. PICK k \in 1 .. n : k = i + v - 1
      BY <1>1
    <2>2. i \in 1 .. n2 + 1 /\ i + 1 \in 1 .. n2 + 1 /\ (i + 1) + v - 1 = k + 1
      BY <1>1, <1>2, <2>1
    <2>3. Off(q2[i]) = Off(q[k]) /\ Off(q2[i + 1]) = Off(q[k + 1])
      BY <1>1, <2>1, <2>2
    <2> QED BY <1>2, <2>3
  <1>16. \A i \in 1 .. n2 : "DUMMY" \in mem[Off(q2[i])].flags <=> i = f2
    <2> TAKE i \in 1 .. n2
    <2>1. PICK k \in 1 .. n : k = i + v - 1
      BY <1>1
    <2>2. i \in 1 .. n2 + 1
      BY <1>1
    <2>3. Off(q2[i]) = Off(q[k]) /\ (i = f2 <=> k = f)
      BY <1>1, <2>1, <2>2
    <2> QED BY <1>2, <2>3
  <1>17. f2 # 0 => f2 < n2 /\ q2[f2 + 1] = RingUnits
    <2> HAVE f2 # 0
    <2>1. f2 = f - v + 1 /\ f >= v
      BY DEF Shifted
    <2>2. f < n /\ q[f + 1] = RingUnits /\ f2 < n2 /\ f2 + 1 \in 1 .. n2 + 1 /\ f2 + 1 + v - 1 = f + 1
      BY <1>1, <1>2, <2>1
    <2>3. q2[f2 + 1] = q[f + 1] - base
      BY <1>4, <2>2
    <2>4. v < f + 1 /\ f + 1 \in 1 .. n + 1
      BY <1>2, <2>1
    <2>5. q[v] < q[f + 1]
      BY <2>4, PlaceFacts
    <2>6. base = 0
      BY <1>2, <1>3, <1>12, <2>2, <2>5
    <2> QED BY <1>2, <2>2, <2>3, <2>6
  <1>18. \A i \in 1 .. n2 : i # f2 => Off(q2[i]) + StoredSize(mem[Off(q2[i])].len) <= RingUnits
    <2> TAKE i \in 1 .. n2
    <2> HAVE i # f2
    <2>1. PICK k \in 1 .. n : k = i + v - 1
      BY <1>1
    <2>2. i \in 1 .. n2 + 1
      BY <1>1
    <2>3. Off(q2[i]) = Off(q[k]) /\ k # f
      BY <1>1, <2>1, <2>2
    <2>4. Off(q[k]) + StoredSize(mem[Off(q[k])].len) <= RingUnits
      BY <2>3 DEF Laid
    <2> QED BY <2>3, <2>4
  <1> QED BY <1>1, <1>8, <1>9, <1>10, <1>11, <1>13, <1>14, <1>15, <1>16, <1>17, <1>18 DEF Laid

LEMMA FreedPlaced ==
    ASSUME NEW mem \in Memories, NEW rg \in RingRecords, NEW n, NEW q, NEW f, Laid(n, q, f, mem, rg),
           NEW w, NEW r, NEW wr, NEW hd, Placed(n, q, f, w, r, mem, rg, wr, hd),
           NEW v, NEW rg2, Freed(v, n, q, f, r, mem, rg, rg2),
           NEW n2, NEW q2, NEW f2, Shifted(v, n, q, f, n2, q2, f2)
    PROVE  Placed(n2, q2, f2, w - v + 1, r - v + 1, mem, rg2, wr, hd)
  <1>1. /\ n \in Nat /\ f \in 0 .. n /\ w \in 1 .. n + 1 /\ r \in 1 .. w
        /\ rg.write = Off(q[w]) /\ rg.read = Off(q[r])
        /\ f # 0 => r # f + 1
        /\ \A k \in 1 .. n : k # f => Staged(k, w, r, Off(q[k]), mem, wr, hd)
        /\ w <= n => IF w = f THEN Off(q[f + 1]) \in wr ELSE Off(q[w]) \in wr
        /\ \A u \in wr \cup hd : \E k \in 1 .. n : k # f /\ u = Off(q[k])
        /\ rg.waiting = Cardinality(Waiting(n, q, f, r, mem))
    BY DEF Laid, Placed
  <1>2. /\ v \in 1 .. r /\ v \in 1 .. n + 1
        /\ \A k \in 1 .. v - 1 : k # f => "FREE" \in mem[Off(q[k])].flags
        /\ rg2.write = rg.write /\ rg2.read = rg.read /\ rg2.waiting = rg.waiting
    <2>1. v \in 1 .. r
      BY DEF Freed
    <2> QED BY <1>1, <2>1 DEF Freed
  <1>3. /\ n2 \in Nat /\ n2 = n - v + 1 /\ f2 \in 0 .. n2
        /\ \A i \in 1 .. n2 + 1 : i + v - 1 \in 1 .. n + 1 /\ Off(q2[i]) = Off(q[i + v - 1])
        /\ \A i \in 1 .. n2 : i + v - 1 \in 1 .. n /\ (i = f2 <=> i + v - 1 = f)
    BY <1>2, ShiftFacts
  <1>4. PICK w2, r2 : w2 = w - v + 1 /\ r2 = r - v + 1
    OBVIOUS
  <1>5. /\ w2 \in 1 .. n2 + 1 /\ r2 \in 1 .. w2 /\ r2 \in 1 .. n2 + 1
        /\ w2 + v - 1 = w /\ r2 + v - 1 = r /\ (w <= n <=> w2 <= n2)
    BY <1>1, <1>2, <1>3, <1>4
  <1>6. rg2.write = Off(q2[w2]) /\ rg2.read = Off(q2[r2])
    BY <1>1, <1>2, <1>3, <1>5
  <1>7. f2 # 0 => f2 = f - v + 1 /\ f >= v /\ f # 0
    BY <1>1, <1>2 DEF Shifted
  <1>8. f2 # 0 => r2 # f2 + 1
    BY <1>1, <1>2, <1>4, <1>7
  <1>9. ASSUME NEW i \in 1 .. n2, i # f2
        PROVE  Staged(i, w2, r2, Off(q2[i]), mem, wr, hd)
    <2>1. PICK k \in 1 .. n : k = i + v - 1
      BY <1>3
    <2>2. Off(q2[i]) = Off(q[k]) /\ k # f
      BY <1>3, <1>9, <2>1
    <2>3. (i < w2 <=> k < w) /\ (i < r2 <=> k < r) /\ (i >= r2 <=> k >= r)
      BY <1>1, <1>2, <1>4, <2>1
    <2>4. Staged(k, w, r, Off(q[k]), mem, wr, hd)
      BY <1>1, <2>2
    <2> QED BY <2>2, <2>3, <2>4 DEF Staged
  <1>10. w2 <= n2 => IF w2 = f2 THEN Off(q2[f2 + 1]) \in wr ELSE Off(q2[w2]) \in wr
    <2> HAVE w2 <= n2
    <2>1. w <= n /\ w2 \in 1 .. n2
      BY <1>3, <1>5
    <2>2. w2 = f2 <=> w = f
      BY <1>3, <1>5, <2>1
    <2>3. CASE w = f
      <3>1. f2 + 1 \in 1 .. n2 + 1 /\ f2 + 1 + v - 1 = f + 1
        BY <1>1, <1>2, <1>3, <1>4, <2>1, <2>2, <2>3
      <3>2. Off(q2[f2 + 1]) = Off(q[f + 1])
        BY <1>3, <3>1
      <3> QED BY <1>1, <2>1, <2>2, <2>3, <3>2
    <2>4. CASE w # f
      <3>1. Off(q2[w2]) = Off(q[w])
        BY <1>3, <1>5
      <3> QED BY <1>1, <2>1, <2>2, <2>4, <3>1
    <2> QED BY <2>3, <2>4
  <1>11. ASSUME NEW u \in wr \cup hd PROVE \E i \in 1 .. n2 : i # f2 /\ u = Off(q2[i])
    <2>1. PICK k \in 1 .. n : k # f /\ u = Off(q[k])
      BY <1>1
    <2>2. v <= k
      <3> SUFFICES ASSUME ~(v <= k) PROVE FALSE
        OBVIOUS
      <3>1. k \in 1 .. v - 1 /\ k < w /\ k < r
        BY <1>1, <1>2
      <3>2. "FREE" \in mem[Off(q[k])].flags
        BY <1>2, <2>1, <3>1
      <3>3. Staged(k, w, r, u, mem, wr, hd)
        BY <1>1, <2>1
      <3> QED BY <2>1, <3>1, <3>2, <3>3 DEF Staged
    <2>3. PICK i \in 1 .. n2 : i + v - 1 = k
      <3>1. k - v + 1 \in 1 .. n2 /\ (k - v + 1) + v - 1 = k
        BY <1>1, <1>2, <1>3, <2>2
      <3> QED BY <3>1
    <2>4. i # f2 /\ i \in 1 .. n2 + 1
      BY <1>3, <2>1, <2>3
    <2> QED BY <1>3, <2>1, <2>3, <2>4
  <1>12. Waiting(n2, q2, f2, r2, mem) = Waiting(n, q, f, r, mem)
    <2>1. ASSUME NEW u \in Waiting(n2, q2, f2, r2, mem) PROVE u \in Waiting(n, q, f, r, mem)
      <3>1. PICK i \in r2 .. n2 : i # f2 /\ u = Off(q2[i]) /\ "WRITTEN" \in mem[u].flags
        BY DEF Waiting
      <3>2. i \in 1 .. n2 /\ i \in 1 .. n2 + 1
        BY <1>3, <1>5
      <3>3. i + v - 1 \in r .. n /\ i + v - 1 # f /\ u = Off(q[i + v - 1])
        BY <1>1, <1>2, <1>3, <1>4, <3>1, <3>2
      <3> QED BY <3>1, <3>3 DEF Waiting
    <2>2. ASSUME NEW u \in Waiting(n, q, f, r, mem) PROVE u \in Waiting(n2, q2, f2, r2, mem)
      <3>1. PICK k \in r .. n : k # f /\ u = Off(q[k]) /\ "WRITTEN" \in mem[u].flags
        BY DEF Waiting
      <3>2. PICK i \in r2 .. n2 : i + v - 1 = k
        <4>1. k - v + 1 \in r2 .. n2 /\ (k - v + 1) + v - 1 = k
          BY <1>1, <1>2, <1>3, <1>4
        <4> QED BY <4>1
      <3>3. i \in 1 .. n2 /\ i \in 1 .. n2 + 1
        BY <1>3, <1>5
      <3>4. i # f2 /\ u = Off(q2[i])
        BY <1>3, <3>1, <3>2, <3>3
      <3> QED BY <3>1, <3>2, <3>4 DEF Waiting
    <2> QED BY <2>1, <2>2
  <1> QED BY <1>1, <1>2, <1>4, <1>5, <1>6, <1>8, <1>9, <1>10, <1>11, <1>12 DEF Placed

\* What is left of the queue when the first d items are returned, but not the next.
LEMMA ReclaimedIs ==
    ASSUME NEW c \in Nat, NEW d \in 0 .. c, NEW s \in [1 .. c -> QueueItems],
           \A i \in 1 .. d : s[i].stage = "returned",
           d < c => s[d + 1].stage # "returned"
    PROVE  Queue!Reclaimed(s) = [i \in 1 .. c - d |-> s[i + d]]
  <1>1. s \in Seq(QueueItems) /\ Len(s) = c /\ DOMAIN s = 1 .. c
    BY Listed
  <1>2. PICK kept : kept = {i \in DOMAIN s : s[i].stage # "returned"}
    OBVIOUS
  <1>3. \A i \in kept : i \in Nat /\ d + 1 <= i /\ i <= c
    BY <1>1, <1>2
  <1>4. CASE d < c
    <2>1. d + 1 \in kept
      BY <1>1, <1>2, <1>4
    <2>2. Queue!Min(kept) = d + 1
      <3>1. \A x \in kept : (\A y \in kept : x <= y) <=> x = d + 1
        BY <1>3, <2>1
      <3> QED BY <2>1, <3>1 DEF Queue!Min
    <2>3. Queue!Reclaimed(s) = SubSeq(s, d + 1, c)
      BY <1>1, <1>2, <2>1, <2>2 DEF Queue!Reclaimed
    <2>4. PICK t : t = SubSeq(s, d + 1, c)
      OBVIOUS
    <2>5. t \in Seq(QueueItems) /\ Len(t) = c - d /\ \A i \in 1 .. c - d : t[i] = s[i + d]
      <3>1. \A i \in d + 1 .. c : s[i] \in QueueItems
        OBVIOUS
      <3>2. d + 1 \in Int /\ c \in Int /\ (IF d + 1 <= c THEN c - (d + 1) + 1 ELSE 0) = c - d
              /\ c - (d + 1) + 1 = c - d /\ \A i \in 1 .. c - d : d + 1 + i - 1 = i + d
        BY <1>4
      <3>3. /\ t \in Seq(QueueItems) /\ Len(t) = IF d + 1 <= c THEN c - (d + 1) + 1 ELSE 0
            /\ \A i \in 1 .. c - (d + 1) + 1 : t[i] = s[d + 1 + i - 1]
        BY <2>4, <3>1, <3>2, SubSeqProperties
      <3> QED BY <3>2, <3>3
    <2>6. t = [i \in 1 .. c - d |-> t[i]]
      BY <2>5
    <2> QED BY <2>3, <2>4, <2>5, <2>6
  <1>5. CASE ~(d < c)
    <2>1. kept = {} /\ c - d = 0
      BY <1>3, <1>5
    <2>2. Queue!Reclaimed(s) = <<>>
      BY <1>2, <2>1 DEF Queue!Reclaimed
    <2>3. [i \in 1 .. c - d |-> s[i + d]] = <<>>
      BY <2>1
    <2> QED BY <2>2, <2>3
  <1> QED BY <1>4, <1>5

LEMMA FreedItems ==
    ASSUME NEW mem \in Memories, NEW rg \in RingRecords, NEW n, NEW q, NEW f, Laid(n, q, f, mem, rg),
           NEW w, NEW r, NEW wr, NEW hd, Placed(n, q, f, w, r, mem, rg, wr, hd),
           NEW v, NEW rg2, Freed(v, n, q, f, r, mem, rg, rg2),
           NEW n2, NEW q2, NEW f2, Shifted(v, n, q, f, n2, q2, f2)
    PROVE  ItemsOf(n2, q2, f2, mem, wr, hd) = Queue!Reclaimed(ItemsOf(n, q, f, mem, wr, hd))
  <1>1. /\ n \in Nat /\ f \in 0 .. n /\ w \in 1 .. n + 1 /\ r \in 1 .. w
        /\ f # 0 => f < n
        /\ \A k \in 1 .. n : k # f => Staged(k, w, r, Off(q[k]), mem, wr, hd)
    BY DEF Laid, Placed
  <1>2. /\ v \in 1 .. r /\ v \in 1 .. n + 1
        /\ \A k \in 1 .. v - 1 : k # f => "FREE" \in mem[Off(q[k])].flags
        /\ v = r \/ (v # f /\ "FREE" \notin mem[Off(q[v])].flags)
    <2>1. v \in 1 .. r
      BY DEF Freed
    <2> QED BY <1>1, <2>1 DEF Freed
  <1>3. /\ n2 \in Nat /\ n2 = n - v + 1 /\ f2 \in 0 .. n2
        /\ \A i \in 1 .. n2 + 1 : i + v - 1 \in 1 .. n + 1 /\ Off(q2[i]) = Off(q[i + v - 1])
    BY <1>2, ShiftFacts
  <1>4. PICK c, d : c = Count(n, f) /\ d = IF f # 0 /\ f < v THEN v - 2 ELSE v - 1
    OBVIOUS
  <1>5. f2 = IF f >= v THEN f - v + 1 ELSE 0
    BY DEF Shifted
  <1>6. c \in Nat /\ d \in 0 .. c /\ Count(n2, f2) = c - d
    BY <1>1, <1>2, <1>3, <1>4, <1>5 DEF Count
  <1>7. \A i \in 1 .. c - d : /\ Nth(f2, i) + v - 1 = Nth(f, i + d) /\ i + d \in 1 .. c
                              /\ Nth(f2, i) \in 1 .. n2 + 1
    BY <1>1, <1>2, <1>3, <1>4, <1>5, <1>6 DEF Count, Nth
  <1>8. \A i \in 1 .. c : Nth(f, i) \in 1 .. n /\ Nth(f, i) # f
    BY <1>1, <1>4, NthFacts
  <1>9. \A i \in 1 .. d : Nth(f, i) \in 1 .. v - 1
    BY <1>1, <1>2, <1>4 DEF Nth
  <1>10. d < c => Nth(f, d + 1) >= v /\ (v # f => Nth(f, d + 1) = v)
    BY <1>1, <1>2, <1>4 DEF Nth
  <1>11. PICK s : s = ItemsOf(n, q, f, mem, wr, hd)
    OBVIOUS
  <1>12. /\ s \in [1 .. c -> QueueItems]
         /\ \A i \in 1 .. c : s[i] = QueueItem(mem, wr, hd, Off(q[Nth(f, i)]))
    BY <1>4, <1>11, ItemsOfFacts
  <1>13. \A i \in 1 .. c : s[i].stage = StageOf(mem, wr, hd, Off(q[Nth(f, i)]))
    BY <1>12 DEF QueueItem
  <1>14. ASSUME NEW i \in 1 .. d PROVE s[i].stage = "returned"
    <2>1. PICK k : k = Nth(f, i)
      OBVIOUS
    <2>2. i \in 1 .. c
      BY <1>6
    <2>3. k \in 1 .. n /\ k # f /\ k \in 1 .. v - 1
      BY <1>8, <1>9, <2>1, <2>2
    <2>4. k < r /\ k < w
      BY <1>1, <1>2, <2>3
    <2>5. Staged(k, w, r, Off(q[k]), mem, wr, hd) /\ "FREE" \in mem[Off(q[k])].flags
      BY <1>1, <1>2, <2>3
    <2>6. StageOf(mem, wr, hd, Off(q[k])) = "returned"
      BY <2>4, <2>5 DEF Staged, StageOf
    <2> QED BY <1>13, <2>1, <2>2, <2>6
  <1>15. ASSUME d < c PROVE s[d + 1].stage # "returned"
    <2>1. PICK k : k = Nth(f, d + 1)
      OBVIOUS
    <2>2. d + 1 \in 1 .. c
      BY <1>6, <1>15
    <2>3. k \in 1 .. n /\ k # f /\ k >= v /\ (v # f => k = v)
      BY <1>8, <1>10, <1>15, <2>1, <2>2
    <2>4. "FREE" \notin mem[Off(q[k])].flags
      <3>1. CASE v = r
        <4>1. k >= r
          BY <2>3, <3>1
        <4>2. Staged(k, w, r, Off(q[k]), mem, wr, hd)
          BY <1>1, <2>3
        <4> QED BY <4>1, <4>2 DEF Staged
      <3>2. CASE v # r
        BY <1>2, <2>3, <3>2
      <3> QED BY <3>1, <3>2
    <2>5. StageOf(mem, wr, hd, Off(q[k])) # "returned"
      BY <2>4 DEF StageOf
    <2> QED BY <1>13, <2>1, <2>2, <2>5
  <1>16. Queue!Reclaimed(s) = [i \in 1 .. c - d |-> s[i + d]]
    BY <1>6, <1>12, <1>14, <1>15, ReclaimedIs
  <1>17. ItemsOf(n2, q2, f2, mem, wr, hd)
           = [i \in 1 .. c - d |-> QueueItem(mem, wr, hd, Off(q2[Nth(f2, i)]))]
    BY <1>6 DEF ItemsOf
  <1>18. ASSUME NEW i \in 1 .. c - d
         PROVE  QueueItem(mem, wr, hd, Off(q2[Nth(f2, i)])) = s[i + d]
    <2>1. Off(q2[Nth(f2, i)]) = Off(q[Nth(f, i + d)]) /\ i + d \in 1 .. c
      BY <1>3, <1>7
    <2> QED BY <1>12, <2>1
  <1> QED BY <1>11, <1>16, <1>17, <1>18

\* What return_item() has done: the item is marked, and the fillers of the run the loop passes.
ReturnedTo(o, mem, rg, hd, mid, over, mem2, rg2, hd2) ==
    /\ o \in hd
    /\ MarkedAs(mid, mem, {o}, "FREE")
    /\ over = IF rg.free = rg.read /\ ~rg.full /\ rg.waiting # 0 THEN <<>>
              ELSE Run(mid, rg.free, Flagged(mid, {"FREE", "DUMMY"}), rg.read)
    /\ MarkedAs(mem2, mid, Fillers(mid, Range(over)), "FREE")
    /\ rg2 = [rg EXCEPT !.free = EndOf(mid, over, rg.free), !.full = @ /\ over = <<>>]
    /\ hd2 = hd \ {o}

LEMMA ReturnedMarks ==
    ASSUME NEW mem \in Memories, NEW rg \in RingRecords, NEW n, NEW q, NEW f, NEW w, NEW r,
           NEW wr, NEW hd, Shape(n, q, f, w, r, mem, rg, wr, hd),
           NEW o, NEW mid, NEW over, NEW mem2, NEW rg2, NEW hd2,
           ReturnedTo(o, mem, rg, hd, mid, over, mem2, rg2, hd2),
           NEW x \in 1 .. n, x # f, o = Off(q[x])
    PROVE  /\ mid \in Memories /\ mem2 \in Memories /\ x < r
           /\ \A k \in 1 .. n : /\ Off(q[k]) \in Offsets /\ (Off(q[k]) = o <=> k = x)
                                /\ "DUMMY" \in mid[Off(q[k])].flags <=> k = f
           /\ \A k \in 1 .. n : k # f =>
                /\ mem2[Off(q[k])].flags = mid[Off(q[k])].flags
                /\ mem2[Off(q[k])].flags = mem[Off(q[k])].flags \cup IF k = x THEN {"FREE"} ELSE {}
           /\ Restaged(x, "returned", n, q, f, mem, wr, hd, mem2, wr, hd2)
           /\ Shape(n, q, f, w, r, mem2, rg, wr, hd2)
  <1>1. Laid(n, q, f, mem, rg) /\ Placed(n, q, f, w, r, mem, rg, wr, hd)
    BY DEF Shape
  <1>2. /\ n \in Nat /\ w \in 1 .. n + 1 /\ r \in 1 .. w
        /\ rg.write = Off(q[w]) /\ rg.read = Off(q[r])
        /\ f # 0 => r # f + 1
        /\ \A k \in 1 .. n : k # f => Staged(k, w, r, Off(q[k]), mem, wr, hd)
        /\ w <= n => IF w = f THEN Off(q[f + 1]) \in wr ELSE Off(q[w]) \in wr
        /\ \A u \in wr \cup hd : \E k \in 1 .. n : k # f /\ u = Off(q[k])
        /\ rg.waiting = Cardinality(Waiting(n, q, f, r, mem))
        /\ \A k \in 1 .. n : "DUMMY" \in mem[Off(q[k])].flags <=> k = f
    BY <1>1 DEF Laid, Placed
  <1>3. o \in hd /\ hd2 = hd \ {o}
    BY DEF ReturnedTo
  <1>4. \A k \in 1 .. n : Off(q[k]) \in Offsets /\ (Off(q[k]) = o <=> k = x)
    BY <1>1, OneThere, PlaceFacts
  <1>5. MarkedAs(mid, mem, {o}, "FREE") /\ MarkedAs(mem2, mid, Fillers(mid, Range(over)), "FREE")
          /\ "FREE" \in Marks
    BY DEF ReturnedTo, Marks
  <1>6. mid \in Memories /\ mem2 \in Memories
    BY <1>5, MarkedTyped
  <1>7. Staged(x, w, r, o, mem, wr, hd)
    BY <1>2
  <1>8. x < r
    <2>1. ~(x >= r)
      BY <1>3, <1>7 DEF Staged
    <2> QED BY <1>2, <2>1
  <1>9. ASSUME NEW u \in Offsets PROVE mem2[u].len = mem[u].len
    <2>1. mem2[u].len = mid[u].len
      BY <1>5, <1>6, MarkedLen
    <2>2. mid[u].len = mem[u].len
      BY <1>5, MarkedLen
    <2> QED BY <2>1, <2>2
  <1>10. ASSUME NEW k \in 1 .. n PROVE "DUMMY" \in mid[Off(q[k])].flags <=> k = f
    <2>1. PICK u \in Offsets : u = Off(q[k])
      BY <1>4
    <2>2. "DUMMY" \in mid[u].flags <=> "DUMMY" \in mem[u].flags
      BY <1>5, MarkedHeader
    <2> QED BY <1>2, <2>1, <2>2
  <1>11. ASSUME NEW k \in 1 .. n, k # f
         PROVE  /\ mem2[Off(q[k])].flags = mid[Off(q[k])].flags
                /\ mem2[Off(q[k])].flags = mem[Off(q[k])].flags \cup IF k = x THEN {"FREE"} ELSE {}
    <2>1. PICK u \in Offsets : u = Off(q[k])
      BY <1>4
    <2>2. mid[u].flags = mem[u].flags \cup IF u \in {o} THEN {"FREE"} ELSE {}
      BY <1>5, MarkedHeader
    <2>3. mem2[u].flags = mid[u].flags \cup IF u \in Fillers(mid, Range(over)) THEN {"FREE"} ELSE {}
      BY <1>5, <1>6, MarkedHeader
    <2>4. u \notin Fillers(mid, Range(over))
      BY <1>10, <1>11, <2>1 DEF Fillers
    <2>5. u \in {o} <=> k = x
      BY <1>4, <2>1
    <2>6. mem2[u].flags = mid[u].flags
      BY <2>3, <2>4
    <2> QED BY <2>1, <2>2, <2>5, <2>6
  <1>12. ASSUME NEW k \in 1 .. n, k # f
         PROVE  /\ "WRITTEN" \in mem2[Off(q[k])].flags <=> "WRITTEN" \in mem[Off(q[k])].flags
                /\ "FREE" \in mem2[Off(q[k])].flags <=> k = x \/ "FREE" \in mem[Off(q[k])].flags
                /\ Off(q[k]) \in hd2 <=> Off(q[k]) \in hd /\ k # x
    <2>1. mem2[Off(q[k])].flags = mem[Off(q[k])].flags \cup IF k = x THEN {"FREE"} ELSE {}
      BY <1>11, <1>12
    <2>2. Off(q[k]) \in hd2 <=> Off(q[k]) \in hd /\ k # x
      BY <1>3, <1>4
    <2> QED BY <2>1, <2>2
  <1>13. ASSUME NEW k \in 1 .. n, k # f
         PROVE  Staged(k, w, r, Off(q[k]), mem2, wr, hd2)
    <2>1. Staged(k, w, r, Off(q[k]), mem, wr, hd)
      BY <1>2, <1>13
    <2>2. k >= r => k # x
      BY <1>2, <1>8
    <2> QED BY <1>12, <1>13, <2>1, <2>2 DEF Staged
  <1>14. ASSUME NEW k \in 1 .. n, k # f
         PROVE  StageOf(mem2, wr, hd2, Off(q[k])) = IF k = x THEN "returned" ELSE StageOf(mem,
                 wr, hd, Off(q[k]))
    <2>1. x < w
      BY <1>2, <1>8
    <2>2. o \notin wr
      BY <1>7, <2>1 DEF Staged
    <2>3. CASE k = x
      BY <1>12, <1>14, <2>2, <2>3 DEF StageOf
    <2>4. CASE k # x
      BY <1>12, <1>14, <2>4 DEF StageOf
    <2> QED BY <2>3, <2>4
  <1>15. Restaged(x, "returned", n, q, f, mem, wr, hd, mem2, wr, hd2)
    BY <1>9, <1>14 DEF Restaged
  <1>16. Laid(n, q, f, mem2, rg)
    <2>1. Laid(n, q, f, mid, rg)
      BY <1>1, <1>5, MarkedLaid
    <2> QED BY <1>5, <1>6, <2>1, MarkedLaid
  <1>17. Waiting(n, q, f, r, mem2) = Waiting(n, q, f, r, mem)
    <2>1. \A k \in r .. n : k # f =>
            ("WRITTEN" \in mem2[Off(q[k])].flags <=> "WRITTEN" \in mem[Off(q[k])].flags)
      BY <1>2, <1>12
    <2> QED BY <2>1 DEF Waiting
  <1>18. \A u \in wr \cup hd2 : \E k \in 1 .. n : k # f /\ u = Off(q[k])
    BY <1>2, <1>3
  <1>19. Placed(n, q, f, w, r, mem2, rg, wr, hd2)
    BY <1>2, <1>13, <1>17, <1>18 DEF Placed
  <1>20. Shape(n, q, f, w, r, mem2, rg, wr, hd2)
    BY <1>16, <1>19 DEF Shape
  <1> QED BY <1>4, <1>6, <1>8, <1>10, <1>11, <1>15, <1>20

LEMMA ReturnedFrees ==
    ASSUME NEW mem \in Memories, NEW rg \in RingRecords, NEW n, NEW q, NEW f, NEW w, NEW r,
           NEW wr, NEW hd, Shape(n, q, f, w, r, mem, rg, wr, hd),
           NEW o, NEW mid, NEW over, NEW mem2, NEW rg2, NEW hd2,
           ReturnedTo(o, mem, rg, hd, mid, over, mem2, rg2, hd2),
           NEW x \in 1 .. n, x # f, o = Off(q[x])
    PROVE  \E v : Freed(v, n, q, f, r, mem2, rg, rg2)
  <1>1. /\ mid \in Memories /\ x < r
        /\ \A k \in 1 .. n : Off(q[k]) \in Offsets /\ ("DUMMY" \in mid[Off(q[k])].flags <=> k = f)
        /\ \A k \in 1 .. n : k # f => mem2[Off(q[k])].flags = mid[Off(q[k])].flags
    BY ReturnedMarks
  <1>2. Laid(n, q, f, mem, rg) /\ Placed(n, q, f, w, r, mem, rg, wr, hd)
    BY DEF Shape
  <1>3. /\ n \in Nat /\ w \in 1 .. n + 1 /\ r \in 1 .. w /\ rg.read = Off(q[r])
        /\ q[1] = rg.free /\ (rg.full <=> n > 0 /\ q[n + 1] = q[1] + RingUnits) /\ RingUnits \in Nat
    BY <1>2, RingAssumption DEF Laid, Placed
  <1>4. rg.free = Off(q[1])
    <2>1. q[1] < RingUnits /\ q[1] \in Nat
      BY <1>2, PlaceFacts
    <2> QED BY <1>3, <2>1 DEF Off
  <1>5. 1 < r /\ r \in 1 .. n + 1 /\ 1 \in 1 .. n + 1 /\ 1 \in 1 .. n
    BY <1>1, <1>3
  <1>6. rg.free = rg.read => rg.full
    <2> HAVE rg.free = rg.read
    <2>1. Off(q[1]) = Off(q[r])
      BY <1>3, <1>4
    <2>2. r = n + 1 /\ q[n + 1] = q[1] + RingUnits
      BY <1>2, <1>3, <1>5, <2>1, Apart
    <2> QED BY <1>3, <1>5, <2>2
  <1>7. over = Run(mid, rg.free, Flagged(mid, {"FREE", "DUMMY"}), rg.read)
    BY <1>6 DEF ReturnedTo
  <1> DEFINE passes == Flagged(mid, {"FREE", "DUMMY"})
  <1>8. \A k \in 1 .. n : Off(q[k]) \in passes <=> k = f \/ "FREE" \in mid[Off(q[k])].flags
    <2> TAKE k \in 1 .. n
    <2>1. PICK u \in Offsets : u = Off(q[k])
      BY <1>1
    <2>2. u \in passes <=> "FREE" \in mid[u].flags \/ "DUMMY" \in mid[u].flags
      BY DEF Flagged
    <2>3. "DUMMY" \in mid[u].flags <=> k = f
      BY <1>1, <2>1
    <2> HIDE DEF passes
    <2> QED BY <2>1, <2>2, <2>3
  <1>9. LoopRun(over, 1, r, q, mid, passes)
    BY <1>3, <1>4, <1>7 DEF LoopRun
  <1> HIDE DEF passes
  <1>10. Laid(n, q, f, mid, rg)
    <2>1. MarkedAs(mid, mem, {o}, "FREE") /\ "FREE" \in Marks
      BY DEF ReturnedTo, Marks
    <2> QED BY <1>2, <2>1, MarkedLaid
  <1>11. PICK v \in 1 .. r : PassedTo(v, over, 1, r, q, mid, passes)
    BY <1>1, <1>5, <1>9, <1>10, LoopOver
  <1>12. /\ \A k \in 1 .. v - 1 : Off(q[k]) \in passes
         /\ v = r \/ Off(q[v]) \notin passes
         /\ EndOf(mid, over, Off(q[1])) = Off(q[v])
         /\ over = <<>> <=> v = 1
    BY <1>11 DEF PassedTo
  <1>13. \A k \in 1 .. v - 1 : k # f => "FREE" \in mem2[Off(q[k])].flags
    <2> TAKE k \in 1 .. v - 1
    <2> HAVE k # f
    <2>1. k \in 1 .. n
      BY <1>3
    <2> QED BY <1>1, <1>8, <1>12, <2>1
  <1>14. v = r \/ (v # f /\ "FREE" \notin mem2[Off(q[v])].flags)
    <2> SUFFICES ASSUME v # r PROVE v # f /\ "FREE" \notin mem2[Off(q[v])].flags
      OBVIOUS
    <2>1. v \in 1 .. n
      BY <1>3
    <2> QED BY <1>1, <1>8, <1>12, <2>1
  <1>15. /\ rg2.free = Off(q[v]) /\ (rg2.full <=> rg.full /\ v = 1)
         /\ rg2.acquire = rg.acquire /\ rg2.write = rg.write /\ rg2.read = rg.read
         /\ rg2.waiting = rg.waiting
    <2>1. rg2 = [rg EXCEPT !.free = EndOf(mid, over, rg.free), !.full = @ /\ over = <<>>]
      BY DEF ReturnedTo
    <2>2. /\ rg2.free = EndOf(mid, over, rg.free) /\ (rg2.full = (rg.full /\ over = <<>>))
          /\ rg2.acquire = rg.acquire /\ rg2.write = rg.write /\ rg2.read = rg.read
          /\ rg2.waiting = rg.waiting
      BY <2>1 DEF RingRecords
    <2> QED BY <1>4, <1>12, <2>2
  <1>16. Freed(v, n, q, f, r, mem2, rg, rg2)
    BY <1>11, <1>13, <1>14, <1>15 DEF Freed
  <1> QED BY <1>16

LEMMA RingReturnStep ==
    ASSUME NEW n, NEW q, NEW f, NEW w, NEW r, Shape(n, q, f, w, r, storage, ring, writing, held),
           storage \in Memories, ring \in RingRecords, junk \subseteq Flags,
           NEW o \in held, RingReturn(o)
    PROVE  GoesOn(n, q, f)
  <1>1. PICK mem, rg, wr, hd, mem2, rg2, hd2 :
            /\ mem = storage /\ rg = ring /\ wr = writing /\ hd = held
            /\ mem2 = storage' /\ rg2 = ring' /\ hd2 = held'
    OBVIOUS
  <1>2. PICK mid, over :
            /\ mid = Marked(mem, {o}, "FREE")
            /\ over = IF rg.free = rg.read /\ ~rg.full /\ rg.waiting # 0 THEN <<>>
                      ELSE Run(mid, rg.free, Flagged(mid, {"FREE", "DUMMY"}), rg.read)
    OBVIOUS
  <1>3. writing' = wr /\ junk' = junk
    BY <1>1 DEF RingReturn
  <1>4. ReturnedTo(o, mem, rg, hd, mid, over, mem2, rg2, hd2)
    BY <1>1, <1>2 DEF RingReturn, ReturnedRun, ReturnedTo, MarkedAs
  <1>5. Shape(n, q, f, w, r, mem, rg, wr, hd) /\ mem \in Memories /\ rg \in RingRecords
    BY <1>1
  <1>6. Laid(n, q, f, mem, rg) /\ n \in Nat /\ f \in 0 .. n
    BY <1>5 DEF Shape, Laid
  <1>7. PICK x \in 1 .. n : x # f /\ o = Off(q[x])
    BY <1>1, <1>5 DEF Shape, Placed
  <1>8. /\ mem2 \in Memories
        /\ Restaged(x, "returned", n, q, f, mem, wr, hd, mem2, wr, hd2)
        /\ Shape(n, q, f, w, r, mem2, rg, wr, hd2)
    BY <1>4, <1>5, <1>7, ReturnedMarks
  <1>9. Laid(n, q, f, mem2, rg) /\ Placed(n, q, f, w, r, mem2, rg, wr, hd2)
    BY <1>8 DEF Shape
  <1>10. PICK v : Freed(v, n, q, f, r, mem2, rg, rg2)
    BY <1>4, <1>5, <1>7, ReturnedFrees
  <1>11. PICK n2, q2, f2 : Shifted(v, n, q, f, n2, q2, f2)
    BY DEF Shifted
  <1>12. v \in 1 .. n + 1 /\ r \in 1 .. n + 1
    <2>1. w \in 1 .. n + 1 /\ r \in 1 .. w /\ v \in 1 .. r
      BY <1>9, <1>10 DEF Placed, Freed
    <2> QED BY <1>6, <2>1
  <1>13. Laid(n2, q2, f2, mem2, rg2)
    BY <1>5, <1>8, <1>9, <1>10, <1>11, <1>12, FreedLaid
  <1>14. Placed(n2, q2, f2, w - v + 1, r - v + 1, mem2, rg2, wr, hd2)
    BY <1>5, <1>8, <1>9, <1>10, <1>11, FreedPlaced
  <1>15. Shape(n2, q2, f2, w - v + 1, r - v + 1, mem2, rg2, wr, hd2)
    BY <1>13, <1>14 DEF Shape
  <1>16. PICK s, s2, t : /\ s = ItemsOf(n, q, f, mem, wr, hd)
                         /\ s2 = ItemsOf(n, q, f, mem2, wr, hd2)
                         /\ t = ItemsOf(n2, q2, f2, mem2, wr, hd2)
    OBVIOUS
  <1>17. PICK i \in 1 .. Count(n, f) : Nth(f, i) = x
    BY <1>6, <1>7, NthFacts
  <1>18. s2 = OneStage(s, i, "returned")
    <2>1. "returned" \in Queue!Stages
      BY DEF Queue!Stages
    <2> QED BY <1>5, <1>6, <1>8, <1>16, <1>17, <2>1, RestagedItems
  <1>19. t = Queue!Reclaimed(s2)
    BY <1>5, <1>8, <1>9, <1>10, <1>11, <1>16, FreedItems
  <1>20. DOMAIN s = 1 .. Count(n, f) /\ s[i].stage = "taken"
    <2>1. s \in [1 .. Count(n, f) -> QueueItems] /\ s[i] = QueueItem(mem, wr, hd, Off(q[Nth(f, i)]))
      BY <1>5, <1>6, <1>16, <1>17, ItemsOfFacts
    <2>2. s[i] = QueueItem(mem, wr, hd, o)
      BY <1>7, <1>17, <2>1
    <2>3. o \in hd /\ o \notin wr
      <3>1. Staged(x, w, r, o, mem, wr, hd) /\ r \in 1 .. w /\ w \in 1 .. n + 1
        BY <1>5, <1>7 DEF Shape, Placed
      <3>2. x < r
        BY <1>4, <1>5, <1>7, ReturnedMarks
      <3>3. x < w
        BY <1>6, <3>1, <3>2
      <3> QED BY <1>1, <3>1, <3>3 DEF Staged
    <2> QED BY <2>1, <2>2, <2>3 DEF QueueItem, StageOf
  <1>21. QueueMoves(s, t)
    BY <1>18, <1>19, <1>20 DEF OneStage, QueueMoves
  <1>22. rg2 \in RingRecords
    <2>1. rg2 = [rg EXCEPT !.free = EndOf(mid, over, rg.free), !.full = @ /\ over = <<>>]
      BY <1>4 DEF ReturnedTo
    <2>2. rg2.free = Off(q[v])
      BY <1>10 DEF Freed
    <2>3. Off(q[v]) \in Offsets
      BY <1>5, <1>6, <1>12, PlaceFacts
    <2>4. rg2.free = EndOf(mid, over, rg.free)
      BY <1>5, <2>1 DEF RingRecords
    <2>5. EndOf(mid, over, rg.free) \in Offsets
      BY <2>2, <2>3, <2>4
    <2>6. (rg.full /\ over = <<>>) \in BOOLEAN
      OBVIOUS
    <2> QED BY <1>5, <2>1, <2>5, <2>6 DEF RingRecords
  <1> QED BY <1>1, <1>3, <1>8, <1>15, <1>16, <1>21, <1>22 DEF GoesOn
-----------------------------------------------------------------------------
(* The storage is the queue that it promises to be *)

ItemsFrom(mem, rg, wr, hd) ==
    LET live == LiveOf(mem, PathOf(mem, rg)) IN [i \in DOMAIN live |-> QueueItem(mem, wr, hd, live[i])]

LEMMA ItemsAre ==
    ASSUME NEW mem \in Memories, NEW rg \in RingRecords, NEW wr, NEW hd, NEW n, NEW q, NEW f,
           Laid(n, q, f, mem, rg)
    PROVE  ItemsFrom(mem, rg, wr, hd) = ItemsOf(n, q, f, mem, wr, hd)
  <1>1. PICK live : live = LiveOf(mem, PathOf(mem, rg))
    OBVIOUS
  <1>2. live = [i \in 1 .. Count(n, f) |-> Off(q[Nth(f, i)])]
    BY <1>1, LiveIs
  <1>3. ItemsFrom(mem, rg, wr, hd) = [i \in DOMAIN live |-> QueueItem(mem, wr, hd, live[i])]
    BY <1>1 DEF ItemsFrom
  <1> QED BY <1>2, <1>3 DEF ItemsOf

LEMMA ItemsHere ==
    /\ Items = ItemsFrom(storage, ring, writing, held)
    /\ Items' = ItemsFrom(storage', ring', writing', held')
    /\ Live = LiveOf(storage, PathOf(storage, ring))
  <1>1. Path = PathOf(storage, ring) /\ Path' = PathOf(storage', ring')
    BY DEF Path, PathOf
  <1>2. Live = LiveOf(storage, Path) /\ Live' = LiveOf(storage', Path')
    BY DEF Live, LiveOf
  <1>3. Items = [i \in DOMAIN Live |-> QueueItem(storage, writing, held, Live[i])]
    BY DEF Items, QueueItem, Stage, StageOf
  <1>4. Items' = [i \in DOMAIN Live' |-> QueueItem(storage', writing', held', Live'[i])]
    BY DEF Items, QueueItem, Stage, StageOf
  <1> QED BY <1>1, <1>2, <1>3, <1>4 DEF ItemsFrom

LEMMA RingStarted == RingInit => RingIInv /\ Items = <<>>
  <1> SUFFICES ASSUME RingInit PROVE RingIInv /\ Items = <<>>
    OBVIOUS
  <1>1. RingUnits \in Nat /\ RingUnits >= 8
    BY RingAssumption DEF ITEM_HEADER
  <1>2. PICK mem, rg, wr, hd : mem = storage /\ rg = ring /\ wr = writing /\ hd = held
    OBVIOUS
  <1>3. /\ rg = [acquire |-> 0, write |-> 0, read |-> 0, free |-> 0, waiting |-> 0, full |-> FALSE]
        /\ wr = {} /\ hd = {} /\ junk \subseteq Flags /\ mem = [o \in Offsets |-> Junk]
    BY <1>2 DEF RingInit
  <1>4. mem \in Memories /\ rg \in RingRecords
    <2>1. Junk \in Headers
      BY <1>1, <1>3 DEF Junk, Headers
    <2>2. mem \in Memories
      BY <1>3, <2>1 DEF Memories
    <2>3. 0 \in Offsets /\ 0 \in 0 .. RingUnits
      BY <1>1 DEF Offsets
    <2> QED BY <1>3, <2>2, <2>3 DEF RingRecords
  <1>5. PICK q : q = [k \in 1 .. 1 |-> 0]
    OBVIOUS
  <1>6. q \in [1 .. 0 + 1 -> Nat] /\ q[1] = 0 /\ q[0 + 1] = 0 /\ Off(0) = 0
    BY <1>1, <1>5 DEF Off
  <1>7. Laid(0, q, 0, mem, rg)
    <2>1. \A k \in 1 .. 0 + 1 : k = 1
      OBVIOUS
    <2>2. \A k \in 1 .. 0 + 1 : Off(q[k]) \in 0 .. RingUnits - ITEM_HEADER
      BY <1>1, <1>6, <2>1 DEF ITEM_HEADER
    <2>3. \A j, k \in 1 .. 0 + 1 : j <= k => q[j] + (k - j) <= q[k]
      BY <1>6, <2>1
    <2>4. \A k : k \notin 1 .. 0
      OBVIOUS
    <2> QED BY <1>1, <1>3, <1>6, <2>2, <2>3, <2>4 DEF Laid
  <1>8. Placed(0, q, 0, 1, 1, mem, rg, wr, hd)
    <2>1. \A k : k \notin 1 .. 0
      OBVIOUS
    <2>2. Waiting(0, q, 0, 1, mem) = {}
      BY DEF Waiting
    <2>3. rg.waiting = Cardinality(Waiting(0, q, 0, 1, mem))
      BY <1>3, <2>2, FS_EmptySet
    <2>4. 1 \in 1 .. 0 + 1 /\ 1 \in 1 .. 1 /\ ~(1 <= 0)
      OBVIOUS
    <2> QED BY <1>3, <1>6, <2>1, <2>3, <2>4 DEF Placed
  <1>9. RingIInv
    BY <1>2, <1>3, <1>4, <1>7, <1>8 DEF RingIInv, Shape
  <1>10. Items = <<>>
    <2>1. Items = ItemsOf(0, q, 0, mem, wr, hd)
      BY <1>2, <1>4, <1>7, ItemsAre, ItemsHere
    <2>2. Count(0, 0) = 0
      BY DEF Count
    <2> QED BY <2>1, <2>2 DEF ItemsOf
  <1> QED BY <1>9, <1>10

LEMMA RingStep ==
    ASSUME RingIInv, RingNext
    PROVE  RingIInv' /\ Queue!QueueNext
  <1>1. storage \in Memories /\ ring \in RingRecords /\ junk \subseteq Flags
    BY DEF RingIInv
  <1>2. PICK n, q, f, w, r : Shape(n, q, f, w, r, storage, ring, writing, held)
    BY DEF RingIInv
  <1>3. GoesOn(n, q, f)
    <2>1. ASSUME NEW len \in ItemLengths, RingAcquire(len) PROVE GoesOn(n, q, f)
      BY <1>1, <1>2, <2>1, RingAcquireStep
    <2>2. ASSUME NEW o \in writing, RingComplete(o) PROVE GoesOn(n, q, f)
      BY <1>1, <1>2, <2>2, RingCompleteStep
    <2>3. ASSUME RingTake PROVE GoesOn(n, q, f)
      BY <1>1, <1>2, <2>3, RingTakeStep
    <2>4. ASSUME NEW o \in held, RingReturn(o) PROVE GoesOn(n, q, f)
      BY <1>1, <1>2, <2>4, RingReturnStep
    <2> QED BY <2>1, <2>2, <2>3, <2>4 DEF RingNext
  <1>4. storage' \in Memories /\ ring' \in RingRecords /\ junk' \subseteq Flags
    BY <1>3 DEF GoesOn
  <1>5. PICK n2, q2, f2, w2, r2 :
          /\ Shape(n2, q2, f2, w2, r2, storage', ring', writing', held')
          /\ QueueMoves(ItemsOf(n, q, f, storage, writing, held),
                        ItemsOf(n2, q2, f2, storage', writing', held'))
    BY <1>3 DEF GoesOn
  <1>6. RingIInv'
    BY <1>4, <1>5 DEF RingIInv
  <1>7. Items = ItemsOf(n, q, f, storage, writing, held)
    <2>1. Laid(n, q, f, storage, ring)
      BY <1>2 DEF Shape
    <2> QED BY <1>1, <2>1, ItemsAre, ItemsHere
  <1>8. Items' = ItemsOf(n2, q2, f2, storage', writing', held')
    <2>1. PICK mem, rg, wr, hd : mem = storage' /\ rg = ring' /\ wr = writing' /\ hd = held'
      OBVIOUS
    <2>2. Laid(n2, q2, f2, mem, rg) /\ mem \in Memories /\ rg \in RingRecords
      BY <1>4, <1>5, <2>1 DEF Shape
    <2>3. ItemsFrom(mem, rg, wr, hd) = ItemsOf(n2, q2, f2, mem, wr, hd)
      BY <2>2, ItemsAre
    <2> QED BY <2>1, <2>3, ItemsHere
  <1>9. QueueMoves(Items, Items')
    BY <1>5, <1>7, <1>8
  <1>10. Queue!QueueNext
    BY <1>9 DEF QueueMoves, Queue!QueueNext, Queue!Acquire, Queue!Complete, Queue!Take, Queue!Return
  <1> QED BY <1>6, <1>10

LEMMA RingStutter ==
    ASSUME RingIInv, UNCHANGED ringVars
    PROVE  RingIInv' /\ Items' = Items
  <1>1. storage' = storage /\ ring' = ring /\ junk' = junk /\ writing' = writing /\ held' = held
    BY DEF ringVars
  <1> QED BY <1>1, ItemsHere DEF RingIInv

LEMMA RingTyped == RingIInv => RingTypeOK
  <1> SUFFICES ASSUME RingIInv PROVE RingTypeOK
    OBVIOUS
  <1>1. PICK mem, rg, wr, hd : mem = storage /\ rg = ring /\ wr = writing /\ hd = held
    OBVIOUS
  <1>2. mem \in Memories /\ rg \in RingRecords
    BY <1>1 DEF RingIInv
  <1>3. PICK n, q, f, w, r : Shape(n, q, f, w, r, mem, rg, wr, hd)
    BY <1>1 DEF RingIInv
  <1>4. Laid(n, q, f, mem, rg) /\ n \in Nat /\ f \in 0 .. n
    BY <1>3 DEF Shape, Laid
  <1>5. PICK live : live = LiveOf(mem, PathOf(mem, rg))
    OBVIOUS
  <1>6. live = [i \in 1 .. Count(n, f) |-> Off(q[Nth(f, i)])]
    BY <1>2, <1>4, <1>5, LiveIs
  <1>7. ASSUME NEW u \in wr \cup hd PROVE u \in Range(live)
    <2>1. PICK k \in 1 .. n : k # f /\ u = Off(q[k])
      BY <1>3 DEF Shape, Placed
    <2>2. PICK i \in 1 .. Count(n, f) : Nth(f, i) = k
      BY <1>4, <2>1, NthFacts
    <2>3. i \in DOMAIN live /\ live[i] = u
      BY <1>6, <2>1, <2>2
    <2> QED BY <2>3 DEF Range
  <1>8. writing \cup held \subseteq Range(Live)
    BY <1>1, <1>5, <1>7, ItemsHere
  <1> QED BY <1>1, <1>2, <1>8 DEF RingTypeOK, RingRecords, Memories

\* The bytes of an item end before the next header's place.
LEMMA BytesBefore ==
    ASSUME NEW mem \in Memories, NEW rg \in RingRecords, NEW n, NEW q, NEW f, Laid(n, q, f, mem, rg),
           NEW k \in 1 .. n, k # f, NEW size, size = StoredSize(mem[Off(q[k])].len)
    PROVE  size \in Nat /\ Off(q[k]) + size <= RingUnits /\ q[k] + size <= q[k + 1]
  <1>1. PICK x, y \in Nat : x = q[k] /\ y = q[k + 1]
    BY PlaceFacts
  <1>2. /\ RingUnits \in Nat /\ RingUnits >= 8 /\ x < y /\ x < 2 * RingUnits
        /\ Off(x) \in Offsets /\ Off(y) \in Offsets
    <2>1. n \in Nat /\ k \in 1 .. n + 1 /\ k + 1 \in 1 .. n + 1 /\ k < k + 1
      BY PlaceFacts
    <2>2. x < y /\ Off(x) \in Offsets /\ Off(y) \in Offsets
      BY <1>1, <2>1, PlaceFacts
    <2>3. q[1] \in Nat /\ q[1] < RingUnits /\ x <= q[1] + RingUnits /\ RingUnits \in Nat /\ RingUnits >= 8
      BY <1>1, <2>1, PlaceFacts
    <2> QED BY <2>2, <2>3
  <1>3. PICK o : o = Off(x)
    OBVIOUS
  <1>4. size \in Nat /\ size >= 2
    <2>1. mem[o].len \in Nat
      BY <1>2, <1>3 DEF Memories, Headers
    <2> QED BY <1>1, <1>3, <2>1 DEF StoredSize, ITEM_HEADER
  <1>5. o + size <= RingUnits
    BY <1>1, <1>3 DEF Laid
  <1>6. Off(y) = Wrap(o + size)
    <2>1. Behind(mem, o) = Off(y) /\ "DUMMY" \notin mem[o].flags
      BY <1>1, <1>3 DEF Laid
    <2> QED BY <1>1, <1>3, <2>1 DEF Behind
  <1>7. x + size <= y
    BY <1>2, <1>3, <1>4, <1>5, <1>6 DEF Off, Wrap, ITEM_HEADER
  <1> QED BY <1>1, <1>3, <1>4, <1>5, <1>7

LEMMA BytesApart ==
    ASSUME NEW mem \in Memories, NEW rg \in RingRecords, NEW n, NEW q, NEW f, Laid(n, q, f, mem, rg),
           NEW j \in 1 .. n, j # f, NEW k \in 1 .. n, k # f, j < k,
           NEW c, c = StoredSize(mem[Off(q[j])].len), NEW d, d = StoredSize(mem[Off(q[k])].len)
    PROVE  (Off(q[j]) .. Off(q[j]) + c - 1) \cap (Off(q[k]) .. Off(q[k]) + d - 1) = {}
  <1>1. PICK x, y : x = q[j] /\ y = q[k]
    OBVIOUS
  <1>2. /\ n \in Nat /\ j \in 1 .. n + 1 /\ j + 1 \in 1 .. n + 1 /\ k \in 1 .. n + 1
             /\ k + 1 \in 1 .. n + 1
        /\ j + 1 = k \/ j + 1 < k
    BY PlaceFacts
  <1>3. /\ c \in Nat /\ Off(x) + c <= RingUnits /\ x + c <= q[j + 1]
        /\ d \in Nat /\ Off(y) + d <= RingUnits /\ y + d <= q[k + 1]
    BY <1>1, BytesBefore
  <1>4. /\ x \in Nat /\ y \in Nat /\ q[j + 1] \in Nat /\ q[k + 1] \in Nat /\ RingUnits \in Nat
        /\ q[1] \in Nat /\ q[1] < RingUnits /\ q[1] <= x /\ q[1] <= y
        /\ y <= q[1] + RingUnits /\ q[k + 1] <= q[1] + RingUnits /\ q[j + 1] <= y
    <2>1. j + 1 < k => q[j + 1] < q[k]
      BY <1>2, PlaceFacts
    <2>2. q[j + 1] <= q[k]
      <3>1. q[k] \in Nat /\ q[j + 1] \in Nat
        BY <1>2, PlaceFacts
      <3> QED BY <1>2, <2>1, <3>1
    <2> QED BY <1>1, <1>2, <2>2, PlaceFacts
  <1>5. PICK o, p : o = Off(x) /\ p = Off(y)
    OBVIOUS
  <1>6. o \in Nat /\ p \in Nat /\ (o + c <= p \/ p + d <= o)
    BY <1>3, <1>4, <1>5 DEF Off
  <1>7. ASSUME NEW b \in o .. o + c - 1, b \in p .. p + d - 1 PROVE FALSE
    BY <1>3, <1>6, <1>7
  <1> QED BY <1>1, <1>5, <1>7

LEMMA NoneOverlaps == RingIInv => ItemsApart
  <1> SUFFICES ASSUME RingIInv PROVE ItemsApart
    OBVIOUS
  <1>1. PICK mem, rg, live : mem = storage /\ rg = ring /\ live = Live
    OBVIOUS
  <1>2. mem \in Memories /\ rg \in RingRecords
    BY <1>1 DEF RingIInv
  <1>3. PICK n, q, f : Laid(n, q, f, mem, rg)
    BY <1>1 DEF RingIInv, Shape
  <1>4. n \in Nat /\ f \in 0 .. n
    BY <1>3 DEF Laid
  <1>5. live = [i \in 1 .. Count(n, f) |-> Off(q[Nth(f, i)])]
    <2>1. live = LiveOf(mem, PathOf(mem, rg))
      BY <1>1, ItemsHere
    <2> QED BY <1>2, <1>3, <2>1, LiveIs
  <1> DEFINE bytes(i) == live[i] .. live[i] + StoredSize(mem[live[i]].len) - 1
  <1>6. ASSUME NEW i \in DOMAIN live PROVE bytes(i) \subseteq Offsets
    <2>1. PICK k : k = Nth(f, i)
      OBVIOUS
    <2>2. k \in 1 .. n /\ k # f /\ live[i] = Off(q[k])
      BY <1>4, <1>5, <2>1, NthFacts
    <2>3. PICK o, size : o = Off(q[k]) /\ size = StoredSize(mem[o].len)
      OBVIOUS
    <2>4. size \in Nat /\ o + size <= RingUnits
      BY <1>2, <1>3, <2>2, <2>3, BytesBefore
    <2>5. o \in Offsets
      <3>1. k \in 1 .. n + 1
        BY <1>4, <2>2
      <3> QED BY <1>2, <1>3, <2>3, <3>1, PlaceFacts
    <2>6. o .. o + size - 1 \subseteq Offsets
      BY <2>4, <2>5, RingAssumption DEF Offsets
    <2> QED BY <2>2, <2>3, <2>6
  <1>7. ASSUME NEW i \in DOMAIN live, NEW j \in 1 .. i - 1 PROVE bytes(i) \cap bytes(j) = {}
    <2>1. PICK k, l : k = Nth(f, i) /\ l = Nth(f, j)
      OBVIOUS
    <2>2. Count(n, f) \in Nat /\ i \in 1 .. Count(n, f) /\ j \in 1 .. Count(n, f)
      <3>1. Count(n, f) \in Nat /\ i \in 1 .. Count(n, f)
        BY <1>4, <1>5, NthFacts
      <3> QED BY <3>1
    <2>3. /\ k \in 1 .. n /\ k # f /\ l \in 1 .. n /\ l # f /\ l < k
          /\ live[i] = Off(q[k]) /\ live[j] = Off(q[l])
      BY <1>4, <1>5, <2>1, <2>2, NthFacts
    <2>4. PICK c, d : c = StoredSize(mem[Off(q[l])].len) /\ d = StoredSize(mem[Off(q[k])].len)
      OBVIOUS
    <2>5. (Off(q[l]) .. Off(q[l]) + c - 1) \cap (Off(q[k]) .. Off(q[k]) + d - 1) = {}
      BY <1>2, <1>3, <2>3, <2>4, BytesApart
    <2> QED BY <2>3, <2>4, <2>5
  <1> QED BY <1>1, <1>6, <1>7 DEF ItemsApart

\* Nothing before the oldest item not taken is still to be taken, so that take() looks at it.
LEMMA NoneStranded == RingIInv => NothingStranded
  <1> SUFFICES ASSUME RingIInv, NEW i \in DOMAIN Items, Items[i].stage = "written",
                      \A j \in 1 .. i - 1 : Items[j].stage \in {"taken", "returned"}
               PROVE  ItemAvailable
    BY DEF NothingStranded
  <1>1. PICK mem, rg, wr, hd, s : mem = storage /\ rg = ring /\ wr = writing /\ hd = held /\ s = Items
    OBVIOUS
  <1>2. mem \in Memories /\ rg \in RingRecords
    BY <1>1 DEF RingIInv
  <1>3. PICK n, q, f, w, r : Shape(n, q, f, w, r, mem, rg, wr, hd)
    BY <1>1 DEF RingIInv
  <1>4. Laid(n, q, f, mem, rg) /\ n \in Nat /\ f \in 0 .. n
    BY <1>3 DEF Shape, Laid
  <1>5. /\ w \in 1 .. n + 1 /\ r \in 1 .. w /\ rg.write = Off(q[w]) /\ rg.read = Off(q[r])
        /\ \A k \in 1 .. n : k # f => Staged(k, w, r, Off(q[k]), mem, wr, hd)
        /\ w <= n => IF w = f THEN Off(q[f + 1]) \in wr ELSE Off(q[w]) \in wr
        /\ rg.waiting = Cardinality(Waiting(n, q, f, r, mem))
        /\ rg.full <=> n > 0 /\ q[n + 1] = q[1] + RingUnits
    BY <1>3 DEF Shape, Laid, Placed
  <1>6. s = ItemsOf(n, q, f, mem, wr, hd)
    BY <1>1, <1>2, <1>4, ItemsAre, ItemsHere
  <1>7. /\ DOMAIN s = 1 .. Count(n, f) /\ Count(n, f) \in Nat
        /\ \A j \in 1 .. Count(n, f) : s[j].stage = StageOf(mem, wr, hd, Off(q[Nth(f, j)]))
    <2>1. /\ s \in [1 .. Count(n, f) -> QueueItems] /\ Count(n, f) \in Nat
          /\ \A j \in 1 .. Count(n, f) : s[j] = QueueItem(mem, wr, hd, Off(q[Nth(f, j)]))
      BY <1>2, <1>4, <1>6, ItemsOfFacts
    <2> QED BY <2>1 DEF QueueItem
  <1>8. i \in 1 .. Count(n, f) /\ s[i].stage = "written"
          /\ \A j \in 1 .. i - 1 : s[j].stage \in {"taken", "returned"}
    BY <1>1, <1>7
  <1>9. PICK k : k = Nth(f, i)
    OBVIOUS
  <1>10. k \in 1 .. n /\ k # f
    BY <1>4, <1>8, <1>9, NthFacts
  <1>11. PICK u : u = Off(q[k])
    OBVIOUS
  <1>12. Staged(k, w, r, u, mem, wr, hd) /\ StageOf(mem, wr, hd, u) = "written"
    BY <1>5, <1>7, <1>8, <1>9, <1>10, <1>11
  <1>13. u \notin wr /\ u \notin hd /\ "FREE" \notin mem[u].flags /\ "WRITTEN" \in mem[u].flags
    BY <1>12 DEF Staged, StageOf
  <1>14. r <= k
    <2>1. ~(k < r)
      BY <1>12, <1>13 DEF Staged
    <2> QED BY <1>4, <1>5, <1>10, <2>1
  <1>15. ASSUME NEW l \in 1 .. n, l # f, l < k PROVE l < r
    <2>1. PICK j \in 1 .. Count(n, f) : Nth(f, j) = l
      BY <1>4, <1>15, NthFacts
    <2>2. j \in 1 .. i - 1
      BY <1>4, <1>7, <1>8, <1>9, <1>10, <1>15, <2>1 DEF Nth
    <2>3. StageOf(mem, wr, hd, Off(q[l])) \in {"taken", "returned"}
      BY <1>7, <1>8, <2>1, <2>2
    <2>4. Staged(l, w, r, Off(q[l]), mem, wr, hd)
      BY <1>5, <1>15
    <2>5. ~(l >= r)
      BY <2>3, <2>4 DEF Staged, StageOf
    <2> QED BY <1>4, <1>5, <2>5
  <1>16. k = NextItem(r, f)
    <2>1. r \in 1 .. n /\ (r < k => r = f)
      BY <1>4, <1>5, <1>10, <1>14, <1>15
    <2>2. r + 1 < k => r + 1 = f
      BY <1>4, <1>5, <1>10, <1>14, <1>15
    <2> QED BY <1>4, <1>5, <1>10, <1>14, <2>1, <2>2 DEF NextItem
  <1>17. rg.waiting # 0
    <2>1. u \in Waiting(n, q, f, r, mem)
      <3>1. u \in Offsets
        <4>1. k \in 1 .. n + 1
          BY <1>4, <1>10
        <4> QED BY <1>2, <1>4, <1>11, <4>1, PlaceFacts
      <3>2. k \in r .. n
        BY <1>4, <1>5, <1>10, <1>14
      <3> QED BY <1>10, <1>11, <1>13, <3>1, <3>2 DEF Waiting
    <2>2. IsFiniteSet(Waiting(n, q, f, r, mem))
      BY FewWait
    <2> QED BY <1>5, <2>1, <2>2, FS_EmptySet
  <1>18. PICK at : at = IF "DUMMY" \in mem[rg.read].flags THEN 0 ELSE rg.read
    OBVIOUS
  <1>19. at = u
    BY <1>2, <1>3, <1>11, <1>16, <1>17, <1>18, FoundItem
  <1>20. rg.read # rg.write \/ rg.full
    <2> SUFFICES ASSUME rg.read = rg.write PROVE rg.full
      OBVIOUS
    <2>1. r < w
      <3> SUFFICES ASSUME w = r PROVE FALSE
        BY <1>4, <1>5
      <3>1. w <= n
        BY <1>4, <1>5, <1>10, <1>14
      <3>2. CASE w = f
        BY <1>4, <1>5, <1>11, <1>13, <1>16, <3>1, <3>2 DEF NextItem
      <3>3. CASE w # f
        BY <1>5, <1>11, <1>13, <1>16, <3>1, <3>3 DEF NextItem
      <3> QED BY <3>2, <3>3
    <2>2. w \in 1 .. n + 1 /\ r \in 1 .. n + 1 /\ Off(q[r]) = Off(q[w])
      BY <1>4, <1>5
    <2>3. w = n + 1 /\ r = 1 /\ q[n + 1] = q[1] + RingUnits
      BY <1>2, <1>4, <1>5, <2>1, <2>2, Apart
    <2>4. n > 0
      BY <1>4, <2>1, <2>3
    <2> QED BY <1>5, <2>3, <2>4
  <1> QED BY <1>1, <1>13, <1>17, <1>18, <1>19, <1>20 DEF ItemAvailable

LEMMA RingInductive == InboundPathSpec => []RingIInv
  <1>1. InboundPathInit => RingIInv
    BY RingStarted DEF InboundPathInit
  <1>2. RingIInv /\ [InboundPathNext]_inboundPathVars => RingIInv'
    <2> SUFFICES ASSUME RingIInv, [InboundPathNext]_inboundPathVars PROVE RingIInv'
      OBVIOUS
    <2>1. RingNext \/ UNCHANGED ringVars
      BY DEF InboundPathNext, inboundPathVars
    <2> QED BY <2>1, RingStep, RingStutter
  <1> QED BY <1>1, <1>2, PTL DEF InboundPathSpec

\* All that the runs check of the inbound path in every state holds for every size of the ring and
\* every set of lengths, slots, charges and messages: above all, no byte of the storage belongs to
\* two items in use, and take() always looks at the oldest item not taken as soon as it is complete
\* (SharedRingBuffer), whatever the bytes that lie between the headers look like.
THEOREM InboundCorrect == InboundPathSpec => []InboundSafe
  <1>1. InboundPathSpec => [](part \in {"storage", "items", "messages"})
    <2>1. InboundPathInit => part \in {"storage", "items", "messages"}
      BY DEF InboundPathInit
    <2>2. part \in {"storage", "items", "messages"} /\ [InboundPathNext]_inboundPathVars
            => (part \in {"storage", "items", "messages"})'
      BY DEF InboundPathNext, inboundPathVars
    <2> QED BY <2>1, <2>2, PTL DEF InboundPathSpec
  <1>2. /\ part \in {"storage", "items", "messages"}
        /\ InboundTypeOK /\ ItemsAccounted /\ GateTypeOK /\ GateSafe
        /\ RingIInv
        => InboundSafe
    BY RingTyped, NoneOverlaps, NoneStranded DEF InboundSafe
  <1> QED BY <1>1, <1>2, ItemsAndMessagesSafe, RingInductive, PTL

\* The storage is the queue of RingQueue: the four offsets, the full flag and the headers lose no
\* item, hand none out before it is filled, out of order or twice, and give no room back before all
\* in front of it are returned.
THEOREM StorageKeepsQueue == InboundPathSpec => KeepsQueue
  <1>1. InboundPathInit => Queue!QueueInit
    BY RingStarted DEF InboundPathInit, Queue!QueueInit
  <1>2. RingIInv /\ [InboundPathNext]_inboundPathVars => [Queue!QueueNext]_Items
    <2> SUFFICES ASSUME RingIInv, [InboundPathNext]_inboundPathVars
                 PROVE  Queue!QueueNext \/ Items' = Items
      OBVIOUS
    <2>1. RingNext \/ UNCHANGED ringVars
      BY DEF InboundPathNext, inboundPathVars
    <2> QED BY <2>1, RingStep, RingStutter
  <1> QED BY <1>1, <1>2, RingInductive, PTL DEF InboundPathSpec, KeepsQueue, Queue!QueueSpec
==============================================================================
