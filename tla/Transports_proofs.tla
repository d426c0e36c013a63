--------------------------- MODULE Transports_proofs ---------------------------
(***************************************************************************)
(* Proofs about the connections from both sides of the protocol task, for  *)
(* every value of the bounds: what start(), stop() and the calls leave     *)
(* behind, and the holds and the measurements of the time bursts.          *)
(***************************************************************************)
EXTENDS MCTransports, FiniteSetTheorems, WellFoundedInduction, TLAPS

-----------------------------------------------------------------------------
(* The life of a connection: its inductive invariant *)

Places == {"fresh", "queued", "nursery", "admitted", "released"}
Links == {"none", "connecting", "open", "closing", "closed", "failed"}

HoldingTyped ==
    /\ place \in [Conns -> Places] /\ link \in [Conns -> Links] /\ attached \in [Conns -> BOOLEAN]
    /\ reaping \subseteq Outbound /\ Cardinality(reaping) <= REAPING_CAPACITY + 1

\* The main loop and the task: admission is open from start() to stop(), whose end waits for a tick
\* that begins after the stop bit and runs the shutdown pass.
Phases ==
    /\ accepting <=> main \in {"opening", "running"}
    /\ task # "none" => main \in {"running", "joining"}
    /\ "stop" \in bits => main = "joining" /\ task # "none" /\ ~final
    /\ final /\ task # "none" => main = "joining"
    /\ final /\ task = "scans" => shutdownDone
    /\ shutdownDone => ~accepting

\* Nothing is managed once the shutdown pass has run, or while no task does.
NoneManaged == shutdownDone \/ task = "none" => Managed = {}

\* Only what is managed or queued may write to the ring; what is admitted was open; the nursery
\* holds one attempt, since a connect_to() releases the one before.
Held ==
    /\ \A c \in Conns : attached[c] => c \in Managed \/ c \in ToSet(queue)
    /\ \A c \in Inbound : link[c] # "connecting"
    /\ \A c \in Conns : place[c] = "admitted" => Upgraded(c)
    /\ \A c, d \in Outbound : place[c] = "nursery" /\ place[d] = "nursery" => c = d

\* A call that passed its check has a number left, and the connect_to() that waits came after the
\* latest disconnect().
Asked ==
    /\ caller # "idle" => calls.posted < MaxCalls
    /\ calls.cancelled <= calls.posted
    /\ requests.connect # 0 => calls.cancelled < requests.connect

LifeIInv ==
    /\ LifeTypeOK /\ Phases /\ NoneManaged /\ Held /\ Asked /\ StoppedHoldsNothing /\ CallsInOrder

-----------------------------------------------------------------------------
(* Numbers and lists *)

LEMMA Numbers ==
    /\ MaxCalls \in Nat /\ MaxPeers \in Nat /\ REAPING_CAPACITY \in Nat
    /\ Conns \subseteq Nat \ {0} /\ Outbound \subseteq Conns /\ Inbound \subseteq Conns
    /\ Outbound = 1 .. MaxCalls /\ \A c \in Conns : c \in Inbound <=> c \notin Outbound
  BY LifeAssumption DEF Conns, Outbound, Inbound

LEMMA OutboundFinite ==
    ASSUME NEW S, S \subseteq Outbound
    PROVE  IsFiniteSet(S) /\ Cardinality(S) \in Nat
  <1>1. IsFiniteSet(1 .. MaxCalls)
    BY Numbers, FS_Interval
  <1> QED BY <1>1, Numbers, FS_Subset, FS_CardinalityType

LEMMA SmallerSet ==
    ASSUME NEW S, S \subseteq Outbound, NEW T, T \subseteq S
    PROVE  T \subseteq Outbound /\ Cardinality(T) <= Cardinality(S)
  BY OutboundFinite, FS_Subset

LEMMA LeastOf ==
    ASSUME NEW S, S \subseteq Nat, S # {}
    PROVE  \E x \in S : \A y \in S : x <= y
  <1>1. PICK x \in S : \A y \in S : ~ (<<y, x>> \in OpToRel(<, Nat))
    BY NatLessThanWellFounded, WFMin
  <1>2. \A y \in S : ~ (y < x)
    BY <1>1 DEF OpToRel
  <1> QED BY <1>2

\* Those of a set with fewer than n greater ones are no more than n.
LEMMA Youngest ==
    ASSUME NEW S, S \subseteq Outbound, NEW n \in Nat
    PROVE  Cardinality({c \in S : Cardinality({d \in S : d > c}) < n}) <= n
  <1> DEFINE T == {c \in S : Cardinality({d \in S : d > c}) < n}
  <1>1. CASE T = {}
    <2>1. Cardinality(T) = 0
      BY <1>1, FS_EmptySet
    <2> QED BY <2>1
  <1>2. CASE T # {}
    <2>1. PICK x \in T : \A y \in T : x <= y
      <3> HIDE DEF T
      <3>1. T \subseteq Nat
        BY Numbers DEF T
      <3> QED BY <1>2, <3>1, LeastOf
    <2> DEFINE U == {d \in S : d > x}
    <2>2. T \ {x} \subseteq U
      <3>1. ASSUME NEW y \in T, y # x PROVE y \in S /\ y > x
        BY <2>1, <3>1, Numbers
      <3> QED BY <3>1
    <2>3. U \subseteq Outbound /\ Cardinality(U) < n
      BY <2>1
    <2>4. T \subseteq Outbound /\ x \in T
      OBVIOUS
    <2> HIDE DEF T, U
    <2>5. Cardinality(T \ {x}) <= Cardinality(U)
      BY <2>2, <2>3, SmallerSet
    <2>6. IsFiniteSet(T) /\ Cardinality(T) \in Nat /\ Cardinality(U) \in Nat
      BY <2>3, <2>4, OutboundFinite
    <2>7. Cardinality(T \ {x}) = Cardinality(T) - 1
      BY <2>4, <2>6, FS_RemoveElement
    <2>8. Cardinality(T) <= n
      BY <2>3, <2>5, <2>6, <2>7
    <2> QED BY <2>8 DEF T
  <1> QED BY <1>1, <1>2

LEMMA AcceptTaken ==
    ASSUME NEW q \in Seq(Inbound), q # <<>>
    PROVE  /\ Head(q) \in Inbound /\ Tail(q) \in Seq(Inbound) /\ Len(Tail(q)) <= Len(q)
           /\ ToSet(q) = {Head(q)} \cup ToSet(Tail(q))
  <1>1. Head(q) = q[1] /\ Len(q) \in Nat /\ Len(q) >= 1 /\ DOMAIN q = 1 .. Len(q)
    OBVIOUS
  <1>2. /\ DOMAIN Tail(q) = 1 .. Len(q) - 1
        /\ \A i \in 1 .. Len(q) - 1 : Tail(q)[i] = q[i + 1]
    OBVIOUS
  <1>3. \A i \in 1 .. Len(q) : i = 1 \/ (i - 1 \in 1 .. Len(q) - 1 /\ q[i] = Tail(q)[i - 1])
    BY <1>1, <1>2
  <1>4. ToSet(q) = {Head(q)} \cup ToSet(Tail(q))
    <2>1. \A x : x \in ToSet(q) <=> \E i \in 1 .. Len(q) : q[i] = x
      BY <1>1 DEF ToSet
    <2>2. \A x : x \in ToSet(Tail(q)) <=> \E i \in 1 .. Len(q) - 1 : Tail(q)[i] = x
      BY <1>2 DEF ToSet
    <2>3. \A i \in 1 .. Len(q) - 1 : Tail(q)[i] = q[i + 1] /\ i + 1 \in 1 .. Len(q)
      BY <1>1, <1>2
    <2>4. ASSUME NEW x PROVE x \in ToSet(q) <=> x = Head(q) \/ x \in ToSet(Tail(q))
      <3>1. ASSUME x \in ToSet(q) PROVE x = Head(q) \/ x \in ToSet(Tail(q))
        <4>1. PICK i \in 1 .. Len(q) : q[i] = x
          BY <2>1, <3>1
        <4>2. CASE i = 1
          BY <1>1, <4>1, <4>2
        <4>3. CASE i # 1
          <5>1. i - 1 \in 1 .. Len(q) - 1 /\ Tail(q)[i - 1] = x
            BY <1>3, <4>1, <4>3
          <5> QED BY <2>2, <5>1
        <4> QED BY <4>2, <4>3
      <3>2. Head(q) \in ToSet(q)
        BY <1>1, <2>1
      <3>3. ASSUME x \in ToSet(Tail(q)) PROVE x \in ToSet(q)
        BY <2>1, <2>2, <2>3, <3>3
      <3> QED BY <3>1, <3>2, <3>3
    <2> QED BY <2>4
  <1> QED BY <1>1, <1>4

LEMMA AcceptAdded ==
    ASSUME NEW q \in Seq(Inbound), NEW c \in Inbound
    PROVE  /\ Append(q, c) \in Seq(Inbound) /\ Len(Append(q, c)) = Len(q) + 1
           /\ ToSet(Append(q, c)) = ToSet(q) \cup {c}
  <1>1. Len(q) \in Nat /\ DOMAIN q = 1 .. Len(q) /\ DOMAIN Append(q, c) = 1 .. Len(q) + 1
    OBVIOUS
  <1>2. \A i \in 1 .. Len(q) + 1 : Append(q, c)[i] = IF i \in 1 .. Len(q) THEN q[i] ELSE c
    BY <1>1
  <1>3. ToSet(Append(q, c)) = ToSet(q) \cup {c}
    <2>1. /\ ToSet(q) = {q[i] : i \in 1 .. Len(q)}
          /\ ToSet(Append(q, c)) = {Append(q, c)[i] : i \in 1 .. Len(q) + 1}
      BY <1>1 DEF ToSet
    <2>2. ASSUME NEW x \in ToSet(Append(q, c)) PROVE x \in ToSet(q) \cup {c}
      <3>1. PICK i \in 1 .. Len(q) + 1 : x = Append(q, c)[i]
        BY <2>1, <2>2
      <3> QED BY <1>2, <2>1, <3>1
    <2>3. c \in ToSet(Append(q, c))
      <3>1. Len(q) + 1 \in 1 .. Len(q) + 1 /\ Len(q) + 1 \notin 1 .. Len(q)
        BY <1>1
      <3>2. Append(q, c)[Len(q) + 1] = c
        BY <1>2, <3>1
      <3> QED BY <2>1, <3>1, <3>2
    <2>4. ASSUME NEW x \in ToSet(q) PROVE x \in ToSet(Append(q, c))
      <3>1. PICK i \in 1 .. Len(q) : x = q[i]
        BY <2>1, <2>4
      <3>2. i \in 1 .. Len(q) + 1
        BY <1>1
      <3> QED BY <1>2, <2>1, <3>1, <3>2
    <2> QED BY <2>2, <2>3, <2>4
  <1> QED BY <1>1, <1>3

-----------------------------------------------------------------------------
(* What the handlers do to the connections *)

\* release_connection() and the nursery: who has each connection, and what becomes of its transport.
LEMMA Moves ==
    ASSUME HoldingTyped, \A c \in Inbound : link[c] # "connecting",
           \A c \in Conns : place[c] = "admitted" => Upgraded(c),
           NEW gone \in SUBSET Conns, NEW new \in SUBSET Conns, NEW parked \in SUBSET Outbound,
           Cardinality(parked) <= REAPING_CAPACITY + 1, Moved(gone, new, parked)
    PROVE  /\ HoldingTyped' /\ reaping' = parked
           /\ \A c \in Inbound : link'[c] # "connecting" /\ (c \notin gone => link'[c] = link[c])
           /\ \A c \in Conns : place'[c] = "admitted" => Upgraded(c)'
           /\ \A c \in Conns :
                 /\ place'[c] = IF c \in new THEN "nursery" ELSE IF c \in gone THEN "released"
                                ELSE place[c]
                 /\ attached'[c] <=> (attached[c] \/ c \in new) /\ c \notin gone
                 /\ link'[c] = "open" => link[c] = "open"
           /\ Managed' = (Managed \ gone) \cup new
  <1> DEFINE dropped == (reaping \cup gone) \ parked
  <1>1. \A c \in Conns :
           place'[c] = IF c \in new THEN "nursery" ELSE IF c \in gone THEN "released" ELSE place[c]
    <2> DEFINE becomes(c) == CASE c \in new -> "nursery" [] c \in gone \ new -> "released"
                               [] OTHER -> place[c]
    <2>1. place' = [c \in Conns |-> becomes(c)]
      BY DEF Moved
    <2>2. ASSUME NEW c \in Conns
          PROVE  becomes(c) = IF c \in new THEN "nursery" ELSE IF c \in gone THEN "released"
                              ELSE place[c]
      <3>1. CASE c \in new BY <3>1
      <3>2. CASE c \notin new /\ c \in gone BY <3>2
      <3>3. CASE c \notin new /\ c \notin gone BY <3>3
      <3> QED BY <3>1, <3>2, <3>3
    <2> HIDE DEF becomes
    <2> QED BY <2>1, <2>2
  <1>2. \A c \in Conns : attached'[c] = ((attached[c] \/ c \in new) /\ c \notin gone)
    BY DEF Moved
  <1>3. \A c \in Conns :
           link'[c] = IF c \in new \cap Outbound THEN "connecting"
                      ELSE IF c \in dropped \ new
                           THEN IF Upgraded(c) THEN "closed" ELSE "failed"
                      ELSE link[c]
    <2> DEFINE becomes(c) == CASE c \in new \cap Outbound -> "connecting"
                               [] c \in dropped \ new -> IF Upgraded(c) THEN "closed" ELSE "failed"
                               [] OTHER -> link[c]
    <2>1. link' = [c \in Conns |-> becomes(c)]
      BY DEF Moved
    <2>2. ASSUME NEW c \in Conns
          PROVE  becomes(c) = IF c \in new \cap Outbound THEN "connecting"
                              ELSE IF c \in dropped \ new
                                   THEN IF Upgraded(c) THEN "closed" ELSE "failed"
                              ELSE link[c]
      <3> HIDE DEF dropped
      <3>1. CASE c \in new \cap Outbound BY <3>1
      <3>2. CASE c \notin new \cap Outbound /\ c \in dropped \ new BY <3>2
      <3>3. CASE c \notin new \cap Outbound /\ c \notin dropped \ new BY <3>3
      <3> QED BY <3>1, <3>2, <3>3
    <2> HIDE DEF becomes, dropped
    <2> QED BY <2>1, <2>2
  <1>4. /\ DOMAIN place' = Conns /\ DOMAIN attached' = Conns /\ DOMAIN link' = Conns
        /\ place' = [c \in Conns |-> place'[c]] /\ attached' = [c \in Conns |-> attached'[c]]
        /\ link' = [c \in Conns |-> link'[c]] /\ reaping' = parked
    BY DEF Moved
  <1>5. HoldingTyped'
    <2>1. \A c \in Conns : place'[c] \in Places
      BY <1>1 DEF HoldingTyped, Places
    <2>2. \A c \in Conns : attached'[c] \in BOOLEAN
      BY <1>2 DEF HoldingTyped
    <2>3. \A c \in Conns : link'[c] \in Links
      BY <1>3 DEF HoldingTyped, Links
    <2>4. /\ place' \in [Conns -> Places] /\ attached' \in [Conns -> BOOLEAN]
          /\ link' \in [Conns -> Links]
      BY <1>4, <2>1, <2>2, <2>3
    <2> QED BY <1>4, <2>4 DEF HoldingTyped
  <1>6. Managed' = (Managed \ gone) \cup new
    BY <1>1 DEF Managed
  <1>7. \A c \in Inbound : link'[c] # "connecting" /\ (c \notin gone => link'[c] = link[c])
    BY <1>3, Numbers DEF HoldingTyped
  <1>8. \A c \in Conns : link'[c] = "open" => link[c] = "open"
    BY <1>3
  <1>9. \A c \in Conns : place'[c] = "admitted" => Upgraded(c)'
    BY <1>1, <1>3 DEF Upgraded
  <1> QED BY <1>1, <1>2, <1>4, <1>5, <1>6, <1>7, <1>8, <1>9

LEMMA Typing ==
    ASSUME LifeTypeOK
    PROVE  /\ HoldingTyped
           /\ accepting \in BOOLEAN /\ listening \in BOOLEAN /\ shutdownDone \in BOOLEAN
           /\ final \in BOOLEAN
           /\ \A c \in Conns : place[c] \in Places /\ link[c] \in Links /\ attached[c] \in BOOLEAN
           /\ Managed \subseteq Conns /\ reaping \subseteq Conns
           /\ queue \in Seq(Inbound) /\ Len(queue) \in Nat
           /\ calls.posted \in 0 .. MaxCalls /\ calls.cancelled \in 0 .. MaxCalls
           /\ calls.kept \in 0 .. MaxCalls
           /\ requests.connect \in 0 .. MaxCalls /\ requests.disconnect \in 0 .. MaxCalls
  BY Numbers DEF LifeTypeOK, HoldingTyped, Places, Links, Managed

\* No more are parked than REAPING_CAPACITY and the spare entry, and only attempts.
LEMMA ParkedIsBounded ==
    ASSUME HoldingTyped, NEW gone \in SUBSET Conns, NEW done \in BOOLEAN
    PROVE  /\ Parked(gone, done) \in SUBSET Outbound
           /\ Cardinality(Parked(gone, done)) <= REAPING_CAPACITY + 1
           /\ Parked(gone, done)
               \subseteq reaping \cup {c \in gone : c \in Outbound /\ ~Upgraded(c)}
  <1> DEFINE parking == {c \in gone : c \in Outbound /\ ~Upgraded(c)}
             all == reaping \cup parking
             kept == {c \in all : Cardinality({d \in all : d > c}) < ReapLimit(done)}
  <1>1. CASE parking = {}
    <2>1. Parked(gone, done) = reaping
      BY <1>1 DEF Parked
    <2> QED BY <2>1 DEF HoldingTyped
  <1>2. CASE parking # {}
    <2>1. Parked(gone, done) = kept
      BY <1>2 DEF Parked
    <2>2. all \subseteq Outbound
      BY DEF HoldingTyped
    <2>3. ReapLimit(done) \in Nat /\ ReapLimit(done) <= REAPING_CAPACITY + 1
      BY Numbers DEF ReapLimit
    <2>4. Cardinality(kept) <= ReapLimit(done)
      <3> HIDE DEF all
      <3> QED BY <2>2, <2>3, Youngest
    <2>5. IsFiniteSet(kept) /\ Cardinality(kept) \in Nat
      BY <2>2, OutboundFinite
    <2>6. Cardinality(kept) <= REAPING_CAPACITY + 1
      BY <2>3, <2>4, <2>5, Numbers
    <2> QED BY <2>1, <2>2, <2>6
  <1> QED BY <1>1, <1>2

LEMMA ReapedIsFewer ==
    ASSUME NEW parked \in SUBSET Outbound, Cardinality(parked) <= REAPING_CAPACITY + 1, NEW late
    PROVE  Reaped(parked, late) \in SUBSET Outbound
           /\ Cardinality(Reaped(parked, late)) <= REAPING_CAPACITY + 1
  <1>1. Reaped(parked, late) \subseteq parked
    BY DEF Reaped
  <1>2. Cardinality(Reaped(parked, late)) <= Cardinality(parked)
    BY <1>1, SmallerSet
  <1>3. Cardinality(Reaped(parked, late)) \in Nat /\ Cardinality(parked) \in Nat
    BY <1>1, OutboundFinite
  <1>4. Reaped(parked, late) \in SUBSET Outbound
    BY <1>1
  <1>5. Cardinality(Reaped(parked, late)) <= REAPING_CAPACITY + 1
    BY <1>2, <1>3, Numbers
  <1> QED BY <1>4, <1>5

-----------------------------------------------------------------------------
(* The steps that leave the connections alone *)

LEMMA SameConnections ==
    ASSUME UNCHANGED holding
    PROVE  /\ place' = place /\ link' = link /\ attached' = attached /\ reaping' = reaping
           /\ Managed' = Managed
           /\ (HoldingTyped => HoldingTyped') /\ (UNCHANGED queue /\ Held => Held')
  BY DEF holding, HoldingTyped, Held, Managed, Upgraded

\* What is said of the connections, of calls and of a stopped client is said again.
LEMMA QuietStep ==
    ASSUME LifeIInv, UNCHANGED holding, UNCHANGED queue, LifeTypeOK', Phases', Asked',
           (shutdownDone \/ task = "none")' => shutdownDone \/ task = "none" \/ Managed = {},
           main' = "stopped" => main = "stopped" /\ UNCHANGED listening, CallsInOrder'
    PROVE  LifeIInv'
  <1>1. Held' /\ Managed' = Managed
    BY SameConnections DEF LifeIInv
  <1>2. NoneManaged'
    BY <1>1 DEF LifeIInv, NoneManaged
  <1>3. StoppedHoldsNothing'
    BY <1>1, SameConnections DEF LifeIInv, StoppedHoldsNothing
  <1> QED BY <1>1, <1>2, <1>3 DEF LifeIInv

LEMMA CheckStep ==
    ASSUME LifeIInv, NEW kind \in {"connect", "disconnect"}, Check(kind)
    PROVE  LifeIInv'
  <1> USE DEF Check, running, ticking
  <1>1. UNCHANGED holding /\ UNCHANGED queue
    OBVIOUS
  <1>2. LifeTypeOK'
    BY DEF LifeIInv, LifeTypeOK, holding
  <1>3. Phases' /\ Asked'
    BY DEF LifeIInv, Phases, Asked
  <1>4. CallsInOrder'
    BY SameConnections DEF LifeIInv, CallsInOrder
  <1> QED BY <1>1, <1>2, <1>3, <1>4, QuietStep DEF LifeIInv, NoneManaged

LEMMA PostStep ==
    ASSUME LifeIInv, Post
    PROVE  LifeIInv'
  <1> DEFINE n == calls.posted + 1
  <1> USE DEF Post, PostWake, Woken, running, ticking
  <1>1. UNCHANGED holding /\ UNCHANGED queue
    OBVIOUS
  <1>2. n \in 1 .. MaxCalls /\ calls.cancelled < n
    BY Typing, Numbers DEF LifeIInv, Asked
  <1>3. requests \in [connect : 0 .. MaxCalls, disconnect : 0 .. MaxCalls]
        /\ calls \in [posted : 0 .. MaxCalls, cancelled : 0 .. MaxCalls, kept : 0 .. MaxCalls]
        /\ accepting \in BOOLEAN
    BY DEF LifeIInv, LifeTypeOK
  <1>4. \/ /\ caller = "connect"
           /\ requests' = [requests EXCEPT !.connect = n]
           /\ calls' = [calls EXCEPT !.posted = n, !.kept = IF accepting THEN n ELSE 0]
        \/ /\ caller = "disconnect"
           /\ requests' = [connect |-> 0, disconnect |-> n]
           /\ calls' = [posted |-> n, cancelled |-> n, kept |-> 0]
    BY DEF Posted, LifeIInv, LifeTypeOK
  <1>5. /\ requests' \in [connect : 0 .. MaxCalls, disconnect : 0 .. MaxCalls]
        /\ calls' \in [posted : 0 .. MaxCalls, cancelled : 0 .. MaxCalls, kept : 0 .. MaxCalls]
    <2>1. n \in 0 .. MaxCalls /\ 0 \in 0 .. MaxCalls
      BY <1>2, Numbers
    <2> HIDE DEF n
    <2>2. CASE caller = "connect"
      BY <1>3, <1>4, <2>1, <2>2
    <2>3. CASE caller = "disconnect"
      BY <1>4, <2>1, <2>3
    <2> QED BY <1>4, <2>2, <2>3
  <1>6. LifeTypeOK'
    BY <1>5 DEF LifeIInv, LifeTypeOK, holding
  <1>7. Phases'
    BY DEF LifeIInv, Phases
  <1>8. Asked'
    BY <1>2, <1>3, <1>4 DEF LifeIInv, Asked
  <1>9. CallsInOrder'
    <2>1. CASE caller = "connect"
      BY <1>2, <1>3, <1>4, <2>1, SameConnections DEF LifeIInv, CallsInOrder
    <2>2. CASE caller = "disconnect"
      BY <1>2, <1>3, <1>4, <2>2, SameConnections DEF LifeIInv, CallsInOrder
    <2> QED BY <1>4, <2>1, <2>2
  <1> QED BY <1>1, <1>6, <1>7, <1>8, <1>9, QuietStep DEF LifeIInv, NoneManaged

LEMMA BeginStep ==
    ASSUME LifeIInv, task = "wait", Begin
    PROVE  LifeIInv'
  <1> USE DEF Begin, running, asking
  <1>1. UNCHANGED holding /\ UNCHANGED queue
    OBVIOUS
  <1>2. LifeTypeOK'
    BY DEF LifeIInv, LifeTypeOK, holding
  <1>3. Phases' /\ Asked'
    BY DEF LifeIInv, Phases, Asked
  <1>4. CallsInOrder'
    BY SameConnections DEF LifeIInv, CallsInOrder
  <1> QED BY <1>1, <1>2, <1>3, <1>4, QuietStep DEF LifeIInv, NoneManaged

LEMMA NoCommandStep ==
    ASSUME LifeIInv, NoCommand
    PROVE  LifeIInv'
  <1> USE DEF NoCommand, running, asking
  <1>1. UNCHANGED holding /\ UNCHANGED queue
    OBVIOUS
  <1>2. LifeTypeOK'
    BY DEF LifeIInv, LifeTypeOK, holding
  <1>3. Phases' /\ Asked'
    BY DEF LifeIInv, Phases, Asked
  <1>4. CallsInOrder'
    BY SameConnections DEF LifeIInv, CallsInOrder
  <1> QED BY <1>1, <1>2, <1>3, <1>4, QuietStep DEF LifeIInv, NoneManaged

\* start() opens admission with nothing left of the run before.
LEMMA StartStep ==
    ASSUME LifeIInv, Start
    PROVE  LifeIInv'
  <1> USE DEF Start, ticking
  <1>1. UNCHANGED holding /\ UNCHANGED queue
    OBVIOUS
  <1>2. LifeTypeOK'
    <2>1. NoRequests \in [connect : 0 .. MaxCalls, disconnect : 0 .. MaxCalls]
      BY Numbers DEF NoRequests
    <2>2. calls' \in [posted : 0 .. MaxCalls, cancelled : 0 .. MaxCalls, kept : 0 .. MaxCalls]
      <3> HIDE DEF Start
      <3>1. calls' = [calls EXCEPT !.kept = 0] /\ 0 \in 0 .. MaxCalls
        BY Numbers DEF Start
      <3>2. calls \in [posted : 0 .. MaxCalls, cancelled : 0 .. MaxCalls, kept : 0 .. MaxCalls]
        BY DEF LifeIInv, LifeTypeOK
      <3> QED BY <3>1, <3>2
    <2>3. starts' \in 0 .. MaxStarts
      BY LifeAssumption DEF LifeIInv, LifeTypeOK
    <2> QED BY <2>1, <2>2, <2>3 DEF LifeIInv, LifeTypeOK, holding
  <1>3. Phases'
    BY DEF LifeIInv, Phases
  <1>4. Managed = {}
    BY DEF LifeIInv, StoppedHoldsNothing
  <1>5. Asked' /\ CallsInOrder'
    <2>1. /\ calls'.kept = 0 /\ calls'.posted = calls.posted /\ calls'.cancelled = calls.cancelled
          /\ requests'.connect = 0
      BY DEF LifeIInv, LifeTypeOK, NoRequests
    <2>2. Managed' = {}
      BY <1>4, SameConnections
    <2> QED BY <2>1, <2>2 DEF LifeIInv, Asked, CallsInOrder
  <1> QED BY <1>1, <1>2, <1>3, <1>4, <1>5, QuietStep DEF LifeIInv, NoneManaged

LEMMA StartTaskStep ==
    ASSUME LifeIInv, StartTask
    PROVE  LifeIInv'
  <1> USE DEF StartTask, asking
  <1>1. UNCHANGED holding /\ UNCHANGED queue
    OBVIOUS
  <1>2. LifeTypeOK'
    BY DEF LifeIInv, LifeTypeOK, holding
  <1>3. Phases' /\ Asked'
    BY DEF LifeIInv, Phases, Asked
  <1>4. CallsInOrder'
    BY SameConnections DEF LifeIInv, CallsInOrder
  <1> QED BY <1>1, <1>2, <1>3, <1>4, QuietStep DEF LifeIInv, NoneManaged

LEMMA CloseAdmissionStep ==
    ASSUME LifeIInv, CloseAdmission
    PROVE  LifeIInv'
  <1> USE DEF CloseAdmission, ticking, Woken
  <1>1. UNCHANGED holding /\ UNCHANGED queue
    OBVIOUS
  <1>2. LifeTypeOK'
    <2>1. calls \in [posted : 0 .. MaxCalls, cancelled : 0 .. MaxCalls, kept : 0 .. MaxCalls]
          /\ 0 \in 0 .. MaxCalls
      BY Numbers DEF LifeIInv, LifeTypeOK
    <2>2. calls' \in [posted : 0 .. MaxCalls, cancelled : 0 .. MaxCalls, kept : 0 .. MaxCalls]
      BY <2>1
    <2> QED BY <2>2 DEF LifeIInv, LifeTypeOK, holding
  <1>3. Phases'
    BY DEF LifeIInv, Phases
  <1>4. Asked' /\ CallsInOrder'
    <2>1. calls'.posted = calls.posted /\ calls'.cancelled = calls.cancelled
      BY DEF LifeIInv, LifeTypeOK
    <2> QED BY <2>1 DEF LifeIInv, Asked, CallsInOrder
  <1> QED BY <1>1, <1>2, <1>3, <1>4, QuietStep DEF LifeIInv, NoneManaged

LEMMA StopTaskStep ==
    ASSUME LifeIInv, StopTask
    PROVE  LifeIInv'
  <1> USE DEF StopTask, running, ticking, asking
  <1>1. UNCHANGED holding /\ UNCHANGED queue
    OBVIOUS
  <1>2. LifeTypeOK'
    BY DEF LifeIInv, LifeTypeOK, holding
  <1>3. Phases' /\ Asked'
    BY DEF LifeIInv, Phases, Asked
  <1>4. CallsInOrder'
    BY SameConnections DEF LifeIInv, CallsInOrder
  <1> QED BY <1>1, <1>2, <1>3, <1>4, QuietStep DEF LifeIInv, NoneManaged

-----------------------------------------------------------------------------
(* The transports' threads *)

LEMMA DeliverStep ==
    ASSUME LifeIInv, NEW c \in Conns, Deliver(c)
    PROVE  LifeIInv'
  <1> USE DEF running, ticking, asking
  <1>1. /\ place[c] = "fresh" /\ c \in Inbound /\ listening
        /\ UNCHANGED <<running, ticking, asking, reaping>>
    BY DEF Deliver
  <1>2. main # "stopped" /\ c \in Conns /\ HoldingTyped
    BY <1>1, Typing DEF LifeIInv, StoppedHoldsNothing
  <1>3. LifeTypeOK /\ Phases /\ NoneManaged /\ Held /\ Asked /\ CallsInOrder
    BY DEF LifeIInv
  <1>4. CASE accepting /\ Len(queue) < AcceptSlots
    <2>1. /\ queue' = Append(queue, c) /\ bits' = bits \cup {"work"}
          /\ place' = [place EXCEPT ![c] = "queued"] /\ link' = [link EXCEPT ![c] = "open"]
          /\ attached' = [attached EXCEPT ![c] = TRUE]
      BY <1>4 DEF Deliver, Woken
    <2>2. /\ queue' \in Seq(Inbound) /\ Len(queue') <= AcceptSlots
          /\ ToSet(queue') = ToSet(queue) \cup {c}
      BY <1>1, <1>3, <1>4, <2>1, Typing, AcceptAdded, LifeAssumption
    <2>3. /\ place' \in [Conns -> Places] /\ link' \in [Conns -> Links]
          /\ attached' \in [Conns -> BOOLEAN]
      BY <1>2, <2>1 DEF HoldingTyped, Places, Links
    <2>4. LifeTypeOK'
      BY <1>1, <1>3, <2>1, <2>2, <2>3 DEF LifeTypeOK, Places, Links
    <2>5. Managed' = Managed
      BY <1>1, <1>2, <2>1 DEF Managed, HoldingTyped
    <2>6. Phases' /\ NoneManaged' /\ Asked'
      BY <1>1, <1>3, <2>1, <2>5 DEF Phases, NoneManaged, Asked
    <2>7. Held'
      BY <1>1, <1>2, <1>3, <2>1, <2>2, <2>5, Numbers DEF Held, HoldingTyped, Upgraded
    <2>8. CallsInOrder'
      BY <1>1, <1>2, <1>3, <2>1, <2>5, Numbers, Typing DEF CallsInOrder, HoldingTyped
    <2> QED BY <1>1, <1>2, <2>4, <2>6, <2>7, <2>8 DEF LifeIInv, StoppedHoldsNothing
  <1>5. CASE ~(accepting /\ Len(queue) < AcceptSlots)
    <2>1. /\ queue' = queue /\ bits' = bits /\ attached' = attached
          /\ place' = [place EXCEPT ![c] = "released"] /\ link' = [link EXCEPT ![c] = "closed"]
      BY <1>5 DEF Deliver
    <2>2. place' \in [Conns -> Places] /\ link' \in [Conns -> Links]
      BY <1>2, <2>1 DEF HoldingTyped, Places, Links
    <2>3. LifeTypeOK'
      BY <1>1, <1>3, <2>1, <2>2 DEF LifeTypeOK, Places, Links
    <2>4. Managed' = Managed
      BY <1>1, <1>2, <2>1 DEF Managed, HoldingTyped
    <2>5. Phases' /\ NoneManaged' /\ Asked'
      BY <1>1, <1>3, <2>1, <2>4 DEF Phases, NoneManaged, Asked
    <2>6. Held'
      BY <1>1, <1>2, <1>3, <2>1, <2>4, Numbers DEF Held, HoldingTyped, Upgraded
    <2>7. CallsInOrder'
      BY <1>1, <1>2, <1>3, <2>1, <2>4, Numbers, Typing DEF CallsInOrder, HoldingTyped
    <2> QED BY <1>1, <1>2, <2>3, <2>5, <2>6, <2>7 DEF LifeIInv, StoppedHoldsNothing
  <1> QED BY <1>4, <1>5

\* A transport's own step leaves who has it alone, never takes back that it was open, and does not
\* open what an admitted connection has lost.
LEMMA TransportStep ==
    ASSUME LifeIInv, NEW c \in Conns, NEW to \in Links, link' = [link EXCEPT ![c] = to],
           bits' = bits \cup {"work"},
           UNCHANGED <<running, ticking, queue, asking, place, reaping>>,
           attached' \in [Conns -> BOOLEAN], \A d \in Conns : attached'[d] => attached[d],
           to # "connecting", Upgraded(c) => to \in {"open", "closing", "closed"},
           to = "open" => link[c] = "connecting",
           main = "stopped" /\ c \in Inbound => to \in {"none", "closed"}
    PROVE  LifeIInv'
  <1> USE DEF running, ticking, asking
  <1>1. LifeTypeOK /\ Phases /\ NoneManaged /\ Held /\ Asked /\ CallsInOrder /\ StoppedHoldsNothing
    BY DEF LifeIInv
  <1>2. HoldingTyped
    BY <1>1, Typing
  <1>3. Managed' = Managed
    BY DEF Managed
  <1>4. link' \in [Conns -> Links] /\ \A d \in Conns : link'[d] = IF d = c THEN to ELSE link[d]
    BY <1>2 DEF HoldingTyped
  <1>5. LifeTypeOK'
    BY <1>1, <1>4 DEF LifeTypeOK, Links
  <1>6. Phases' /\ NoneManaged' /\ Asked'
    BY <1>1, <1>3 DEF Phases, NoneManaged, Asked
  <1>7. Held'
    BY <1>1, <1>3, <1>4, Numbers DEF Held, Upgraded
  <1>8. CallsInOrder'
    BY <1>1, <1>3, <1>4, Numbers DEF CallsInOrder, Managed, Held, Upgraded
  <1>9. StoppedHoldsNothing'
    BY <1>1, <1>3, <1>4, Numbers DEF StoppedHoldsNothing
  <1> QED BY <1>5, <1>6, <1>7, <1>8, <1>9 DEF LifeIInv

LEMMA OpenStep ==
    ASSUME LifeIInv, NEW c \in Conns, Open(c)
    PROVE  LifeIInv'
  <1>1. link[c] = "connecting" /\ c \notin Inbound /\ HoldingTyped
    BY Typing DEF Open, LifeIInv, Held
  <1>2. PICK sees \in BOOLEAN :
           link' = [link EXCEPT ![c] = IF sees /\ ~attached[c] THEN "closing" ELSE "open"]
    BY DEF Open
  <1> DEFINE to == IF sees /\ ~attached[c] THEN "closing" ELSE "open"
  <1>3. to \in {"closing", "open"} /\ to \in Links
    BY DEF Links
  <1> HIDE DEF to
  <1>4. /\ bits' = bits \cup {"work"}
        /\ UNCHANGED <<running, ticking, queue, asking, place, reaping>> /\ attached' = attached
    BY DEF Open, Woken
  <1>5. link' = [link EXCEPT ![c] = to]
    BY <1>2 DEF to
  <1> QED BY <1>1, <1>3, <1>4, <1>5, TransportStep DEF Upgraded, HoldingTyped

LEMMA CloseStep ==
    ASSUME LifeIInv, NEW c \in Conns, Close(c)
    PROVE  LifeIInv'
  <1>1. HoldingTyped
    BY Typing DEF LifeIInv
  <1>2. PICK to \in {"failed", "closed"} :
           /\ link' = [link EXCEPT ![c] = to]
           /\ to = "failed" => link[c] = "connecting"
    BY DEF Close
  <1>3. to \in Links /\ to # "connecting" /\ to # "open"
    BY DEF Links
  <1>4. /\ bits' = bits \cup {"work"}
        /\ UNCHANGED <<running, ticking, queue, asking, place, reaping>> /\ attached' = attached
    BY DEF Close, Woken
  <1>5. c \in Inbound => to = "closed"
    BY <1>2 DEF LifeIInv, Held
  <1> QED BY <1>1, <1>2, <1>3, <1>4, <1>5, TransportStep DEF Upgraded, HoldingTyped

LEMMA FailInboundStep ==
    ASSUME LifeIInv, NEW c \in Conns, FailInbound(c)
    PROVE  LifeIInv'
  <1>1. HoldingTyped /\ main # "stopped"
    BY Typing DEF LifeIInv, StoppedHoldsNothing, FailInbound
  <1>2. "closing" \in Links
    BY DEF Links
  <1>3. /\ link' = [link EXCEPT ![c] = "closing"] /\ bits' = bits \cup {"work"}
        /\ UNCHANGED <<running, ticking, queue, asking, place, reaping>>
        /\ attached' = [attached EXCEPT ![c] = FALSE]
    BY DEF FailInbound, Woken
  <1>4. attached' \in [Conns -> BOOLEAN] /\ \A d \in Conns : attached'[d] => attached[d]
    BY <1>1, <1>3 DEF HoldingTyped
  <1> QED BY <1>1, <1>2, <1>3, <1>4, TransportStep

LEMMA PromoteStep ==
    ASSUME LifeIInv, NEW c \in Conns, Promote(c)
    PROVE  LifeIInv'
  <1> USE DEF running, ticking, asking
  <1>1. LifeTypeOK /\ Phases /\ NoneManaged /\ Held /\ Asked /\ CallsInOrder /\ StoppedHoldsNothing
    BY DEF LifeIInv
  <1>2. HoldingTyped
    BY <1>1, Typing
  <1>3. /\ place[c] = "nursery" /\ link[c] = "open" /\ attached[c]
        /\ place' = [place EXCEPT ![c] = "admitted"]
        /\ UNCHANGED <<running, ticking, bits, queue, asking, link, attached, reaping>>
    BY DEF Promote
  <1>4. /\ place' \in [Conns -> Places]
        /\ \A d \in Conns : place'[d] = IF d = c THEN "admitted" ELSE place[d]
    BY <1>2, <1>3 DEF HoldingTyped, Places
  <1>5. Managed' = Managed /\ c \in Managed
    BY <1>3, <1>4 DEF Managed
  <1>6. LifeTypeOK'
    BY <1>1, <1>3, <1>4 DEF LifeTypeOK, Places
  <1>7. Phases' /\ NoneManaged' /\ Asked'
    BY <1>1, <1>3, <1>5 DEF Phases, NoneManaged, Asked
  <1>8. Held'
    BY <1>1, <1>3, <1>4, <1>5, Numbers DEF Held, Upgraded
  <1>9. CallsInOrder'
    BY <1>1, <1>3, <1>4, <1>5, Numbers, Typing DEF CallsInOrder
  <1>10. StoppedHoldsNothing'
    BY <1>1, <1>3, <1>5 DEF StoppedHoldsNothing
  <1> QED BY <1>6, <1>7, <1>8, <1>9, <1>10 DEF LifeIInv

-----------------------------------------------------------------------------
(* The protocol task's tick, and the main loop's end *)

LEMMA ApplyRequestsStep ==
    ASSUME LifeIInv, ApplyRequests
    PROVE  LifeIInv'
  <1> DEFINE gone == (IF requests.disconnect # 0 THEN Disconnected ELSE {})
                     \cup (IF requests.connect # 0 THEN Superseded ELSE {})
             new == {requests.connect} \ {0}
             parked == Parked(gone, shutdownDone)
  <1> USE DEF running, ticking, asking
  <1>1. LifeTypeOK /\ Phases /\ NoneManaged /\ Held /\ Asked /\ CallsInOrder /\ StoppedHoldsNothing
    BY DEF LifeIInv
  <1>2. HoldingTyped
    BY <1>1, Typing
  <1>3. /\ task = "requests" /\ task' = "commands" /\ requests' = NoRequests
        /\ UNCHANGED <<running, final, bits, queue, caller, calls>>
    BY DEF ApplyRequests
  <1>4. NoRequests \in [connect : 0 .. MaxCalls, disconnect : 0 .. MaxCalls]
        /\ NoRequests.connect = 0 /\ NoRequests.disconnect = 0
    BY Numbers DEF NoRequests
  <1>5. Phases' /\ Asked'
    BY <1>1, <1>3, <1>4 DEF Phases, Asked
  <1>6. main # "stopped"
    BY <1>1, <1>3 DEF Phases
  <1>7. CASE ~accepting
    <2>1. UNCHANGED holding
      BY <1>7 DEF ApplyRequests
    <2>2. LifeTypeOK'
      BY <1>1, <1>3, <1>4, <2>1 DEF LifeTypeOK, holding
    <2>3. CallsInOrder'
      BY <1>3, <1>7 DEF CallsInOrder
    <2> QED BY <1>3, <1>5, <1>6, <2>1, <2>2, <2>3, QuietStep DEF LifeIInv
  <1>8. CASE accepting
    <2>1. Moved(gone, new, parked) /\ ~shutdownDone
      BY <1>1, <1>8 DEF ApplyRequests, Phases
    <2>2. gone \in SUBSET Managed /\ gone \in SUBSET Conns
      BY DEF Disconnected, Superseded, Managed
    <2>3. new \in SUBSET Outbound /\ new \in SUBSET Conns
      BY <1>1, Typing, Numbers
    <2>4. parked \in SUBSET Outbound /\ Cardinality(parked) <= REAPING_CAPACITY + 1
      BY <1>1, <1>2, <2>2, ParkedIsBounded, Typing
    <2> HIDE DEF parked
    <2>5. /\ \A c \in Inbound : link[c] # "connecting"
          /\ \A c \in Conns : place[c] = "admitted" => Upgraded(c)
      BY <1>1 DEF Held
    <2>6. /\ HoldingTyped' /\ reaping' = parked
          /\ \A c \in Inbound : link'[c] # "connecting" /\ (c \notin gone => link'[c] = link[c])
          /\ \A c \in Conns : place'[c] = "admitted" => Upgraded(c)'
          /\ \A c \in Conns :
                /\ place'[c] = IF c \in new THEN "nursery" ELSE IF c \in gone THEN "released"
                               ELSE place[c]
                /\ attached'[c] <=> (attached[c] \/ c \in new) /\ c \notin gone
                /\ link'[c] = "open" => link[c] = "open"
          /\ Managed' = (Managed \ gone) \cup new
      <3> HIDE DEF gone, new
      <3> QED BY <1>2, <2>1, <2>2, <2>3, <2>4, <2>5, Moves
    <2>7. LifeTypeOK'
      BY <1>1, <1>3, <1>4, <2>6 DEF LifeTypeOK, HoldingTyped, Places, Links
    <2>8. NoneManaged'
      BY <1>3, <1>6, <2>1 DEF NoneManaged
    <2>9. Held'
      <3>1. \A c \in Conns : attached'[c] => c \in Managed' \/ c \in ToSet(queue')
        <4> HIDE DEF gone, new
        <4> QED BY <1>1, <1>3, <2>6 DEF Held
      <3>2. ASSUME NEW c \in Outbound, NEW d \in Outbound,
                   place'[c] = "nursery", place'[d] = "nursery"
            PROVE  c = d
        <4>1. CASE requests.connect = 0
          BY <1>1, <2>6, <3>2, <4>1, Numbers DEF Held
        <4>2. CASE requests.connect # 0
          <5>1. \A e \in Outbound : place[e] = "nursery" => e \in gone
            BY <4>2, Numbers DEF Superseded, Managed
          <5>2. c \in new /\ d \in new
            <6> HIDE DEF gone, new
            <6> QED BY <2>6, <3>2, <5>1, Numbers
          <5> QED BY <5>2
        <4> QED BY <4>1, <4>2
      <3> QED BY <2>6, <3>1, <3>2 DEF Held
    <2>10. CallsInOrder'
      <3>1. ASSUME NEW c \in Managed' \cap Outbound, c <= calls.cancelled
            PROVE  place'[c] = "admitted" /\ link'[c] # "open"
        <4>1. c \notin new
          BY <1>1, <3>1, Typing, Numbers DEF Asked
        <4>2. c \in Managed /\ c \notin gone /\ place'[c] = place[c] /\ c \in Conns
          <5> HIDE DEF gone, new
          <5> QED BY <2>6, <3>1, <4>1, Numbers
        <4>3. CASE requests.disconnect # 0
          BY <2>6, <4>2, <4>3 DEF Disconnected, Managed
        <4>4. CASE requests.disconnect = 0
          BY <1>1, <1>8, <2>6, <3>1, <4>2, <4>4 DEF CallsInOrder
        <4> QED BY <4>3, <4>4
      <3>2. calls.kept = 0 \/ place'[calls.kept] # "fresh"
        <4>1. CASE calls.kept = requests.connect /\ calls.kept # 0
          BY <2>3, <2>6, <4>1
        <4>2. CASE calls.kept # 0 /\ place[calls.kept] # "fresh"
          BY <1>1, <2>6, <4>2, Typing, Numbers
        <4> QED BY <1>1, <1>8, <4>1, <4>2 DEF CallsInOrder
      <3> QED BY <1>3, <3>1, <3>2 DEF CallsInOrder
    <2> QED BY <1>3, <1>5, <1>6, <2>7, <2>8, <2>9, <2>10 DEF LifeIInv, StoppedHoldsNothing
  <1> QED BY <1>1, <1>7, <1>8, Typing

\* What a step that parks, drops or admits connections but opens none leaves true: `gone` were
\* managed or queued, `new` is the accept that is taken.
LEMMA ReleaseStep ==
    ASSUME LifeTypeOK, Held, NEW gone \in SUBSET Conns, NEW new \in SUBSET Inbound,
           NEW parked \in SUBSET Outbound, Cardinality(parked) <= REAPING_CAPACITY + 1,
           Moved(gone, new, parked), UNCHANGED <<accepting, asking>>,
           \A c \in ToSet(queue) : c \in ToSet(queue') \/ c \in gone \/ c \in new
    PROVE  /\ HoldingTyped' /\ Held' /\ (CallsInOrder => CallsInOrder')
           /\ Managed' = (Managed \ gone) \cup new /\ reaping' = parked
           /\ \A c \in Inbound : c \notin gone => link'[c] = link[c]
           /\ \A c \in Conns : attached'[c] => attached[c] \/ c \in new
  <1>1. HoldingTyped /\ new \subseteq Conns
    BY Typing, Numbers
  <1>2. /\ \A c \in Inbound : link[c] # "connecting"
        /\ \A c \in Conns : place[c] = "admitted" => Upgraded(c)
    BY DEF Held
  <1>3. /\ HoldingTyped' /\ reaping' = parked
        /\ \A c \in Inbound : link'[c] # "connecting" /\ (c \notin gone => link'[c] = link[c])
        /\ \A c \in Conns : place'[c] = "admitted" => Upgraded(c)'
        /\ \A c \in Conns :
              /\ place'[c] = IF c \in new THEN "nursery" ELSE IF c \in gone THEN "released"
                             ELSE place[c]
              /\ attached'[c] <=> (attached[c] \/ c \in new) /\ c \notin gone
              /\ link'[c] = "open" => link[c] = "open"
        /\ Managed' = (Managed \ gone) \cup new
    BY <1>1, <1>2, Moves
  <1>4. Held'
    <2>1. \A c \in Conns : attached'[c] => c \in Managed' \/ c \in ToSet(queue')
      BY <1>3 DEF Held
    <2>2. \A c \in Outbound : place'[c] = "nursery" => place[c] = "nursery"
      BY <1>3, Numbers
    <2> QED BY <1>3, <2>1, <2>2 DEF Held
  <1>5. CallsInOrder => CallsInOrder'
    <2> SUFFICES ASSUME CallsInOrder, accepting PROVE CallsInOrder'
      BY DEF CallsInOrder
    <2>1. ASSUME requests.disconnect = 0, NEW c \in Managed' \cap Outbound, c <= calls.cancelled
          PROVE  place'[c] = "admitted" /\ link'[c] # "open"
      BY <1>3, <2>1, Numbers DEF CallsInOrder
    <2>2. calls.kept \in {0, requests.connect} \/ place'[calls.kept] # "fresh"
      BY <1>3, Typing, Numbers DEF CallsInOrder
    <2> QED BY <2>1, <2>2 DEF CallsInOrder, asking
  <1> QED BY <1>3, <1>4, <1>5

LEMMA NothingTaken ==
    ASSUME LifeTypeOK, Held, NEW gone \in SUBSET Conns,
           NEW parked \in SUBSET Outbound, Cardinality(parked) <= REAPING_CAPACITY + 1,
           Moved(gone, {}, parked), UNCHANGED <<accepting, asking>>, queue' = queue
    PROVE  /\ HoldingTyped' /\ Held' /\ (CallsInOrder => CallsInOrder')
           /\ Managed' = Managed \ gone /\ reaping' = parked
           /\ \A c \in Inbound : c \notin gone => link'[c] = link[c]
           /\ \A c \in Conns : attached'[c] => attached[c]
  <1> DEFINE new == {}
  <1>1. new \in SUBSET Inbound /\ Moved(gone, new, parked)
        /\ \A c \in ToSet(queue) : c \in ToSet(queue') \/ c \in gone \/ c \in new
    OBVIOUS
  <1>2. \A c : c \notin new
    OBVIOUS
  <1> HIDE DEF new
  <1>3. /\ HoldingTyped' /\ Held' /\ (CallsInOrder => CallsInOrder')
        /\ Managed' = (Managed \ gone) \cup new /\ reaping' = parked
        /\ \A c \in Inbound : c \notin gone => link'[c] = link[c]
        /\ \A c \in Conns : attached'[c] => attached[c] \/ c \in new
    BY <1>1, ReleaseStep
  <1>4. (Managed \ gone) \cup new = Managed \ gone
    BY <1>2
  <1> QED BY <1>2, <1>3, <1>4

LEMMA TakeCommandStep ==
    ASSUME LifeIInv, TakeCommand
    PROVE  LifeIInv'
  <1> USE DEF running, ticking, asking
  <1>1. LifeTypeOK /\ Phases /\ NoneManaged /\ Held /\ Asked /\ CallsInOrder /\ StoppedHoldsNothing
    BY DEF LifeIInv
  <1>2. /\ task = "commands" /\ queue # <<>> /\ queue' = Tail(queue)
        /\ UNCHANGED <<running, ticking, bits, asking>>
    BY DEF TakeCommand
  <1>3. /\ Head(queue) \in Inbound /\ queue' \in Seq(Inbound) /\ Len(queue') <= Len(queue)
        /\ ToSet(queue) = {Head(queue)} \cup ToSet(queue')
    BY <1>1, <1>2, AcceptTaken, Typing
  <1>4. Len(queue') <= AcceptSlots
    BY <1>1, <1>3, LifeAssumption DEF LifeTypeOK
  <1>5. reaping \in SUBSET Outbound /\ Cardinality(reaping) <= REAPING_CAPACITY + 1
    BY <1>1 DEF LifeTypeOK
  <1>6. PICK gone \in SUBSET Inbound, new \in SUBSET Inbound :
           /\ Moved(gone, new, reaping) /\ gone \cup new = {Head(queue)}
           /\ ~accepting => new = {}
    BY <1>3 DEF TakeCommand
  <1>7. gone \in SUBSET Conns /\ UNCHANGED <<accepting, asking>>
        /\ \A c \in ToSet(queue) : c \in ToSet(queue') \/ c \in gone \/ c \in new
    BY <1>2, <1>3, <1>6, Numbers
  <1>8. /\ HoldingTyped' /\ Held' /\ CallsInOrder'
        /\ Managed' = (Managed \ gone) \cup new
    BY <1>1, <1>5, <1>6, <1>7, ReleaseStep
  <1>9. LifeTypeOK'
    BY <1>1, <1>2, <1>3, <1>4, <1>8 DEF LifeTypeOK, HoldingTyped, Places, Links
  <1>10. Phases' /\ Asked' /\ main # "stopped"
    BY <1>1, <1>2 DEF Phases, Asked
  <1>11. NoneManaged'
    BY <1>1, <1>2, <1>6, <1>8 DEF NoneManaged, Phases
  <1> QED BY <1>2, <1>8, <1>9, <1>10, <1>11 DEF LifeIInv, StoppedHoldsNothing

LEMMA ShutdownStep ==
    ASSUME LifeIInv, Shutdown
    PROVE  LifeIInv'
  <1> USE DEF ticking, asking
  <1>1. LifeTypeOK /\ Phases /\ NoneManaged /\ Held /\ Asked /\ CallsInOrder /\ StoppedHoldsNothing
    BY DEF LifeIInv
  <1>2. /\ task = "shutdown" /\ task' = "scans"
        /\ UNCHANGED <<main, starts, accepting, listening, final, bits, queue, asking>>
    BY DEF Shutdown
  <1>3. main # "stopped" /\ Asked'
    BY <1>1, <1>2 DEF Phases, Asked
  <1>4. CASE accepting \/ shutdownDone
    <2>1. shutdownDone' = shutdownDone /\ UNCHANGED holding
      BY <1>4 DEF Shutdown
    <2>2. LifeTypeOK' /\ Phases'
      BY <1>1, <1>2, <1>4, <2>1 DEF LifeTypeOK, Phases, holding
    <2>3. CallsInOrder'
      BY <1>1, <1>2, <2>1, SameConnections DEF CallsInOrder
    <2> QED BY <1>2, <1>3, <2>1, <2>2, <2>3, QuietStep DEF NoneManaged
  <1>5. CASE ~(accepting \/ shutdownDone)
    <2> DEFINE parked == Parked(Managed, TRUE)
    <2>1. shutdownDone' = TRUE /\ Moved(Managed, {}, parked)
      BY <1>5 DEF Shutdown
    <2>2. HoldingTyped /\ Managed \in SUBSET Conns
      BY <1>1, Typing
    <2>3. parked \in SUBSET Outbound /\ Cardinality(parked) <= REAPING_CAPACITY + 1
      BY <2>2, ParkedIsBounded
    <2> HIDE DEF parked
    <2>4. UNCHANGED <<accepting, asking>> /\ queue' = queue
      BY <1>2
    <2>5. HoldingTyped' /\ Held' /\ CallsInOrder' /\ Managed' = {}
      BY <1>1, <2>1, <2>2, <2>3, <2>4, NothingTaken
    <2>6. LifeTypeOK'
      BY <1>1, <1>2, <2>1, <2>5 DEF LifeTypeOK, HoldingTyped, Places, Links
    <2>7. Phases' /\ NoneManaged'
      BY <1>1, <1>2, <1>5, <2>1, <2>5 DEF Phases, NoneManaged
    <2> QED BY <1>2, <1>3, <2>5, <2>6, <2>7 DEF LifeIInv, StoppedHoldsNothing
  <1> QED BY <1>4, <1>5

LEMMA ScansStep ==
    ASSUME LifeIInv, NEW gone \in SUBSET Managed, NEW late \in SUBSET reaping, Scans(gone, late)
    PROVE  LifeIInv'
  <1> DEFINE parked == Reaped(Parked(gone, shutdownDone), late)
  <1> USE DEF ticking, asking
  <1>1. LifeTypeOK /\ Phases /\ NoneManaged /\ Held /\ Asked /\ CallsInOrder /\ StoppedHoldsNothing
    BY DEF LifeIInv
  <1>2. /\ task = "scans" /\ task' = IF final THEN "none" ELSE "wait"
        /\ Moved(gone, {}, parked) /\ listening' \in {listening, listening \/ accepting}
        /\ UNCHANGED <<main, starts, accepting, shutdownDone, final, bits, queue, asking>>
    BY DEF Scans
  <1>3. HoldingTyped /\ gone \in SUBSET Conns /\ shutdownDone \in BOOLEAN
    BY <1>1, Typing
  <1>4. parked \in SUBSET Outbound /\ Cardinality(parked) <= REAPING_CAPACITY + 1
    BY <1>3, ParkedIsBounded, ReapedIsFewer
  <1> HIDE DEF parked
  <1>5. HoldingTyped' /\ Held' /\ CallsInOrder' /\ Managed' = Managed \ gone
    BY <1>1, <1>2, <1>3, <1>4, NothingTaken
  <1>6. LifeTypeOK'
    BY <1>1, <1>2, <1>5, Typing DEF LifeTypeOK, HoldingTyped, Places, Links
  <1>7. Phases' /\ Asked' /\ main # "stopped"
    BY <1>1, <1>2 DEF Phases, Asked
  <1>8. NoneManaged'
    BY <1>1, <1>2, <1>3, <1>5 DEF NoneManaged, Phases
  <1> QED BY <1>2, <1>5, <1>6, <1>7, <1>8 DEF LifeIInv, StoppedHoldsNothing

LEMMA LoopStep ==
    ASSUME LifeIInv, Loop
    PROVE  LifeIInv'
  <1> USE DEF running, ticking, asking
  <1>1. LifeTypeOK /\ Phases /\ NoneManaged /\ Held /\ Asked /\ CallsInOrder /\ StoppedHoldsNothing
    BY DEF LifeIInv
  <1>2. UNCHANGED <<running, ticking, bits, queue, asking>> /\ main = "stopped"
    BY DEF Loop
  <1>3. PICK parked \in SUBSET reaping : Moved({}, {}, parked)
    BY DEF Loop
  <1>4. parked \in SUBSET Outbound /\ Cardinality(parked) <= REAPING_CAPACITY + 1
    <2>1. reaping \subseteq Outbound /\ Cardinality(reaping) <= REAPING_CAPACITY + 1
      BY <1>1 DEF LifeTypeOK
    <2>2. Cardinality(parked) <= Cardinality(reaping) /\ Cardinality(parked) \in Nat
          /\ Cardinality(reaping) \in Nat
      BY <2>1, SmallerSet, OutboundFinite
    <2> QED BY <2>1, <2>2, Numbers
  <1>5. UNCHANGED <<accepting, asking>> /\ queue' = queue
    BY <1>2
  <1>6. /\ HoldingTyped' /\ Held' /\ CallsInOrder' /\ Managed' = Managed
        /\ \A c \in Inbound : link'[c] = link[c]
        /\ \A c \in Conns : attached'[c] => attached[c]
    <2>1. {} \in SUBSET Conns /\ Managed \ {} = Managed
      OBVIOUS
    <2> QED BY <1>1, <1>3, <1>4, <1>5, <2>1, NothingTaken
  <1>7. LifeTypeOK'
    BY <1>1, <1>2, <1>6 DEF LifeTypeOK, HoldingTyped, Places, Links
  <1>8. Phases' /\ Asked' /\ NoneManaged'
    BY <1>1, <1>2, <1>6 DEF Phases, Asked, NoneManaged
  <1>9. StoppedHoldsNothing'
    BY <1>1, <1>2, <1>6 DEF StoppedHoldsNothing
  <1> QED BY <1>6, <1>7, <1>8, <1>9 DEF LifeIInv

LEMMA FinishStopStep ==
    ASSUME LifeIInv, FinishStop
    PROVE  LifeIInv'
  <1> DEFINE Ended(c) == CASE c \in Inbound -> IF link[c] = "none" THEN "none" ELSE "closed"
                              [] c \in reaping /\ link[c] = "open" -> "closing"
                              [] OTHER -> link[c]
  <1>1. LifeTypeOK /\ Phases /\ NoneManaged /\ Held /\ Asked /\ CallsInOrder /\ StoppedHoldsNothing
    BY DEF LifeIInv
  <1>2. /\ main = "joining" /\ task = "none" /\ main' = "stopped" /\ listening' = FALSE
        /\ shutdownDone' = TRUE /\ queue' = <<>> /\ requests' = NoRequests
        /\ place' = [c \in Conns |-> IF c \in ToSet(queue) THEN "released" ELSE place[c]]
        /\ attached' = [c \in Conns |-> attached[c] /\ c \notin ToSet(queue)]
        /\ link' = [c \in Conns |-> Ended(c)]
        /\ reaping' = {c \in reaping : ~TransportClosed(c)}
        /\ UNCHANGED <<starts, accepting, ticking, bits, caller, calls>>
    BY DEF FinishStop
  <1>3. HoldingTyped /\ Managed = {}
    BY <1>1, <1>2, Typing DEF NoneManaged
  <1>4. /\ \A c \in Inbound : Ended(c) = IF link[c] = "none" THEN "none" ELSE "closed"
        /\ \A c \in Conns : c \notin Inbound =>
              Ended(c) = IF c \in reaping /\ link[c] = "open" THEN "closing" ELSE link[c]
    <2>1. ASSUME NEW c \in Inbound
          PROVE  Ended(c) = IF link[c] = "none" THEN "none" ELSE "closed"
      <3>1. c \notin reaping
        BY <1>3, Numbers DEF HoldingTyped
      <3> QED BY <3>1
    <2>2. ASSUME NEW c \in Conns, c \notin Inbound
          PROVE  Ended(c) = IF c \in reaping /\ link[c] = "open" THEN "closing" ELSE link[c]
      <3>1. CASE c \in reaping /\ link[c] = "open"
        BY <2>2, <3>1
      <3>2. CASE ~(c \in reaping /\ link[c] = "open")
        BY <2>2, <3>2
      <3> QED BY <3>1, <3>2
    <2> QED BY <2>1, <2>2
  <1> HIDE DEF Ended
  <1>5. \A c \in Conns : Ended(c) \in Links
    BY <1>3, <1>4, Numbers DEF HoldingTyped, Links
  <1>6. /\ \A c \in Conns : place'[c] = IF c \in ToSet(queue) THEN "released" ELSE place[c]
        /\ \A c \in Conns : ~attached'[c]
        /\ \A c \in Conns : link'[c] = Ended(c)
    BY <1>1, <1>2, <1>3 DEF Held
  <1>7. /\ place' \in [Conns -> Places] /\ link' \in [Conns -> Links]
        /\ attached' \in [Conns -> BOOLEAN]
    <2>1. place' \in [Conns -> Places]
      BY <1>2, <1>3 DEF HoldingTyped, Places
    <2>2. link' \in [Conns -> Links]
      BY <1>2, <1>5
    <2>3. attached' \in [Conns -> BOOLEAN]
      BY <1>2, <1>3 DEF HoldingTyped
    <2> QED BY <2>1, <2>2, <2>3
  <1>8. reaping' \subseteq Outbound /\ Cardinality(reaping') <= REAPING_CAPACITY + 1
    <2>1. reaping \subseteq Outbound /\ Cardinality(reaping) <= REAPING_CAPACITY + 1
          /\ reaping' \subseteq reaping
      BY <1>2, <1>3 DEF HoldingTyped
    <2>2. Cardinality(reaping') <= Cardinality(reaping) /\ Cardinality(reaping') \in Nat
          /\ Cardinality(reaping) \in Nat
      BY <2>1, SmallerSet, OutboundFinite
    <2> QED BY <2>1, <2>2, Numbers
  <1>9. /\ queue' \in Seq(Inbound) /\ Len(queue') <= AcceptSlots
        /\ requests' \in [connect : 0 .. MaxCalls, disconnect : 0 .. MaxCalls]
        /\ requests'.connect = 0
    BY <1>2, Numbers, LifeAssumption DEF NoRequests
  <1>10. LifeTypeOK'
    BY <1>1, <1>2, <1>7, <1>8, <1>9 DEF LifeTypeOK, Places, Links, ticking
  <1>11. Managed' = {}
    BY <1>3, <1>6 DEF Managed
  <1>12. Phases' /\ NoneManaged' /\ Asked' /\ CallsInOrder'
    BY <1>1, <1>2, <1>9, <1>11 DEF Phases, NoneManaged, Asked, CallsInOrder, ticking
  <1>13. \A c \in Inbound : link'[c] \in {"none", "closed"}
    BY <1>4, <1>6, Numbers
  <1>14. Held'
    <2>1. \A c \in Conns : place'[c] # "admitted" /\ place'[c] # "nursery"
      BY <1>11 DEF Managed
    <2> QED BY <1>6, <1>13, <2>1, Numbers DEF Held
  <1>15. StoppedHoldsNothing'
    BY <1>2, <1>6, <1>11, <1>13 DEF StoppedHoldsNothing
  <1> QED BY <1>10, <1>12, <1>14, <1>15 DEF LifeIInv

-----------------------------------------------------------------------------
(* Every step of a connection's life *)

LEMMA LifeStarting ==
    ASSUME NEW asks \in 0 .. MaxCalls, NEW peers, LifeStarts(asks, peers)
    PROVE  LifeIInv
  <1> USE DEF LifeStarts
  <1>1. /\ 0 \in 0 .. MaxCalls /\ 0 \in 0 .. MaxStarts /\ MaxCalls - asks \in 0 .. MaxCalls
        /\ 0 <= AcceptSlots /\ 0 <= REAPING_CAPACITY + 1
    BY LifeAssumption
  <1>2. /\ <<>> \in Seq(Inbound) /\ Len(<<>>) = 0 /\ Cardinality({}) = 0
    BY FS_EmptySet
  <1>3. LifeTypeOK
    BY <1>1, <1>2 DEF LifeTypeOK, NoRequests
  <1>4. Managed = {} /\ \A c \in Conns : ~attached[c] /\ link[c] = "none"
    BY DEF Managed
  <1>5. Phases /\ NoneManaged /\ Asked /\ CallsInOrder
    BY <1>1, <1>4 DEF Phases, NoneManaged, Asked, CallsInOrder, NoRequests
  <1>6. Held /\ StoppedHoldsNothing
    BY <1>4, Numbers DEF Held, StoppedHoldsNothing, Managed
  <1> QED BY <1>3, <1>5, <1>6 DEF LifeIInv

LEMMA LifeSteps ==
    ASSUME LifeIInv, [LifeNext]_lifeVars
    PROVE  LifeIInv'
  <1>1. ASSUME NEW kind \in {"connect", "disconnect"}, Check(kind) PROVE LifeIInv'
    BY <1>1, CheckStep
  <1>2. CASE Post
    BY <1>2, PostStep
  <1>3. CASE Wake \/ Deadline
    BY <1>3, BeginStep DEF Wake, Deadline
  <1>4. CASE Tick
    <2>1. ASSUME NEW gone \in SUBSET Managed, NEW late \in SUBSET reaping, Scans(gone, late)
          PROVE  LifeIInv'
      BY <2>1, ScansStep
    <2> QED BY <1>4, <2>1, ApplyRequestsStep, TakeCommandStep, NoCommandStep, ShutdownStep DEF Tick
  <1>5. ASSUME NEW c \in Conns, Deliver(c) \/ Open(c) \/ Close(c) \/ FailInbound(c) \/ Promote(c)
        PROVE  LifeIInv'
    BY <1>5, DeliverStep, OpenStep, CloseStep, FailInboundStep, PromoteStep
  <1>6. CASE Start \/ StartTask \/ CloseAdmission \/ StopTask \/ FinishStop \/ Loop
    BY <1>6, StartStep, StartTaskStep, CloseAdmissionStep, StopTaskStep, FinishStopStep, LoopStep
  <1>7. CASE UNCHANGED lifeVars
    <2>1. UNCHANGED <<running, ticking, bits, queue, asking, holding>>
      BY <1>7 DEF lifeVars
    <2> USE DEF running, ticking, asking
    <2>2. LifeTypeOK' /\ Phases' /\ Asked'
      BY <2>1 DEF LifeIInv, LifeTypeOK, Phases, Asked, holding
    <2>3. CallsInOrder'
      BY <2>1, SameConnections DEF LifeIInv, CallsInOrder
    <2> QED BY <2>1, <2>2, <2>3, QuietStep DEF LifeIInv, NoneManaged
  <1> QED BY <1>1, <1>2, <1>3, <1>4, <1>5, <1>6, <1>7 DEF LifeNext

\* A parked attempt that still connects keeps its entry through a step after the shutdown pass, and
\* one that is managed gets an entry, if one is left.
Keeps ==
    shutdownDone' =>
      \A c \in Outbound :
         link[c] = "connecting" /\ Referenced(c)
           => Referenced(c)' \/ Cardinality(reaping) > REAPING_CAPACITY

LEMMA SameHolders ==
    ASSUME Managed' = Managed, reaping' = reaping
    PROVE  Keeps
  BY DEF Keeps, Referenced

\* The shutdown pass finds one attempt at most, for which there is the spare entry.
LEMMA ShutdownKeeps ==
    ASSUME LifeIInv, Shutdown
    PROVE  Keeps
  <1> DEFINE parking == {c \in Managed : c \in Outbound /\ ~Upgraded(c)}
             all == reaping \cup parking
  <1>1. LifeTypeOK /\ Held
    BY DEF LifeIInv
  <1>2. HoldingTyped /\ Managed \in SUBSET Conns
    BY <1>1, Typing
  <1>3. CASE accepting \/ shutdownDone
    <2>1. UNCHANGED holding
      BY <1>3 DEF Shutdown
    <2> QED BY <2>1, SameConnections, SameHolders
  <1>4. CASE ~(accepting \/ shutdownDone)
    <2>1. reaping' = Parked(Managed, TRUE)
      BY <1>4 DEF Shutdown, Moved
    <2>2. CASE Cardinality(reaping) > REAPING_CAPACITY
      BY <2>2 DEF Keeps, Referenced
    <2>3. CASE parking = {}
      <3>1. reaping' = reaping
        BY <2>1, <2>3 DEF Parked
      <3>2. ASSUME NEW c \in Outbound, link[c] = "connecting", c \in Managed \/ c \in reaping
            PROVE  c \in reaping'
        BY <2>3, <3>1, <3>2 DEF Upgraded
      <3> QED BY <3>2 DEF Keeps, Referenced
    <2>4. CASE parking # {} /\ ~(Cardinality(reaping) > REAPING_CAPACITY)
      <3>1. PICK x \in parking : TRUE
        BY <2>4
      <3>2. \A c \in parking : c = x
        <4>1. \A c \in parking : c \in Outbound /\ place[c] = "nursery"
          BY <1>1 DEF Held, Managed
        <4> QED BY <1>1, <3>1, <4>1 DEF Held
      <3>3. all = reaping \cup {x}
        BY <3>1, <3>2
      <3>4. reaping \subseteq Outbound /\ all \subseteq Outbound
        BY <1>2 DEF HoldingTyped
      <3>5. IsFiniteSet(all) /\ Cardinality(all) \in Nat /\ Cardinality(all) <= REAPING_CAPACITY + 1
        <4> HIDE DEF all, parking
        <4>1. IsFiniteSet(reaping) /\ Cardinality(reaping) \in Nat
          BY <3>4, OutboundFinite
        <4>2. Cardinality(all) \in {Cardinality(reaping), Cardinality(reaping) + 1}
          BY <3>3, <4>1, FS_AddElement
        <4>3. IsFiniteSet(all) /\ Cardinality(all) \in Nat
          BY <3>4, OutboundFinite
        <4>4. Cardinality(all) <= REAPING_CAPACITY + 1
          BY <2>4, <4>1, <4>2, Numbers
        <4> QED BY <4>3, <4>4
      <3>6. ASSUME NEW c \in all
            PROVE  Cardinality({d \in all : d > c}) < REAPING_CAPACITY + 1
        <4> DEFINE younger == {d \in all : d > c}
        <4> HIDE DEF all
        <4>1. younger \subseteq all \ {c}
          BY <3>4, <3>6, Numbers
        <4>2. all \ {c} \subseteq Outbound /\ younger \subseteq Outbound
          BY <3>4
        <4> HIDE DEF younger
        <4>3. Cardinality(all \ {c}) = Cardinality(all) - 1
          BY <3>5, <3>6, FS_RemoveElement
        <4>4. Cardinality(younger) <= Cardinality(all \ {c}) /\ Cardinality(younger) \in Nat
          BY <4>1, <4>2, SmallerSet, OutboundFinite
        <4>5. Cardinality(younger) < REAPING_CAPACITY + 1
          BY <3>5, <4>3, <4>4, Numbers
        <4> QED BY <4>5 DEF younger
      <3>7. reaping' = {c \in all : Cardinality({d \in all : d > c}) < REAPING_CAPACITY + 1}
        BY <2>1, <2>4 DEF Parked, ReapLimit
      <3>8. reaping' = all
        <4> HIDE DEF all
        <4> QED BY <3>6, <3>7
      <3>9. ASSUME NEW c \in Outbound, link[c] = "connecting", c \in Managed \/ c \in reaping
            PROVE  c \in reaping'
        <4>1. c \in all
          BY <3>9 DEF Upgraded
        <4> QED BY <3>8, <4>1
      <3> QED BY <3>9 DEF Keeps, Referenced
    <2> QED BY <2>2, <2>3, <2>4
  <1> QED BY <1>3, <1>4

LEMMA ScansKeeps ==
    ASSUME LifeIInv, NEW gone \in SUBSET Managed, NEW late \in SUBSET reaping, Scans(gone, late)
    PROVE  Keeps
  <1> SUFFICES ASSUME shutdownDone', NEW c \in Outbound, link[c] = "connecting",
                      c \in Managed \/ c \in reaping
               PROVE  c \in reaping'
    BY DEF Keeps, Referenced
  <1>1. shutdownDone /\ reaping' = Reaped(Parked(gone, shutdownDone), late)
    BY DEF Scans, Moved
  <1>2. Managed = {} /\ c \in reaping
    BY <1>1 DEF LifeIInv, NoneManaged
  <1>3. Parked(gone, shutdownDone) = reaping
    BY <1>2 DEF Parked
  <1> QED BY <1>1, <1>2, <1>3 DEF Reaped, Upgraded, TransportClosed

LEMMA FinishStopKeeps ==
    ASSUME LifeIInv, FinishStop
    PROVE  Keeps
  <1>1. Managed = {} /\ reaping' = {c \in reaping : ~TransportClosed(c)}
    BY DEF LifeIInv, NoneManaged, FinishStop
  <1> QED BY <1>1 DEF Keeps, Referenced, TransportClosed

LEMMA LoopKeeps ==
    ASSUME LifeIInv, Loop
    PROVE  Keeps
  <1>1. Managed = {}
    BY DEF LifeIInv, StoppedHoldsNothing, Loop
  <1>2. PICK freed \in SUBSET reaping :
           reaping' = reaping \ freed /\ \A c \in freed : link[c] # "connecting"
    <2> DEFINE opened == {c \in reaping : link[c] \in {"open", "closing"}}
               freed == {c \in reaping : TransportClosed(c)
                                           \/ (c \in opened /\ \A d \in opened : c <= d)}
    <2>1. reaping' = reaping \ freed
      BY DEF Loop, Moved
    <2>2. \A c \in freed : link[c] # "connecting"
      BY DEF TransportClosed
    <2> QED BY <2>1, <2>2
  <1> QED BY <1>1, <1>2 DEF Keeps, Referenced

LEMMA LifeKeeps ==
    ASSUME LifeIInv, [LifeNext]_lifeVars
    PROVE  Keeps
  <1>1. CASE UNCHANGED holding
    BY <1>1, SameConnections, SameHolders
  <1>2. ASSUME NEW c \in Conns, Deliver(c)
        PROVE  Keeps
    <2>1. place[c] = "fresh" /\ reaping' = reaping
          /\ \E to \in {"queued", "released"} : place' = [place EXCEPT ![c] = to]
      BY <1>2 DEF Deliver
    <2>2. HoldingTyped
      BY Typing DEF LifeIInv
    <2>3. Managed' = Managed
      BY <2>1, <2>2 DEF Managed, HoldingTyped
    <2> QED BY <2>1, <2>3, SameHolders
  <1>3. ASSUME NEW c \in Conns, Open(c) \/ Close(c) \/ FailInbound(c)
        PROVE  Keeps
    <2>1. place' = place /\ reaping' = reaping
      BY <1>3 DEF Open, Close, FailInbound
    <2>2. Managed' = Managed
      BY <2>1 DEF Managed
    <2> QED BY <2>1, <2>2, SameHolders
  <1>4. ASSUME NEW c \in Conns, Promote(c)
        PROVE  Keeps
    <2>1. place[c] = "nursery" /\ reaping' = reaping /\ place' = [place EXCEPT ![c] = "admitted"]
      BY <1>4 DEF Promote
    <2>2. HoldingTyped
      BY Typing DEF LifeIInv
    <2>3. Managed' = Managed
      BY <2>1, <2>2 DEF Managed, HoldingTyped
    <2> QED BY <2>1, <2>3, SameHolders
  <1>5. CASE ApplyRequests
    <2>1. CASE accepting
      <3>1. ~shutdownDone'
        BY <1>5, <2>1 DEF ApplyRequests, running, LifeIInv, Phases
      <3> QED BY <3>1 DEF Keeps, Referenced
    <2>2. CASE ~accepting
      BY <1>1, <1>5, <2>2 DEF ApplyRequests
    <2> QED BY <2>1, <2>2
  <1>6. CASE TakeCommand
    <2>1. queue \in Seq(Inbound) /\ queue # <<>>
      BY <1>6, Typing DEF TakeCommand, LifeIInv
    <2>2. Head(queue) \in Inbound
      BY <2>1, AcceptTaken
    <2>3. reaping' = reaping
          /\ \E gone, new \in SUBSET {Head(queue)} : Moved(gone, new, reaping)
      <3>1. {} \in SUBSET {Head(queue)} /\ {Head(queue)} \in SUBSET {Head(queue)}
        OBVIOUS
      <3>2. Moved({}, {Head(queue)}, reaping) \/ Moved({Head(queue)}, {}, reaping)
        BY <1>6 DEF TakeCommand
      <3>3. reaping' = reaping
        BY <3>2 DEF Moved
      <3> QED BY <3>1, <3>2, <3>3
    <2>4. \A c \in Outbound : place'[c] = place[c]
      <3>1. \A c \in Outbound : c # Head(queue) /\ c \in Conns
        BY <2>2, Numbers
      <3> QED BY <2>3, <3>1 DEF Moved
    <2> QED BY <2>3, <2>4, Numbers DEF Keeps, Referenced, Managed
  <1>7. CASE \/ Post \/ Wake \/ Deadline \/ NoCommand
             \/ Start \/ StartTask \/ CloseAdmission \/ StopTask
    <2>1. UNCHANGED holding
      BY <1>7 DEF Post, Wake, Deadline, Begin, NoCommand, Start, StartTask, CloseAdmission, StopTask
    <2> QED BY <1>1, <2>1
  <1>8. ASSUME NEW kind \in {"connect", "disconnect"}, Check(kind)
        PROVE  Keeps
    BY <1>1, <1>8 DEF Check
  <1>9. CASE UNCHANGED lifeVars
    BY <1>1, <1>9 DEF lifeVars
  <1>10. CASE Tick
    BY <1>5, <1>6, <1>7, <1>10, ShutdownKeeps, ScansKeeps DEF Tick
  <1> QED BY <1>2, <1>3, <1>4, <1>7, <1>8, <1>9, <1>10, FinishStopKeeps, LoopKeeps DEF LifeNext

LEMMA LifeIsSafe ==
    ASSUME LifeIInv PROVE LifeSafe
  BY DEF LifeIInv, LifeSafe

LEMMA LifeInitially ==
    ASSUME LifeInit PROVE LifeIInv
  <1>1. PICK mix \in Mixes : LifeStarts(mix[1], mix[2])
    BY DEF LifeInit
  <1>2. mix[1] \in 0 .. MaxCalls
    BY LifeAssumption
  <1> QED BY <1>1, <1>2, LifeStarting

-----------------------------------------------------------------------------
(* The time bursts: their inductive invariant *)

\* What a burst has measured and what it awaits are frames it sent, and it awaits none once it is
\* over.
BurstOf(k) ==
    /\ k \in Clock
    /\ k.pending # 0 => k.index < BurstSize /\ k.pending \in k.sent
    /\ k.completed => k.index >= BurstSize
    /\ k.best # 0 => k.best \in k.sent

\* Only a held burst is on its way, and only a connection holds.
ClockInv(k) ==
    /\ BurstOf(k)
    /\ k.index < BurstSize \/ k.completed => k.held
    /\ k.held => k.in

\* A burst that asked for the mode and has not begun
Waiting(k) == k.held /\ k.index >= BurstSize /\ ~k.completed

\* How far count a is ahead of b
Gap(a, b) == IF a >= b THEN a - b ELSE a - b + TicketSpan

\* The acquires the main loop has not granted
Ungranted == holdSlot.acquires + Taken({"acquire", "grant"}, holdTaken.acquires)

Fresh(c) == Gap(tickets, clocks[c].ticket) < holdSlot.acquires

HeldSlots == {c \in SyncSlots : clocks[c].held}
TakenSlots == {c \in SyncSlots : clocks[c].in}

\* Each burst of W waits for a ticket of its own among those not granted, and the acquires on their
\* way to the listener are those of W, but for the ones that are given back behind them. A slot has
\* one acquire on its way at most, besides those that were when its connection was admitted.
Waits(W) ==
    /\ W \subseteq SyncSlots
    /\ \A c \in W : Waiting(clocks[c]) /\ Gap(tickets, clocks[c].ticket) < Ungranted
    /\ \A c, d \in W : clocks[c].ticket = clocks[d].ticket => c = d
    /\ holdSlot.acquires <= holdSlot.releases + Cardinality({c \in W : Fresh(c)})
    /\ holdMain = "acquire" =>
         holdSlot.acquires + holdTaken.acquires
           <= holdSlot.releases + holdTaken.releases + Cardinality(W)
    /\ Ungranted + Cardinality(TakenSlots \ W) <= MAX_ADMITTED + MaxStalled

SyncIInv ==
    /\ SyncTypeOK /\ (\A c \in SyncSlots : ClockInv(clocks[c]))
    /\ HoldsBalanced /\ Gap(tickets, granted) = Ungranted
    /\ \E W \in SUBSET SyncSlots : Waits(W)

-----------------------------------------------------------------------------
(* Numbers of the bursts *)

LEMMA SyncNumbers ==
    /\ MAX_ADMITTED \in Nat \ {0} /\ BurstSize \in Nat \ {0} /\ TagSpan \in Nat \ {0}
    /\ MaxFrames \in Nat /\ MaxReproofs \in Nat /\ MaxStalled \in Nat
    /\ TicketSpan \in Nat /\ TicketSpan > 2 * (MAX_ADMITTED + MaxStalled) + 2
  BY SyncAssumption

LEMMA SlotsFinite ==
    ASSUME NEW S, S \subseteq SyncSlots
    PROVE  IsFiniteSet(S) /\ Cardinality(S) \in Nat /\ Cardinality(S) <= MAX_ADMITTED
  <1>1. IsFiniteSet(SyncSlots) /\ Cardinality(SyncSlots) = MAX_ADMITTED
    BY SyncNumbers, FS_Interval DEF SyncSlots
  <1> QED BY <1>1, FS_Subset, FS_CardinalityType

LEMMA FewerSlots ==
    ASSUME NEW S, S \subseteq SyncSlots, NEW T, T \subseteq S
    PROVE  Cardinality(T) <= Cardinality(S)
  BY SlotsFinite, FS_Subset

LEMMA SlotMore ==
    ASSUME NEW S, S \subseteq SyncSlots, NEW c \in SyncSlots, c \notin S
    PROVE  S \cup {c} \subseteq SyncSlots /\ Cardinality(S \cup {c}) = Cardinality(S) + 1
  BY SlotsFinite, FS_AddElement

LEMMA SlotLess ==
    ASSUME NEW S, S \subseteq SyncSlots, NEW c \in S
    PROVE  S \ {c} \subseteq SyncSlots /\ Cardinality(S \ {c}) = Cardinality(S) - 1
  BY SlotsFinite, FS_RemoveElement

\* As remainders go
LEMMA Remainders ==
    ASSUME NEW span \in Nat \ {0}, NEW n \in Int
    PROVE  /\ n \in 0 .. span - 1 => n % span = n
           /\ n \in span .. 2 * span - 1 => n % span = n - span
           /\ n \in (- span) .. -1 => n % span = n + span
           /\ n % span \in 0 .. span - 1
  OBVIOUS

LEMMA GapIs ==
    ASSUME NEW a \in 0 .. TicketSpan - 1, NEW b \in 0 .. TicketSpan - 1
    PROVE  (a - b) % TicketSpan = Gap(a, b) /\ Gap(a, b) \in 0 .. TicketSpan - 1
  <1> DEFINE n == a - b
  <1>1. TicketSpan \in Nat \ {0} /\ n \in Int /\ a \in Nat /\ b \in Nat
    BY SyncNumbers
  <1>2. CASE a >= b
    <2>1. n \in 0 .. TicketSpan - 1 /\ Gap(a, b) = n
      BY <1>1, <1>2 DEF Gap
    <2> HIDE DEF n
    <2>2. n % TicketSpan = n
      BY <1>1, <2>1, Remainders
    <2> QED BY <2>1, <2>2 DEF n
  <1>3. CASE a < b
    <2>1. n \in (- TicketSpan) .. -1 /\ Gap(a, b) = n + TicketSpan
          /\ Gap(a, b) \in 0 .. TicketSpan - 1
      BY <1>1, <1>3 DEF Gap
    <2> HIDE DEF n
    <2>2. n % TicketSpan = n + TicketSpan
      BY <1>1, <2>1, Remainders
    <2> QED BY <2>1, <2>2 DEF n
  <1> QED BY <1>1, <1>2, <1>3

LEMMA MoreGranted ==
    ASSUME NEW a \in 0 .. TicketSpan - 1, NEW more \in 0 .. TicketSpan - 1
    PROVE  (a + more) % TicketSpan
              = (IF a + more >= TicketSpan THEN a + more - TicketSpan ELSE a + more)
           /\ (a + more) % TicketSpan \in 0 .. TicketSpan - 1
  <1> DEFINE n == a + more
  <1>1. TicketSpan \in Nat \ {0} /\ n \in Int /\ n \in 0 .. 2 * TicketSpan - 1
    BY SyncNumbers
  <1> HIDE DEF n
  <1>2. CASE n >= TicketSpan
    <2>1. n \in TicketSpan .. 2 * TicketSpan - 1
      BY <1>1, <1>2
    <2>2. n % TicketSpan = n - TicketSpan
      BY <1>1, <2>1, Remainders
    <2> QED BY <1>1, <1>2, <2>2 DEF n
  <1>3. CASE n < TicketSpan
    <2>1. n \in 0 .. TicketSpan - 1
      BY <1>1, <1>3
    <2>2. n % TicketSpan = n
      BY <1>1, <2>1, Remainders
    <2> QED BY <1>1, <1>3, <2>1, <2>2 DEF n
  <1> QED BY <1>1, <1>2, <1>3

LEMMA NextTicket ==
    ASSUME NEW a \in 0 .. TicketSpan - 1
    PROVE  NextCount(a, TicketSpan) = (IF a + 1 = TicketSpan THEN 0 ELSE a + 1)
           /\ NextCount(a, TicketSpan) \in 0 .. TicketSpan - 1
  <1>1. 1 \in 0 .. TicketSpan - 1 /\ a \in Nat /\ TicketSpan \in Nat
    BY SyncNumbers
  <1> DEFINE next == NextCount(a, TicketSpan)
  <1>2. next = (a + 1) % TicketSpan
    BY DEF NextCount
  <1>3. /\ (a + 1) % TicketSpan = (IF a + 1 >= TicketSpan THEN a + 1 - TicketSpan ELSE a + 1)
        /\ (a + 1) % TicketSpan \in 0 .. TicketSpan - 1
    BY <1>1, MoreGranted
  <1> HIDE DEF next
  <1>4. next = (IF a + 1 >= TicketSpan THEN a + 1 - TicketSpan ELSE a + 1)
        /\ next \in 0 .. TicketSpan - 1
    BY <1>2, <1>3
  <1>5. next = (IF a + 1 = TicketSpan THEN 0 ELSE a + 1)
    BY <1>1, <1>4
  <1> QED BY <1>4, <1>5 DEF next

\* A ticket among the ungranted ones is not taken for a granted one.
LEMMA NotYetGranted ==
    ASSUME NEW last \in 0 .. TicketSpan - 1, NEW t \in 0 .. TicketSpan - 1,
           granted \in 0 .. TicketSpan - 1, NEW n \in Nat, n <= MAX_ADMITTED + MaxStalled,
           Gap(last, granted) = n, Gap(last, t) < n
    PROVE  ~Granted(t)
  <1>1. (t - granted) % TicketSpan = Gap(t, granted)
    BY GapIs
  <1>2. Gap(t, granted) = n - Gap(last, t)
    BY SyncNumbers DEF Gap
  <1>3. Gap(last, t) \in Nat
    BY GapIs
  <1>4. 0 < Gap(t, granted) /\ Gap(t, granted) < TicketSpan \div 2
    BY <1>2, <1>3, SyncNumbers
  <1> QED BY <1>1, <1>4 DEF Granted, CountAfter

-----------------------------------------------------------------------------
(* One burst *)

SameHold(k, next) == next.in = k.in /\ next.held = k.held /\ next.ticket = k.ticket

\* What one look at a burst comes to: it is over when the hold is given back, and on its way only
\* with one.
Outcome(k, r) ==
    /\ BurstOf(r.clock) /\ SameHold(k, r.clock)
    /\ r.done \in BOOLEAN
    /\ r.done => r.clock.index >= BurstSize /\ ~r.clock.completed
    /\ ~r.done /\ (r.clock.index < BurstSize \/ r.clock.completed) => k.held

\* A burst between two frames
Between(k) == BurstOf(k) /\ k.index < BurstSize /\ k.pending = 0 /\ ~k.completed

LEMMA ClockFields ==
    ASSUME NEW k \in Clock
    PROVE  /\ k.in \in BOOLEAN /\ k.op \in BOOLEAN /\ k.reproofs \in 0 .. MaxReproofs
           /\ k.held \in BOOLEAN /\ k.ticket \in 0 .. TicketSpan - 1
           /\ k.index \in 0 .. BurstSize /\ k.completed \in BOOLEAN
           /\ k.pending \in 0 .. MaxFrames /\ k.tag \in 0 .. TagSpan - 1
           /\ k.stamp \in 0 .. MaxFrames
           /\ k.late \in BOOLEAN /\ k.deadline \in BOOLEAN
           /\ k.best \in {0} \cup Echoes /\ k.fed \in {0} \cup Echoes
           /\ k.sent \in SUBSET (1 .. MaxFrames)
  BY DEF Clock

LEMMA FinishedBurst ==
    ASSUME NEW k, BurstOf(k), NEW next, next = Finished(k)
    PROVE  /\ BurstOf(next) /\ SameHold(k, next)
           /\ next.index = k.index /\ next.completed = k.completed
           /\ next.pending = k.pending
  <1>1. k \in Clock
    BY DEF BurstOf
  <1>2. next \in Clock
    BY <1>1 DEF Finished, Clock
  <1>3. /\ next.index = k.index /\ next.completed = k.completed /\ next.pending = k.pending
        /\ next.best = k.best /\ next.sent = k.sent /\ next.in = k.in /\ next.held = k.held
        /\ next.ticket = k.ticket
    BY <1>1 DEF Finished, Clock
  <1> QED BY <1>2, <1>3 DEF BurstOf, SameHold

LEMMA RetiredBurst ==
    ASSUME NEW k, Between(k), NEW r, r = Retired(k)
    PROVE  /\ BurstOf(r.clock) /\ SameHold(k, r.clock) /\ r.done \in BOOLEAN
           /\ ~r.clock.completed /\ (r.done => r.clock.index >= BurstSize)
  <1> DEFINE next == [k EXCEPT !.index = @ + 1]
  <1>1. k \in Clock /\ k.index < BurstSize /\ k.pending = 0 /\ ~k.completed
    BY DEF Between, BurstOf
  <1>2. k.index + 1 \in 0 .. BurstSize
    BY <1>1, ClockFields, SyncNumbers
  <1>3. next \in Clock
    BY <1>1, <1>2 DEF Clock
  <1>4. /\ next.index = k.index + 1 /\ next.completed = k.completed /\ next.pending = 0
        /\ next.best = k.best /\ next.sent = k.sent /\ next.in = k.in /\ next.held = k.held
        /\ next.ticket = k.ticket
    BY <1>1 DEF Clock
  <1>5. r = IF next.index < BurstSize THEN [clock |-> next, done |-> FALSE]
            ELSE [clock |-> Finished(next), done |-> TRUE]
    BY DEF Retired
  <1> HIDE DEF next
  <1>6. BurstOf(next) /\ SameHold(k, next) /\ ~next.completed
    BY <1>1, <1>3, <1>4 DEF BurstOf, Between, SameHold
  <1>7. CASE next.index < BurstSize
    BY <1>5, <1>6, <1>7
  <1>8. CASE ~(next.index < BurstSize)
    <2>1. PICK over : over = Finished(next)
      OBVIOUS
    <2>2. BurstOf(over) /\ SameHold(next, over) /\ over.index = next.index
          /\ over.completed = next.completed
      BY <1>6, <2>1, FinishedBurst
    <2>3. r.clock = over /\ r.done = TRUE
      BY <1>5, <1>8, <2>1
    <2>4. over.index >= BurstSize
      BY <1>3, <1>8, <2>2, ClockFields, SyncNumbers
    <2>5. SameHold(k, over) /\ ~over.completed
      BY <1>6, <2>2 DEF SameHold
    <2> QED BY <2>2, <2>3, <2>4, <2>5
  <1> QED BY <1>7, <1>8

LEMMA SentFrame ==
    ASSUME NEW k, Between(k), NEW r \in Sends(k)
    PROVE  /\ BurstOf(r.clock) /\ SameHold(k, r.clock) /\ r.done \in BOOLEAN
           /\ ~r.clock.completed /\ (r.done => r.clock.index >= BurstSize)
  <1> DEFINE n == NextStamp(k.stamp)
             staged == [k EXCEPT !.stamp = n, !.tag = n % TagSpan]
             sending == [staged EXCEPT !.pending = n, !.late = FALSE, !.sent = @ \cup {n}]
  <1>1. k \in Clock /\ k.index < BurstSize /\ k.pending = 0 /\ ~k.completed /\ BurstOf(k)
    BY DEF Between, BurstOf
  <1>2. CASE r = Retired(k)
    BY <1>2, RetiredBurst
  <1>3. CASE r # Retired(k)
    <2>1. ~(n > MaxFrames) /\ (r = Retired(staged) \/ r = [clock |-> sending, done |-> FALSE])
      <3>1. Sends(k) = {Retired(k)} \cup (IF n > MaxFrames THEN {}
                                          ELSE {Retired(staged),
                                                [clock |-> sending, done |-> FALSE]})
        BY DEF Sends
      <3> HIDE DEF n, staged, sending
      <3> QED BY <1>3, <3>1
    <2>2. n \in 1 .. MaxFrames /\ n \in 0 .. MaxFrames /\ n \in Int
      <3>1. k.stamp \in Nat
        BY <1>1, ClockFields
      <3>2. n \in {k.stamp + 1, k.stamp + 2}
        BY DEF NextStamp
      <3> HIDE DEF n
      <3>3. n \in Nat /\ n >= 1
        BY <3>1, <3>2
      <3> QED BY <2>1, <3>3, SyncNumbers
    <2> HIDE DEF n
    <2>3. n % TagSpan \in 0 .. TagSpan - 1
      <3>1. TagSpan \in Nat \ {0}
        BY SyncNumbers
      <3> QED BY <2>2, <3>1, Remainders
    <2>4. staged \in Clock
      <3>1. PICK tag : tag = n % TagSpan
        OBVIOUS
      <3>2. staged = [k EXCEPT !.stamp = n, !.tag = tag] /\ tag \in 0 .. TagSpan - 1
        BY <2>3, <3>1
      <3> HIDE DEF staged
      <3> QED BY <1>1, <2>2, <3>2 DEF Clock
    <2>5. /\ staged.index = k.index /\ staged.completed = k.completed /\ staged.pending = 0
          /\ staged.best = k.best /\ staged.sent = k.sent /\ SameHold(k, staged)
      BY <1>1 DEF Clock, SameHold
    <2>6. Between(staged)
      <3> HIDE DEF staged
      <3> QED BY <1>1, <2>4, <2>5 DEF Between, BurstOf
    <2>7. CASE r = Retired(staged)
      <3> HIDE DEF staged
      <3>1. /\ BurstOf(r.clock) /\ SameHold(staged, r.clock) /\ r.done \in BOOLEAN
            /\ ~r.clock.completed /\ (r.done => r.clock.index >= BurstSize)
        BY <2>6, <2>7, RetiredBurst
      <3> QED BY <2>5, <3>1 DEF SameHold
    <2>8. CASE r = [clock |-> sending, done |-> FALSE]
      <3> HIDE DEF staged
      <3>1. sending \in Clock
        <4>1. PICK sent : sent = staged.sent \cup {n}
          OBVIOUS
        <4>2. sent \in SUBSET (1 .. MaxFrames)
          BY <2>2, <2>4, <4>1, ClockFields
        <4>3. sending = [staged EXCEPT !.pending = n, !.late = FALSE, !.sent = sent]
          BY <4>1
        <4> HIDE DEF sending
        <4> QED BY <2>2, <2>4, <4>2, <4>3 DEF Clock
      <3>2. /\ sending.index = k.index /\ sending.completed = k.completed /\ sending.pending = n
            /\ sending.best = k.best /\ sending.sent = k.sent \cup {n} /\ SameHold(k, sending)
        BY <2>4, <2>5 DEF Clock, SameHold
      <3> HIDE DEF sending
      <3>3. BurstOf(sending)
        BY <1>1, <3>1, <3>2 DEF BurstOf
      <3> QED BY <1>1, <2>8, <3>2, <3>3
    <2> QED BY <2>1, <2>7, <2>8
  <1> QED BY <1>2, <1>3

LEMMA LoopedBurst ==
    ASSUME NEW k, ClockInv(k), NEW may \in BOOLEAN, may => k.held, NEW r \in Looped(k, may)
    PROVE  Outcome(k, r)
  <1> DEFINE open == IF k.index >= BurstSize THEN Opened(k) ELSE k
  <1>1. k \in Clock /\ BurstOf(k) /\ (k.index < BurstSize \/ k.completed => k.held)
    BY DEF BurstOf, ClockInv
  <1>2. k.index \in Nat /\ BurstSize \in Nat \ {0} /\ k.held \in BOOLEAN /\ k.completed \in BOOLEAN
    BY <1>1, ClockFields, SyncNumbers
  <1>3. CASE k.completed
    <2> DEFINE next == [k EXCEPT !.completed = FALSE]
    <2>1. r = [clock |-> next, done |-> TRUE]
      BY <1>3 DEF Looped
    <2>2. next \in Clock
      BY <1>1 DEF Clock
    <2>3. /\ next.index = k.index /\ ~next.completed /\ next.pending = k.pending
          /\ next.best = k.best /\ next.sent = k.sent /\ SameHold(k, next)
      BY <1>1 DEF Clock, SameHold
    <2> HIDE DEF next
    <2>4. BurstOf(next)
      BY <1>1, <2>2, <2>3 DEF BurstOf
    <2> QED BY <1>1, <1>3, <2>1, <2>3, <2>4 DEF Outcome, BurstOf
  <1>4. CASE ~k.completed /\ k.index >= BurstSize /\ (~may \/ ~k.late)
    <2>1. r = [clock |-> k, done |-> FALSE]
      BY <1>4 DEF Looped
    <2> QED BY <1>1, <1>2, <1>4, <2>1 DEF Outcome, SameHold
  <1>5. CASE ~k.completed /\ ~(k.index >= BurstSize /\ (~may \/ ~k.late))
    <2>1. BurstOf(open) /\ open.index < BurstSize /\ ~open.completed /\ SameHold(k, open) /\ k.held
      <3>1. CASE k.index >= BurstSize
        <4> DEFINE next == Opened(k)
        <4>1. next \in Clock
          <5>1. 0 \in 0 .. BurstSize /\ 0 \in {0} \cup Echoes /\ {} \in SUBSET (1 .. MaxFrames)
            BY <1>2
          <5> QED BY <1>1, <5>1 DEF Clock, Opened
        <4>2. /\ next.index = 0 /\ next.completed = k.completed /\ next.pending = k.pending
              /\ next.best = 0 /\ SameHold(k, next)
          BY <1>1 DEF Clock, Opened, SameHold
        <4>3. k.pending = 0
          BY <1>1, <1>2, <3>1 DEF BurstOf
        <4> HIDE DEF next
        <4>4. BurstOf(next)
          BY <1>2, <1>5, <4>1, <4>2, <4>3 DEF BurstOf
        <4>5. open = next /\ may
          BY <1>5, <3>1 DEF next
        <4> QED BY <1>2, <1>5, <4>2, <4>4, <4>5
      <3>2. CASE ~(k.index >= BurstSize)
        BY <1>1, <1>2, <1>5, <3>2 DEF SameHold
      <3> QED BY <3>1, <3>2
    <2>2. r \in (IF open.pending = 0 THEN Sends(open)
                 ELSE IF open.late THEN {Retired([open EXCEPT !.pending = 0, !.tag = 0])}
                 ELSE {[clock |-> open, done |-> FALSE]})
      BY <1>5 DEF Looped
    <2> HIDE DEF open
    <2>3. CASE open.pending = 0
      <3>1. Between(open) /\ r \in Sends(open)
        BY <2>1, <2>2, <2>3 DEF Between
      <3> QED BY <2>1, <3>1, SentFrame DEF Outcome, SameHold
    <2>4. CASE open.pending # 0 /\ open.late
      <3> DEFINE lost == [open EXCEPT !.pending = 0, !.tag = 0]
      <3>1. r = Retired(lost) /\ open \in Clock
        BY <2>1, <2>2, <2>4 DEF BurstOf
      <3>2. 0 \in 0 .. MaxFrames /\ 0 \in 0 .. TagSpan - 1
        BY SyncNumbers
      <3>3. lost \in Clock
        BY <3>1, <3>2 DEF Clock
      <3>4. /\ lost.index = open.index /\ lost.completed = open.completed /\ lost.pending = 0
            /\ lost.best = open.best /\ lost.sent = open.sent /\ SameHold(open, lost)
        BY <3>1 DEF Clock, SameHold
      <3> HIDE DEF lost
      <3>5. Between(lost)
        BY <2>1, <3>3, <3>4 DEF Between, BurstOf
      <3> QED BY <2>1, <3>1, <3>4, <3>5, RetiredBurst DEF Outcome, SameHold
    <2>5. CASE open.pending # 0 /\ ~open.late
      <3>1. r = [clock |-> open, done |-> FALSE]
        BY <2>2, <2>5
      <3> QED BY <2>1, <3>1 DEF Outcome
    <2> QED BY <2>3, <2>4, <2>5
  <1> QED BY <1>3, <1>4, <1>5

LEMMA AnsweredBurst ==
    ASSUME NEW k, ClockInv(k), NEW echo \in Echoes, NEW good \in BOOLEAN,
           NEW next, next = Answered(k, echo, good)
    PROVE  ClockInv(next) /\ SameHold(k, next) /\ (Waiting(k) => Waiting(next))
  <1>1. k \in Clock /\ BurstOf(k) /\ (k.index < BurstSize \/ k.completed => k.held)
        /\ (k.held => k.in)
    BY DEF BurstOf, ClockInv
  <1>2. CASE echo # k.pending
    <2>1. next = k
      BY <1>2 DEF Answered
    <2> QED BY <2>1 DEF SameHold
  <1>3. CASE echo = k.pending
    <2> DEFINE answer == [k EXCEPT !.pending = 0, !.index = @ + 1,
                                   !.best = IF good THEN echo ELSE @]
    <2>1. k.pending # 0 /\ k.index < BurstSize /\ echo \in k.sent /\ k.held /\ ~k.completed
          /\ k.index + 1 \in 0 .. BurstSize
      <3>1. echo # 0
        BY SyncNumbers DEF Echoes
      <3>2. k.pending # 0 /\ k.index < BurstSize /\ echo \in k.sent
        BY <1>1, <1>3, <3>1 DEF BurstOf
      <3>3. k.index \in 0 .. BurstSize /\ BurstSize \in Nat
        BY <1>1, ClockFields, SyncNumbers
      <3> QED BY <1>1, <3>2, <3>3 DEF BurstOf
    <2>2. 0 \in 0 .. MaxFrames
      BY SyncNumbers
    <2>3. answer \in Clock
      BY <1>1, <2>1, <2>2 DEF Clock
    <2>4. /\ answer.index = k.index + 1 /\ answer.completed = k.completed /\ answer.pending = 0
          /\ answer.best \in {k.best, echo} /\ answer.sent = k.sent /\ SameHold(k, answer)
      BY <1>1 DEF Clock, SameHold
    <2>5. next = IF answer.index < BurstSize THEN answer
                 ELSE [Finished(answer) EXCEPT !.completed = TRUE]
      BY <1>3 DEF Answered
    <2> HIDE DEF answer
    <2>6. BurstOf(answer)
      BY <1>1, <2>1, <2>3, <2>4 DEF BurstOf
    <2>7. ~Waiting(k)
      BY <2>1, <1>1, ClockFields, SyncNumbers DEF Waiting
    <2>8. CASE answer.index < BurstSize
      BY <1>1, <2>1, <2>4, <2>5, <2>6, <2>7, <2>8 DEF ClockInv, SameHold
    <2>9. CASE ~(answer.index < BurstSize)
      <3>1. PICK over : over = Finished(answer)
        OBVIOUS
      <3>2. BurstOf(over) /\ SameHold(answer, over) /\ over.index = answer.index
            /\ over.completed = answer.completed /\ over.pending = answer.pending
        BY <2>6, <3>1, FinishedBurst
      <3>3. next = [over EXCEPT !.completed = TRUE] /\ over \in Clock
        BY <2>5, <2>9, <3>1, <3>2 DEF BurstOf
      <3>4. next \in Clock
        BY <3>3 DEF Clock
      <3>5. /\ next.index = over.index /\ next.pending = over.pending /\ next.best = over.best
            /\ next.sent = over.sent /\ SameHold(over, next)
        BY <3>3 DEF Clock, SameHold
      <3>6. next.index >= BurstSize
        BY <2>3, <2>9, <3>2, <3>5, ClockFields, SyncNumbers
      <3> QED BY <1>1, <2>1, <2>4, <2>7, <3>2, <3>4, <3>5, <3>6 DEF ClockInv, BurstOf, SameHold
    <2> QED BY <2>8, <2>9
  <1> QED BY <1>2, <1>3

-----------------------------------------------------------------------------
(* What a step does to a slot *)

LEMMA SyncTyping ==
    ASSUME SyncTypeOK
    PROVE  /\ clocks \in [SyncSlots -> Clock] /\ \A c \in SyncSlots : clocks[c] \in Clock
           /\ tickets \in 0 .. TicketSpan - 1 /\ granted \in 0 .. TicketSpan - 1
           /\ holdSlot.acquires \in Nat /\ holdSlot.releases \in Nat
           /\ holdTaken.acquires \in Nat /\ holdTaken.releases \in Nat
           /\ refs \in Nat /\ playing \in BOOLEAN /\ Ungranted \in Nat
           /\ \A c \in SyncSlots : Gap(tickets, clocks[c].ticket) \in 0 .. TicketSpan - 1
  <1>1. /\ clocks \in [SyncSlots -> Clock]
        /\ tickets \in 0 .. TicketSpan - 1 /\ granted \in 0 .. TicketSpan - 1
        /\ holdSlot.acquires \in Nat /\ holdSlot.releases \in Nat
        /\ holdTaken.acquires \in Nat /\ holdTaken.releases \in Nat
        /\ refs \in Nat /\ playing \in BOOLEAN
    BY DEF SyncTypeOK
  <1>2. Ungranted \in Nat
    BY <1>1 DEF Ungranted, Taken
  <1>3. \A c \in SyncSlots : clocks[c] \in Clock
    BY <1>1
  <1>4. \A c \in SyncSlots : Gap(tickets, clocks[c].ticket) \in 0 .. TicketSpan - 1
    BY <1>1, <1>3, ClockFields, GapIs
  <1> QED BY <1>1, <1>2, <1>3, <1>4

LEMMA ChangedSlot ==
    ASSUME SyncTypeOK, NEW c \in SyncSlots, NEW next \in Clock,
           clocks' = [clocks EXCEPT ![c] = next]
    PROVE  /\ clocks' \in [SyncSlots -> Clock]
           /\ clocks'[c] = next /\ \A d \in SyncSlots : d # c => clocks'[d] = clocks[d]
  BY SyncTyping

LEMMA HoldSets ==
    /\ HeldSlots \subseteq SyncSlots /\ TakenSlots \subseteq SyncSlots
    /\ HeldSlots' \subseteq SyncSlots /\ TakenSlots' \subseteq SyncSlots
  BY DEF HeldSlots, TakenSlots

\* Nothing waits whose ticket was granted.
LEMMA WaitsIsUngranted ==
    ASSUME SyncIInv, NEW W \in SUBSET SyncSlots, Waits(W), NEW c \in W
    PROVE  ~Granted(clocks[c].ticket)
  <1>1. SyncTypeOK /\ Gap(tickets, granted) = Ungranted
    BY DEF SyncIInv
  <1>2. /\ tickets \in 0 .. TicketSpan - 1 /\ granted \in 0 .. TicketSpan - 1 /\ Ungranted \in Nat
        /\ clocks[c].ticket \in 0 .. TicketSpan - 1
    BY <1>1, SyncTyping, ClockFields
  <1>3. Ungranted <= MAX_ADMITTED + MaxStalled
    <2>1. Cardinality(TakenSlots \ W) \in Nat
      BY HoldSets, SlotsFinite
    <2> QED BY <1>2, <2>1, SyncNumbers DEF Waits
  <1>4. Gap(tickets, clocks[c].ticket) < Ungranted
    BY DEF Waits
  <1> QED BY <1>1, <1>2, <1>3, <1>4, NotYetGranted

\* The hold and the ticket are kept, and so is a wait.
LEMMA KeepStep ==
    ASSUME SyncIInv, NEW c \in SyncSlots, NEW next, ClockInv(next),
           clocks' = [clocks EXCEPT ![c] = next], SameHold(clocks[c], next),
           Waiting(clocks[c]) /\ ~Granted(clocks[c].ticket) => Waiting(next),
           tickets' = tickets, holdSlot' = holdSlot, UNCHANGED mainSide,
           syncTask' \in 0 .. MAX_ADMITTED, wakened' \in BOOLEAN
    PROVE  SyncIInv'
  <1> USE DEF mainSide
  <1>1. SyncTypeOK /\ HoldsBalanced /\ Gap(tickets, granted) = Ungranted
        /\ \A d \in SyncSlots : ClockInv(clocks[d])
    BY DEF SyncIInv
  <1>2. PICK W \in SUBSET SyncSlots : Waits(W)
    BY DEF SyncIInv
  <1>3. /\ clocks' \in [SyncSlots -> Clock]
        /\ clocks'[c] = next /\ \A d \in SyncSlots : d # c => clocks'[d] = clocks[d]
    BY <1>1, ChangedSlot DEF ClockInv, BurstOf
  <1>4. SyncTypeOK'
    BY <1>1, <1>3 DEF SyncTypeOK
  <1>5. \A d \in SyncSlots : ClockInv(clocks'[d])
    BY <1>1, <1>3
  <1>6. \A d \in SyncSlots : SameHold(clocks[d], clocks'[d])
    BY <1>3 DEF SameHold
  <1>7. HeldSlots' = HeldSlots /\ TakenSlots' = TakenSlots
    BY <1>6 DEF HeldSlots, TakenSlots, SameHold
  <1>8. HoldsBalanced'
    BY <1>1, <1>7 DEF HoldsBalanced, HeldSlots, Taken
  <1>9. Ungranted' = Ungranted /\ Gap(tickets, granted)' = Ungranted'
    BY <1>1 DEF Ungranted, Taken, Gap
  <1>10. Waits(W)'
    <2>1. \A d \in W : Waiting(clocks'[d]) /\ clocks'[d].ticket = clocks[d].ticket
      <3>1. \A d \in W : Waiting(clocks[d]) /\ ~Granted(clocks[d].ticket)
        BY <1>2, WaitsIsUngranted DEF Waits
      <3> QED BY <1>3, <1>6, <3>1 DEF SameHold
    <2>2. {d \in W : Fresh(d)}' = {d \in W : Fresh(d)}
      BY <2>1 DEF Fresh, Gap
    <2>3. \A d \in W : Gap(tickets, clocks[d].ticket)' = Gap(tickets, clocks[d].ticket)
      BY <2>1 DEF Gap
    <2> QED BY <1>2, <1>7, <1>9, <2>1, <2>2, <2>3 DEF Waits
  <1> QED BY <1>4, <1>5, <1>8, <1>9, <1>10 DEF SyncIInv

\* The hold is given back, if there is one; a connection that stays was not waiting.
LEMMA DropStep ==
    ASSUME SyncIInv, NEW c \in SyncSlots, NEW next, ClockInv(next), ~next.held,
           clocks' = [clocks EXCEPT ![c] = next], next.in => clocks[c].in,
           next.in => ~(Waiting(clocks[c]) /\ ~Granted(clocks[c].ticket)),
           Requested(0, IF clocks[c].held THEN 1 ELSE 0), UNCHANGED mainSide,
           syncTask' \in 0 .. MAX_ADMITTED, wakened' \in BOOLEAN
    PROVE  SyncIInv'
  <1> USE DEF mainSide
  <1>1. SyncTypeOK /\ HoldsBalanced /\ Gap(tickets, granted) = Ungranted
        /\ \A d \in SyncSlots : ClockInv(clocks[d])
    BY DEF SyncIInv
  <1>2. PICK W \in SUBSET SyncSlots : Waits(W)
    BY DEF SyncIInv
  <1> DEFINE one == IF clocks[c].held THEN 1 ELSE 0
             V == W \ {c}
  <1>3. /\ clocks' \in [SyncSlots -> Clock]
        /\ clocks'[c] = next /\ \A d \in SyncSlots : d # c => clocks'[d] = clocks[d]
    BY <1>1, ChangedSlot DEF ClockInv, BurstOf
  <1>4. /\ tickets' = tickets /\ holdSlot' = [acquires |-> holdSlot.acquires,
                                              releases |-> holdSlot.releases + one]
        /\ holdSlot'.acquires = holdSlot.acquires /\ holdSlot'.releases = holdSlot.releases + one
        /\ one \in {0, 1}
    BY <1>1, SyncTyping DEF Requested
  <1>5. SyncTypeOK'
    <2>1. holdSlot' \in [acquires : Nat, releases : Nat]
      BY <1>1, <1>4, SyncTyping
    <2> QED BY <1>1, <1>3, <1>4, <2>1 DEF SyncTypeOK
  <1>6. \A d \in SyncSlots : ClockInv(clocks'[d])
    BY <1>1, <1>3
  <1>7. HeldSlots' = HeldSlots \ {c} /\ TakenSlots' \subseteq TakenSlots
        /\ (~next.in => TakenSlots' \subseteq TakenSlots \ {c})
    BY <1>3 DEF HeldSlots, TakenSlots
  <1>8. Cardinality(HeldSlots') + one = Cardinality(HeldSlots)
    <2>1. CASE clocks[c].held
      <3>1. c \in HeldSlots
        BY <2>1 DEF HeldSlots
      <3>2. Cardinality(HeldSlots') = Cardinality(HeldSlots) - 1
        BY <1>7, <3>1, SlotLess, HoldSets
      <3> QED BY <2>1, <3>2, HoldSets, SlotsFinite
    <2>2. CASE ~clocks[c].held
      <3>1. HeldSlots' = HeldSlots
        BY <1>7, <2>2 DEF HeldSlots
      <3> QED BY <2>2, <3>1, HoldSets, SlotsFinite
    <2> QED BY <2>1, <2>2
  <1>9. Cardinality(HeldSlots) \in Nat /\ Cardinality(HeldSlots') \in Nat
    BY HoldSets, SlotsFinite
  <1>10. HoldsBalanced'
    <2> DEFINE rest == Taken({"acquire", "grant", "release"}, holdTaken.releases)
               more == Taken({"acquire"}, holdTaken.acquires)
               idle == IF playing THEN 0 ELSE 1
    <2>1. refs + holdSlot.acquires + more + idle
            = 1 + holdSlot.releases + rest + Cardinality(HeldSlots)
      BY <1>1 DEF HoldsBalanced, HeldSlots
    <2>2. rest \in Nat /\ more \in Nat /\ idle \in Nat /\ rest' = rest /\ more' = more
          /\ refs' = refs /\ idle' = idle
      BY <1>1, SyncTyping DEF Taken
    <2> HIDE DEF rest, more, idle, one
    <2>3. (refs + holdSlot.acquires + more + idle)'
            = 1 + holdSlot'.releases + rest' + Cardinality(HeldSlots')
      BY <1>1, <1>4, <1>8, <1>9, <2>1, <2>2, SyncTyping
    <2> QED BY <2>3 DEF HoldsBalanced, HeldSlots, rest, more, idle
  <1>11. Ungranted' = Ungranted /\ Gap(tickets, granted)' = Ungranted'
    BY <1>1, <1>4 DEF Ungranted, Taken, Gap
  <1>12. c \in W => clocks[c].held /\ ~next.in
    <2> SUFFICES ASSUME c \in W PROVE clocks[c].held /\ ~next.in
      OBVIOUS
    <2>1. Waiting(clocks[c]) /\ ~Granted(clocks[c].ticket)
      BY <1>2, WaitsIsUngranted DEF Waits
    <2> QED BY <2>1 DEF Waiting
  <1>13. Waits(V)'
    <2>1. \A d \in V : clocks'[d] = clocks[d] /\ Waiting(clocks'[d])
                       /\ Gap(tickets, clocks[d].ticket)' = Gap(tickets, clocks[d].ticket)
      BY <1>2, <1>3, <1>4 DEF Waits, Gap
    <2>2. \A d, e \in V : clocks'[d].ticket = clocks'[e].ticket => d = e
      BY <1>2, <2>1 DEF Waits
    <2> DEFINE fresh == {d \in W : Fresh(d)}
               left == {d \in V : Fresh(d)'}
    <2>3. left = fresh \ {c}
      BY <1>4, <2>1 DEF Fresh
    <2>4. /\ fresh \subseteq SyncSlots /\ left \subseteq SyncSlots /\ W \subseteq SyncSlots
          /\ V \subseteq SyncSlots
      BY <1>2 DEF Waits
    <2> HIDE DEF fresh, left, V, one
    <2>5. /\ Cardinality(fresh) \in Nat /\ Cardinality(left) \in Nat
          /\ Cardinality(W) \in Nat /\ Cardinality(V) \in Nat
      BY <2>4, SlotsFinite
    <2>6. Cardinality(fresh) <= Cardinality(left) + one
      <3>1. CASE c \in fresh
        <4>1. Cardinality(left) = Cardinality(fresh) - 1
          BY <2>3, <2>4, <3>1, SlotLess
        <4>2. one = 1
          BY <1>12, <3>1 DEF one, fresh
        <4> QED BY <2>5, <4>1, <4>2
      <3>2. CASE c \notin fresh
        <4>1. left = fresh
          BY <2>3, <3>2
        <4> QED BY <1>4, <2>5, <4>1
      <3> QED BY <3>1, <3>2
    <2>7. Cardinality(W) <= Cardinality(V) + one
      <3>1. CASE c \in W
        <4>1. Cardinality(V) = Cardinality(W) - 1
          BY <2>4, <3>1, SlotLess DEF V
        <4>2. one = 1
          BY <1>12, <3>1 DEF one
        <4> QED BY <2>5, <4>1, <4>2
      <3>2. CASE c \notin W
        <4>1. V = W
          BY <3>2 DEF V
        <4> QED BY <1>4, <2>5, <4>1
      <3> QED BY <3>1, <3>2
    <2>8. Cardinality((TakenSlots \ V)') <= Cardinality(TakenSlots \ W)
      <3>1. TakenSlots' \ V \subseteq TakenSlots \ W
        BY <1>7, <1>12 DEF V
      <3> QED BY <3>1, HoldSets, FewerSlots
    <2>9. Cardinality(TakenSlots \ W) \in Nat /\ Cardinality(TakenSlots' \ V) \in Nat
      BY HoldSets, SlotsFinite
    <2>10. holdSlot'.acquires <= holdSlot'.releases + Cardinality(left)
      BY <1>1, <1>2, <1>4, <2>5, <2>6, SyncTyping DEF Waits, fresh
    <2>11. holdMain' = "acquire" =>
             holdSlot'.acquires + holdTaken'.acquires
               <= holdSlot'.releases + holdTaken'.releases + Cardinality(V)
      BY <1>1, <1>2, <1>4, <2>5, <2>7, SyncTyping DEF Waits
    <2>12. Ungranted' + Cardinality((TakenSlots \ V)') <= MAX_ADMITTED + MaxStalled
      BY <1>1, <1>2, <1>11, <2>8, <2>9, SyncTyping, SyncNumbers DEF Waits
    <2>13. \A d \in V : Gap(tickets, clocks[d].ticket)' < Ungranted'
      BY <1>2, <1>11, <2>1 DEF Waits, V
    <2> QED BY <2>1, <2>2, <2>4, <2>10, <2>11, <2>12, <2>13 DEF Waits, left
  <1>14. V \in SUBSET SyncSlots
    OBVIOUS
  <1> QED BY <1>5, <1>6, <1>10, <1>11, <1>13, <1>14 DEF SyncIInv

\* A burst asks for the mode: its ticket is the latest.
LEMMA AskStep ==
    ASSUME SyncIInv, NEW c \in SyncSlots, NEW next, ClockInv(next), Waiting(next),
           clocks[c].in, ~clocks[c].held, next.in, next.ticket = NextCount(tickets, TicketSpan),
           clocks' = [clocks EXCEPT ![c] = next], Requested(1, 0), UNCHANGED mainSide,
           syncTask' \in 0 .. MAX_ADMITTED, wakened' \in BOOLEAN
    PROVE  SyncIInv' /\ ~Granted(next.ticket)
  <1> USE DEF mainSide
  <1>1. SyncTypeOK /\ HoldsBalanced /\ Gap(tickets, granted) = Ungranted
        /\ \A d \in SyncSlots : ClockInv(clocks[d])
    BY DEF SyncIInv
  <1>2. PICK W \in SUBSET SyncSlots : Waits(W)
    BY DEF SyncIInv
  <1> DEFINE V == W \cup {c}
  <1>3. /\ clocks' \in [SyncSlots -> Clock]
        /\ clocks'[c] = next /\ \A d \in SyncSlots : d # c => clocks'[d] = clocks[d]
    BY <1>1, ChangedSlot DEF ClockInv, BurstOf
  <1>4. /\ tickets' = next.ticket
        /\ holdSlot' = [acquires |-> holdSlot.acquires + 1, releases |-> holdSlot.releases]
        /\ holdSlot'.acquires = holdSlot.acquires + 1 /\ holdSlot'.releases = holdSlot.releases
        /\ next.held
    BY <1>1, SyncTyping DEF Requested, Waiting
  <1>5. /\ tickets' = (IF tickets + 1 = TicketSpan THEN 0 ELSE tickets + 1)
        /\ tickets' \in 0 .. TicketSpan - 1
    BY <1>1, <1>4, NextTicket, SyncTyping
  <1>6. SyncTypeOK'
    <2>1. holdSlot' \in [acquires : Nat, releases : Nat]
      BY <1>1, <1>4, SyncTyping
    <2> QED BY <1>1, <1>3, <1>5, <2>1 DEF SyncTypeOK
  <1>7. \A d \in SyncSlots : ClockInv(clocks'[d])
    BY <1>1, <1>3
  <1>8. HeldSlots' = HeldSlots \cup {c} /\ TakenSlots' = TakenSlots /\ c \notin HeldSlots
        /\ c \in TakenSlots
    BY <1>3, <1>4 DEF HeldSlots, TakenSlots
  <1>9. Cardinality(HeldSlots') = Cardinality(HeldSlots) + 1 /\ Cardinality(HeldSlots) \in Nat
    BY <1>8, HoldSets, SlotMore, SlotsFinite
  <1>10. HoldsBalanced'
    <2> DEFINE rest == Taken({"acquire", "grant", "release"}, holdTaken.releases)
               more == Taken({"acquire"}, holdTaken.acquires)
               idle == IF playing THEN 0 ELSE 1
    <2>1. refs + holdSlot.acquires + more + idle
            = 1 + holdSlot.releases + rest + Cardinality(HeldSlots)
      BY <1>1 DEF HoldsBalanced, HeldSlots
    <2>2. rest \in Nat /\ more \in Nat /\ idle \in Nat /\ rest' = rest /\ more' = more
          /\ refs' = refs /\ idle' = idle
      BY <1>1, SyncTyping DEF Taken
    <2> HIDE DEF rest, more, idle
    <2>3. (refs + holdSlot.acquires + more + idle)'
            = 1 + holdSlot'.releases + rest' + Cardinality(HeldSlots')
      BY <1>1, <1>4, <1>9, <2>1, <2>2, SyncTyping
    <2> QED BY <2>3 DEF HoldsBalanced, HeldSlots, rest, more, idle
  <1>11. c \notin W
    BY <1>2 DEF Waits, Waiting
  <1>12. Ungranted' = Ungranted + 1 /\ Ungranted \in Nat
         /\ Ungranted + 1 <= MAX_ADMITTED + MaxStalled
    <2>1. c \in TakenSlots \ W
      BY <1>8, <1>11
    <2>2. IsFiniteSet(TakenSlots \ W) /\ Cardinality(TakenSlots \ W) \in Nat
      BY HoldSets, SlotsFinite
    <2>3. Cardinality(TakenSlots \ W) >= 1
      BY <2>1, <2>2, FS_EmptySet
    <2>4. Ungranted' = Ungranted + 1
      BY <1>1, <1>4, SyncTyping DEF Ungranted, Taken
    <2> QED BY <1>1, <1>2, <2>2, <2>3, <2>4, SyncTyping, SyncNumbers DEF Waits
  <1>13. Gap(tickets', granted') = Ungranted'
    BY <1>1, <1>5, <1>12, SyncTyping, SyncNumbers DEF Gap
  <1>14. Gap(tickets', next.ticket) = 0
    BY <1>4, <1>5, SyncNumbers DEF Gap
  <1>15. \A d \in W : /\ clocks'[d] = clocks[d] /\ Waiting(clocks[d])
                      /\ Gap(tickets', clocks[d].ticket) = Gap(tickets, clocks[d].ticket) + 1
                      /\ Gap(tickets, clocks[d].ticket) < Ungranted
                      /\ Gap(tickets, clocks[d].ticket) \in Nat
    <2> SUFFICES ASSUME NEW d \in W
                 PROVE  /\ clocks'[d] = clocks[d] /\ Waiting(clocks[d])
                        /\ Gap(tickets', clocks[d].ticket) = Gap(tickets, clocks[d].ticket) + 1
                        /\ Gap(tickets, clocks[d].ticket) < Ungranted
                        /\ Gap(tickets, clocks[d].ticket) \in Nat
      OBVIOUS
    <2>1. clocks'[d] = clocks[d] /\ Waiting(clocks[d])
          /\ Gap(tickets, clocks[d].ticket) < Ungranted
      BY <1>2, <1>3, <1>11 DEF Waits
    <2>2. clocks[d].ticket \in 0 .. TicketSpan - 1
      BY <1>1, SyncTyping, ClockFields
    <2> DEFINE t == clocks[d].ticket
    <2> HIDE DEF t
    <2>3. t \in 0 .. TicketSpan - 1 /\ Gap(tickets, t) < Ungranted
      BY <2>1, <2>2 DEF t
    <2>4. Gap(tickets', t) = Gap(tickets, t) + 1 /\ Gap(tickets, t) \in Nat
      BY <1>1, <1>5, <1>12, <2>3, SyncTyping, SyncNumbers DEF Gap
    <2> QED BY <2>1, <2>4 DEF t
  <1>16. Waits(V)'
    <2>1. ASSUME NEW d \in V
          PROVE  Waiting(clocks'[d]) /\ Gap(tickets', clocks'[d].ticket) < Ungranted'
      <3>1. CASE d = c
        BY <1>3, <1>12, <1>14, <3>1
      <3>2. CASE d # c
        BY <1>12, <1>15, <2>1, <3>2
      <3> QED BY <3>1, <3>2
    <2>2. ASSUME NEW d \in V, NEW e \in V, clocks'[d].ticket = clocks'[e].ticket
          PROVE  d = e
      <3>1. CASE d = c /\ e # c
        BY <1>3, <1>14, <1>15, <2>2, <3>1
      <3>2. CASE e = c /\ d # c
        BY <1>3, <1>14, <1>15, <2>2, <3>2
      <3>3. CASE d # c /\ e # c
        BY <1>2, <1>15, <2>2, <3>3 DEF Waits
      <3> QED BY <3>1, <3>2, <3>3
    <2> DEFINE fresh == {d \in W : Fresh(d)}
               left == {d \in V : Fresh(d)'}
    <2>3. left = fresh \cup {c} /\ c \notin fresh
      <3>1. Fresh(c)'
        BY <1>1, <1>3, <1>4, <1>14, SyncTyping DEF Fresh
      <3>2. \A d \in W : Fresh(d)' <=> Fresh(d)
        BY <1>1, <1>4, <1>15, SyncTyping DEF Fresh
      <3> QED BY <1>11, <3>1, <3>2
    <2>4. fresh \subseteq SyncSlots /\ W \subseteq SyncSlots /\ V \subseteq SyncSlots
      OBVIOUS
    <2> HIDE DEF fresh, left
    <2>5. Cardinality(left) = Cardinality(fresh) + 1 /\ Cardinality(V) = Cardinality(W) + 1
      BY <1>11, <2>3, <2>4, SlotMore
    <2>6. /\ Cardinality(fresh) \in Nat /\ Cardinality(W) \in Nat
      BY <2>4, SlotsFinite
    <2>7. c \in TakenSlots \ W /\ TakenSlots' \ V = (TakenSlots \ W) \ {c}
      BY <1>8, <1>11
    <2>8. Cardinality((TakenSlots \ V)') = Cardinality(TakenSlots \ W) - 1
          /\ Cardinality(TakenSlots \ W) \in Nat
      <3>1. TakenSlots \ W \subseteq SyncSlots
        BY HoldSets
      <3> QED BY <2>7, <3>1, SlotLess, SlotsFinite
    <2>9. holdSlot'.acquires <= holdSlot'.releases + Cardinality(left)
      BY <1>1, <1>2, <1>4, <2>5, <2>6, SyncTyping DEF Waits, fresh
    <2>10. holdMain' = "acquire" =>
             holdSlot'.acquires + holdTaken'.acquires
               <= holdSlot'.releases + holdTaken'.releases + Cardinality(V)
      BY <1>1, <1>2, <1>4, <2>5, <2>6, SyncTyping DEF Waits
    <2>11. Ungranted' + Cardinality((TakenSlots \ V)') <= MAX_ADMITTED + MaxStalled
      BY <1>1, <1>2, <1>12, <2>8, SyncTyping, SyncNumbers DEF Waits
    <2> QED BY <2>1, <2>2, <2>4, <2>9, <2>10, <2>11 DEF Waits, left
  <1>17. V \in SUBSET SyncSlots
    OBVIOUS
  <1>18. SyncIInv'
    BY <1>6, <1>7, <1>10, <1>13, <1>16, <1>17 DEF SyncIInv
  <1>19. ~Granted(next.ticket)
    <2>1. tickets' \in 0 .. TicketSpan - 1 /\ granted \in 0 .. TicketSpan - 1
          /\ Ungranted' \in Nat /\ Ungranted' <= MAX_ADMITTED + MaxStalled
          /\ Gap(tickets', granted) = Ungranted' /\ Gap(tickets', tickets') < Ungranted'
      BY <1>1, <1>4, <1>5, <1>12, <1>13, <1>14, SyncTyping
    <2>2. ~Granted(tickets')
      BY <2>1, NotYetGranted
    <2> QED BY <1>4, <2>2
  <1> QED BY <1>18, <1>19

\* A connection is admitted into a free slot, while few acquires are on their way.
LEMMA AdmitStep ==
    ASSUME SyncIInv, NEW c \in SyncSlots, NEW next, ClockInv(next), ~next.held, ~clocks[c].in,
           clocks' = [clocks EXCEPT ![c] = next], tickets' = tickets, holdSlot' = holdSlot,
           UNCHANGED mainSide, holdSlot.acquires + holdTaken.acquires <= MaxStalled,
           syncTask' \in 0 .. MAX_ADMITTED, wakened' \in BOOLEAN
    PROVE  SyncIInv'
  <1> USE DEF mainSide
  <1>1. SyncTypeOK /\ HoldsBalanced /\ Gap(tickets, granted) = Ungranted
        /\ \A d \in SyncSlots : ClockInv(clocks[d])
    BY DEF SyncIInv
  <1>2. PICK W \in SUBSET SyncSlots : Waits(W)
    BY DEF SyncIInv
  <1>3. /\ clocks' \in [SyncSlots -> Clock]
        /\ clocks'[c] = next /\ \A d \in SyncSlots : d # c => clocks'[d] = clocks[d]
    BY <1>1, ChangedSlot DEF ClockInv, BurstOf
  <1>4. SyncTypeOK'
    BY <1>1, <1>3 DEF SyncTypeOK
  <1>5. \A d \in SyncSlots : ClockInv(clocks'[d])
    BY <1>1, <1>3
  <1>6. ~clocks[c].held /\ c \notin W
    BY <1>1, <1>2 DEF ClockInv, Waits, Waiting
  <1>7. HeldSlots' = HeldSlots
    BY <1>3, <1>6 DEF HeldSlots
  <1>8. HoldsBalanced'
    BY <1>1, <1>7 DEF HoldsBalanced, HeldSlots, Taken
  <1>9. Ungranted' = Ungranted /\ Gap(tickets, granted)' = Ungranted' /\ Ungranted <= MaxStalled
        /\ Ungranted \in Nat
    BY <1>1, SyncTyping, SyncNumbers DEF Ungranted, Taken, Gap
  <1>10. Waits(W)'
    <2>1. \A d \in W : clocks'[d] = clocks[d]
      BY <1>3, <1>6
    <2>2. {d \in W : Fresh(d)}' = {d \in W : Fresh(d)}
      BY <2>1 DEF Fresh, Gap
    <2>3. \A d \in W : Gap(tickets, clocks[d].ticket)' = Gap(tickets, clocks[d].ticket)
      BY <2>1 DEF Gap
    <2>4. Cardinality((TakenSlots \ W)') \in Nat /\ Cardinality((TakenSlots \ W)') <= MAX_ADMITTED
      BY HoldSets, SlotsFinite
    <2>5. Ungranted' + Cardinality((TakenSlots \ W)') <= MAX_ADMITTED + MaxStalled
      BY <1>9, <2>4, SyncNumbers
    <2> QED BY <1>2, <1>9, <2>1, <2>2, <2>3, <2>5 DEF Waits
  <1> QED BY <1>4, <1>5, <1>8, <1>9, <1>10 DEF SyncIInv

\* A ticket yet to come is not taken for a granted one, while a connection has none on its way.
LEMMA NextIsUngranted ==
    ASSUME SyncIInv, NEW c \in SyncSlots, clocks[c].in, ~clocks[c].held
    PROVE  ~Granted(NextCount(tickets, TicketSpan))
  <1> DEFINE t == NextCount(tickets, TicketSpan)
             n == Ungranted + 1
  <1>1. SyncTypeOK /\ Gap(tickets, granted) = Ungranted
    BY DEF SyncIInv
  <1>2. PICK W \in SUBSET SyncSlots : Waits(W)
    BY DEF SyncIInv
  <1>3. c \in TakenSlots \ W
    BY <1>2 DEF Waits, Waiting, TakenSlots
  <1>4. IsFiniteSet(TakenSlots \ W) /\ Cardinality(TakenSlots \ W) \in Nat
    BY HoldSets, SlotsFinite
  <1>5. Cardinality(TakenSlots \ W) >= 1
    BY <1>3, <1>4, FS_EmptySet
  <1>6. n \in Nat /\ n <= MAX_ADMITTED + MaxStalled
    BY <1>1, <1>2, <1>4, <1>5, SyncTyping, SyncNumbers DEF Waits
  <1>7. t = (IF tickets + 1 = TicketSpan THEN 0 ELSE tickets + 1) /\ t \in 0 .. TicketSpan - 1
    BY <1>1, NextTicket, SyncTyping
  <1> HIDE DEF t
  <1>8. Gap(t, granted) = n /\ Gap(t, t) < n /\ granted \in 0 .. TicketSpan - 1
    BY <1>1, <1>6, <1>7, SyncTyping, SyncNumbers DEF Gap
  <1> HIDE DEF n
  <1>9. ~Granted(t)
    BY <1>6, <1>7, <1>8, NotYetGranted
  <1> QED BY <1>9 DEF t

-----------------------------------------------------------------------------
(* The protocol task's steps on the bursts *)

\* Neither the slots nor what is on its way to the main loop changes.
LEMMA AsideStep ==
    ASSUME SyncIInv, UNCHANGED <<clocks, tickets, holdSlot, mainSide>>,
           syncTask' \in 0 .. MAX_ADMITTED, wakened' \in BOOLEAN
    PROVE  SyncIInv'
  <1> USE DEF mainSide
  <1>1. SyncTypeOK'
    BY DEF SyncIInv, SyncTypeOK
  <1>2. HeldSlots' = HeldSlots /\ TakenSlots' = TakenSlots /\ Ungranted' = Ungranted
    BY DEF HeldSlots, TakenSlots, Ungranted, Taken
  <1>3. HoldsBalanced' /\ Gap(tickets, granted)' = Ungranted'
    BY <1>2 DEF SyncIInv, HoldsBalanced, Taken, Gap
  <1>4. \A W \in SUBSET SyncSlots : Waits(W) => Waits(W)'
    <2> TAKE W \in SUBSET SyncSlots
    <2>1. {d \in W : Fresh(d)}' = {d \in W : Fresh(d)}
      BY DEF Fresh, Gap
    <2> QED BY <1>2, <2>1 DEF Waits, Gap
  <1> QED BY <1>1, <1>3, <1>4 DEF SyncIInv

LEMMA NothingHeld ==
    /\ FreeClock \in Clock /\ ClockInv(FreeClock)
    /\ ~FreeClock.held /\ ~FreeClock.in
    /\ \A late \in BOOLEAN, next \in Clock :
          next = [FreeClock EXCEPT !.in = TRUE, !.op = TRUE, !.late = late]
            => ClockInv(next) /\ ~next.held
  <1>1. /\ 0 \in 0 .. MaxReproofs /\ 0 \in 0 .. TicketSpan - 1 /\ BurstSize \in 0 .. BurstSize
        /\ 0 \in 0 .. MaxFrames /\ 0 \in 0 .. TagSpan - 1 /\ {} \in SUBSET (1 .. MaxFrames)
        /\ BurstSize \in Nat
    BY SyncNumbers
  <1>2. FreeClock \in Clock
    BY <1>1 DEF FreeClock, Clock
  <1>3. /\ FreeClock.pending = 0 /\ ~FreeClock.completed /\ FreeClock.best = 0
        /\ FreeClock.index = BurstSize /\ ~FreeClock.held /\ ~FreeClock.in
    BY DEF FreeClock
  <1>4. ClockInv(FreeClock)
    BY <1>1, <1>2, <1>3 DEF ClockInv, BurstOf
  <1>5. ASSUME NEW late \in BOOLEAN, NEW next \in Clock,
               next = [FreeClock EXCEPT !.in = TRUE, !.op = TRUE, !.late = late]
        PROVE  ClockInv(next) /\ ~next.held
    <2>1. /\ next.pending = 0 /\ ~next.completed /\ next.best = 0
          /\ next.index = BurstSize /\ ~next.held /\ next.in
      BY <1>5 DEF FreeClock
    <2> QED BY <1>1, <2>1 DEF ClockInv, BurstOf
  <1> QED BY <1>2, <1>3, <1>4, <1>5

\* What is not of the burst and its hold may change.
Alike(k, next) ==
    /\ next \in Clock /\ SameHold(k, next)
    /\ next.index = k.index /\ next.completed = k.completed /\ next.pending = k.pending
    /\ next.best = k.best /\ next.sent = k.sent

LEMMA AlikeBurst ==
    ASSUME NEW k, ClockInv(k), NEW next, Alike(k, next)
    PROVE  ClockInv(next) /\ SameHold(k, next) /\ (Waiting(k) => Waiting(next))
  BY DEF Alike, ClockInv, BurstOf, SameHold, Waiting

LEMMA ClockOf ==
    ASSUME SyncIInv, NEW c \in SyncSlots
    PROVE  /\ ClockInv(clocks[c]) /\ clocks[c] \in Clock /\ SyncTypeOK
           /\ syncTask \in 0 .. MAX_ADMITTED /\ wakened \in BOOLEAN
  BY DEF SyncIInv, ClockInv, BurstOf, SyncTypeOK

LEMMA ServeStep ==
    ASSUME SyncIInv, NEW c \in SyncSlots, Serve(c)
    PROVE  SyncIInv'
  <1> DEFINE k == clocks[c]
             asks == ~k.held /\ StartsBurst(k)
             asked == IF asks
                     THEN [k EXCEPT !.held = TRUE, !.ticket = NextCount(tickets, TicketSpan)]
                     ELSE k
             may == asked.held /\ Granted(asked.ticket)
             runs == k.in /\ k.op /\ (may \/ ~asked.held)
  <1>1. ClockInv(k) /\ k \in Clock /\ SyncTypeOK
    BY ClockOf
  <1>2. /\ k.in \in BOOLEAN /\ k.op \in BOOLEAN /\ k.held \in BOOLEAN /\ k.completed \in BOOLEAN
        /\ k.index \in Nat /\ (k.held => k.in)
    BY <1>1, ClockFields DEF ClockInv
  <1>3. syncTask' \in 0 .. MAX_ADMITTED /\ wakened' \in BOOLEAN /\ UNCHANGED mainSide
    <2>1. syncTask' = (c + 1) % (MAX_ADMITTED + 1) /\ UNCHANGED <<wakened, mainSide>>
      BY DEF Serve
    <2>2. MAX_ADMITTED + 1 \in Nat \ {0} /\ c + 1 \in Int
      BY SyncNumbers DEF SyncSlots
    <2>3. PICK span \in Nat \ {0}, n \in Int : span = MAX_ADMITTED + 1 /\ n = c + 1
      BY <2>2
    <2>4. n % span \in 0 .. span - 1
      BY Remainders
    <2>5. syncTask' = n % span
      BY <2>1, <2>3
    <2>6. syncTask' \in 0 .. MAX_ADMITTED
      BY <2>3, <2>4, <2>5, SyncNumbers
    <2> QED BY <1>1, <2>1, <2>6 DEF SyncTypeOK
  <1>4. CASE runs /\ ~asks
    <2>1. asked = k
      BY <1>4
    <2>2. PICK after \in Looped(k, may) :
            /\ clocks' = [clocks EXCEPT ![c] =
                 [after.clock EXCEPT !.held = @ /\ ~after.done, !.deadline = TRUE]]
            /\ Requested(0, IF after.done /\ k.held THEN 1 ELSE 0)
      <3>1. \E after \in Looped(asked, may) :
               /\ clocks' = [clocks EXCEPT ![c] =
                    [after.clock EXCEPT !.held = @ /\ ~after.done, !.deadline = TRUE]]
               /\ Requested(IF asks THEN 1 ELSE 0, IF after.done /\ asked.held THEN 1 ELSE 0)
        BY <1>4 DEF Serve
      <3> HIDE DEF asks, asked, may, runs, k
      <3> QED BY <1>4, <2>1, <3>1
    <2>3. may \in BOOLEAN /\ (may => k.held) /\ (may => Granted(k.ticket)) /\ (k.held => may)
      BY <1>4, <2>1
    <2> HIDE DEF may, k, asks, asked, runs
    <2> DEFINE next == [after.clock EXCEPT !.held = @ /\ ~after.done, !.deadline = TRUE]
    <2>4. Outcome(k, after)
      BY <1>1, <2>2, <2>3, LoopedBurst
    <2>5. after.clock \in Clock /\ after.clock.held = k.held /\ after.clock.in = k.in
          /\ after.clock.ticket = k.ticket /\ after.done \in BOOLEAN
      BY <2>4 DEF Outcome, BurstOf, SameHold
    <2>6. next \in Clock
      <3>1. PICK held : held = (after.clock.held /\ ~after.done)
        OBVIOUS
      <3>2. held \in BOOLEAN
        BY <1>2, <2>5, <3>1
      <3>3. next = [after.clock EXCEPT !.held = held, !.deadline = TRUE]
        BY <3>1
      <3> HIDE DEF next
      <3> QED BY <2>5, <3>2, <3>3 DEF Clock
    <2>7. /\ next.held = (k.held /\ ~after.done) /\ next.in = k.in /\ next.ticket = k.ticket
          /\ next.index = after.clock.index /\ next.completed = after.clock.completed
          /\ next.pending = after.clock.pending /\ next.best = after.clock.best
          /\ next.sent = after.clock.sent
      BY <2>5 DEF Clock
    <2>8. clocks' = [clocks EXCEPT ![c] = next]
      BY <2>2
    <2> HIDE DEF next
    <2>9. ClockInv(next)
      <3>1. BurstOf(next)
        BY <2>4, <2>6, <2>7 DEF Outcome, BurstOf
      <3>2. next.index < BurstSize \/ next.completed => next.held
        <4>1. next.index \in Nat /\ BurstSize \in Nat
          BY <2>6, ClockFields, SyncNumbers
        <4>2. CASE after.done
          <5>1. after.clock.index >= BurstSize /\ ~after.clock.completed
            BY <2>4, <4>2 DEF Outcome
          <5> QED BY <2>7, <4>1, <5>1
        <4>3. CASE ~after.done
          <5>1. after.clock.index < BurstSize \/ after.clock.completed => k.held
            BY <2>4, <4>3 DEF Outcome
          <5> QED BY <2>7, <4>3, <5>1
        <4> QED BY <4>2, <4>3
      <3> QED BY <1>2, <2>7, <3>1, <3>2 DEF ClockInv
    <2>10. CASE after.done
      <3>1. ~next.held /\ (next.in => clocks[c].in)
        BY <2>7, <2>10 DEF k
      <3>2. ~(Waiting(clocks[c]) /\ ~Granted(clocks[c].ticket))
        BY <2>3 DEF Waiting, k
      <3>3. Requested(0, IF clocks[c].held THEN 1 ELSE 0)
        BY <2>2, <2>10 DEF k
      <3> QED BY <1>3, <2>8, <2>9, <3>1, <3>2, <3>3, DropStep
    <2>11. CASE ~after.done
      <3>1. SameHold(clocks[c], next)
        BY <1>2, <2>7, <2>11 DEF SameHold, k
      <3>2. ~(Waiting(clocks[c]) /\ ~Granted(clocks[c].ticket))
        BY <2>3 DEF Waiting, k
      <3>3. tickets' = tickets /\ holdSlot' = holdSlot
        <4>1. Requested(0, 0)
          BY <2>2, <2>11
        <4>2. holdSlot = [acquires |-> holdSlot.acquires, releases |-> holdSlot.releases]
              /\ holdSlot.acquires + 0 = holdSlot.acquires
              /\ holdSlot.releases + 0 = holdSlot.releases
          BY <1>1 DEF SyncTypeOK
        <4> QED BY <4>1, <4>2 DEF Requested
      <3> QED BY <1>3, <2>8, <2>9, <3>1, <3>2, <3>3, KeepStep
    <2> QED BY <2>5, <2>10, <2>11
  <1>5. CASE asks /\ k.in /\ k.op
    <2> DEFINE ticket == NextCount(tickets, TicketSpan)
               held == [k EXCEPT !.held = TRUE, !.ticket = ticket]
               next == [held EXCEPT !.deadline = FALSE]
    <2>1. ticket \in 0 .. TicketSpan - 1
      BY <1>1, NextTicket, SyncTyping
    <2>2. asked = held
      BY <1>5
    <2>3. ~k.held /\ k.in /\ k.index >= BurstSize /\ ~k.completed
      BY <1>5 DEF StartsBurst
    <2> HIDE DEF ticket, k
    <2>4. held \in Clock /\ held.held /\ held.ticket = ticket
      BY <1>1, <2>1 DEF Clock
    <2>5. next \in Clock
      BY <1>1, <2>1 DEF Clock
    <2>6. /\ next.held /\ next.in = k.in /\ next.ticket = ticket /\ next.index = k.index
          /\ next.completed = k.completed /\ next.pending = k.pending /\ next.best = k.best
          /\ next.sent = k.sent
      BY <1>1, <2>1 DEF Clock
    <2>7. \/ clocks' = [clocks EXCEPT ![c] = next] /\ Requested(1, 0)
          \/ Granted(ticket)
      <3> SUFFICES ASSUME ~Granted(ticket)
                   PROVE  clocks' = [clocks EXCEPT ![c] = next] /\ Requested(1, 0)
        OBVIOUS
      <3>1. ~runs /\ asks
        BY <1>5, <2>2, <2>4
      <3>2. /\ clocks' = [clocks EXCEPT ![c] =
                 [(IF k.in /\ k.op THEN asked ELSE k) EXCEPT !.deadline = FALSE]]
            /\ Requested(IF asks /\ k.in /\ k.op THEN 1 ELSE 0, 0)
        BY <3>1 DEF Serve, k
      <3> HIDE DEF asks, asked, runs, held
      <3> QED BY <1>5, <2>2, <3>2
    <2> HIDE DEF next, held
    <2>8. ClockInv(next) /\ Waiting(next)
      BY <1>1, <2>3, <2>5, <2>6 DEF ClockInv, BurstOf, Waiting
    <2>9. ~Granted(ticket)
      BY <1>1, NextIsUngranted, <2>3 DEF ticket, k
    <2> QED BY <1>3, <2>3, <2>6, <2>7, <2>8, <2>9, AskStep DEF ticket, k
  <1>6. CASE ~runs /\ ~(asks /\ k.in /\ k.op)
    <2> DEFINE next == [k EXCEPT !.deadline = FALSE]
    <2>1. clocks' = [clocks EXCEPT ![c] = next] /\ Requested(0, 0)
      <3>1. /\ clocks' = [clocks EXCEPT ![c] =
                 [(IF k.in /\ k.op THEN asked ELSE k) EXCEPT !.deadline = FALSE]]
            /\ Requested(IF asks /\ k.in /\ k.op THEN 1 ELSE 0, 0)
        BY <1>6 DEF Serve
      <3>2. (IF k.in /\ k.op THEN asked ELSE k) = k
        BY <1>6
      <3>3. (IF asks /\ k.in /\ k.op THEN 1 ELSE 0) = 0
        BY <1>6
      <3> HIDE DEF asks, asked, runs, k
      <3> QED BY <3>1, <3>2, <3>3
    <2>2. tickets' = tickets /\ holdSlot' = holdSlot
      <3>1. holdSlot = [acquires |-> holdSlot.acquires, releases |-> holdSlot.releases]
            /\ holdSlot.acquires + 0 = holdSlot.acquires
            /\ holdSlot.releases + 0 = holdSlot.releases
        BY <1>1 DEF SyncTypeOK
      <3> QED BY <2>1, <3>1 DEF Requested
    <2>3. Alike(k, next)
      BY <1>1 DEF Alike, Clock, SameHold
    <2> HIDE DEF next
    <2>4. ClockInv(next) /\ SameHold(k, next) /\ (Waiting(k) => Waiting(next))
      BY <1>1, <2>3, AlikeBurst
    <2> QED BY <1>3, <2>1, <2>2, <2>4, KeepStep
  <1>7. runs /\ asks => k.in /\ k.op
    OBVIOUS
  <1> HIDE DEF runs, asks, k
  <1> QED BY <1>4, <1>5, <1>6, <1>7

LEMMA HandledSlot ==
    ASSUME SyncIInv, NEW c \in SyncSlots, NEW next, Handled(c, next)
    PROVE  /\ clocks' = [clocks EXCEPT ![c] = next] /\ UNCHANGED mainSide
           /\ syncTask' \in 0 .. MAX_ADMITTED /\ wakened' \in BOOLEAN
  BY ClockOf DEF Handled

LEMMA ServerTimeStep ==
    ASSUME SyncIInv, NEW c \in SyncSlots, NEW echo \in Echoes, NEW good \in BOOLEAN,
           ServerTime(c, echo, good)
    PROVE  SyncIInv'
  <1> DEFINE k == clocks[c]
             claimed == [k EXCEPT !.tag = 0]
             next == Answered(claimed, echo, good)
  <1>1. ClockInv(k) /\ k \in Clock
    BY ClockOf
  <1>2. Handled(c, next) /\ holdSlot' = holdSlot /\ tickets' = tickets
    BY DEF ServerTime
  <1> HIDE DEF k
  <1>3. Alike(k, claimed)
    <2>1. 0 \in 0 .. TagSpan - 1
      BY SyncNumbers
    <2> QED BY <1>1, <2>1 DEF Alike, Clock, SameHold
  <1> HIDE DEF claimed
  <1>4. ClockInv(claimed) /\ SameHold(k, claimed) /\ (Waiting(k) => Waiting(claimed))
    BY <1>1, <1>3, AlikeBurst
  <1>5. ClockInv(next) /\ SameHold(claimed, next) /\ (Waiting(claimed) => Waiting(next))
    BY <1>4, AnsweredBurst
  <1>6. SameHold(k, next)
    BY <1>4, <1>5 DEF SameHold
  <1> HIDE DEF next
  <1>7. /\ clocks' = [clocks EXCEPT ![c] = next] /\ UNCHANGED mainSide
        /\ syncTask' \in 0 .. MAX_ADMITTED /\ wakened' \in BOOLEAN
    BY <1>2, HandledSlot
  <1> QED BY <1>2, <1>4, <1>5, <1>6, <1>7, KeepStep DEF k

LEMMA AdmittedStep ==
    ASSUME SyncIInv, NEW c \in SyncSlots, Admit(c)
    PROVE  SyncIInv'
  <1>1. PICK late \in BOOLEAN :
           Handled(c, [FreeClock EXCEPT !.in = TRUE, !.op = TRUE, !.late = late])
    BY DEF Admit
  <1> DEFINE next == [FreeClock EXCEPT !.in = TRUE, !.op = TRUE, !.late = late]
  <1>2. next \in Clock
    BY NothingHeld DEF Clock
  <1>3. ClockInv(next) /\ ~next.held
    BY <1>2, NothingHeld
  <1>4. /\ ~clocks[c].in /\ holdSlot.acquires + holdTaken.acquires <= MaxStalled
        /\ holdSlot' = holdSlot /\ tickets' = tickets
    BY DEF Admit
  <1>5. Handled(c, next)
    BY <1>1
  <1> HIDE DEF next
  <1>6. /\ clocks' = [clocks EXCEPT ![c] = next] /\ UNCHANGED mainSide
        /\ syncTask' \in 0 .. MAX_ADMITTED /\ wakened' \in BOOLEAN
    BY <1>5, HandledSlot
  <1> QED BY <1>3, <1>4, <1>6, AdmitStep

LEMMA AlikeStep ==
    ASSUME SyncIInv, NEW c \in SyncSlots, NEW next, Alike(clocks[c], next),
           clocks' = [clocks EXCEPT ![c] = next],
           tickets' = tickets, holdSlot' = holdSlot, UNCHANGED mainSide,
           syncTask' \in 0 .. MAX_ADMITTED, wakened' \in BOOLEAN
    PROVE  SyncIInv'
  <1>1. ClockInv(next) /\ SameHold(clocks[c], next) /\ (Waiting(clocks[c]) => Waiting(next))
    BY ClockOf, AlikeBurst
  <1> QED BY <1>1, KeepStep

LEMMA ReproveStep ==
    ASSUME SyncIInv, NEW c \in SyncSlots, Reprove(c)
    PROVE  SyncIInv'
  <1> DEFINE k == clocks[c]
             next == [k EXCEPT !.op = FALSE, !.reproofs = @ + 1]
  <1>1. k \in Clock /\ k.reproofs < MaxReproofs /\ Handled(c, next) /\ holdSlot' = holdSlot
        /\ tickets' = tickets
    BY ClockOf DEF Reprove
  <1> HIDE DEF k
  <1>2. k.reproofs + 1 \in 0 .. MaxReproofs
    BY <1>1, ClockFields, SyncNumbers
  <1>3. Alike(k, next)
    BY <1>1, <1>2 DEF Alike, Clock, SameHold
  <1> HIDE DEF next
  <1> QED BY <1>1, <1>3, HandledSlot, AlikeStep DEF k

LEMMA ActivatedStep ==
    ASSUME SyncIInv, NEW c \in SyncSlots, Activated(c)
    PROVE  SyncIInv'
  <1> DEFINE k == clocks[c]
             next == [k EXCEPT !.op = TRUE]
  <1>1. k \in Clock /\ Handled(c, next) /\ holdSlot' = holdSlot /\ tickets' = tickets
    BY ClockOf DEF Activated
  <1> HIDE DEF k
  <1>2. Alike(k, next)
    BY <1>1 DEF Alike, Clock, SameHold
  <1> HIDE DEF next
  <1> QED BY <1>1, <1>2, HandledSlot, AlikeStep DEF k

LEMMA PassTimeStep ==
    ASSUME SyncIInv, NEW c \in SyncSlots, PassTime(c)
    PROVE  SyncIInv'
  <1> DEFINE k == clocks[c]
             next == [k EXCEPT !.late = TRUE]
  <1>1. k \in Clock /\ syncTask \in 0 .. MAX_ADMITTED /\ wakened \in BOOLEAN
        /\ clocks \in [SyncSlots -> Clock]
    BY ClockOf, SyncTyping
  <1>2. clocks' = [clocks EXCEPT ![c] = next]
        /\ UNCHANGED <<tickets, syncTask, wakened, holdSlot, mainSide>>
    BY <1>1 DEF PassTime
  <1> HIDE DEF k
  <1>3. Alike(k, next)
    BY <1>1 DEF Alike, Clock, SameHold
  <1> HIDE DEF next
  <1> QED BY <1>1, <1>2, <1>3, AlikeStep DEF k

LEMMA VacateStep ==
    ASSUME SyncIInv, NEW c \in SyncSlots, Vacate(c)
    PROVE  SyncIInv'
  <1>1. Handled(c, FreeClock) /\ Requested(0, IF clocks[c].held THEN 1 ELSE 0)
    BY DEF Vacate, Vacated
  <1>2. /\ clocks' = [clocks EXCEPT ![c] = FreeClock] /\ UNCHANGED mainSide
        /\ syncTask' \in 0 .. MAX_ADMITTED /\ wakened' \in BOOLEAN
    BY <1>1, HandledSlot
  <1>3. ClockInv(FreeClock) /\ ~FreeClock.held /\ ~FreeClock.in
    BY NothingHeld
  <1> QED BY <1>1, <1>2, <1>3, DropStep

-----------------------------------------------------------------------------
(* The main loop's steps on the hold *)

\* The numbers of the hold: what is on its way to the listener, and who holds.
Applying == Taken({"acquire"}, holdTaken.acquires)
Owing == Taken({"acquire", "grant", "release"}, holdTaken.releases)
Resting == IF playing THEN 0 ELSE 1

LEMMA Balance ==
    ASSUME SyncIInv
    PROVE  /\ refs + holdSlot.acquires + Applying + Resting
                = 1 + holdSlot.releases + Owing + Cardinality(HeldSlots)
           /\ Applying \in Nat /\ Owing \in Nat /\ Resting \in Nat /\ Cardinality(HeldSlots) \in Nat
           /\ holdSlot.acquires <= holdSlot.releases + Cardinality(HeldSlots)
           /\ SyncTypeOK /\ Gap(tickets, granted) = Ungranted
           /\ \A c \in SyncSlots : ClockInv(clocks[c])
  <1>1. SyncTypeOK /\ HoldsBalanced /\ Gap(tickets, granted) = Ungranted
        /\ \A d \in SyncSlots : ClockInv(clocks[d])
    BY DEF SyncIInv
  <1>2. PICK W \in SUBSET SyncSlots : Waits(W)
    BY DEF SyncIInv
  <1>3. /\ Applying \in Nat /\ Owing \in Nat /\ Resting \in Nat /\ Cardinality(HeldSlots) \in Nat
    BY <1>1, SyncTyping, HoldSets, SlotsFinite DEF Applying, Owing, Resting, Taken
  <1>4. refs + holdSlot.acquires + Applying + Resting
          = 1 + holdSlot.releases + Owing + Cardinality(HeldSlots)
    BY <1>1 DEF HoldsBalanced, HeldSlots, Applying, Owing, Resting
  <1> DEFINE fresh == {c \in W : Fresh(c)}
  <1>5. fresh \subseteq HeldSlots
    BY <1>2 DEF Waits, Waiting, HeldSlots
  <1>6. holdSlot.acquires <= holdSlot.releases + Cardinality(fresh)
    BY <1>2 DEF Waits
  <1> HIDE DEF fresh
  <1>7. Cardinality(fresh) <= Cardinality(HeldSlots) /\ Cardinality(fresh) \in Nat
    BY <1>5, HoldSets, FewerSlots, SlotsFinite
  <1>8. holdSlot.acquires <= holdSlot.releases + Cardinality(HeldSlots)
    BY <1>1, <1>3, <1>6, <1>7, SyncTyping
  <1> QED BY <1>1, <1>3, <1>4, <1>8

LEMMA Balanced ==
    ASSUME (refs + holdSlot.acquires + Applying + Resting)'
             = 1 + holdSlot'.releases + Owing' + Cardinality(HeldSlots')
    PROVE  HoldsBalanced'
  BY DEF HoldsBalanced, HeldSlots, Applying, Owing, Resting

LEMMA SameSlots ==
    ASSUME UNCHANGED <<clocks, tickets>>
    PROVE  /\ HeldSlots' = HeldSlots /\ TakenSlots' = TakenSlots
           /\ \A c \in SyncSlots : Gap(tickets, clocks[c].ticket)' = Gap(tickets, clocks[c].ticket)
  BY DEF HeldSlots, TakenSlots, Gap

LEMMA HoldTakeStep ==
    ASSUME SyncIInv, HoldTake
    PROVE  SyncIInv'
  <1>1. /\ holdMain = "idle" /\ holdTaken' = holdSlot /\ holdSlot' = Nothing
        /\ holdMain' = IF holdSlot.acquires = 0 THEN "release" ELSE "acquire"
        /\ UNCHANGED <<taskSide, wakened, granted, refs, playing>>
    BY DEF HoldTake
  <1>2. UNCHANGED <<clocks, tickets, syncTask>>
    BY <1>1 DEF taskSide
  <1>3. SyncTypeOK /\ Gap(tickets, granted) = Ungranted /\ \A c \in SyncSlots : ClockInv(clocks[c])
    BY Balance
  <1>4. /\ holdSlot'.acquires = 0 /\ holdSlot'.releases = 0
        /\ Nothing \in [acquires : Nat, releases : Nat]
    BY <1>1 DEF Nothing
  <1>5. SyncTypeOK'
    BY <1>1, <1>2, <1>3, <1>4 DEF SyncTypeOK
  <1>6. PICK W \in SUBSET SyncSlots : Waits(W)
    BY DEF SyncIInv
  <1>7. /\ Applying = 0 /\ Owing = 0 /\ Ungranted = holdSlot.acquires
        /\ Applying' = holdSlot.acquires /\ Owing' = holdSlot.releases /\ Resting' = Resting
        /\ Ungranted' = holdSlot.acquires
    BY <1>1, <1>3, <1>4, SyncTyping DEF Applying, Owing, Resting, Ungranted, Taken
  <1>8. HoldsBalanced'
    BY <1>1, <1>2, <1>3, <1>4, <1>7, Balance, Balanced, SameSlots, SyncTyping
  <1>9. Gap(tickets, granted)' = Ungranted'
    BY <1>1, <1>2, <1>3, <1>7 DEF Gap
  <1>10. Waits(W)'
    <2> DEFINE fresh == {c \in W : Fresh(c)}
               left == {c \in W : Fresh(c)'}
    <2>1. fresh \subseteq W /\ left \subseteq SyncSlots /\ W \subseteq SyncSlots
      OBVIOUS
    <2>2. holdSlot.acquires <= holdSlot.releases + Cardinality(fresh)
      BY <1>6 DEF Waits
    <2> HIDE DEF fresh, left
    <2>3. /\ Cardinality(fresh) <= Cardinality(W) /\ Cardinality(fresh) \in Nat
          /\ Cardinality(W) \in Nat /\ Cardinality(left) \in Nat
      BY <2>1, FewerSlots, SlotsFinite
    <2>4. holdSlot'.acquires <= holdSlot'.releases + Cardinality(left)
      BY <1>4, <2>3
    <2>5. holdSlot'.acquires + holdTaken'.acquires
            <= holdSlot'.releases + holdTaken'.releases + Cardinality(W)
      BY <1>1, <1>3, <1>4, <2>2, <2>3, SyncTyping
    <2> QED BY <1>2, <1>6, <1>7, <2>4, <2>5, SameSlots DEF Waits, left
  <1> QED BY <1>2, <1>3, <1>5, <1>8, <1>9, <1>10 DEF SyncIInv

LEMMA HoldAcquireStep ==
    ASSUME SyncIInv, HoldAcquire
    PROVE  SyncIInv'
  <1>1. /\ holdMain = "acquire" /\ refs' = refs + holdTaken.acquires /\ holdMain' = "grant"
        /\ UNCHANGED <<taskSide, wakened, holdSlot, holdTaken, granted, playing>>
    BY DEF HoldAcquire
  <1>2. UNCHANGED <<clocks, tickets, syncTask>>
    BY <1>1 DEF taskSide
  <1>3. SyncTypeOK /\ Gap(tickets, granted) = Ungranted /\ \A c \in SyncSlots : ClockInv(clocks[c])
    BY Balance
  <1>4. SyncTypeOK'
    BY <1>1, <1>2, <1>3, SyncTyping DEF SyncTypeOK
  <1>5. PICK W \in SUBSET SyncSlots : Waits(W)
    BY DEF SyncIInv
  <1>6. /\ Applying = holdTaken.acquires /\ Applying' = 0 /\ Owing' = Owing /\ Resting' = Resting
        /\ Ungranted' = Ungranted
    BY <1>1 DEF Applying, Owing, Resting, Ungranted, Taken
  <1>7. HoldsBalanced'
    BY <1>1, <1>2, <1>3, <1>6, Balance, Balanced, SameSlots, SyncTyping
  <1>8. Gap(tickets, granted)' = Ungranted'
    BY <1>1, <1>2, <1>3, <1>6 DEF Gap
  <1>9. Waits(W)'
    <2>1. {c \in W : Fresh(c)}' = {c \in W : Fresh(c)}
      BY <1>1, <1>2 DEF Fresh, Gap
    <2> QED BY <1>1, <1>2, <1>5, <1>6, <2>1, SameSlots DEF Waits
  <1> QED BY <1>2, <1>3, <1>4, <1>7, <1>8, <1>9 DEF SyncIInv

\* The bursts whose tickets are granted no longer wait: they are no more than the acquires.
LEMMA HoldGrantStep ==
    ASSUME SyncIInv, HoldGrant
    PROVE  SyncIInv'
  <1>1. /\ holdMain = "grant" /\ granted' = (granted + holdTaken.acquires) % TicketSpan
        /\ wakened' = TRUE /\ holdMain' = "release"
        /\ UNCHANGED <<taskSide, holdSlot, holdTaken, refs, playing>>
    BY DEF HoldGrant, GrantWake
  <1>2. UNCHANGED <<clocks, tickets, syncTask>>
    BY <1>1 DEF taskSide
  <1>3. SyncTypeOK /\ Gap(tickets, granted) = Ungranted /\ \A c \in SyncSlots : ClockInv(clocks[c])
    BY Balance
  <1>4. PICK W \in SUBSET SyncSlots : Waits(W)
    BY DEF SyncIInv
  <1>5. /\ Applying = 0 /\ Applying' = 0 /\ Owing' = Owing /\ Resting' = Resting
        /\ Ungranted = holdSlot.acquires + holdTaken.acquires /\ Ungranted' = holdSlot.acquires
    BY <1>1, <1>3, SyncTyping DEF Applying, Owing, Resting, Ungranted, Taken
  <1>6. Ungranted <= MAX_ADMITTED + MaxStalled /\ Ungranted \in Nat
    <2>1. Cardinality(TakenSlots \ W) \in Nat
      BY HoldSets, SlotsFinite
    <2> QED BY <1>3, <1>4, <2>1, SyncTyping, SyncNumbers DEF Waits
  <1>7. /\ granted' \in 0 .. TicketSpan - 1
        /\ granted' = (IF granted + holdTaken.acquires >= TicketSpan
                       THEN granted + holdTaken.acquires - TicketSpan
                       ELSE granted + holdTaken.acquires)
    <2>1. holdTaken.acquires \in 0 .. TicketSpan - 1
      BY <1>3, <1>5, <1>6, SyncTyping, SyncNumbers
    <2> QED BY <1>1, <1>3, <2>1, MoreGranted, SyncTyping
  <1>8. SyncTypeOK'
    BY <1>1, <1>2, <1>3, <1>7 DEF SyncTypeOK
  <1>9. HoldsBalanced'
    BY <1>1, <1>2, <1>3, <1>5, Balance, Balanced, SameSlots, SyncTyping
  <1>10. Gap(tickets, granted)' = Ungranted'
    BY <1>1, <1>2, <1>3, <1>5, <1>6, <1>7, SyncTyping, SyncNumbers DEF Gap
  <1>11. PICK V \in SUBSET SyncSlots : V = {c \in W : Fresh(c)}
    BY <1>4
  <1>12. Waits(V)'
    <2>1. \A c \in SyncSlots : Fresh(c)' <=> Fresh(c)
      BY <1>1, <1>2 DEF Fresh, Gap
    <2>2. {c \in V : Fresh(c)'} = V
      BY <1>11, <2>1
    <2> DEFINE ready == W \ V
               ahead == [c \in ready |-> Gap(tickets, clocks[c].ticket)]
               span == holdSlot.acquires .. (Ungranted - 1)
    <2>3. ahead \in [ready -> span]
      <3>1. ASSUME NEW c \in ready
            PROVE  Gap(tickets, clocks[c].ticket) \in span
        <4>1. ~Fresh(c) /\ Gap(tickets, clocks[c].ticket) < Ungranted /\ c \in SyncSlots
          BY <1>4, <1>11, <3>1 DEF Waits
        <4> QED BY <1>3, <1>6, <4>1, SyncTyping DEF Fresh
      <3> QED BY <3>1
    <2>4. \A c, d \in ready : ahead[c] = ahead[d] => c = d
      <3>1. ASSUME NEW c \in ready, NEW d \in ready, ahead[c] = ahead[d]
            PROVE  c = d
        <4>1. Gap(tickets, clocks[c].ticket) = Gap(tickets, clocks[d].ticket)
          BY <3>1
        <4>2. clocks[c].ticket \in 0 .. TicketSpan - 1 /\ clocks[d].ticket \in 0 .. TicketSpan - 1
          BY <1>3, SyncTyping, ClockFields
        <4>3. clocks[c].ticket = clocks[d].ticket
          BY <1>3, <4>1, <4>2, SyncTyping, SyncNumbers DEF Gap
        <4> QED BY <1>4, <3>1, <4>3 DEF Waits
      <3> QED BY <3>1
    <2>5. Cardinality(ready) <= holdTaken.acquires
      <3>1. IsFiniteSet(span) /\ Cardinality(span) = holdTaken.acquires
        <4>1. holdSlot.acquires \in Int /\ Ungranted - 1 \in Int
          BY <1>3, <1>6, SyncTyping
        <4>2. IsFiniteSet(span)
              /\ Cardinality(span) = IF holdSlot.acquires > Ungranted - 1 THEN 0
                                     ELSE (Ungranted - 1) - holdSlot.acquires + 1
          BY <4>1, FS_Interval
        <4> HIDE DEF span
        <4> QED BY <1>3, <1>5, <4>2, SyncTyping
      <3>2. ahead \in Injection(ready, span)
        <4> HIDE DEF ahead, ready, span
        <4> QED BY <2>3, <2>4 DEF Injection, IsInjective
      <3> HIDE DEF ahead, ready, span
      <3> QED BY <3>1, <3>2, FS_Injection
    <2>6. /\ V \subseteq SyncSlots /\ ready \subseteq SyncSlots /\ W \subseteq SyncSlots
          /\ TakenSlots \ V \subseteq (TakenSlots \ W) \cup ready
      OBVIOUS
    <2>7. /\ Cardinality(TakenSlots \ V) <= Cardinality(TakenSlots \ W) + Cardinality(ready)
          /\ Cardinality(TakenSlots \ V) \in Nat /\ Cardinality(TakenSlots \ W) \in Nat
          /\ Cardinality(ready) \in Nat
      <3> DEFINE others == TakenSlots \ W
                 both == others \cup ready
      <3> HIDE DEF ready
      <3>1. IsFiniteSet(others) /\ IsFiniteSet(ready) /\ Cardinality(others) \in Nat
            /\ Cardinality(ready) \in Nat /\ Cardinality(others \cap ready) \in Nat
            /\ Cardinality(TakenSlots \ V) \in Nat
        BY <2>6, HoldSets, SlotsFinite
      <3>2. both \subseteq SyncSlots /\ TakenSlots \ V \subseteq both
        BY <2>6, HoldSets
      <3> HIDE DEF others
      <3>3. Cardinality(both) = Cardinality(others) + Cardinality(ready)
                                  - Cardinality(others \cap ready)
        BY <3>1, FS_Union
      <3> HIDE DEF both
      <3>4. Cardinality(TakenSlots \ V) <= Cardinality(both)
        BY <3>2, FewerSlots
      <3>5. Cardinality(TakenSlots \ V) <= Cardinality(others) + Cardinality(ready)
        BY <3>1, <3>3, <3>4
      <3> QED BY <3>1, <3>5 DEF others
    <2> HIDE DEF ready
    <2>8. Ungranted' + Cardinality((TakenSlots \ V)') <= MAX_ADMITTED + MaxStalled
      <3>1. TakenSlots' = TakenSlots
        BY <1>2, SameSlots
      <3>2. Ungranted + Cardinality(TakenSlots \ W) <= MAX_ADMITTED + MaxStalled
        BY <1>4 DEF Waits
      <3> QED BY <1>3, <1>5, <2>5, <2>7, <3>1, <3>2, SyncTyping, SyncNumbers
    <2>9. holdSlot'.acquires <= holdSlot'.releases + Cardinality({c \in V : Fresh(c)'})
      BY <1>1, <1>4, <1>11, <2>2 DEF Waits
    <2>10. \A c \in V : Waiting(clocks'[c]) /\ Gap(tickets, clocks[c].ticket)' < Ungranted'
      BY <1>2, <1>4, <1>5, <1>11, SameSlots DEF Waits, Fresh
    <2>11. \A c, d \in V : clocks'[c].ticket = clocks'[d].ticket => c = d
      BY <1>2, <1>4, <1>11 DEF Waits
    <2> QED BY <1>1, <2>6, <2>8, <2>9, <2>10, <2>11 DEF Waits
  <1> QED BY <1>2, <1>3, <1>8, <1>9, <1>10, <1>12 DEF SyncIInv

\* The listener's count covers what is given back.
LEMMA HoldReleaseStep ==
    ASSUME SyncIInv, HoldRelease
    PROVE  SyncIInv'
  <1>1. /\ holdMain = "release" /\ refs' = Released(holdTaken.releases, refs)
        /\ holdTaken' = Nothing /\ holdMain' = "idle"
        /\ UNCHANGED <<taskSide, wakened, holdSlot, granted, playing>>
    BY DEF HoldRelease
  <1>2. UNCHANGED <<clocks, tickets, syncTask>>
    BY <1>1 DEF taskSide
  <1>3. SyncTypeOK /\ Gap(tickets, granted) = Ungranted /\ \A c \in SyncSlots : ClockInv(clocks[c])
    BY Balance
  <1>4. PICK W \in SUBSET SyncSlots : Waits(W)
    BY DEF SyncIInv
  <1>5. /\ Applying = 0 /\ Applying' = 0 /\ Owing = holdTaken.releases /\ Owing' = 0
        /\ Resting' = Resting /\ Ungranted' = Ungranted /\ Resting \in {0, 1}
    BY <1>1 DEF Applying, Owing, Resting, Ungranted, Taken
  <1>6. refs' = refs - holdTaken.releases /\ refs >= holdTaken.releases /\ refs' \in Nat
    <2>1. refs >= holdTaken.releases
      BY <1>3, <1>5, Balance, SyncTyping
    <2>2. refs' = IF holdTaken.releases >= refs THEN 0 ELSE refs - holdTaken.releases
      BY <1>1 DEF Released
    <2> QED BY <1>3, <2>1, <2>2, SyncTyping
  <1>7. SyncTypeOK'
    <2>1. Nothing \in [acquires : Nat, releases : Nat]
      BY DEF Nothing
    <2> QED BY <1>1, <1>2, <1>3, <1>6, <2>1 DEF SyncTypeOK
  <1>8. HoldsBalanced'
    BY <1>1, <1>2, <1>3, <1>5, <1>6, Balance, Balanced, SameSlots, SyncTyping
  <1>9. Gap(tickets, granted)' = Ungranted'
    BY <1>1, <1>2, <1>3, <1>5 DEF Gap
  <1>10. Waits(W)'
    <2>1. {c \in W : Fresh(c)}' = {c \in W : Fresh(c)}
      BY <1>1, <1>2 DEF Fresh, Gap
    <2> QED BY <1>1, <1>2, <1>4, <1>5, <2>1, SameSlots DEF Waits
  <1> QED BY <1>2, <1>3, <1>7, <1>8, <1>9, <1>10 DEF SyncIInv

LEMMA PlayStep ==
    ASSUME SyncIInv, Play
    PROVE  SyncIInv'
  <1>1. /\ holdMain = "idle" /\ playing' = ~playing
        /\ refs' = IF playing THEN Released(1, refs) ELSE refs + 1
        /\ UNCHANGED <<taskSide, wakened, holdSlot, holdTaken, holdMain, granted>>
    BY DEF Play
  <1>2. UNCHANGED <<clocks, tickets, syncTask>>
    BY <1>1 DEF taskSide
  <1>3. SyncTypeOK /\ Gap(tickets, granted) = Ungranted /\ \A c \in SyncSlots : ClockInv(clocks[c])
    BY Balance
  <1>4. PICK W \in SUBSET SyncSlots : Waits(W)
    BY DEF SyncIInv
  <1>5. /\ Applying = 0 /\ Applying' = 0 /\ Owing = 0 /\ Owing' = 0 /\ Ungranted' = Ungranted
        /\ Resting = (IF playing THEN 0 ELSE 1) /\ Resting' = 1 - Resting
    <2>1. /\ Applying = 0 /\ Applying' = 0 /\ Owing = 0 /\ Owing' = 0 /\ Ungranted' = Ungranted
      BY <1>1 DEF Applying, Owing, Ungranted, Taken
    <2>2. CASE playing
      <3>1. ~playing'
        BY <1>1, <2>2
      <3>2. Resting = 0 /\ Resting' = 1
        BY <2>2, <3>1 DEF Resting
      <3> QED BY <2>1, <2>2, <3>2
    <2>3. CASE ~playing
      <3>1. playing'
        BY <1>1, <2>3
      <3>2. Resting = 1 /\ Resting' = 0
        BY <2>3, <3>1 DEF Resting
      <3> QED BY <2>1, <2>3, <3>2
    <2> QED BY <2>2, <2>3
  <1>6. refs' = (IF playing THEN refs - 1 ELSE refs + 1) /\ refs' \in Nat
    <2>1. playing => refs >= 1
      BY <1>3, <1>5, Balance, SyncTyping
    <2>2. Released(1, refs) = IF 1 >= refs THEN 0 ELSE refs - 1
      BY DEF Released
    <2> QED BY <1>1, <1>3, <2>1, <2>2, SyncTyping
  <1>7. SyncTypeOK'
    BY <1>1, <1>2, <1>3, <1>6 DEF SyncTypeOK
  <1>8. HoldsBalanced'
    BY <1>1, <1>2, <1>3, <1>5, <1>6, Balance, Balanced, SameSlots, SyncTyping
  <1>9. Gap(tickets, granted)' = Ungranted'
    BY <1>1, <1>2, <1>3, <1>5 DEF Gap
  <1>10. Waits(W)'
    <2>1. {c \in W : Fresh(c)}' = {c \in W : Fresh(c)}
      BY <1>1, <1>2 DEF Fresh, Gap
    <2> QED BY <1>1, <1>2, <1>4, <1>5, <2>1, SameSlots DEF Waits
  <1> QED BY <1>2, <1>3, <1>7, <1>8, <1>9, <1>10 DEF SyncIInv

\* stop() gives back what is held, to the last: nobody waits and nothing is counted.
LEMMA StopStep ==
    ASSUME SyncIInv, Stop
    PROVE  SyncIInv'
  <1> DEFINE owed == holdSlot.releases + Cardinality(HeldSlots) + (IF playing THEN 1 ELSE 0)
  <1>1. /\ holdMain = "idle" /\ syncTask = 0 /\ clocks' = [c \in SyncSlots |-> FreeClock]
        /\ holdSlot' = Nothing /\ refs' = Released(owed, refs + holdSlot.acquires)
        /\ granted' = (granted + holdSlot.acquires) % TicketSpan
        /\ playing' = FALSE /\ holdMain' = "stopped" /\ wakened' = FALSE
        /\ UNCHANGED <<tickets, syncTask, holdTaken>>
    BY DEF Stop, HeldSlots
  <1>2. SyncTypeOK /\ Gap(tickets, granted) = Ungranted
    BY Balance
  <1>3. PICK W \in SUBSET SyncSlots : Waits(W)
    BY DEF SyncIInv
  <1>4. /\ holdSlot'.acquires = 0 /\ holdSlot'.releases = 0
        /\ Nothing \in [acquires : Nat, releases : Nat]
    BY <1>1 DEF Nothing
  <1>5. /\ Applying = 0 /\ Owing = 0 /\ Applying' = 0 /\ Owing' = 0 /\ Resting' = 1
        /\ Resting = (IF playing THEN 0 ELSE 1) /\ Ungranted = holdSlot.acquires /\ Ungranted' = 0
    BY <1>1, <1>2, <1>4, SyncTyping DEF Applying, Owing, Resting, Ungranted, Taken
  <1>6. refs' = 0
    <2>1. owed = refs + holdSlot.acquires
      BY <1>2, <1>5, Balance, SyncTyping
    <2> HIDE DEF owed
    <2>2. owed \in Nat
      BY <1>2, <2>1, SyncTyping
    <2> QED BY <1>1, <2>1, <2>2 DEF Released
  <1>7. /\ granted' \in 0 .. TicketSpan - 1
        /\ granted' = (IF granted + holdSlot.acquires >= TicketSpan
                       THEN granted + holdSlot.acquires - TicketSpan
                       ELSE granted + holdSlot.acquires)
    <2>1. Cardinality(TakenSlots \ W) \in Nat
      BY HoldSets, SlotsFinite
    <2>2. holdSlot.acquires \in 0 .. TicketSpan - 1
      BY <1>2, <1>3, <1>5, <2>1, SyncTyping, SyncNumbers DEF Waits
    <2> QED BY <1>1, <1>2, <2>2, MoreGranted, SyncTyping
  <1>8. \A c \in SyncSlots : ClockInv(clocks'[c]) /\ ~clocks'[c].held /\ ~clocks'[c].in
    BY <1>1, NothingHeld
  <1>9. SyncTypeOK'
    <2>1. clocks' \in [SyncSlots -> Clock]
      BY <1>1, NothingHeld
    <2> QED BY <1>1, <1>2, <1>4, <1>6, <1>7, <2>1 DEF SyncTypeOK
  <1>10. HeldSlots' = {} /\ TakenSlots' = {}
    BY <1>8 DEF HeldSlots, TakenSlots
  <1>11. Cardinality({}) = 0
    BY FS_EmptySet
  <1>12. HoldsBalanced'
    BY <1>4, <1>5, <1>6, <1>10, <1>11, Balanced
  <1>13. Gap(tickets, granted)' = Ungranted'
    BY <1>1, <1>2, <1>5, <1>7, SyncTyping, SyncNumbers DEF Gap
  <1>14. PICK V \in SUBSET SyncSlots : V = {}
    OBVIOUS
  <1>15. Waits(V)'
    <2>1. {c \in V : Fresh(c)'} = {} /\ TakenSlots' \ V = {}
      BY <1>10, <1>14
    <2>2. holdSlot'.acquires <= holdSlot'.releases + Cardinality({c \in V : Fresh(c)'})
      BY <1>4, <1>11, <2>1
    <2>3. Ungranted' + Cardinality(TakenSlots' \ V) <= MAX_ADMITTED + MaxStalled
      <3>1. Cardinality(TakenSlots' \ V) = 0
        BY <1>11, <2>1
      <3> QED BY <1>5, <3>1, SyncNumbers
    <2> QED BY <1>1, <1>14, <2>2, <2>3 DEF Waits
  <1> QED BY <1>8, <1>9, <1>12, <1>13, <1>15 DEF SyncIInv

LEMMA RestartStep ==
    ASSUME SyncIInv, Restart
    PROVE  SyncIInv'
  <1>1. /\ holdMain = "stopped" /\ holdMain' = "idle"
        /\ UNCHANGED <<taskSide, wakened, holdSlot, holdTaken, granted, refs, playing>>
    BY DEF Restart
  <1>2. UNCHANGED <<clocks, tickets, syncTask>>
    BY <1>1 DEF taskSide
  <1>3. SyncTypeOK /\ Gap(tickets, granted) = Ungranted /\ \A c \in SyncSlots : ClockInv(clocks[c])
    BY Balance
  <1>4. PICK W \in SUBSET SyncSlots : Waits(W)
    BY DEF SyncIInv
  <1>5. Applying' = Applying /\ Owing' = Owing /\ Resting' = Resting /\ Ungranted' = Ungranted
    BY <1>1 DEF Applying, Owing, Resting, Ungranted, Taken
  <1>6. SyncTypeOK'
    BY <1>1, <1>2, <1>3 DEF SyncTypeOK
  <1>7. HoldsBalanced'
    BY <1>1, <1>2, <1>5, Balance, Balanced, SameSlots
  <1>8. Gap(tickets, granted)' = Ungranted'
    BY <1>1, <1>2, <1>3, <1>5 DEF Gap
  <1>9. Waits(W)'
    <2>1. {c \in W : Fresh(c)}' = {c \in W : Fresh(c)}
      BY <1>1, <1>2 DEF Fresh, Gap
    <2> QED BY <1>1, <1>2, <1>4, <1>5, <2>1, SameSlots DEF Waits
  <1> QED BY <1>2, <1>3, <1>6, <1>7, <1>8, <1>9 DEF SyncIInv

-----------------------------------------------------------------------------
(* Every step of the bursts and the hold *)

LEMMA SyncSteps ==
    ASSUME SyncIInv, [SyncNext]_syncVars
    PROVE  SyncIInv'
  <1>1. CASE TickStarts
    <2>1. UNCHANGED <<clocks, tickets, holdSlot, mainSide>> /\ syncTask' = 1 /\ wakened' = FALSE
      BY <1>1 DEF TickStarts
    <2>2. 1 \in 0 .. MAX_ADMITTED
      BY SyncNumbers
    <2> QED BY <2>1, <2>2, AsideStep
  <1>2. ASSUME NEW c \in SyncSlots, Serve(c) PROVE SyncIInv'
    BY <1>2, ServeStep
  <1>3. CASE SyncMainNext
    BY <1>3, HoldTakeStep, HoldAcquireStep, HoldGrantStep, HoldReleaseStep DEF SyncMainNext
  <1>4. CASE Play \/ Stop \/ Restart
    BY <1>4, PlayStep, StopStep, RestartStep
  <1>5. ASSUME NEW c \in SyncSlots,
               Admit(c) \/ Reprove(c) \/ Activated(c) \/ Vacate(c) \/ PassTime(c)
        PROVE  SyncIInv'
    BY <1>5, AdmittedStep, ReproveStep, ActivatedStep, VacateStep, PassTimeStep
  <1>6. ASSUME NEW c \in SyncSlots, NEW echo \in Echoes, NEW good \in BOOLEAN,
               ServerTime(c, echo, good)
        PROVE  SyncIInv'
    BY <1>6, ServerTimeStep
  <1>7. CASE UNCHANGED syncVars
    <2>1. UNCHANGED <<clocks, tickets, holdSlot, mainSide>> /\ UNCHANGED <<syncTask, wakened>>
      BY <1>7 DEF syncVars, taskSide
    <2>2. syncTask \in 0 .. MAX_ADMITTED /\ wakened \in BOOLEAN
      BY DEF SyncIInv, SyncTypeOK
    <2> QED BY <2>1, <2>2, AsideStep
  <1> QED BY <1>1, <1>2, <1>3, <1>4, <1>5, <1>6, <1>7 DEF SyncNext, SyncTaskNext

LEMMA SyncStarts ==
    ASSUME SyncInit PROVE SyncIInv
  <1> USE DEF SyncInit
  <1>1. /\ 0 \in 0 .. TicketSpan - 1 /\ 0 \in 0 .. MAX_ADMITTED
        /\ Nothing \in [acquires : Nat, releases : Nat]
        /\ holdSlot.acquires = 0 /\ holdSlot.releases = 0
    BY SyncNumbers DEF Nothing
  <1>2. \A c \in SyncSlots : ClockInv(clocks[c]) /\ ~clocks[c].held /\ ~clocks[c].in
    BY NothingHeld
  <1>3. SyncTypeOK
    <2>1. clocks \in [SyncSlots -> Clock]
      BY NothingHeld
    <2> QED BY <1>1, <2>1 DEF SyncTypeOK
  <1>4. /\ {c \in SyncSlots : clocks[c].held} = {} /\ TakenSlots = {} /\ Cardinality({}) = 0
    BY <1>2, FS_EmptySet DEF TakenSlots
  <1>5. HoldsBalanced
    <2>1. /\ Taken({"acquire"}, holdTaken.acquires) = 0 /\ refs = 0 /\ ~playing
          /\ Taken({"acquire", "grant", "release"}, holdTaken.releases) = 0
      BY DEF Taken
    <2>2. Cardinality({c \in SyncSlots : clocks[c].held}) = 0
      BY <1>4
    <2> QED BY <1>1, <2>1, <2>2 DEF HoldsBalanced
  <1>6. Ungranted = 0 /\ Gap(tickets, granted) = 0
    BY <1>1 DEF Ungranted, Taken, Gap
  <1>7. PICK V \in SUBSET SyncSlots : V = {}
    OBVIOUS
  <1>8. Waits(V)
    <2>1. {c \in V : Fresh(c)} = {} /\ TakenSlots \ V = {}
      BY <1>4, <1>7
    <2>2. Cardinality({c \in V : Fresh(c)}) = 0 /\ Cardinality(TakenSlots \ V) = 0
      BY <1>4, <2>1
    <2>3. /\ holdSlot.acquires <= holdSlot.releases + Cardinality({c \in V : Fresh(c)})
          /\ Ungranted + Cardinality(TakenSlots \ V) <= MAX_ADMITTED + MaxStalled
      <3> HIDE DEF SyncInit
      <3> QED BY <1>1, <1>6, <2>2, SyncNumbers
    <2> QED BY <1>7, <2>3 DEF Waits
  <1> QED BY <1>2, <1>3, <1>5, <1>6, <1>8 DEF SyncIInv

\* A burst with a frame in flight is past its wait, so that its acquire is one the listener has had.
LEMMA SyncIsSafe ==
    ASSUME SyncIInv
    PROVE  SyncTypeOK /\ HoldsBalanced /\ MeasuredInMode /\ MeasuresItsFrames
  <1>1. SyncTypeOK /\ HoldsBalanced /\ \A c \in SyncSlots : ClockInv(clocks[c])
    BY DEF SyncIInv
  <1>2. MeasuresItsFrames
    BY <1>1 DEF MeasuresItsFrames, ClockInv, BurstOf
  <1>3. ASSUME NEW c \in SyncSlots, clocks[c].pending # 0
        PROVE  refs > 0
    <2>1. PICK W \in SUBSET SyncSlots : Waits(W)
      BY DEF SyncIInv
    <2>2. clocks[c].index < BurstSize /\ clocks[c].held /\ clocks[c].index \in Nat
      BY <1>1, <1>3, ClockFields DEF ClockInv, BurstOf
    <2>3. c \in HeldSlots /\ W \subseteq HeldSlots \ {c}
      BY <2>1, <2>2, SyncNumbers DEF Waits, Waiting, HeldSlots
    <2> DEFINE others == HeldSlots \ {c}
               fresh == {d \in W : Fresh(d)}
    <2>4. others \subseteq SyncSlots /\ Cardinality(others) = Cardinality(HeldSlots) - 1
      BY <2>3, HoldSets, SlotLess
    <2>5. fresh \subseteq W /\ W \subseteq SyncSlots /\ W \subseteq others
      BY <2>3
    <2>6. holdSlot.acquires <= holdSlot.releases + Cardinality(fresh)
      BY <2>1 DEF Waits
    <2> HIDE DEF others, fresh
    <2>7. /\ Cardinality(fresh) <= Cardinality(W) /\ Cardinality(W) <= Cardinality(others)
          /\ Cardinality(fresh) \in Nat /\ Cardinality(W) \in Nat /\ Cardinality(others) \in Nat
          /\ Cardinality(HeldSlots) \in Nat
      BY <2>4, <2>5, HoldSets, FewerSlots, SlotsFinite
    <2>8. Cardinality(W) < Cardinality(HeldSlots) /\ Cardinality(fresh) < Cardinality(HeldSlots)
      BY <2>4, <2>7
    <2>9. Resting \in {0, 1}
      BY DEF Resting
    <2>10. CASE holdMain = "acquire"
      <3>1. Applying = holdTaken.acquires /\ Owing = holdTaken.releases
        BY <2>10 DEF Applying, Owing, Taken
      <3>2. holdSlot.acquires + holdTaken.acquires
              <= holdSlot.releases + holdTaken.releases + Cardinality(W)
        BY <2>1, <2>10 DEF Waits
      <3> QED BY <1>1, <2>7, <2>8, <2>9, <3>1, <3>2, Balance, SyncTyping
    <2>11. CASE holdMain # "acquire"
      <3>1. Applying = 0
        BY <2>11 DEF Applying, Taken
      <3> QED BY <1>1, <2>6, <2>7, <2>8, <2>9, <3>1, Balance, SyncTyping
    <2> QED BY <2>10, <2>11
  <1> QED BY <1>1, <1>2, <1>3 DEF MeasuredInMode

-----------------------------------------------------------------------------
(* The connections *)

TransportsIInv == LifeIInv /\ SyncIInv

LEMMA TransportsHold == TransportsSpec => []TransportsIInv
  <1>1. TransportsInit => TransportsIInv
    <2> SUFFICES ASSUME TransportsInit PROVE TransportsIInv
      OBVIOUS
    <2>1. LifeIInv
      <3>1. CASE part = "life"
        BY <3>1, LifeInitially DEF TransportsInit
      <3>2. CASE part # "life"
        <4>1. LifeStarts(0, 0) /\ 0 \in 0 .. MaxCalls
          BY <3>2, Numbers DEF TransportsInit
        <4> QED BY <4>1, LifeStarting
      <3> QED BY <3>1, <3>2
    <2> QED BY <2>1, SyncStarts DEF TransportsInit, TransportsIInv
  <1>2. TransportsIInv /\ [TransportsNext]_transportVars => TransportsIInv'
    <2> SUFFICES ASSUME TransportsIInv, [TransportsNext]_transportVars PROVE TransportsIInv'
      OBVIOUS
    <2>1. [LifeNext]_lifeVars /\ [SyncNext]_syncVars
      BY DEF TransportsNext, transportVars
    <2> QED BY <2>1, LifeSteps, SyncSteps DEF TransportsIInv
  <1> QED BY <1>1, <1>2, PTL DEF TransportsSpec

\* However the threads are timed and for any number of calls, peers, starts and bursts: a stopped
\* client holds nothing of the runs before, connect_to() and disconnect() take effect in the order
\* they were posted, and the holds of the high-performance mode are those of the bursts, which
\* measure only in it and only frames they sent.
THEOREM TransportsCorrect == TransportsSpec => []TransportsSafe
  <1>1. TransportsIInv => TransportsSafe
    BY LifeIsSafe, SyncIsSafe DEF TransportsIInv, TransportsSafe
  <1> QED BY <1>1, TransportsHold, PTL

\* Once the shutdown pass has run, no step drops the last reference to an attempt that still
\* connects, so that stop() waits for none; unless the spare entry was taken by a run before.
THEOREM StopIsPrompt == TransportsSpec => StopAwaitsNoConnect
  <1>1. TransportsIInv /\ [TransportsNext]_transportVars => [Keeps]_lifeVars
    <2> SUFFICES ASSUME TransportsIInv, [TransportsNext]_transportVars PROVE Keeps
      OBVIOUS
    <2>1. [LifeNext]_lifeVars
      BY DEF TransportsNext, transportVars
    <2> QED BY <2>1, LifeKeeps DEF TransportsIInv
  <1>2. TransportsSpec => [][Keeps]_lifeVars
    BY <1>1, TransportsHold, PTL DEF TransportsSpec
  <1> QED BY <1>2 DEF StopAwaitsNoConnect, Keeps

=============================================================================
