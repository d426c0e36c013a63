-------------------------- MODULE SourceStream_proofs --------------------------
(***************************************************************************)
(* Proofs about SourceStream for any sizes of the rings, of a chunk and of *)
(* a write, and any number of streams, connections and teardowns: the      *)
(* inductive invariant behind SourceSafe.                                  *)
(***************************************************************************)
EXTENDS SourceStream, SequenceTheorems, TLAPS

-----------------------------------------------------------------------------
(* The inductive invariant *)

Codecs == {"none", "pcm", "flac"}
Chunk  == [gen : Nat, codec : Codecs, units : Seq(Nat)]
Writes == [gen : Nat \ {0}, units : Seq(Nat)]

StreamType ==
    [authorized : 0 .. MaxPeers, open : 0 .. MaxPeers, owed : 0 .. MaxPeers, gate : BOOLEAN,
     gen : 0 .. MaxOpenings, codec : Codecs, torn : Nat]

HeardType == [open : BOOLEAN, gen : Nat, codec : Codecs, upto : Nat, ok : BOOLEAN]

Events == [kind : {"started", "stopped", "cleared"}, torn : Nat]

ListenerType ==
    [at : {"idle", "closing", "stopping", "draining", "stopped"}, torn : Nat, streaming : BOOLEAN]

TaskType ==
    [at : {"out", "loop", "gate", "overflow", "chunk"}, held : Writes \cup {NoWrite},
     fresh : BOOLEAN, chunk : Chunk, encGen : Nat, encoder : Codecs]

ProtocolTypes == peer \in SourcePeer /\ stream \in StreamType /\ heard \in HeardType
MainTypes     == sourceEvents \in Seq(Events) /\ room \in Nat /\ listener \in ListenerType
CaptureTypes  == capture \in [gen : Nat, n : Nat] /\ written \in Seq(Writes) /\ overflow \in Nat
TaskTypes     == /\ task \in TaskType /\ chunks \in Seq(Chunk) /\ lent \in Nat
                 /\ Len(task.chunk.units) < CHUNK_UNITS

SourceTypes == ProtocolTypes /\ MainTypes /\ CaptureTypes /\ TaskTypes

\* What the connection hears of the stream is what the role has open on it or owes it. A debt
\* lasts from a quiet window to the activation, or until the role is torn down.
StreamInv ==
    /\ heard.ok
    /\ peer.owner \/ peer.act => peer.up
    /\ peer.up => peer.id # 0 /\ Running
    /\ peer.up /\ heard.open => peer.id \in {stream.open, stream.owed}
    /\ stream.gate <=> stream.open # 0
    /\ stream.open # 0 =>
          /\ stream.open = peer.id /\ peer.owner /\ heard.open
          /\ stream.owed = 0 /\ stream.authorized = 0
          /\ heard.gen = stream.gen /\ heard.codec = stream.codec
    /\ stream.owed # 0 =>
          /\ stream.owed = peer.id
          /\ peer.up => peer.owner /\ ~peer.act /\ heard.open
          /\ ~peer.up => listener.at = "stopping"
    /\ stream.authorized # 0 => stream.gen < MaxOpenings

\* Everything on its way belongs to the stream or to one before it, and what belongs to the stream
\* has the codec it was announced with.
OfThis(c, gen, codec) == c.gen <= gen /\ (c # NoChunk /\ c.gen = gen => c.codec = codec)
OfStream(c) == OfThis(c, stream.gen, stream.codec)

GensInv ==
    /\ capture.gen <= stream.gen
    /\ \A i \in 1 .. Len(written) : written[i].gen <= stream.gen
    /\ task.held.gen <= stream.gen
    /\ task.encGen <= stream.gen
    /\ task.encGen # 0 /\ task.encGen = stream.gen => task.encoder = stream.codec
    /\ OfStream(task.chunk)
    /\ \A i \in 1 .. Len(chunks) : OfStream(chunks[i])
    /\ task.at \in {"gate", "overflow", "chunk"} => task.held # NoWrite
    /\ task.at \in {"overflow", "chunk"} => KeepsChunk(task.held.gen)

Below(s, t) == \A i \in 1 .. Len(s), j \in 1 .. Len(t) : s[i] < t[j]
After(u, s) == \A i \in 1 .. Len(s) : u < s[i]
UpTo(s, n)  == \A i \in 1 .. Len(s) : s[i] <= n

\* The units on their way, in order: those completed in q, those of the chunk in progress c, those
\* left of the write h the task holds, those in the capture ring w, up to the last captured, n.
\* None was heard: the last that was is u.
InOrder(u, q, c, h, w, n) ==
    /\ \A i \in 1 .. Len(q) :
          /\ After(u, q[i].units) /\ Rising(q[i].units) /\ UpTo(q[i].units, n)
          /\ Below(q[i].units, c) /\ Below(q[i].units, h)
          /\ \A j \in 1 .. Len(w) : Below(q[i].units, w[j].units)
          /\ \A j \in 1 .. Len(q) : i < j => Below(q[i].units, q[j].units)
    /\ After(u, c) /\ Rising(c) /\ UpTo(c, n) /\ Below(c, h)
    /\ After(u, h) /\ Rising(h) /\ UpTo(h, n)
    /\ \A j \in 1 .. Len(w) :
          /\ After(u, w[j].units) /\ Rising(w[j].units) /\ UpTo(w[j].units, n)
          /\ Below(c, w[j].units) /\ Below(h, w[j].units)
          /\ \A k \in 1 .. Len(w) : j < k => Below(w[j].units, w[k].units)

OrderInv ==
    /\ InOrder(heard.upto, chunks, task.chunk.units, task.held.units, written, capture.n)
    /\ heard.upto <= capture.n

\* What is in the outbound ring is a full chunk, or nothing in the place of one that was dropped.
WholeChunks == \A i \in 1 .. Len(chunks) : Len(chunks[i].units) \in {0, CHUNK_UNITS}

RingsInv ==
    /\ Len(sourceEvents) <= room /\ Len(written) <= CaptureRoom
    /\ ChunksFit
    /\ task.at = "out" => task = TaskIdle
    /\ listener.at = "stopping" => lent = 0

\* A teardown the listener has not caught up with leaves it streaming; one it has does not.
TeardownsInv ==
    /\ listener.torn <= stream.torn
    /\ \A i \in 1 .. Len(sourceEvents) : sourceEvents[i].torn <= stream.torn
    /\ listener.at \in {"draining", "stopped"} =>
          /\ listener.torn = stream.torn => ~listener.streaming
          /\ \A i \in 1 .. Len(sourceEvents) :
                sourceEvents[i].torn = stream.torn => sourceEvents[i].kind = "cleared"
    /\ StoppedIsSilent

SourceIInv ==
    /\ SourceTypes /\ StreamInv /\ GensInv /\ OrderInv /\ WholeChunks /\ RingsInv /\ TeardownsInv

-----------------------------------------------------------------------------
(* What the protocol task's operators return *)

LEMMA Sizes ==
    /\ CHUNK_UNITS \in Nat \ {0} /\ CaptureRoom \in Nat \ {0}
    /\ OUTBOUND_RING_ITEM_COUNT \in Nat \ {0} /\ WriteUnits \subseteq Nat \ {0}
    /\ MaxPeers \in Nat /\ MaxOpenings \in Nat /\ MaxUnits \in Nat
    /\ 0 \in 0 .. MaxPeers /\ 0 \in 0 .. MaxOpenings
  BY SourceAssumption

Roles3 == [stream : StreamType, heard : HeardType, sourceEvents : Seq(Events)]

LEMMA PushedType ==
    ASSUME NEW queue \in Seq(Events), NEW torn \in Nat,
           NEW kind \in {"started", "stopped", "cleared"}
    PROVE  Pushed(queue, kind, torn) \in Seq(Events)
  <1>1. [kind |-> kind, torn |-> torn] \in Events
    BY DEF Events
  <1> QED BY <1>1 DEF Pushed

PushedAs(p, queue, event) ==
    /\ Len(queue) <= room => Len(p) <= room
    /\ \A i \in 1 .. Len(p) : IF i <= Len(queue) THEN p[i] = queue[i] ELSE p[i] = event

LEMMA PushedEffect ==
    ASSUME room \in Nat, NEW queue \in Seq(Events), NEW torn, NEW kind
    PROVE  PushedAs(Pushed(queue, kind, torn), queue, [kind |-> kind, torn |-> torn])
  <1> DEFINE event == [kind |-> kind, torn |-> torn]
  <1>1. Pushed(queue, kind, torn) = IF Len(queue) < room THEN Append(queue, event) ELSE queue
    BY DEF Pushed
  <1> HIDE DEF event
  <1> QED BY <1>1 DEF PushedAs, event

LEMMA NowType ==
    ASSUME SourceTypes
    PROVE  /\ Now \in Roles3
           /\ Now.stream = stream /\ Now.heard = heard /\ Now.sourceEvents = sourceEvents
  BY DEF Now, Roles3, SourceTypes, ProtocolTypes, MainTypes

\* A stream that is open ends: heard, or owed when the connection is in a quiet window.
EndedAs(e, r, owner, act) ==
    LET hears == r.stream.open # 0 /\ owner /\ peer.id = r.stream.open /\ peer.up
    IN  /\ e \in Roles3
        /\ e.stream.authorized = 0 /\ e.stream.open = 0
        /\ e.stream.gate => r.stream.gate /\ r.stream.open = 0
        /\ e.stream.gen = r.stream.gen /\ e.stream.codec = r.stream.codec
        /\ e.stream.torn = r.stream.torn
        /\ e.stream.owed = IF hears /\ ~act THEN peer.id ELSE r.stream.owed
        /\ e.heard = IF hears /\ act THEN HeardEnd(r.heard, TRUE) ELSE r.heard
        /\ e.sourceEvents = IF r.stream.open = 0 THEN r.sourceEvents
                            ELSE Pushed(r.sourceEvents, "stopped", r.stream.torn)

LEMMA EndedEffect ==
    ASSUME SourceTypes, NEW r \in Roles3, NEW owner \in BOOLEAN, NEW act \in BOOLEAN
    PROVE  EndedAs(Ended(r, owner, act), r, owner, act)
  <1> DEFINE hears == r.stream.open # 0 /\ owner /\ peer.id = r.stream.open /\ peer.up
  <1>1. r.stream \in StreamType /\ r.heard \in HeardType /\ r.sourceEvents \in Seq(Events)
    BY DEF Roles3
  <1>2. HeardEnd(r.heard, TRUE) \in HeardType
    BY <1>1 DEF HeardEnd, HeardType
  <1>3. CASE r.stream.open = 0
    <2>1. Ended(r, owner, act) = [r EXCEPT !.stream.authorized = 0]
      BY <1>3 DEF Ended
    <2> DEFINE st == [r.stream EXCEPT !.authorized = 0]
    <2>2. /\ Ended(r, owner, act).stream = st
          /\ Ended(r, owner, act).heard = r.heard
          /\ Ended(r, owner, act).sourceEvents = r.sourceEvents
          /\ Ended(r, owner, act) = [stream |-> st, heard |-> r.heard,
                                     sourceEvents |-> r.sourceEvents]
      BY <1>1, <2>1 DEF Roles3
    <2>3. /\ st \in StreamType
          /\ st.authorized = 0 /\ st.open = r.stream.open /\ st.gate = r.stream.gate
          /\ st.gen = r.stream.gen /\ st.codec = r.stream.codec /\ st.torn = r.stream.torn
          /\ st.owed = r.stream.owed
      BY <1>1, Sizes DEF StreamType
    <2> HIDE DEF st
    <2>4. Ended(r, owner, act) \in Roles3
      BY <1>1, <2>2, <2>3 DEF Roles3
    <2> QED BY <1>1, <1>3, <2>2, <2>3, <2>4 DEF EndedAs
  <1>4. CASE r.stream.open # 0
    <2> DEFINE st == [r.stream EXCEPT !.authorized = 0, !.open = 0, !.gate = FALSE,
                                      !.owed = IF hears /\ ~act THEN r.stream.open ELSE @]
               h  == IF hears /\ act THEN HeardEnd(r.heard, act) ELSE r.heard
               es == Pushed(r.sourceEvents, "stopped", r.stream.torn)
    <2>1. Ended(r, owner, act) = [stream |-> st, heard |-> h, sourceEvents |-> es]
      BY <1>4 DEF Ended
    <2>2. st \in StreamType
      BY <1>1, Sizes DEF StreamType
    <2>3. h \in HeardType /\ h = IF hears /\ act THEN HeardEnd(r.heard, TRUE) ELSE r.heard
      BY <1>1, <1>2
    <2>4. es \in Seq(Events)
      BY <1>1, PushedType DEF SourceTypes, MainTypes, StreamType
    <2>5. /\ st.authorized = 0 /\ st.open = 0 /\ ~st.gate
          /\ st.gen = r.stream.gen /\ st.codec = r.stream.codec /\ st.torn = r.stream.torn
          /\ st.owed = IF hears /\ ~act THEN peer.id ELSE r.stream.owed
      BY <1>1, <1>4 DEF StreamType
    <2>6. es = IF r.stream.open = 0 THEN r.sourceEvents
               ELSE Pushed(r.sourceEvents, "stopped", r.stream.torn)
      BY <1>4
    <2> DEFINE e == Ended(r, owner, act)
    <2>e. e = [stream |-> st, heard |-> h, sourceEvents |-> es]
      BY <2>1
    <2> HIDE DEF st, h, es, e
    <2>7. e.stream = st /\ e.heard = h /\ e.sourceEvents = es /\ e \in Roles3
      BY <2>e, <2>2, <2>3, <2>4 DEF Roles3
    <2> QED BY <1>4, <2>3, <2>5, <2>6, <2>7 DEF EndedAs, e
  <1> QED BY <1>3, <1>4

LEMMA EndedType ==
    ASSUME SourceTypes, NEW r \in Roles3, NEW owner \in BOOLEAN, NEW act \in BOOLEAN
    PROVE  Ended(r, owner, act) \in Roles3
  <1>1. EndedAs(Ended(r, owner, act), r, owner, act)
    BY EndedEffect
  <1> QED BY <1>1 DEF EndedAs

LEMMA TornDownEffect ==
    ASSUME SourceTypes, NEW r \in Roles3
    PROVE  LET e == TornDown(r)
           IN  /\ e \in Roles3
               /\ e.stream.authorized = 0 /\ e.stream.open = 0 /\ e.stream.owed = 0
               /\ ~e.stream.gate
               /\ e.stream.gen = r.stream.gen /\ e.stream.codec = r.stream.codec
               /\ e.stream.torn = r.stream.torn + 1
               /\ e.heard = r.heard
               /\ e.sourceEvents = Pushed(r.sourceEvents, "cleared", r.stream.torn + 1)
  <1> DEFINE st == [r.stream EXCEPT !.torn = r.stream.torn + 1, !.authorized = 0, !.owed = 0,
                                    !.open = 0, !.gate = FALSE]
             es == Pushed(r.sourceEvents, "cleared", r.stream.torn + 1)
  <1>1. r.stream \in StreamType /\ r.heard \in HeardType /\ r.sourceEvents \in Seq(Events)
    BY DEF Roles3
  <1>2. TornDown(r) = [stream |-> st, heard |-> r.heard, sourceEvents |-> es]
    BY DEF TornDown
  <1>3. st \in StreamType
    <2>1. r.stream.torn + 1 \in Nat
      BY <1>1 DEF StreamType
    <2> QED BY <1>1, <2>1, Sizes DEF StreamType
  <1>4. es \in Seq(Events)
    <2>1. r.stream.torn + 1 \in Nat
      BY <1>1 DEF StreamType
    <2> QED BY <1>1, <2>1, PushedType DEF SourceTypes, MainTypes
  <1>5. /\ st.authorized = 0 /\ st.open = 0 /\ st.owed = 0 /\ ~st.gate
        /\ st.gen = r.stream.gen /\ st.codec = r.stream.codec /\ st.torn = r.stream.torn + 1
    BY <1>1 DEF StreamType
  <1> HIDE DEF st
  <1> QED BY <1>1, <1>2, <1>3, <1>4, <1>5 DEF Roles3

LEMMA PaidEffect ==
    ASSUME SourceTypes
    PROVE  LET e    == Paid(Now)
               owes == stream.owed # 0 /\ stream.owed = peer.id
           IN  /\ e \in Roles3
               /\ e.stream.owed = IF owes THEN 0 ELSE stream.owed
               /\ e.stream.authorized = stream.authorized /\ e.stream.open = stream.open
               /\ e.stream.gate = stream.gate /\ e.stream.gen = stream.gen
               /\ e.stream.codec = stream.codec /\ e.stream.torn = stream.torn
               /\ e.heard = IF owes THEN HeardEnd(heard, TRUE) ELSE heard
               /\ e.sourceEvents = sourceEvents
  <1> DEFINE owes == stream.owed # 0 /\ stream.owed = peer.id
             st   == [stream EXCEPT !.owed = IF owes THEN 0 ELSE @]
             h    == IF owes THEN HeardEnd(heard, TRUE) ELSE heard
  <1>1. stream \in StreamType /\ heard \in HeardType /\ sourceEvents \in Seq(Events)
    BY DEF SourceTypes, ProtocolTypes, MainTypes
  <1>2. Paid(Now) = [stream |-> st, heard |-> h, sourceEvents |-> sourceEvents]
    <2> DEFINE n == [stream |-> stream, heard |-> heard, sourceEvents |-> sourceEvents]
    <2>1. Paid(Now) = [n EXCEPT !.stream.owed = IF owes THEN 0 ELSE @,
                                !.heard = IF owes THEN HeardEnd(@, TRUE) ELSE @]
      BY DEF Paid, Now
    <2>2. [n EXCEPT !.stream.owed = IF owes THEN 0 ELSE @]
            = [stream |-> st, heard |-> heard, sourceEvents |-> sourceEvents]
      BY <1>1 DEF StreamType
    <2> QED BY <2>1, <2>2
  <1>3. st \in StreamType
    BY <1>1, Sizes DEF StreamType
  <1>4. h \in HeardType
    BY <1>1 DEF HeardEnd, HeardType
  <1>5. /\ st.owed = IF owes THEN 0 ELSE stream.owed
        /\ st.authorized = stream.authorized /\ st.open = stream.open
        /\ st.gate = stream.gate /\ st.gen = stream.gen
        /\ st.codec = stream.codec /\ st.torn = stream.torn
    BY <1>1 DEF StreamType
  <1> HIDE DEF st, h
  <1>6. Paid(Now) \in Roles3
    BY <1>1, <1>2, <1>3, <1>4 DEF Roles3
  <1> QED BY <1>2, <1>5, <1>6 DEF h

-----------------------------------------------------------------------------
(* What a chunk takes of a write *)

LEMMA MinOfTwo ==
    ASSUME NEW a \in Nat, NEW b \in Nat
    PROVE  Min({a, b}) \in Nat /\ Min({a, b}) <= a /\ Min({a, b}) <= b
  <1>1. \E x \in {a, b} : \A y \in {a, b} : x <= y
    OBVIOUS
  <1> QED BY <1>1 DEF Min

LEMMA SubSeqUnits ==
    ASSUME NEW s \in Seq(Nat), NEW n \in 0 .. Len(s)
    PROVE  /\ SubSeq(s, 1, n) \in Seq(Nat) /\ Len(SubSeq(s, 1, n)) = n
           /\ \A i \in 1 .. n : SubSeq(s, 1, n)[i] = s[i]
           /\ SubSeq(s, n + 1, Len(s)) \in Seq(Nat) /\ Len(SubSeq(s, n + 1, Len(s))) = Len(s) - n
           /\ \A i \in 1 .. Len(s) - n : SubSeq(s, n + 1, Len(s))[i] = s[n + i]
  <1>1. \A i \in 1 .. n : s[i] \in Nat
    OBVIOUS
  <1>2. \A i \in n + 1 .. Len(s) : s[i] \in Nat
    OBVIOUS
  <1>3. SubSeq(s, 1, n) \in Seq(Nat) /\ Len(SubSeq(s, 1, n)) = n
    BY <1>1, SubSeqProperties
  <1>4. SubSeq(s, n + 1, Len(s)) \in Seq(Nat) /\ Len(SubSeq(s, n + 1, Len(s))) = Len(s) - n
    BY <1>2, SubSeqProperties
  <1>5. \A i \in 1 .. n : SubSeq(s, 1, n)[i] = s[i]
    OBVIOUS
  <1>6. \A i \in 1 .. Len(s) - n : SubSeq(s, n + 1, Len(s))[i] = s[n + i]
    OBVIOUS
  <1> QED BY <1>3, <1>4, <1>5, <1>6

LEMMA Nothing ==
    /\ NoChunk \in Chunk /\ NoChunk.gen = 0 /\ NoChunk.units = <<>>
    /\ NoWrite \notin Writes /\ NoWrite.gen = 0 /\ NoWrite.units = <<>>
  BY DEF NoChunk, NoWrite, Chunk, Writes, Codecs

LEMMA EncoderType ==
    ASSUME SourceTypes, NEW gen
    PROVE  Encoder(gen) \in Codecs
  BY DEF Encoder, SourceTypes, ProtocolTypes, TaskTypes, StreamType, TaskType

\* The chunk the task goes on with, how many of the units it holds it takes, and what is left.
Begun == IF task.chunk # NoChunk THEN task.chunk
         ELSE [gen |-> task.held.gen, codec |-> Encoder(task.held.gen), units |-> <<>>]

Taken == Min({Len(task.held.units), CHUNK_UNITS - Len(Begun.units)})
Full  == [Begun EXCEPT !.units = @ \o SubSeq(task.held.units, 1, Taken)]
Left  == SubSeq(task.held.units, Taken + 1, Len(task.held.units))

LEMMA FillEffect ==
    ASSUME SourceTypes, GensInv, Fill
    PROVE  /\ task.held \in Writes /\ Begun \in Chunk /\ Full \in Chunk /\ Left \in Seq(Nat)
           /\ Taken \in 0 .. Len(task.held.units)
           /\ Full.gen = Begun.gen /\ Full.codec = Begun.codec
           /\ Full.units = Begun.units \o SubSeq(task.held.units, 1, Taken)
           /\ task'.at = "loop" /\ ~task'.fresh
           /\ task'.held = IF Left = <<>> THEN NoWrite ELSE [task.held EXCEPT !.units = Left]
           /\ task'.encGen = task.held.gen /\ task'.encoder = Begun.codec
           /\ \/ task'.chunk = Full /\ chunks' = chunks /\ Len(Full.units) < CHUNK_UNITS
              \/ /\ task'.chunk = NoChunk /\ Len(Full.units) = CHUNK_UNITS
                 /\ chunks' \in {Append(chunks, Full), Append(chunks, NoChunk)}
           /\ Full # NoChunk
           /\ task' = [at |-> "loop", fresh |-> FALSE, held |-> task'.held, chunk |-> task'.chunk,
                       encGen |-> task'.encGen, encoder |-> task'.encoder]
  <1>1. task \in TaskType /\ Len(task.chunk.units) < CHUNK_UNITS /\ task.at = "chunk"
    BY DEF SourceTypes, TaskTypes, Fill
  <1>2. task.held \in Writes
    BY <1>1 DEF TaskType, GensInv
  <1>3. Begun \in Chunk /\ Len(Begun.units) < CHUNK_UNITS
    <2>1. CASE task.chunk # NoChunk
      BY <1>1, <2>1 DEF Begun, TaskType
    <2>2. CASE task.chunk = NoChunk
      <3>1. Encoder(task.held.gen) \in Codecs
        BY EncoderType
      <3>2. Begun = [gen |-> task.held.gen, codec |-> Encoder(task.held.gen), units |-> <<>>]
        BY <2>2 DEF Begun
      <3>3. Begun \in Chunk /\ Begun.units = <<>>
        BY <1>2, <3>1, <3>2 DEF Chunk, Writes
      <3> QED BY <3>3, Sizes
    <2> QED BY <2>1, <2>2
  <1>4. task.held.units \in Seq(Nat) /\ Begun.units \in Seq(Nat) /\ task.held.gen \in Nat \ {0}
    BY <1>2, <1>3 DEF Writes, Chunk
  <1>5. Taken \in Nat /\ Taken <= Len(task.held.units) /\ Taken <= CHUNK_UNITS - Len(Begun.units)
    <2>1. Len(task.held.units) \in Nat /\ CHUNK_UNITS - Len(Begun.units) \in Nat
      BY <1>3, <1>4, Sizes
    <2> QED BY <2>1, MinOfTwo DEF Taken
  <1>6. Taken \in 0 .. Len(task.held.units)
    BY <1>4, <1>5
  <1>7. /\ SubSeq(task.held.units, 1, Taken) \in Seq(Nat)
        /\ Len(SubSeq(task.held.units, 1, Taken)) = Taken
        /\ Left \in Seq(Nat)
    BY <1>4, <1>6, SubSeqUnits DEF Left
  <1>8. /\ Begun.units \o SubSeq(task.held.units, 1, Taken) \in Seq(Nat)
        /\ Len(Begun.units \o SubSeq(task.held.units, 1, Taken)) = Len(Begun.units) + Taken
    BY <1>4, <1>7, ConcatProperties
  <1>9. /\ Full \in Chunk /\ Full.gen = Begun.gen /\ Full.codec = Begun.codec
        /\ Full.units = Begun.units \o SubSeq(task.held.units, 1, Taken)
    BY <1>3, <1>8 DEF Full, Chunk
  <1>10. Len(Full.units) <= CHUNK_UNITS
    <2>1. Len(Full.units) = Len(Begun.units) + Taken
      BY <1>8, <1>9
    <2>2. Len(Begun.units) \in Nat
      BY <1>4
    <2> QED BY <1>5, <2>1, <2>2, Sizes
  <1>11. Full # NoChunk
    <2>1. CASE task.chunk = NoChunk
      <3>1. Full.gen = task.held.gen
        BY <1>9, <2>1 DEF Begun
      <3> QED BY <1>4, <3>1, Nothing
    <2>2. CASE task.chunk # NoChunk
      <3>1. SUFFICES ASSUME Full = NoChunk PROVE FALSE
        OBVIOUS
      <3>2. Begun = task.chunk
        BY <2>2 DEF Begun
      <3>3. Begun.gen = 0 /\ Begun.codec = "none" /\ Len(Begun.units) + Taken = 0
        BY <1>8, <1>9, <3>1, Nothing DEF NoChunk
      <3>4. Len(Begun.units) = 0
        BY <1>4, <1>5, <3>3
      <3>5. Begun.units = <<>>
        BY <1>4, <3>4
      <3>6. Begun = [gen |-> Begun.gen, codec |-> Begun.codec, units |-> Begun.units]
        BY <1>3 DEF Chunk
      <3> QED BY <2>2, <3>2, <3>3, <3>5, <3>6 DEF NoChunk
    <2> QED BY <2>1, <2>2
  <1>12. LET done == Len(Full.units) = CHUNK_UNITS
         IN  /\ task' = [at |-> "loop", fresh |-> FALSE,
                         held |-> IF Left = <<>> THEN NoWrite ELSE [task.held EXCEPT !.units = Left],
                         chunk |-> IF done THEN NoChunk ELSE Full,
                         encGen |-> task.held.gen, encoder |-> Begun.codec]
             /\ \E encoded \in BOOLEAN :
                   chunks' = IF done THEN Append(chunks, IF encoded THEN Full ELSE NoChunk)
                             ELSE chunks
    BY DEF Fill, Begun, Taken, Full, Left
  <1>13. \/ task'.chunk = Full /\ chunks' = chunks /\ Len(Full.units) < CHUNK_UNITS
         \/ /\ task'.chunk = NoChunk /\ Len(Full.units) = CHUNK_UNITS
            /\ chunks' \in {Append(chunks, Full), Append(chunks, NoChunk)}
    <2>1. CASE Len(Full.units) = CHUNK_UNITS
      BY <1>12, <2>1
    <2>2. CASE Len(Full.units) # CHUNK_UNITS
      <3>1. Len(Full.units) < CHUNK_UNITS
        BY <1>8, <1>9, <1>10, <2>2, Sizes
      <3> QED BY <1>12, <2>2, <3>1
    <2> QED BY <2>1, <2>2
  <1>14. /\ task'.at = "loop" /\ ~task'.fresh
         /\ task'.held = IF Left = <<>> THEN NoWrite ELSE [task.held EXCEPT !.units = Left]
         /\ task'.encGen = task.held.gen /\ task'.encoder = Begun.codec
         /\ task' = [at |-> "loop", fresh |-> FALSE, held |-> task'.held, chunk |-> task'.chunk,
                     encGen |-> task'.encGen, encoder |-> task'.encoder]
    BY <1>12
  <1> QED BY <1>2, <1>3, <1>6, <1>7, <1>9, <1>11, <1>13, <1>14

-----------------------------------------------------------------------------
(* Types *)

LEMMA BecomeType ==
    ASSUME NEW r \in Roles3, Become(r)
    PROVE  stream' \in StreamType /\ heard' \in HeardType /\ sourceEvents' \in Seq(Events)
  BY DEF Roles3, Become

LEMMA LosesType ==
    ASSUME SourceTypes, Loses
    PROVE  /\ peer' = [peer EXCEPT !.up = FALSE, !.owner = FALSE, !.act = FALSE]
           /\ peer' \in SourcePeer
           /\ stream' \in StreamType /\ heard' \in HeardType /\ sourceEvents' \in Seq(Events)
  <1>1. Become(IF peer.owner THEN TornDown(Now) ELSE Now)
    BY DEF Loses
  <1>2. TornDown(Now) \in Roles3 /\ Now \in Roles3
    BY NowType, TornDownEffect
  <1>3. peer' \in SourcePeer
    BY DEF Loses, SourcePeer, SourceTypes, ProtocolTypes
  <1> QED BY <1>1, <1>2, <1>3, BecomeType DEF Loses

LEMMA ProtocolStepTypes ==
    ASSUME SourceTypes, StreamInv,
           \/ TryOpen \/ StartCommand \/ StopCommand \/ Unavailable \/ Connected \/ QuietWindow
           \/ (\E owner \in BOOLEAN : Activation(owner)) \/ SourceLost
    PROVE  SourceTypes'
  <1>0. /\ peer \in SourcePeer /\ stream \in StreamType /\ heard \in HeardType
        /\ sourceEvents \in Seq(Events) /\ room \in Nat
    BY DEF SourceTypes, ProtocolTypes, MainTypes
  <1>p. peer.id \in 0 .. MaxPeers /\ peer.owner \in BOOLEAN /\ peer.act \in BOOLEAN
    BY <1>0 DEF SourcePeer
  <1>1. SUFFICES /\ peer' \in SourcePeer /\ stream' \in StreamType /\ heard' \in HeardType
                 /\ sourceEvents' \in Seq(Events)
    BY DEF Protocol, TryOpen, StartCommand, StopCommand, Unavailable, Connected, QuietWindow,
           Activation, SourceLost, SourceTypes, ProtocolTypes, MainTypes, CaptureTypes, TaskTypes
  <1>2. CASE TryOpen
    <2> DEFINE gen   == stream.gen + 1
               codec == IF peer.lists THEN "flac" ELSE "pcm"
    <2>1. gen \in 0 .. MaxOpenings /\ gen \in Nat
      BY <1>0, <1>2, Sizes DEF TryOpen, MayOpen, StreamInv, StreamType
    <2>2. codec \in Codecs
      BY DEF Codecs
    <2>3. HeardStart(heard, codec, gen) \in HeardType
      BY <1>0, <1>p, <2>1, <2>2 DEF HeardStart, HeardType
    <2>4. Pushed(sourceEvents, "started", stream.torn) \in Seq(Events)
      BY <1>0, PushedType DEF StreamType
    <2> HIDE DEF gen, codec
    <2>5. [stream EXCEPT !.authorized = 0, !.open = peer.id, !.gate = TRUE, !.gen = gen,
                         !.codec = codec] \in StreamType
      BY <1>0, <1>p, <2>1, <2>2, Sizes DEF StreamType
    <2>6. [stream EXCEPT !.authorized = 0] \in StreamType
      BY <1>0, Sizes DEF StreamType
    <2> USE DEF gen, codec
    <2>7. stream' \in StreamType
      BY <1>2, <2>5, <2>6 DEF TryOpen
    <2>8. peer' = peer /\ heard' \in {heard, HeardStart(heard, codec, gen)}
          /\ sourceEvents' \in {sourceEvents, Pushed(sourceEvents, "started", stream.torn)}
      BY <1>2 DEF TryOpen
    <2> QED BY <1>0, <2>3, <2>4, <2>7, <2>8
  <1>3. CASE StartCommand
    BY <1>0, <1>p, <1>3 DEF StartCommand, StreamType
  <1>4. CASE StopCommand \/ Unavailable
    <2>1. Ended(Now, TRUE, TRUE) \in Roles3 /\ Ended(Now, peer.owner, peer.act) \in Roles3
      BY <1>p, NowType, EndedType
    <2> QED BY <1>0, <1>4, <2>1, BecomeType DEF StopCommand, Unavailable
  <1>5. CASE Connected
    <2>1. Silent \in HeardType
      BY DEF Silent, HeardType, Codecs
    <2>2. peer.id + 1 \in 0 .. MaxPeers
      BY <1>5, <1>p, Sizes DEF Connected
    <2> QED BY <1>0, <1>5, <2>1, <2>2 DEF Connected, SourcePeer
  <1>6. CASE QuietWindow
    BY <1>0, <1>6 DEF QuietWindow, SourcePeer
  <1>7. ASSUME NEW owner \in BOOLEAN, Activation(owner)
        PROVE  /\ peer' \in SourcePeer /\ stream' \in StreamType /\ heard' \in HeardType
               /\ sourceEvents' \in Seq(Events)
    <2>1. peer' \in SourcePeer
      BY <1>0, <1>7 DEF Activation, SourcePeer
    <2>p. Paid(Now) \in Roles3
      BY PaidEffect
    <2>e. Ended(Paid(Now), TRUE, TRUE) \in Roles3
      BY <2>p, EndedType
    <2>2. TornDown(Ended(Paid(Now), TRUE, TRUE)) \in Roles3
      BY <2>e, TornDownEffect
    <2>3. Become(IF peer.owner /\ ~owner THEN TornDown(Ended(Paid(Now), TRUE, TRUE))
                 ELSE Paid(Now))
      BY <1>7 DEF Activation
    <2> QED BY <2>1, <2>p, <2>2, <2>3, BecomeType
  <1>8. CASE SourceLost
    BY <1>8, LosesType DEF SourceLost
  <1> QED BY <1>2, <1>3, <1>4, <1>5, <1>6, <1>7, <1>8

\* What the chunk at the head of the ring becomes of what was heard.
LEMMA HeardChunkType ==
    ASSUME SourceTypes, NEW chunk \in Chunk, chunk.units # <<>>
    PROVE  /\ HeardChunk(heard, chunk) \in HeardType
           /\ HeardChunk(heard, chunk).upto = chunk.units[Len(chunk.units)]
           /\ HeardChunk(heard, chunk).open = heard.open
           /\ HeardChunk(heard, chunk).gen = heard.gen
           /\ HeardChunk(heard, chunk).codec = heard.codec
           /\ HeardChunk(heard, chunk).ok =
                (heard.ok /\ heard.open /\ peer.act /\ chunk.codec = heard.codec
                          /\ chunk.gen = heard.gen /\ chunk.units[1] > heard.upto
                          /\ Len(chunk.units) = CHUNK_UNITS /\ Rising(chunk.units))
  <1>1. chunk.units \in Seq(Nat)
    BY DEF Chunk
  <1>2. Len(chunk.units) \in 1 .. Len(chunk.units)
    BY <1>1
  <1>3. chunk.units[Len(chunk.units)] \in Nat
    BY <1>1, <1>2
  <1> DEFINE good == heard.ok /\ heard.open /\ peer.act /\ chunk.codec = heard.codec
                       /\ chunk.gen = heard.gen /\ chunk.units[1] > heard.upto
                       /\ Len(chunk.units) = CHUNK_UNITS /\ Rising(chunk.units)
             last == chunk.units[Len(chunk.units)]
  <1>4. HeardChunk(heard, chunk) = [heard EXCEPT !.upto = last, !.ok = good]
    BY <1>1 DEF HeardChunk, Last
  <1>5. heard \in HeardType
    BY DEF SourceTypes, ProtocolTypes
  <1>6. good \in BOOLEAN
    OBVIOUS
  <1> HIDE DEF good, last
  <1>7. /\ [heard EXCEPT !.upto = last, !.ok = good] \in HeardType
        /\ [heard EXCEPT !.upto = last, !.ok = good].upto = last
        /\ [heard EXCEPT !.upto = last, !.ok = good].ok = good
        /\ [heard EXCEPT !.upto = last, !.ok = good].open = heard.open
        /\ [heard EXCEPT !.upto = last, !.ok = good].gen = heard.gen
        /\ [heard EXCEPT !.upto = last, !.ok = good].codec = heard.codec
    BY <1>3, <1>5, <1>6 DEF HeardType, last
  <1> QED BY <1>4, <1>7 DEF good, last

LEMMA CaptureStepTypes ==
    ASSUME SourceTypes, StreamInv,
           ReadGate \/ Refuse \/ (\E len \in WriteUnits : Write(len))
    PROVE  SourceTypes'
  <1>0. capture \in [gen : Nat, n : Nat] /\ written \in Seq(Writes) /\ overflow \in Nat
    BY DEF SourceTypes, CaptureTypes
  <1>1. SUFFICES /\ capture' \in [gen : Nat, n : Nat] /\ written' \in Seq(Writes)
                 /\ overflow' \in Nat
    BY DEF ReadGate, Refuse, Write, Captures, protocolSide, SourceTypes, ProtocolTypes,
           MainTypes, CaptureTypes, TaskTypes
  <1>2. CASE ReadGate
    BY <1>0, <1>2 DEF ReadGate, SourceTypes, ProtocolTypes, StreamType
  <1>3. CASE Refuse
    BY <1>0, <1>3 DEF Refuse
  <1>4. ASSUME NEW len \in WriteUnits, Write(len)
        PROVE  /\ capture' \in [gen : Nat, n : Nat] /\ written' \in Seq(Writes)
               /\ overflow' \in Nat
    <2> DEFINE units == [i \in 1 .. len |-> capture.n + i]
    <2>1. len \in Nat /\ capture.n \in Nat /\ capture.gen \in Nat \ {0}
      BY <1>0, <1>4, Sizes DEF Write
    <2>2. units \in Seq(Nat)
      BY <2>1
    <2>3. [gen |-> capture.gen, units |-> units] \in Writes
      BY <2>1, <2>2 DEF Writes
    <2>4. /\ capture' = [gen |-> 0, n |-> capture.n + len]
          /\ \/ overflow' = capture.gen /\ written' = written
             \/ overflow' = overflow
                /\ written' = Append(written, [gen |-> capture.gen, units |-> units])
      BY <1>4 DEF Write
    <2> DEFINE w == [gen |-> capture.gen, units |-> units]
    <2> HIDE DEF w
    <2>5. Append(written, w) \in Seq(Writes)
      BY <1>0, <2>3 DEF w
    <2>6. capture' \in [gen : Nat, n : Nat]
      BY <2>1, <2>4
    <2> QED BY <1>0, <2>1, <2>4, <2>5, <2>6 DEF w
  <1> QED BY <1>2, <1>3, <1>4

LEMMA DroppedType ==
    ASSUME SourceTypes
    PROVE  Dropped(chunks) \in Seq(Chunk)
  BY Nothing DEF Dropped, SourceTypes, TaskTypes

LEMMA TaskStepTypes ==
    ASSUME SourceTypes, GensInv, TaskNext
    PROVE  SourceTypes'
  <1>0. /\ task \in TaskType /\ chunks \in Seq(Chunk) /\ Len(task.chunk.units) < CHUNK_UNITS
        /\ written \in Seq(Writes) /\ overflow \in Nat
    BY DEF SourceTypes, TaskTypes, CaptureTypes
  <1>1. SUFFICES /\ task' \in TaskType /\ chunks' \in Seq(Chunk)
                 /\ Len(task'.chunk.units) < CHUNK_UNITS
                 /\ written' \in Seq(Writes) /\ overflow' \in Nat
    BY DEF TaskNext, TakeWrite, CheckGate, CheckOverflow, NoRoom, Fill, Leave, Tasks, protocolSide,
           SourceTypes, ProtocolTypes, MainTypes, CaptureTypes, TaskTypes
  <1>2. Len(NoChunk.units) < CHUNK_UNITS
    BY Nothing, Sizes
  <1>3. CASE TakeWrite
    <2>1. /\ chunks' = chunks /\ overflow' = overflow
          /\ \/ /\ written # <<>> /\ written' = Tail(written)
                /\ task' = [task EXCEPT !.at = "gate", !.held = Head(written), !.fresh = TRUE]
             \/ /\ written' = written
                /\ task' = [task EXCEPT !.at = "gate", !.fresh = FALSE]
      BY <1>3 DEF TakeWrite
    <2>2. written # <<>> => Head(written) \in Writes /\ Tail(written) \in Seq(Writes)
      BY <1>0
    <2> QED BY <1>0, <2>1, <2>2 DEF TaskType
  <1>4. CASE CheckGate
    <2>1. /\ written' = written /\ overflow' = overflow
          /\ chunks' \in {chunks, Dropped(chunks)}
          /\ \/ task' = [task EXCEPT !.at = "loop", !.held = NoWrite, !.chunk = NoChunk]
             \/ task' = [task EXCEPT !.at = IF task.fresh THEN "overflow" ELSE "chunk",
                               !.chunk = IF KeepsChunk(task.held.gen) THEN @ ELSE NoChunk]
      BY <1>4 DEF CheckGate
    <2> DEFINE kept == IF KeepsChunk(task.held.gen) THEN task.chunk ELSE NoChunk
               at == IF task.fresh THEN "overflow" ELSE "chunk"
    <2>2. kept \in Chunk /\ Len(kept.units) < CHUNK_UNITS /\ at \in {"overflow", "chunk"}
      BY <1>0, <1>2, Nothing DEF TaskType
    <2>3. \/ task' = [task EXCEPT !.at = "loop", !.held = NoWrite, !.chunk = NoChunk]
          \/ task' = [task EXCEPT !.at = at, !.chunk = kept]
      BY <1>0, <2>1 DEF TaskType
    <2> HIDE DEF kept, at
    <2>4. task' \in TaskType /\ Len(task'.chunk.units) < CHUNK_UNITS
      BY <1>0, <1>2, <2>2, <2>3, Nothing, ZenonT(40) DEF TaskType
    <2>5. chunks' \in Seq(Chunk) /\ written' \in Seq(Writes) /\ overflow' \in Nat
      BY <1>0, <2>1, DroppedType
    <2> QED BY <2>4, <2>5
  <1>5. CASE CheckOverflow
    <2>1. /\ overflow' = 0 /\ written' \in {written, <<>>} /\ chunks' \in {chunks, Dropped(chunks)}
          /\ \/ task' = [task EXCEPT !.at = "loop", !.held = NoWrite, !.chunk = NoChunk]
             \/ task' = [task EXCEPT !.at = "chunk"]
      BY <1>5 DEF CheckOverflow
    <2>2. task' \in TaskType /\ Len(task'.chunk.units) < CHUNK_UNITS
      BY <1>0, <1>2, <2>1, Nothing, ZenonT(40) DEF TaskType
    <2>3. <<>> \in Seq(Writes)
      OBVIOUS
    <2> QED BY <1>0, <2>1, <2>2, <2>3, DroppedType
  <1>6. CASE NoRoom
    <2>1. /\ overflow' \in {0, overflow} /\ written' \in {written, <<>>} /\ chunks' = chunks
          /\ \/ task' = [task EXCEPT !.at = "loop", !.held = NoWrite]
             \/ task' = [task EXCEPT !.at = "loop"]
      BY <1>6 DEF NoRoom
    <2>2. task' \in TaskType /\ task'.chunk = task.chunk
      BY <1>0, <2>1, Nothing, ZenonT(40) DEF TaskType
    <2>3. <<>> \in Seq(Writes)
      OBVIOUS
    <2>4. Len(task'.chunk.units) < CHUNK_UNITS
      BY <1>0, <2>2
    <2>5. overflow' \in Nat
      BY <1>0, <2>1
    <2>6. written' \in Seq(Writes)
      BY <1>0, <2>1, <2>3
    <2>7. chunks' \in Seq(Chunk)
      BY <1>0, <2>1
    <2> QED BY <2>2, <2>4, <2>5, <2>6, <2>7
  <1>7. CASE Fill
    <2>1. written' = written /\ overflow' = overflow
      BY <1>7 DEF Fill
    <2>2. task'.held \in Writes \cup {NoWrite}
      BY <1>7, FillEffect DEF Writes
    <2>3. task'.chunk \in Chunk /\ Len(task'.chunk.units) < CHUNK_UNITS
      BY <1>2, <1>7, FillEffect, Nothing
    <2>f. /\ Full \in Chunk
          /\ chunks' = chunks \/ chunks' \in {Append(chunks, Full), Append(chunks, NoChunk)}
      BY <1>7, FillEffect
    <2>4. chunks' \in Seq(Chunk)
      <3>1. Append(chunks, Full) \in Seq(Chunk) /\ Append(chunks, NoChunk) \in Seq(Chunk)
        BY <1>0, <2>f, Nothing
      <3> QED BY <1>0, <2>f, <3>1
    <2>5. task'.encGen \in Nat /\ task'.encoder \in Codecs
      BY <1>7, FillEffect DEF Writes, Chunk
    <2> DEFINE held == task'.held
               chunk == task'.chunk
               encGen == task'.encGen
               encoder == task'.encoder
    <2>6. task' = [at |-> "loop", fresh |-> FALSE, held |-> task'.held, chunk |-> task'.chunk,
                   encGen |-> task'.encGen, encoder |-> task'.encoder]
      BY <1>7, FillEffect
    <2>7. task' \in TaskType
      <3>1. /\ held \in Writes \cup {NoWrite} /\ chunk \in Chunk
            /\ encGen \in Nat /\ encoder \in Codecs
        BY <2>2, <2>3, <2>5
      <3>2. task' = [at |-> "loop", fresh |-> FALSE, held |-> held, chunk |-> chunk,
                     encGen |-> encGen, encoder |-> encoder]
        BY <2>6
      <3> HIDE DEF held, chunk, encGen, encoder
      <3> QED BY <3>1, <3>2 DEF TaskType
    <2> QED BY <1>0, <2>1, <2>3, <2>4, <2>7
  <1>8. CASE Leave
    <2>1. task' = TaskIdle /\ chunks' = Dropped(chunks) /\ UNCHANGED <<written, overflow>>
      BY <1>8 DEF Leave
    <2>2. TaskIdle \in TaskType /\ TaskIdle.chunk = NoChunk
      BY Nothing DEF TaskIdle, TaskType, Codecs
    <2> QED BY <1>0, <1>2, <2>1, <2>2, DroppedType
  <1> QED BY <1>3, <1>4, <1>5, <1>6, <1>7, <1>8 DEF TaskNext

LEMMA OtherStepTypes ==
    ASSUME SourceTypes, StreamInv, MainNext \/ StopSource \/ StartSource \/ SendChunk \/ ReturnLent
    PROVE  SourceTypes'
  <1>0. /\ peer \in SourcePeer /\ stream \in StreamType /\ heard \in HeardType
        /\ sourceEvents \in Seq(Events) /\ room \in Nat /\ listener \in ListenerType
        /\ task \in TaskType /\ chunks \in Seq(Chunk) /\ Len(task.chunk.units) < CHUNK_UNITS
        /\ lent \in Nat
    BY DEF SourceTypes, ProtocolTypes, MainTypes, TaskTypes
  <1>p. peer.owner \in BOOLEAN /\ peer.act \in BOOLEAN
    BY <1>0 DEF SourcePeer
  <1>1. SUFFICES /\ peer' \in SourcePeer /\ stream' \in StreamType /\ heard' \in HeardType
                 /\ sourceEvents' \in Seq(Events) /\ listener' \in ListenerType
                 /\ task' \in TaskType /\ chunks' \in Seq(Chunk)
                 /\ Len(task'.chunk.units) < CHUNK_UNITS /\ lent' \in Nat
    BY DEF MainNext, CatchUpSource, TakeEvent, ShutDown, JoinTask, Stopped, StopSource, StartSource,
           SendChunk, ReturnLent, MainOnly, protocolSide, SourceTypes, ProtocolTypes, MainTypes,
           CaptureTypes, TaskTypes
  <1>2. CASE CatchUpSource
    BY <1>0, <1>2 DEF CatchUpSource, MainOnly, StreamType, ListenerType
  <1>3. CASE TakeEvent
    <2> DEFINE e == Head(sourceEvents)
    <2>1. e \in Events /\ Tail(sourceEvents) \in Seq(Events)
      BY <1>0, <1>3 DEF TakeEvent
    <2>2. \/ listener' = listener
          \/ \E b \in BOOLEAN : listener' = [listener EXCEPT !.torn = e.torn, !.streaming = b]
      BY <1>0, <1>3 DEF TakeEvent, ListenerType
    <2>3. e.torn \in Nat
      BY <2>1 DEF Events
    <2> HIDE DEF e
    <2>4. listener' \in ListenerType
      BY <1>0, <2>2, <2>3 DEF ListenerType
    <2> QED BY <1>0, <1>3, <2>1, <2>4 DEF TakeEvent, MainOnly
  <1>4. CASE StopSource \/ Stopped
    BY <1>0, <1>4 DEF StopSource, Stopped, MainOnly, ListenerType
  <1>5. CASE ShutDown
    <2>1. Ended(Now, peer.owner, peer.act) \in Roles3
      BY <1>p, NowType, EndedType
    <2>2. peer' \in SourcePeer /\ listener' \in ListenerType
      BY <1>0, <1>5 DEF ShutDown, SourcePeer, ListenerType
    <2> QED BY <1>0, <1>5, <2>1, <2>2, BecomeType DEF ShutDown
  <1>6. CASE JoinTask
    <2>1. TornDown(Now) \in Roles3
      BY NowType, TornDownEffect
    <2>2. listener' \in ListenerType
      BY <1>0, <1>6 DEF JoinTask, ListenerType
    <2> QED BY <1>0, <1>6, <2>1, <2>2, BecomeType DEF JoinTask
  <1>7. CASE StartSource
    <2>1. [TaskIdle EXCEPT !.at = "loop"] \in TaskType
          /\ [TaskIdle EXCEPT !.at = "loop"].chunk = NoChunk
      BY Nothing DEF TaskIdle, TaskType, Codecs
    <2>2. Len(NoChunk.units) < CHUNK_UNITS
      BY Nothing, Sizes
    <2> QED BY <1>0, <1>7, <2>1, <2>2 DEF StartSource, MainOnly, ListenerType
  <1>8. CASE SendChunk
    <2> DEFINE chunk == Head(chunks)
    <2>1. chunk \in Chunk /\ Tail(chunks) \in Seq(Chunk)
      BY <1>0, <1>8 DEF SendChunk
    <2>2. \/ /\ Sendable(chunk) /\ lent' = lent + 1 /\ heard' = HeardChunk(heard, chunk)
             /\ UNCHANGED <<peer, stream, sourceEvents>>
          \/ Loses /\ lent' = lent
          \/ UNCHANGED <<protocolSide, sourceEvents, lent>>
      BY <1>8 DEF SendChunk
    <2>3. chunks' = Tail(chunks) /\ UNCHANGED <<listener, task>>
      BY <1>8 DEF SendChunk
    <2>4. Sendable(chunk) => HeardChunk(heard, chunk) \in HeardType
      BY <2>1, HeardChunkType DEF Sendable
    <2> HIDE DEF chunk
    <2>5. /\ peer' \in SourcePeer /\ stream' \in StreamType /\ heard' \in HeardType
          /\ sourceEvents' \in Seq(Events) /\ lent' \in Nat
      BY <1>0, <2>2, <2>4, LosesType DEF protocolSide
    <2> QED BY <1>0, <2>1, <2>3, <2>5
  <1>9. CASE ReturnLent
    BY <1>0, <1>9 DEF ReturnLent, protocolSide
  <1> QED BY <1>2, <1>3, <1>4, <1>5, <1>6, <1>7, <1>8, <1>9 DEF MainNext

-----------------------------------------------------------------------------
(* What the server has heard, and what the role has open or owes *)

LEMMA HeardEndEffect ==
    ASSUME NEW h \in HeardType, h.ok, h.open
    PROVE  /\ HeardEnd(h, TRUE).ok /\ ~HeardEnd(h, TRUE).open
           /\ HeardEnd(h, TRUE).upto = h.upto /\ HeardEnd(h, TRUE) \in HeardType
  BY DEF HeardEnd, HeardType

\* A connection that is lost takes the debt and the stream with it.
LEMMA LosesStream ==
    ASSUME SourceTypes, StreamInv, Running, Loses, listener' = listener
    PROVE  /\ StreamInv' /\ heard' = heard /\ peer' = [peer EXCEPT !.up = FALSE, !.owner = FALSE,
                                                                   !.act = FALSE]
           /\ stream'.gen = stream.gen /\ stream'.codec = stream.codec
  <1>1. peer \in SourcePeer /\ stream \in StreamType /\ heard \in HeardType
    BY DEF SourceTypes, ProtocolTypes
  <1>2. ~peer'.up /\ ~peer'.owner /\ ~peer'.act /\ peer'.id = peer.id
    BY <1>1 DEF Loses, SourcePeer
  <1>3. peer.up
    BY DEF Loses
  <1>4. CASE peer.owner
    <2>1. Become(TornDown(Now))
      BY <1>4 DEF Loses
    <2>2. /\ stream'.authorized = 0 /\ stream'.open = 0 /\ stream'.owed = 0 /\ ~stream'.gate
          /\ stream'.gen = stream.gen /\ stream'.codec = stream.codec /\ heard' = heard
      BY <2>1, NowType, TornDownEffect DEF Become
    <2> QED BY <1>1, <1>2, <2>2 DEF StreamInv, Loses
  <1>5. CASE ~peer.owner
    <2>1. stream' = stream /\ heard' = heard
      BY <1>5, NowType DEF Loses, Become
    <2>2. stream.open = 0 /\ stream.owed = 0 /\ ~stream.gate
      BY <1>1, <1>3, <1>5 DEF StreamInv, StreamType
    <2> QED BY <1>1, <1>2, <2>1, <2>2 DEF StreamInv, Loses
  <1> QED BY <1>4, <1>5

\* An end, as a command, an unavailable client or the shutdown make it.
LEMMA EndsEffect ==
    ASSUME SourceTypes, StreamInv, NEW owner \in BOOLEAN, NEW act \in BOOLEAN,
           owner = peer.owner, act = peer.act, Become(Ended(Now, owner, act))
    PROVE  /\ stream'.authorized = 0 /\ stream'.open = 0 /\ ~stream'.gate
           /\ stream'.gen = stream.gen /\ stream'.codec = stream.codec
           /\ stream'.torn = stream.torn
           /\ stream'.owed = IF stream.open # 0 /\ ~peer.act THEN peer.id ELSE stream.owed
           /\ heard'.ok /\ heard'.upto = heard.upto
           /\ IF stream.open # 0 /\ peer.act THEN ~heard'.open ELSE heard' = heard
           /\ sourceEvents' = IF stream.open = 0 THEN sourceEvents
                              ELSE Pushed(sourceEvents, "stopped", stream.torn)
  <1>1. peer \in SourcePeer /\ stream \in StreamType /\ heard \in HeardType
    BY DEF SourceTypes, ProtocolTypes
  <1>p. peer.owner \in BOOLEAN /\ peer.act \in BOOLEAN
    BY <1>1 DEF SourcePeer
  <1> DEFINE hears == stream.open # 0 /\ peer.owner /\ peer.id = stream.open /\ peer.up
  <1>2. /\ stream'.authorized = 0 /\ stream'.open = 0 /\ (stream'.gate => stream.gate /\ stream.open = 0)
        /\ stream'.gen = stream.gen /\ stream'.codec = stream.codec
        /\ stream'.torn = stream.torn
        /\ stream'.owed = IF hears /\ ~peer.act THEN peer.id ELSE stream.owed
        /\ heard' = IF hears /\ peer.act THEN HeardEnd(heard, TRUE) ELSE heard
        /\ sourceEvents' = IF stream.open = 0 THEN sourceEvents
                           ELSE Pushed(sourceEvents, "stopped", stream.torn)
    <2> DEFINE e == Ended(Now, owner, act)
    <2>1. stream' = e.stream /\ heard' = e.heard /\ sourceEvents' = e.sourceEvents
      BY DEF Become
    <2>2. EndedAs(e, Now, owner, act)
      BY NowType, EndedEffect
    <2> HIDE DEF e
    <2> QED BY <2>1, <2>2, NowType DEF EndedAs
  <1>3. hears <=> stream.open # 0
    BY <1>1 DEF StreamInv
  <1>4. ~stream'.gate
    BY <1>1, <1>2 DEF StreamInv
  <1>5. CASE stream.open # 0 /\ peer.act
    <2>1. heard.open /\ heard.ok
      BY <1>5 DEF StreamInv
    <2>2. heard'.ok /\ ~heard'.open /\ heard'.upto = heard.upto
      BY <1>1, <1>2, <1>3, <1>5, <2>1, HeardEndEffect
    <2> QED BY <1>2, <1>3, <1>4, <1>5, <2>2
  <1>6. CASE ~(stream.open # 0 /\ peer.act)
    <2>1. heard' = heard /\ heard.ok
      BY <1>2, <1>3, <1>6 DEF StreamInv
    <2> QED BY <1>2, <1>3, <1>4, <1>6, <2>1
  <1> QED BY <1>5, <1>6

LEMMA EndsStream ==
    ASSUME SourceTypes, StreamInv, NEW owner \in BOOLEAN, NEW act \in BOOLEAN,
           owner = peer.owner, act = peer.act, Become(Ended(Now, owner, act)),
           peer' = peer, listener' = listener
    PROVE  /\ StreamInv' /\ heard'.upto = heard.upto
           /\ stream'.gen = stream.gen /\ stream'.codec = stream.codec
  <1>1. peer \in SourcePeer /\ stream \in StreamType /\ heard \in HeardType
    BY DEF SourceTypes, ProtocolTypes
  <1>2. CASE stream.open = 0
    BY <1>1, <1>2, EndsEffect DEF StreamInv, Running
  <1>3. CASE stream.open # 0
    BY <1>1, <1>3, EndsEffect DEF StreamInv, Running
  <1> QED BY <1>2, <1>3

\* An activation pays what a quiet window owes, and may take the role away.
LEMMA ActivationStream ==
    ASSUME SourceTypes, StreamInv, NEW owner \in BOOLEAN, Activation(owner)
    PROVE  /\ StreamInv' /\ heard'.upto = heard.upto
           /\ stream'.gen = stream.gen /\ stream'.codec = stream.codec
  <1>1. peer \in SourcePeer /\ stream \in StreamType /\ heard \in HeardType
    BY DEF SourceTypes, ProtocolTypes
  <1>2. /\ peer'.act /\ peer'.owner = owner /\ peer'.up /\ peer'.id = peer.id /\ peer.up
        /\ listener' = listener /\ Running
        /\ peer.act => owner # peer.owner
    BY <1>1 DEF Activation, SourcePeer, Protocol
  <1> DEFINE owes == stream.owed # 0 /\ stream.owed = peer.id
             paid == Paid(Now)
  <1>3. /\ paid \in Roles3
        /\ paid.stream.owed = IF owes THEN 0 ELSE stream.owed
        /\ paid.stream.authorized = stream.authorized /\ paid.stream.open = stream.open
        /\ paid.stream.gate = stream.gate /\ paid.stream.gen = stream.gen
        /\ paid.stream.codec = stream.codec
        /\ paid.heard = IF owes THEN HeardEnd(heard, TRUE) ELSE heard
    BY PaidEffect
  <1> HIDE DEF paid
  <1>4. paid.stream.owed = 0
    BY <1>2, <1>3 DEF StreamInv
  <1>5. paid.heard \in HeardType
    BY <1>3 DEF Roles3
  <1>6. /\ paid.heard.ok /\ paid.heard.upto = heard.upto
        /\ paid.heard.open <=> stream.open # 0
        /\ stream.open # 0 => paid.heard = heard
    <2>1. CASE owes
      <3>1. heard.open /\ heard.ok /\ stream.open = 0
        BY <1>2, <2>1 DEF StreamInv
      <3> QED BY <1>1, <1>3, <2>1, <3>1, HeardEndEffect
    <2>2. CASE ~owes
      <3>1. stream.owed = 0
        BY <1>2, <2>2 DEF StreamInv
      <3>2. heard.open <=> stream.open # 0
        BY <1>1, <1>2, <3>1 DEF StreamInv, SourcePeer, StreamType, HeardType
      <3> QED BY <1>3, <2>2, <3>2 DEF StreamInv
    <2> QED BY <2>1, <2>2
  <1>7. CASE peer.owner /\ ~owner
    <2> DEFINE over == Ended(paid, TRUE, TRUE)
               hears == stream.open # 0 /\ peer.id = stream.open /\ peer.up
    <2>1. Become(TornDown(over))
      BY <1>7 DEF Activation, paid
    <2>2. /\ over \in Roles3 /\ over.stream.gen = stream.gen /\ over.stream.codec = stream.codec
          /\ over.heard = IF hears THEN HeardEnd(paid.heard, TRUE) ELSE paid.heard
      <3>1. EndedAs(over, paid, TRUE, TRUE)
        BY <1>3, EndedEffect
      <3> HIDE DEF over
      <3> QED BY <1>3, <3>1 DEF EndedAs
    <2> HIDE DEF over
    <2>3. /\ stream'.authorized = 0 /\ stream'.open = 0 /\ stream'.owed = 0 /\ ~stream'.gate
          /\ stream'.gen = stream.gen /\ stream'.codec = stream.codec /\ heard' = over.heard
      BY <2>1, <2>2, TornDownEffect DEF Become
    <2>4. hears <=> stream.open # 0
      BY <1>2 DEF StreamInv
    <2>5. over.heard.ok /\ ~over.heard.open /\ over.heard.upto = heard.upto
      BY <1>5, <1>6, <2>2, <2>4, HeardEndEffect
    <2> QED BY <1>2, <2>3, <2>5 DEF StreamInv, Running
  <1>8. CASE ~(peer.owner /\ ~owner)
    <2>1. Become(paid)
      BY <1>8 DEF Activation, paid
    <2>2. stream' = paid.stream /\ heard' = paid.heard
      BY <2>1 DEF Become
    <2>3. stream.open # 0 => owner
      BY <1>8 DEF StreamInv
    <2> QED BY <1>1, <1>2, <1>3, <1>4, <1>6, <2>2, <2>3 DEF StreamInv, Running
  <1> QED BY <1>7, <1>8

\* A stream opens on a connection that hears none.
LEMMA OpensStream ==
    ASSUME SourceTypes, StreamInv, TryOpen
    PROVE  /\ StreamInv'
           /\ \/ stream'.gen = stream.gen /\ stream'.codec = stream.codec /\ heard' = heard
              \/ stream'.gen = stream.gen + 1 /\ stream'.codec # "none" /\ heard'.upto = 0
  <1>1. peer \in SourcePeer /\ stream \in StreamType /\ heard \in HeardType
    BY DEF SourceTypes, ProtocolTypes
  <1> DEFINE gen   == stream.gen + 1
             codec == IF peer.lists THEN "flac" ELSE "pcm"
  <1>2. /\ peer' = peer /\ listener' = listener /\ Running
        /\ stream.authorized # 0 /\ stream.authorized = peer.id /\ peer.owner /\ peer.act
    BY DEF TryOpen, MayOpen, Protocol
  <1>3. peer.up /\ stream.open = 0 /\ stream.owed = 0 /\ ~heard.open /\ ~stream.gate /\ heard.ok
    BY <1>1, <1>2 DEF StreamInv, StreamType, SourcePeer
  <1>4. CASE /\ stream' = [stream EXCEPT !.authorized = 0, !.open = peer.id, !.gate = TRUE,
                                         !.gen = gen, !.codec = codec]
             /\ heard' = HeardStart(heard, codec, gen)
    <2>1. /\ stream'.authorized = 0 /\ stream'.open = peer.id /\ stream'.gate
          /\ stream'.gen = gen /\ stream'.codec = codec /\ stream'.owed = 0
      BY <1>1, <1>3, <1>4 DEF StreamType
    <2>2. /\ heard'.open /\ heard'.gen = gen /\ heard'.codec = codec /\ heard'.upto = 0
          /\ heard'.ok
      BY <1>2, <1>3, <1>4 DEF HeardStart
    <2>3. codec # "none"
      OBVIOUS
    <2> QED BY <1>2, <1>3, <2>1, <2>2, <2>3 DEF StreamInv, Running
  <1>5. CASE stream' = [stream EXCEPT !.authorized = 0] /\ heard' = heard
    <2>1. /\ stream'.authorized = 0 /\ stream'.open = stream.open /\ stream'.gate = stream.gate
          /\ stream'.gen = stream.gen /\ stream'.codec = stream.codec
          /\ stream'.owed = stream.owed
      BY <1>1, <1>5 DEF StreamType
    <2> QED BY <1>2, <1>3, <1>5, <2>1 DEF StreamInv, Running
  <1> QED BY <1>4, <1>5 DEF TryOpen

LEMMA ProtocolStream ==
    ASSUME SourceTypes, StreamInv,
           \/ StartCommand \/ StopCommand \/ Unavailable \/ Connected \/ QuietWindow
           \/ (\E owner \in BOOLEAN : Activation(owner)) \/ SourceLost
    PROVE  /\ StreamInv' /\ heard'.upto \in {0, heard.upto}
           /\ stream'.gen = stream.gen /\ stream'.codec = stream.codec
  <1>1. peer \in SourcePeer /\ stream \in StreamType /\ heard \in HeardType
    BY DEF SourceTypes, ProtocolTypes
  <1>p. peer.owner \in BOOLEAN /\ peer.act \in BOOLEAN /\ peer.id \in Nat
    BY <1>1, Sizes DEF SourcePeer
  <1>2. listener' = listener
    BY DEF StartCommand, StopCommand, Unavailable, Connected, QuietWindow, Activation, SourceLost,
           Protocol
  <1>3. CASE StartCommand
    <2>1. /\ peer' = peer /\ heard' = heard /\ peer.up /\ stream.open = 0
          /\ stream.gen < MaxOpenings /\ stream' = [stream EXCEPT !.authorized = peer.id]
      BY <1>3 DEF StartCommand
    <2>2. /\ stream'.authorized = peer.id /\ stream'.open = stream.open
          /\ stream'.gate = stream.gate /\ stream'.gen = stream.gen
          /\ stream'.codec = stream.codec /\ stream'.owed = stream.owed
      BY <1>1, <2>1 DEF StreamType
    <2> QED BY <1>2, <2>1, <2>2 DEF StreamInv, Running
  <1>4. CASE StopCommand
    <2>1. Become(Ended(Now, TRUE, TRUE)) /\ peer.owner /\ peer.act /\ peer' = peer
      BY <1>4 DEF StopCommand
    <2>2. peer.owner = TRUE /\ peer.act = TRUE
      BY <1>p, <2>1
    <2> QED BY <1>2, <2>1, <2>2, EndsStream
  <1>5. CASE Unavailable
    BY <1>2, <1>p, <1>5, EndsStream DEF Unavailable
  <1>6. CASE Connected
    <2>1. /\ ~peer.up /\ stream' = stream /\ heard' = Silent /\ listener.at = "idle"
          /\ peer'.up /\ peer'.owner /\ peer'.act /\ peer'.id = peer.id + 1
      BY <1>6 DEF Connected
    <2>2. stream.open = 0 /\ stream.owed = 0
      BY <2>1 DEF StreamInv
    <2>3. heard'.ok /\ ~heard'.open /\ heard'.upto = 0
      BY <2>1 DEF Silent
    <2> QED BY <1>2, <1>p, <2>1, <2>2, <2>3 DEF StreamInv, Running
  <1>7. CASE QuietWindow
    <2>1. /\ peer.up /\ peer.act /\ stream' = stream /\ heard' = heard
          /\ peer' = [peer EXCEPT !.act = FALSE]
      BY <1>7 DEF QuietWindow
    <2>2. ~peer'.act /\ peer'.up /\ peer'.owner = peer.owner /\ peer'.id = peer.id
      BY <1>1, <2>1 DEF SourcePeer
    <2> QED BY <1>2, <2>1, <2>2 DEF StreamInv, Running
  <1>8. ASSUME NEW owner \in BOOLEAN, Activation(owner)
        PROVE  /\ StreamInv' /\ heard'.upto \in {0, heard.upto}
               /\ stream'.gen = stream.gen /\ stream'.codec = stream.codec
    BY <1>8, ActivationStream
  <1>9. CASE SourceLost
    BY <1>2, <1>9, LosesStream DEF SourceLost, Protocol
  <1> QED BY <1>3, <1>4, <1>5, <1>6, <1>7, <1>8, <1>9

\* A chunk that is sent is the next of the stream the server hears.
LEMMA SendsStream ==
    ASSUME SourceTypes, StreamInv, GensInv, OrderInv, WholeChunks, SendChunk
    PROVE  /\ StreamInv' /\ stream'.gen = stream.gen /\ stream'.codec = stream.codec
           /\ \/ heard' = heard
              \/ /\ chunks[1].units # <<>>
                 /\ heard'.upto = chunks[1].units[Len(chunks[1].units)]
  <1>1. /\ peer \in SourcePeer /\ stream \in StreamType /\ heard \in HeardType
        /\ chunks \in Seq(Chunk)
    BY DEF SourceTypes, ProtocolTypes, TaskTypes
  <1> DEFINE chunk == Head(chunks)
  <1>2. listener' = listener /\ chunks # <<>> /\ chunk = chunks[1] /\ Running /\ chunk \in Chunk
        /\ 1 \in 1 .. Len(chunks)
    BY <1>1 DEF SendChunk
  <1> HIDE DEF chunk
  <1>3. CASE /\ Sendable(chunk) /\ heard' = HeardChunk(heard, chunk)
             /\ UNCHANGED <<peer, stream, sourceEvents>>
    <2>1. /\ chunk.units # <<>> /\ stream.gate /\ stream.gen = chunk.gen
          /\ peer.act
      BY <1>3 DEF Sendable, Admits
    <2>2. stream.open # 0 /\ heard.open /\ heard.gen = stream.gen /\ heard.codec = stream.codec
          /\ heard.ok
      BY <2>1 DEF StreamInv
    <2>3. chunk.codec = stream.codec
      <3>1. chunk # NoChunk
        BY <2>1, Nothing
      <3> QED BY <1>2, <2>1, <3>1 DEF GensInv, OfStream, OfThis
    <2>4. chunk.units[1] > heard.upto
      <3>1. chunk.units \in Seq(Nat)
        BY <1>2 DEF Chunk
      <3>2. 1 \in 1 .. Len(chunk.units)
        BY <2>1, <3>1
      <3>3. heard.upto < chunk.units[1]
        BY <1>2, <3>2 DEF OrderInv, InOrder, After
      <3> QED BY <1>1, <3>1, <3>2, <3>3 DEF HeardType
    <2>r. Rising(chunk.units)
      BY <1>2 DEF OrderInv, InOrder
    <2>w. Len(chunk.units) = CHUNK_UNITS
      <3>1. chunk.units \in Seq(Nat)
        BY <1>2 DEF Chunk
      <3>2. Len(chunk.units) # 0
        BY <2>1, <3>1
      <3> QED BY <1>2, <3>2 DEF WholeChunks
    <2>5. /\ heard'.ok /\ heard'.open = heard.open /\ heard'.gen = heard.gen
          /\ heard'.codec = heard.codec
          /\ heard'.upto = chunk.units[Len(chunk.units)]
      BY <1>2, <1>3, <2>1, <2>2, <2>3, <2>4, <2>r, <2>w, HeardChunkType
    <2> QED BY <1>2, <1>3, <2>1, <2>5 DEF StreamInv, Running
  <1>4. CASE Loses
    BY <1>2, <1>4, LosesStream
  <1>5. CASE UNCHANGED <<protocolSide, sourceEvents, lent>>
    BY <1>2, <1>5 DEF StreamInv, Running, protocolSide
  <1> QED BY <1>3, <1>4, <1>5 DEF SendChunk, chunk

LEMMA ShutDownStream ==
    ASSUME SourceTypes, StreamInv, ShutDown
    PROVE  /\ StreamInv' /\ heard'.upto = heard.upto
           /\ stream'.gen = stream.gen /\ stream'.codec = stream.codec
  <1>1. peer \in SourcePeer /\ stream \in StreamType /\ listener \in ListenerType
    BY DEF SourceTypes, ProtocolTypes, MainTypes
  <1>2. peer.owner \in BOOLEAN /\ peer.act \in BOOLEAN
    BY <1>1 DEF SourcePeer
  <1>3. /\ ~peer'.up /\ ~peer'.owner /\ ~peer'.act /\ peer'.id = peer.id
        /\ listener'.at = "stopping"
    BY <1>1 DEF ShutDown, SourcePeer, ListenerType
  <1>4. Become(Ended(Now, peer.owner, peer.act))
    BY DEF ShutDown
  <1> QED BY <1>2, <1>3, <1>4, EndsEffect DEF StreamInv

LEMMA MainStream ==
    ASSUME SourceTypes, StreamInv,
           CatchUpSource \/ TakeEvent \/ JoinTask \/ Stopped \/ StopSource \/ StartSource
    PROVE  /\ StreamInv' /\ heard' = heard
           /\ stream'.gen = stream.gen /\ stream'.codec = stream.codec
  <1>1. listener \in ListenerType
    BY DEF SourceTypes, MainTypes
  <1>2. CASE JoinTask
    <2>1. Become(TornDown(Now)) /\ peer' = peer /\ ~Running
      BY <1>2 DEF JoinTask, Running
    <2>2. /\ stream'.authorized = 0 /\ stream'.open = 0 /\ stream'.owed = 0 /\ ~stream'.gate
          /\ stream'.gen = stream.gen /\ stream'.codec = stream.codec /\ heard' = heard
      BY <2>1, NowType, TornDownEffect DEF Become
    <2> QED BY <2>1, <2>2 DEF StreamInv
  <1>3. CASE CatchUpSource \/ TakeEvent
    <2>1. UNCHANGED <<peer, stream, heard>> /\ listener'.at = listener.at
      BY <1>1, <1>3 DEF CatchUpSource, TakeEvent, MainOnly, ListenerType
    <2> QED BY <2>1 DEF StreamInv, Running
  <1>4. CASE StopSource
    <2>1. UNCHANGED <<peer, stream, heard>> /\ listener.at = "idle" /\ listener'.at = "closing"
      BY <1>1, <1>4 DEF StopSource, MainOnly, ListenerType
    <2> QED BY <2>1 DEF StreamInv, Running
  <1>5. CASE Stopped \/ StartSource
    <2>1. /\ UNCHANGED <<peer, stream, heard>>
          /\ listener.at \in {"draining", "stopped"} /\ listener'.at \in {"stopped", "idle"}
      BY <1>1, <1>5 DEF Stopped, StartSource, MainOnly, ListenerType
    <2>2. ~peer.up /\ stream.owed = 0 /\ stream.open = 0
      BY <2>1 DEF StreamInv, Running
    <2> QED BY <2>1, <2>2 DEF StreamInv, Running
  <1> QED BY <1>2, <1>3, <1>4, <1>5

-----------------------------------------------------------------------------
(* The streams that what is on its way belongs to *)

\* A new stream is none that anything on its way belongs to.
LEMMA StreamGens ==
    ASSUME SourceTypes, GensInv, UNCHANGED <<capture, written, task>>,
           chunks' = chunks \/ (chunks # <<>> /\ chunks' = Tail(chunks)) \/ chunks' = <<>>,
           \/ stream'.gen = stream.gen /\ stream'.codec = stream.codec
           \/ stream'.gen = stream.gen + 1
    PROVE  GensInv'
  <1>1. /\ capture.gen \in Nat /\ written \in Seq(Writes) /\ task.held.gen \in Nat
        /\ task.encGen \in Nat /\ task.chunk \in Chunk /\ chunks \in Seq(Chunk)
        /\ stream.gen \in Nat
    <2>1. task.held.gen \in Nat
      BY Nothing DEF SourceTypes, TaskTypes, TaskType, Writes
    <2> QED BY <2>1, Sizes DEF SourceTypes, CaptureTypes, TaskTypes, TaskType, ProtocolTypes, StreamType
  <1>2. \A c \in Chunk : OfStream(c) => OfThis(c, stream'.gen, stream'.codec)
    <2>1. \A c \in Chunk : c.gen \in Nat
      BY DEF Chunk
    <2> QED BY <1>1, <2>1 DEF OfStream, OfThis
  <1>3. \A i \in 1 .. Len(chunks') : chunks'[i] \in Chunk /\ OfStream(chunks'[i])
    <2>1. CASE chunks' = chunks
      BY <1>1, <2>1 DEF GensInv
    <2>2. CASE chunks # <<>> /\ chunks' = Tail(chunks)
      <3>1. SUFFICES ASSUME NEW i \in 1 .. Len(Tail(chunks))
                     PROVE  Tail(chunks)[i] \in Chunk /\ OfStream(Tail(chunks)[i])
        BY <2>2
      <3>2. Tail(chunks)[i] = chunks[i + 1] /\ i + 1 \in 1 .. Len(chunks)
        BY <1>1, <2>2
      <3> QED BY <1>1, <3>2 DEF GensInv
    <2>3. CASE chunks' = <<>>
      BY <2>3
    <2> QED BY <2>1, <2>2, <2>3
  <1>4. \A i \in 1 .. Len(chunks') : OfThis(chunks'[i], stream'.gen, stream'.codec)
    BY <1>2, <1>3
  <1>5. OfThis(task.chunk, stream'.gen, stream'.codec)
    BY <1>1, <1>2 DEF GensInv
  <1>6. /\ capture.gen <= stream'.gen /\ task.held.gen <= stream'.gen
        /\ task.encGen <= stream'.gen
        /\ task.encGen # 0 /\ task.encGen = stream'.gen => task.encoder = stream'.codec
    BY <1>1 DEF GensInv
  <1>7. \A i \in 1 .. Len(written) : written[i].gen <= stream'.gen
    <2>1. \A i \in 1 .. Len(written) : written[i].gen \in Nat /\ written[i].gen <= stream.gen
      <3>1. \A i \in 1 .. Len(written) : written[i] \in Writes
        BY <1>1
      <3> QED BY <3>1 DEF GensInv, Writes
    <2> QED BY <1>1, <2>1
  <1> QED BY <1>4, <1>5, <1>6, <1>7 DEF GensInv, KeepsChunk, OfStream

LEMMA CaptureGens ==
    ASSUME SourceTypes, GensInv, ReadGate \/ Refuse \/ (\E len \in WriteUnits : Write(len))
    PROVE  GensInv'
  <1>1. /\ capture \in [gen : Nat, n : Nat] /\ written \in Seq(Writes) /\ stream.gen \in Nat
    BY Sizes DEF SourceTypes, CaptureTypes, ProtocolTypes, StreamType
  <1>2. UNCHANGED <<stream, task, chunks>>
    BY DEF ReadGate, Refuse, Write, Captures, protocolSide
  <1>3. capture'.gen <= stream.gen
    <2>1. \/ capture' = [capture EXCEPT !.gen = stream.gen]
          \/ capture' = [capture EXCEPT !.gen = 0]
          \/ \E n : capture' = [gen |-> 0, n |-> n]
      BY DEF ReadGate, Refuse, Write
    <2>2. capture'.gen \in {0, stream.gen}
      BY <1>1, <2>1
    <2> QED BY <1>1, <2>2
  <1>4. \A i \in 1 .. Len(written') : written'[i].gen <= stream.gen
    <2>1. \/ written' = written
          \/ \E w : w.gen = capture.gen /\ written' = Append(written, w)
      BY DEF ReadGate, Refuse, Write
    <2> QED BY <1>1, <2>1 DEF GensInv
  <1> QED BY <1>2, <1>3, <1>4 DEF GensInv, KeepsChunk, OfStream, OfThis

LEMMA TaskGens ==
    ASSUME SourceTypes, GensInv, TaskNext
    PROVE  GensInv'
  <1>1. /\ written \in Seq(Writes) /\ task \in TaskType /\ chunks \in Seq(Chunk)
        /\ stream.gen \in Nat
    BY Sizes DEF SourceTypes, CaptureTypes, TaskTypes, ProtocolTypes, StreamType
  <1>2. UNCHANGED <<stream, capture>>
    BY DEF TaskNext, TakeWrite, CheckGate, CheckOverflow, NoRoom, Fill, Leave, Tasks, protocolSide
  <1>n. OfStream(NoChunk)
    BY <1>1, Nothing DEF OfStream, OfThis
  <1>d. \A i \in 1 .. Len(Dropped(chunks)) : OfStream(Dropped(chunks)[i])
    <2>1. Dropped(chunks) = chunks \/ Dropped(chunks) = Append(chunks, NoChunk)
      BY DEF Dropped
    <2>2. \A i \in 1 .. Len(chunks) : OfStream(chunks[i])
      BY DEF GensInv
    <2>3. CASE Dropped(chunks) = chunks
      BY <2>2, <2>3
    <2>4. CASE Dropped(chunks) = Append(chunks, NoChunk)
      <3>1. \A i \in 1 .. Len(Dropped(chunks)) :
               \/ i \in 1 .. Len(chunks) /\ Dropped(chunks)[i] = chunks[i]
               \/ Dropped(chunks)[i] = NoChunk
        BY <1>1, <2>4, Nothing
      <3> QED BY <1>n, <2>2, <3>1
    <2> QED BY <2>1, <2>3, <2>4
  <1>3. SUFFICES
          /\ \A i \in 1 .. Len(written') : written'[i].gen <= stream.gen
          /\ task'.held.gen <= stream.gen /\ task'.encGen <= stream.gen
          /\ task'.encGen # 0 /\ task'.encGen = stream.gen => task'.encoder = stream.codec
          /\ OfStream(task'.chunk)
          /\ \A i \in 1 .. Len(chunks') : OfStream(chunks'[i])
          /\ task'.at \in {"gate", "overflow", "chunk"} => task'.held # NoWrite
          /\ task'.at \in {"overflow", "chunk"} =>
                task'.chunk = NoChunk \/ task'.chunk.gen = task'.held.gen
    BY <1>2 DEF GensInv, OfStream, OfThis, KeepsChunk
  <1>w. ASSUME written' \in {written, <<>>} \/ (written # <<>> /\ written' = Tail(written))
        PROVE  \A i \in 1 .. Len(written') : written'[i].gen <= stream.gen
    <2>0. \A i \in 1 .. Len(written) : written[i].gen <= stream.gen
      BY DEF GensInv
    <2>1. CASE written # <<>> /\ written' = Tail(written)
      <3>1. \A i \in 1 .. Len(written') :
               i + 1 \in 1 .. Len(written) /\ written'[i] = written[i + 1]
        BY <1>1, <2>1
      <3> QED BY <2>0, <3>1
    <2>2. CASE written' \in {written, <<>>}
      BY <2>0, <2>2
    <2> QED BY <1>w, <2>1, <2>2
  <1>4. CASE TakeWrite
    <2>1. /\ chunks' = chunks
          /\ \/ /\ written # <<>> /\ written' = Tail(written)
                /\ task' = [task EXCEPT !.at = "gate", !.held = Head(written), !.fresh = TRUE]
             \/ /\ written' = written /\ task.held # NoWrite
                /\ task' = [task EXCEPT !.at = "gate", !.fresh = FALSE]
      BY <1>4 DEF TakeWrite
    <2>2. /\ task'.at = "gate" /\ task'.chunk = task.chunk /\ task'.encGen = task.encGen
          /\ task'.encoder = task.encoder
      BY <1>1, <2>1 DEF TaskType
    <2>3. task'.held # NoWrite /\ task'.held.gen <= stream.gen
      <3>1. CASE task'.held = Head(written) /\ written # <<>>
        <4>1. Head(written) \in Writes /\ Head(written).gen <= stream.gen
          BY <1>1, <3>1 DEF GensInv
        <4> QED BY <3>1, <4>1, Nothing
      <3>2. CASE task'.held = task.held /\ task.held # NoWrite
        BY <3>2 DEF GensInv
      <3> QED BY <1>1, <2>1, <3>1, <3>2 DEF TaskType
    <2> QED BY <1>w, <2>1, <2>2, <2>3 DEF GensInv
  <1>5. CASE CheckGate
    <2>1. CASE ~Admits(task.held.gen)
      <3>1. /\ task' = [task EXCEPT !.at = "loop", !.held = NoWrite, !.chunk = NoChunk]
            /\ chunks' = Dropped(chunks) /\ written' = written
        BY <1>5, <2>1 DEF CheckGate
      <3>2. /\ task'.at = "loop" /\ task'.held = NoWrite /\ task'.chunk = NoChunk
            /\ task'.encGen = task.encGen /\ task'.encoder = task.encoder
        BY <1>1, <3>1 DEF TaskType
      <3> QED BY <1>1, <1>d, <1>n, <3>1, <3>2, Nothing DEF GensInv
    <2>2. CASE Admits(task.held.gen)
      <3>1. /\ task' = [task EXCEPT !.at = IF task.fresh THEN "overflow" ELSE "chunk",
                              !.chunk = IF KeepsChunk(task.held.gen) THEN @ ELSE NoChunk]
            /\ chunks' = chunks \/ chunks' = Dropped(chunks)
            /\ written' = written /\ task.at = "gate"
        BY <1>5, <2>2 DEF CheckGate
      <3>2. /\ task'.held = task.held
            /\ task'.encGen = task.encGen /\ task'.encoder = task.encoder
            /\ task'.chunk = IF KeepsChunk(task.held.gen) THEN task.chunk ELSE NoChunk
        BY <1>1, <3>1 DEF TaskType
      <3>3. task'.chunk = NoChunk \/ task'.chunk.gen = task'.held.gen
        BY <3>2 DEF KeepsChunk
      <3>4. OfStream(task'.chunk) /\ task'.held # NoWrite
        BY <1>n, <3>1, <3>2 DEF GensInv
      <3> QED BY <1>d, <3>1, <3>2, <3>3, <3>4 DEF GensInv
    <2> QED BY <2>1, <2>2
  <1>6. CASE CheckOverflow
    <2>1. CASE overflow = task.held.gen
      <3>1. /\ task' = [task EXCEPT !.at = "loop", !.held = NoWrite, !.chunk = NoChunk]
            /\ chunks' = Dropped(chunks) /\ written' = <<>>
        BY <1>6, <2>1 DEF CheckOverflow
      <3>2. /\ task'.at = "loop" /\ task'.held = NoWrite /\ task'.chunk = NoChunk
            /\ task'.encGen = task.encGen /\ task'.encoder = task.encoder
        BY <1>1, <3>1 DEF TaskType
      <3> QED BY <1>1, <1>d, <1>n, <1>w, <3>1, <3>2, Nothing DEF GensInv
    <2>2. CASE overflow # task.held.gen
      <3>1. /\ task' = [task EXCEPT !.at = "chunk"] /\ chunks' = chunks /\ written' = written
            /\ task.at = "overflow"
        BY <1>6, <2>2 DEF CheckOverflow
      <3>2. /\ task'.held = task.held /\ task'.chunk = task.chunk
            /\ task'.encGen = task.encGen /\ task'.encoder = task.encoder
        BY <1>1, <3>1 DEF TaskType
      <3> QED BY <3>1, <3>2 DEF GensInv, KeepsChunk
    <2> QED BY <2>1, <2>2
  <1>7. CASE NoRoom
    <2>1. /\ written' \in {written, <<>>} /\ chunks' = chunks
          /\ \/ task' = [task EXCEPT !.at = "loop", !.held = NoWrite]
             \/ task' = [task EXCEPT !.at = "loop"]
      BY <1>7 DEF NoRoom
    <2>2. /\ task'.at = "loop" /\ task'.held \in {task.held, NoWrite}
          /\ task'.chunk = task.chunk
          /\ task'.encGen = task.encGen /\ task'.encoder = task.encoder
      BY <1>1, <2>1 DEF TaskType
    <2> QED BY <1>1, <1>w, <2>1, <2>2, Nothing DEF GensInv
  <1>8. CASE Fill
    <2>1. task.held \in Writes /\ task.held.gen \in Nat \ {0} /\ task.held.gen <= stream.gen
      BY <1>8, FillEffect DEF Writes, GensInv
    <2>2. /\ Begun.gen = task.held.gen
          /\ task.held.gen = stream.gen => Begun.codec = stream.codec
      <3>1. CASE task.chunk = NoChunk
        <4>1. Begun = [gen |-> task.held.gen, codec |-> Encoder(task.held.gen), units |-> <<>>]
          BY <3>1 DEF Begun
        <4>2. task.held.gen = stream.gen => Encoder(task.held.gen) = stream.codec
          BY <2>1 DEF Encoder, GensInv
        <4> QED BY <4>1, <4>2
      <3>2. CASE task.chunk # NoChunk
        <4>1. Begun = task.chunk /\ task.at = "chunk"
          BY <1>8, <3>2 DEF Begun, Fill
        <4> QED BY <3>2, <4>1 DEF GensInv, KeepsChunk, OfStream, OfThis
      <3> QED BY <3>1, <3>2
    <2>3. OfStream(Full)
      <3>1. Full.gen = Begun.gen /\ Full.codec = Begun.codec
        BY <1>8, FillEffect
      <3> QED BY <2>1, <2>2, <3>1 DEF OfStream, OfThis
    <2>4. /\ task'.at = "loop" /\ task'.held.gen <= stream.gen /\ written' = written
      <3>1. task'.held = IF Left = <<>> THEN NoWrite ELSE [task.held EXCEPT !.units = Left]
        BY <1>8, FillEffect
      <3>2. task'.held.gen \in {0, task.held.gen}
        BY <2>1, <3>1, Nothing DEF Writes
      <3>3. task'.at = "loop" /\ written' = written
        BY <1>8, FillEffect DEF Fill
      <3> QED BY <1>1, <2>1, <3>2, <3>3
    <2>5. /\ task'.encGen = task.held.gen /\ task'.encoder = Begun.codec
      BY <1>8, FillEffect
    <2>6. OfStream(task'.chunk)
      BY <1>8, <1>n, <2>3, FillEffect
    <2>7. \A i \in 1 .. Len(chunks') : OfStream(chunks'[i])
      <3>1. chunks' = chunks \/ \E c \in {Full, NoChunk} : chunks' = Append(chunks, c)
        BY <1>8, FillEffect
      <3>2. \A i \in 1 .. Len(chunks) : OfStream(chunks[i])
        BY DEF GensInv
      <3> QED BY <1>1, <1>n, <2>3, <3>1, <3>2, SMTT(30)
    <2> QED BY <1>w, <2>1, <2>2, <2>4, <2>5, <2>6, <2>7
  <1>9. CASE Leave
    <2>1. task' = TaskIdle /\ chunks' = Dropped(chunks) /\ written' = written
      BY <1>9 DEF Leave
    <2>2. /\ task'.at = "out" /\ task'.held = NoWrite /\ task'.chunk = NoChunk
          /\ task'.encGen = 0
      BY <2>1 DEF TaskIdle
    <2> QED BY <1>1, <1>d, <1>n, <2>1, <2>2, Nothing DEF GensInv
  <1> QED BY <1>4, <1>5, <1>6, <1>7, <1>8, <1>9 DEF TaskNext

-----------------------------------------------------------------------------
(* The order of the units *)

LEMMA UnitsType ==
    /\ \A q \in Seq(Chunk) : \A i \in 1 .. Len(q) : q[i].units \in Seq(Nat)
    /\ \A w \in Seq(Writes) : \A j \in 1 .. Len(w) : w[j].units \in Seq(Nat)
  <1>1. \A q \in Seq(Chunk) : \A i \in 1 .. Len(q) : q[i] \in Chunk
    OBVIOUS
  <1>2. \A w \in Seq(Writes) : \A j \in 1 .. Len(w) : w[j] \in Writes
    OBVIOUS
  <1>3. (\A c \in Chunk : c.units \in Seq(Nat)) /\ (\A w \in Writes : w.units \in Seq(Nat))
    BY DEF Chunk, Writes
  <1> QED BY <1>1, <1>2, <1>3

\* What an earlier bound, or the last unit of what comes before, is below.
LEMMA AfterLess ==
    ASSUME NEW u \in Nat, NEW v \in Nat, v <= u, NEW s \in Seq(Nat), After(u, s)
    PROVE  After(v, s)
  BY DEF After

LEMMA AfterLast ==
    ASSUME NEW t \in Seq(Nat), t # <<>>, NEW s \in Seq(Nat), Below(t, s)
    PROVE  After(t[Len(t)], s)
  <1>1. Len(t) \in 1 .. Len(t)
    OBVIOUS
  <1> QED BY <1>1 DEF After, Below

LEMMA UpToMore ==
    ASSUME NEW s \in Seq(Nat), NEW n \in Nat, NEW m \in Nat, n <= m, UpTo(s, n)
    PROVE  UpTo(s, m)
  <1>1. \A i \in 1 .. Len(s) : s[i] \in Nat /\ s[i] <= n
    BY DEF UpTo
  <1> QED BY <1>1 DEF UpTo

\* Nothing is in order with anything.
LEMMA OrderNothing ==
    ASSUME NEW s, NEW u
    PROVE  /\ After(u, <<>>) /\ Rising(<<>>) /\ UpTo(<<>>, u)
           /\ Below(<<>>, s) /\ Below(s, <<>>)
  BY DEF After, Rising, UpTo, Below

\* The chunk at the head of the ring is taken, and heard or not.
LEMMA OrderTaken ==
    ASSUME NEW u \in Nat, NEW v \in Nat, NEW q \in Seq(Chunk), NEW c \in Seq(Nat),
           NEW h \in Seq(Nat), NEW w \in Seq(Writes), NEW n \in Nat,
           InOrder(u, q, c, h, w, n), q # <<>>,
           v <= u \/ (q[1].units # <<>> /\ v = q[1].units[Len(q[1].units)])
    PROVE  InOrder(v, Tail(q), c, h, w, n)
  <1> DEFINE t == q[1].units
  <1>1. 1 \in 1 .. Len(q) /\ t \in Seq(Nat)
    <2>1. 1 \in 1 .. Len(q)
      OBVIOUS
    <2> QED BY <2>1, UnitsType
  <1>2. ASSUME NEW s \in Seq(Nat), After(u, s), Below(t, s)
        PROVE  After(v, s)
    <2>1. CASE v <= u
      BY <1>2, <2>1, AfterLess
    <2>2. CASE t # <<>> /\ v = t[Len(t)]
      BY <1>1, <1>2, <2>2, AfterLast
    <2> QED BY <2>1, <2>2
  <1>3. \A i \in 1 .. Len(Tail(q)) : Tail(q)[i] = q[i + 1] /\ i + 1 \in 1 .. Len(q) /\ 1 < i + 1
    OBVIOUS
  <1>4. \A i \in 1 .. Len(q) : q[i].units \in Seq(Nat)
    BY UnitsType
  <1>5. \A j \in 1 .. Len(w) : w[j].units \in Seq(Nat)
    BY UnitsType
  <1>6. \A i \in 1 .. Len(q) : 1 < i => After(v, q[i].units)
    BY <1>1, <1>2, <1>4 DEF InOrder
  <1>7. After(v, c) /\ After(v, h)
    BY <1>1, <1>2 DEF InOrder
  <1>8. \A j \in 1 .. Len(w) : After(v, w[j].units)
    BY <1>1, <1>2, <1>5 DEF InOrder
  <1>9. ASSUME NEW i \in 1 .. Len(Tail(q))
        PROVE  /\ After(v, Tail(q)[i].units) /\ Rising(Tail(q)[i].units) /\ UpTo(Tail(q)[i].units, n)
               /\ Below(Tail(q)[i].units, c) /\ Below(Tail(q)[i].units, h)
               /\ \A j \in 1 .. Len(w) : Below(Tail(q)[i].units, w[j].units)
               /\ \A j \in 1 .. Len(Tail(q)) : i < j => Below(Tail(q)[i].units, Tail(q)[j].units)
    <2>1. Tail(q)[i] = q[i + 1] /\ i + 1 \in 1 .. Len(q) /\ 1 < i + 1
      BY <1>3
    <2>2. \A j \in 1 .. Len(Tail(q)) : i < j => Below(Tail(q)[i].units, Tail(q)[j].units)
      <3>1. SUFFICES ASSUME NEW j \in 1 .. Len(Tail(q)), i < j
                     PROVE  Below(Tail(q)[i].units, Tail(q)[j].units)
        OBVIOUS
      <3>2. Tail(q)[j] = q[j + 1] /\ j + 1 \in 1 .. Len(q) /\ i + 1 < j + 1
        BY <1>3, <3>1
      <3> QED BY <2>1, <3>2 DEF InOrder
    <2> QED BY <1>6, <2>1, <2>2 DEF InOrder
  <1>10. /\ After(v, c) /\ Rising(c) /\ UpTo(c, n) /\ Below(c, h)
         /\ After(v, h) /\ Rising(h) /\ UpTo(h, n)
    BY <1>7 DEF InOrder
  <1>11. \A j \in 1 .. Len(w) :
          /\ After(v, w[j].units) /\ Rising(w[j].units) /\ UpTo(w[j].units, n)
          /\ Below(c, w[j].units) /\ Below(h, w[j].units)
          /\ \A k \in 1 .. Len(w) : j < k => Below(w[j].units, w[k].units)
    BY <1>8 DEF InOrder
  <1> QED BY <1>9, <1>10, <1>11 DEF InOrder

\* What is heard starts again from nothing.
LEMMA OrderHeard ==
    ASSUME NEW u \in Nat, NEW v \in Nat, v <= u, NEW q \in Seq(Chunk), NEW c \in Seq(Nat),
           NEW h \in Seq(Nat), NEW w \in Seq(Writes), NEW n \in Nat,
           InOrder(u, q, c, h, w, n)
    PROVE  InOrder(v, q, c, h, w, n)
  <1>4. \A i \in 1 .. Len(q) : q[i].units \in Seq(Nat)
    BY UnitsType
  <1>5. \A j \in 1 .. Len(w) : w[j].units \in Seq(Nat)
    BY UnitsType
  <1>6. \A i \in 1 .. Len(q) : After(v, q[i].units)
    BY <1>4, AfterLess DEF InOrder
  <1>7. After(v, c) /\ After(v, h)
    BY AfterLess DEF InOrder
  <1>8. \A j \in 1 .. Len(w) : After(v, w[j].units)
    BY <1>5, AfterLess DEF InOrder
  <1> QED BY <1>6, <1>7, <1>8 DEF InOrder

\* A completed chunk, or an empty item, joins the ring in the place of the chunk in progress.
LEMMA OrderCompleted ==
    ASSUME NEW u \in Nat, NEW q \in Seq(Chunk), NEW c \in Seq(Nat), NEW h \in Seq(Nat),
           NEW w \in Seq(Writes), NEW n \in Nat, NEW e \in Chunk, e.units \in {c, <<>>},
           InOrder(u, q, c, h, w, n)
    PROVE  InOrder(u, Append(q, e), <<>>, h, w, n)
  <1> DEFINE p == Append(q, e)
  <1>1. Len(p) = Len(q) + 1 /\ p[Len(q) + 1] = e /\ \A i \in 1 .. Len(q) : p[i] = q[i]
    OBVIOUS
  <1>2. /\ After(u, e.units) /\ Rising(e.units) /\ UpTo(e.units, n) /\ Below(e.units, h)
        /\ \A j \in 1 .. Len(w) : Below(e.units, w[j].units)
        /\ \A i \in 1 .. Len(q) : Below(q[i].units, e.units)
    BY OrderNothing DEF InOrder
  <1>3. ASSUME NEW i \in 1 .. Len(p)
        PROVE  /\ After(u, p[i].units) /\ Rising(p[i].units) /\ UpTo(p[i].units, n)
               /\ Below(p[i].units, <<>>) /\ Below(p[i].units, h)
               /\ \A j \in 1 .. Len(w) : Below(p[i].units, w[j].units)
               /\ \A j \in 1 .. Len(p) : i < j => Below(p[i].units, p[j].units)
    <2>1. CASE i = Len(q) + 1
      <3>1. p[i] = e
        BY <1>1, <2>1
      <3>2. \A j \in 1 .. Len(p) : ~(i < j)
        BY <1>1, <2>1
      <3>3. Below(e.units, <<>>)
        BY OrderNothing
      <3> HIDE DEF p
      <3> QED BY <1>2, <3>1, <3>2, <3>3
    <2>2. CASE i \in 1 .. Len(q)
      <3>1. p[i] = q[i]
        BY <1>1, <2>2
      <3>2. \A j \in 1 .. Len(p) : i < j => Below(p[i].units, p[j].units)
        <4>1. SUFFICES ASSUME NEW j \in 1 .. Len(p), i < j PROVE Below(q[i].units, p[j].units)
          BY <3>1
        <4>2. CASE j = Len(q) + 1
          BY <1>1, <1>2, <2>2, <4>2
        <4>3. CASE j \in 1 .. Len(q)
          BY <1>1, <2>2, <4>1, <4>3 DEF InOrder
        <4> QED BY <1>1, <4>2, <4>3
      <3>3. Below(q[i].units, <<>>)
        BY OrderNothing
      <3>4. /\ After(u, q[i].units) /\ Rising(q[i].units) /\ UpTo(q[i].units, n)
            /\ Below(q[i].units, h) /\ \A j \in 1 .. Len(w) : Below(q[i].units, w[j].units)
        BY <2>2 DEF InOrder
      <3> HIDE DEF p
      <3> QED BY <3>1, <3>2, <3>3, <3>4
    <2>3. i = Len(q) + 1 \/ i \in 1 .. Len(q)
      BY <1>1
    <2> HIDE DEF p
    <2> QED BY <2>1, <2>2, <2>3
  <1> HIDE DEF p
  <1>4. InOrder(u, p, <<>>, h, w, n)
    BY <1>3, OrderNothing DEF InOrder
  <1> QED BY <1>4 DEF p

LEMMA OrderDropped ==
    ASSUME NEW u \in Nat, NEW q \in Seq(Chunk), NEW c \in Seq(Nat), NEW h \in Seq(Nat),
           NEW w \in Seq(Writes), NEW n \in Nat, InOrder(u, q, c, h, w, n)
    PROVE  /\ InOrder(u, <<>>, c, h, w, n) /\ InOrder(u, q, <<>>, h, w, n)
           /\ InOrder(u, q, c, <<>>, w, n) /\ InOrder(u, q, c, h, <<>>, n)
  <1>1. Len(<<>>) = 0 /\ \A i \in 1 .. Len(<<>>) : FALSE
    OBVIOUS
  <1>2. InOrder(u, <<>>, c, h, w, n)
    <2>1. /\ After(u, c) /\ Rising(c) /\ UpTo(c, n) /\ Below(c, h)
          /\ After(u, h) /\ Rising(h) /\ UpTo(h, n)
          /\ \A j \in 1 .. Len(w) :
              /\ After(u, w[j].units) /\ Rising(w[j].units) /\ UpTo(w[j].units, n)
              /\ Below(c, w[j].units) /\ Below(h, w[j].units)
              /\ \A k \in 1 .. Len(w) : j < k => Below(w[j].units, w[k].units)
      BY DEF InOrder
    <2> QED BY <1>1, <2>1 DEF InOrder
  <1>3. InOrder(u, q, <<>>, h, w, n)
    BY OrderNothing DEF InOrder
  <1>4. InOrder(u, q, c, <<>>, w, n)
    BY OrderNothing DEF InOrder
  <1>5. InOrder(u, q, c, h, <<>>, n)
    BY <1>1 DEF InOrder
  <1> QED BY <1>2, <1>3, <1>4, <1>5

\* The task takes a write.
LEMMA OrderHeld ==
    ASSUME NEW u \in Nat, NEW q \in Seq(Chunk), NEW c \in Seq(Nat), NEW h,
           NEW w \in Seq(Writes), NEW n \in Nat, w # <<>>, InOrder(u, q, c, h, w, n)
    PROVE  InOrder(u, q, c, Head(w).units, Tail(w), n)
  <1>1. 1 \in 1 .. Len(w) /\ Head(w) = w[1]
    OBVIOUS
  <1>2. \A i \in 1 .. Len(Tail(w)) : Tail(w)[i] = w[i + 1] /\ i + 1 \in 1 .. Len(w) /\ 1 < i + 1
    OBVIOUS
  <1>3. \A i \in 1 .. Len(q) :
          /\ After(u, q[i].units) /\ Rising(q[i].units) /\ UpTo(q[i].units, n)
          /\ Below(q[i].units, c) /\ Below(q[i].units, Head(w).units)
          /\ \A j \in 1 .. Len(Tail(w)) : Below(q[i].units, Tail(w)[j].units)
          /\ \A j \in 1 .. Len(q) : i < j => Below(q[i].units, q[j].units)
    BY <1>1, <1>2 DEF InOrder
  <1>4. /\ After(u, c) /\ Rising(c) /\ UpTo(c, n) /\ Below(c, Head(w).units)
        /\ After(u, Head(w).units) /\ Rising(Head(w).units) /\ UpTo(Head(w).units, n)
    BY <1>1 DEF InOrder
  <1>5. ASSUME NEW j \in 1 .. Len(Tail(w))
        PROVE  /\ After(u, Tail(w)[j].units) /\ Rising(Tail(w)[j].units) /\ UpTo(Tail(w)[j].units, n)
               /\ Below(c, Tail(w)[j].units) /\ Below(Head(w).units, Tail(w)[j].units)
               /\ \A k \in 1 .. Len(Tail(w)) : j < k => Below(Tail(w)[j].units, Tail(w)[k].units)
    <2>1. Tail(w)[j] = w[j + 1] /\ j + 1 \in 1 .. Len(w) /\ 1 < j + 1
      BY <1>2
    <2>2. \A k \in 1 .. Len(Tail(w)) : j < k => Below(Tail(w)[j].units, Tail(w)[k].units)
      <3>1. SUFFICES ASSUME NEW k \in 1 .. Len(Tail(w)), j < k
                     PROVE  Below(Tail(w)[j].units, Tail(w)[k].units)
        OBVIOUS
      <3>2. Tail(w)[k] = w[k + 1] /\ k + 1 \in 1 .. Len(w) /\ j + 1 < k + 1
        BY <1>2, <3>1
      <3> QED BY <2>1, <3>2 DEF InOrder
    <2> QED BY <1>1, <2>1, <2>2 DEF InOrder
  <1> QED BY <1>3, <1>4, <1>5 DEF InOrder

\* The units captured next join the ring.
LEMMA OrderCaptured ==
    ASSUME NEW u \in Nat, NEW q \in Seq(Chunk), NEW c \in Seq(Nat), NEW h \in Seq(Nat),
           NEW w \in Seq(Writes), NEW n \in Nat, NEW m \in Nat, n <= m, u <= n,
           InOrder(u, q, c, h, w, n),
           NEW e \in Writes, \A i \in 1 .. Len(e.units) : e.units[i] = n + i /\ n + i <= m
    PROVE  InOrder(u, q, c, h, w, m) /\ InOrder(u, q, c, h, Append(w, e), m)
  <1>1. e.units \in Seq(Nat)
    BY DEF Writes
  <1>2. ASSUME NEW s \in Seq(Nat), UpTo(s, n)
        PROVE  UpTo(s, m) /\ Below(s, e.units)
    <2>1. \A i \in 1 .. Len(s) : s[i] \in Nat /\ s[i] <= n
      BY <1>2 DEF UpTo
    <2>2. \A i \in 1 .. Len(s), j \in 1 .. Len(e.units) : s[i] < e.units[j]
      <3>1. SUFFICES ASSUME NEW i \in 1 .. Len(s), NEW j \in 1 .. Len(e.units)
                     PROVE  s[i] < e.units[j]
        OBVIOUS
      <3>2. e.units[j] = n + j
        OBVIOUS
      <3>3. j \in Nat \ {0}
        BY <1>1
      <3> QED BY <2>1, <3>2, <3>3
    <2> QED BY <1>2, <2>2, UpToMore DEF Below
  <1>3. After(u, e.units) /\ Rising(e.units) /\ UpTo(e.units, m)
    <2>1. \A i \in 1 .. Len(e.units) : i \in Nat /\ u < e.units[i] /\ e.units[i] <= m
      <3>1. SUFFICES ASSUME NEW i \in 1 .. Len(e.units)
                     PROVE  i \in Nat /\ u < e.units[i] /\ e.units[i] <= m
        OBVIOUS
      <3>2. e.units[i] = n + i /\ n + i <= m /\ i \in Nat \ {0}
        BY <1>1
      <3> QED BY <3>2
    <2>2. \A i, j \in 1 .. Len(e.units) : i < j => e.units[i] < e.units[j]
      <3>1. SUFFICES ASSUME NEW i \in 1 .. Len(e.units), NEW j \in 1 .. Len(e.units), i < j
                     PROVE  e.units[i] < e.units[j]
        OBVIOUS
      <3>2. e.units[i] = n + i /\ e.units[j] = n + j
        OBVIOUS
      <3> QED BY <2>1, <3>1, <3>2
    <2> QED BY <2>1, <2>2 DEF After, Rising, UpTo
  <1>4. \A i \in 1 .. Len(q) : UpTo(q[i].units, m) /\ Below(q[i].units, e.units)
    BY <1>2, UnitsType DEF InOrder
  <1>5. \A j \in 1 .. Len(w) : UpTo(w[j].units, m) /\ Below(w[j].units, e.units)
    BY <1>2, UnitsType DEF InOrder
  <1>6. /\ UpTo(c, m) /\ Below(c, e.units) /\ UpTo(h, m) /\ Below(h, e.units)
    BY <1>2 DEF InOrder
  <1>7. InOrder(u, q, c, h, w, m)
    BY <1>4, <1>5, <1>6 DEF InOrder
  <1> DEFINE p == Append(w, e)
  <1>8. /\ Len(p) = Len(w) + 1 /\ p[Len(w) + 1] = e /\ \A j \in 1 .. Len(w) : p[j] = w[j]
        /\ \A j \in 1 .. Len(p) : j = Len(w) + 1 \/ j \in 1 .. Len(w)
        /\ Len(w) \in Nat
    OBVIOUS
  <1> HIDE DEF p
  <1>9. ASSUME NEW i \in 1 .. Len(q)
        PROVE  \A j \in 1 .. Len(p) : Below(q[i].units, p[j].units)
    BY <1>4, <1>8 DEF InOrder
  <1>10. ASSUME NEW j \in 1 .. Len(p)
         PROVE  /\ After(u, p[j].units) /\ Rising(p[j].units) /\ UpTo(p[j].units, m)
                /\ Below(c, p[j].units) /\ Below(h, p[j].units)
                /\ \A k \in 1 .. Len(p) : j < k => Below(p[j].units, p[k].units)
    <2>1. CASE j = Len(w) + 1
      <3>1. \A k \in 1 .. Len(p) : ~(j < k)
        BY <1>8, <2>1
      <3> QED BY <1>3, <1>6, <1>8, <2>1, <3>1
    <2>2. CASE j \in 1 .. Len(w)
      <3>1. p[j] = w[j]
        BY <1>8, <2>2
      <3>2. \A k \in 1 .. Len(p) : j < k => Below(w[j].units, p[k].units)
        <4>1. SUFFICES ASSUME NEW k \in 1 .. Len(p), j < k PROVE Below(w[j].units, p[k].units)
          OBVIOUS
        <4>2. CASE k = Len(w) + 1
          BY <1>5, <1>8, <2>2, <4>2
        <4>3. CASE k \in 1 .. Len(w)
          BY <1>8, <2>2, <4>1, <4>3 DEF InOrder
        <4> QED BY <1>8, <4>2, <4>3
      <3>3. /\ After(u, w[j].units) /\ Rising(w[j].units) /\ UpTo(w[j].units, m)
            /\ Below(c, w[j].units) /\ Below(h, w[j].units)
        BY <1>5, <2>2 DEF InOrder
      <3> QED BY <3>1, <3>2, <3>3
    <2> QED BY <1>8, <2>1, <2>2
  <1>11. InOrder(u, q, c, h, p, m)
    BY <1>7, <1>9, <1>10 DEF InOrder
  <1> QED BY <1>7, <1>11 DEF p

\* The chunk in progress takes the first k units of the write the task holds.
LEMMA OrderFilled ==
    ASSUME NEW u \in Nat, NEW q \in Seq(Chunk), NEW c \in Seq(Nat), NEW h \in Seq(Nat),
           NEW w \in Seq(Writes), NEW n \in Nat, InOrder(u, q, c, h, w, n),
           NEW k \in 0 .. Len(h)
    PROVE  InOrder(u, q, c \o SubSeq(h, 1, k), SubSeq(h, k + 1, Len(h)), w, n)
  <1> DEFINE d == c \o SubSeq(h, 1, k)
             r == SubSeq(h, k + 1, Len(h))
  <1>1. /\ SubSeq(h, 1, k) \in Seq(Nat) /\ Len(SubSeq(h, 1, k)) = k
        /\ \A i \in 1 .. k : SubSeq(h, 1, k)[i] = h[i]
        /\ r \in Seq(Nat) /\ Len(r) = Len(h) - k
        /\ \A i \in 1 .. Len(r) : r[i] = h[k + i] /\ k + i \in 1 .. Len(h) /\ i \in Nat
    BY SubSeqUnits
  <1>2. /\ d \in Seq(Nat) /\ Len(d) = Len(c) + k /\ Len(c) \in Nat /\ k \in Nat
        /\ \A i \in 1 .. Len(c) : d[i] = c[i]
        /\ \A i \in 1 .. k : d[Len(c) + i] = h[i]
    <2> DEFINE t == SubSeq(h, 1, k)
    <2>1. /\ t \in Seq(Nat) /\ Len(t) = k /\ k \in Nat /\ Len(c) \in Nat
          /\ \A i \in 1 .. k : t[i] = h[i]
      BY <1>1
    <2> HIDE DEF t
    <2>2. /\ c \o t \in Seq(Nat) /\ Len(c \o t) = Len(c) + k
          /\ \A i \in 1 .. Len(c) + k :
                (c \o t)[i] = IF i <= Len(c) THEN c[i] ELSE t[i - Len(c)]
      BY <2>1, ConcatProperties
    <2>3. \A i \in 1 .. Len(c) : (c \o t)[i] = c[i]
      BY <2>1, <2>2
    <2>4. ASSUME NEW i \in 1 .. k PROVE (c \o t)[Len(c) + i] = h[i]
      <3>1. Len(c) + i \in 1 .. Len(c) + k /\ ~(Len(c) + i <= Len(c)) /\ (Len(c) + i) - Len(c) = i
        BY <2>1
      <3> QED BY <2>1, <2>2, <3>1
    <2> QED BY <2>1, <2>2, <2>3, <2>4 DEF t
  <1> HIDE DEF d, r
  <1>3. ASSUME NEW i \in 1 .. Len(d)
        PROVE  \/ i \in 1 .. Len(c) /\ d[i] = c[i]
               \/ /\ i - Len(c) \in 1 .. k /\ i - Len(c) \in 1 .. Len(h) /\ Len(c) < i
                  /\ d[i] = h[i - Len(c)]
    <2>1. CASE i <= Len(c)
      BY <1>2, <2>1, SMTT(30)
    <2>2. CASE i > Len(c)
      <3>1. i - Len(c) \in 1 .. k /\ i = Len(c) + (i - Len(c))
        BY <1>2, <2>2
      <3>2. i - Len(c) \in 1 .. Len(h)
        BY <3>1
      <3> QED BY <1>2, <2>2, <3>1, <3>2
    <2> QED BY <1>2, <2>1, <2>2
  <1>4. \A i \in 1 .. Len(h) : h[i] \in Nat
    OBVIOUS
  <1>5. After(u, c) /\ Rising(c) /\ UpTo(c, n) /\ Below(c, h) /\ After(u, h) /\ Rising(h) /\ UpTo(h, n)
    BY DEF InOrder
  <1>6. After(u, d) /\ UpTo(d, n) /\ After(u, r) /\ UpTo(r, n)
    BY <1>1, <1>3, <1>5 DEF After, UpTo
  <1>7. Rising(r)
    <2>1. SUFFICES ASSUME NEW i \in 1 .. Len(r), NEW j \in 1 .. Len(r), i < j
                   PROVE  r[i] < r[j]
      BY DEF Rising
    <2>2. /\ r[i] = h[k + i] /\ k + i \in 1 .. Len(h) /\ i \in Nat
          /\ r[j] = h[k + j] /\ k + j \in 1 .. Len(h) /\ j \in Nat
      BY <1>1
    <2>3. k + i < k + j
      BY <1>2, <2>1, <2>2
    <2> QED BY <1>5, <2>2, <2>3 DEF Rising
  <1>8. Rising(d)
    <2>1. SUFFICES ASSUME NEW i \in 1 .. Len(d), NEW j \in 1 .. Len(d), i < j
                   PROVE  d[i] < d[j]
      BY DEF Rising
    <2>2. CASE i \in 1 .. Len(c) /\ j \in 1 .. Len(c)
      BY <1>2, <1>5, <2>1, <2>2 DEF Rising
    <2>3. CASE i \in 1 .. Len(c) /\ j \notin 1 .. Len(c)
      BY <1>2, <1>3, <1>5, <2>3 DEF Below
    <2>4. CASE i \notin 1 .. Len(c)
      <3>1. Len(c) < i /\ d[i] = h[i - Len(c)] /\ i - Len(c) \in 1 .. Len(h)
        BY <1>3, <2>4
      <3>2. j \notin 1 .. Len(c)
        BY <1>2, <2>1, <3>1
      <3>3. d[j] = h[j - Len(c)] /\ j - Len(c) \in 1 .. Len(h)
        BY <1>3, <3>2
      <3>4. i - Len(c) < j - Len(c)
        BY <1>2, <2>1
      <3> QED BY <1>5, <3>1, <3>3, <3>4 DEF Rising
    <2> QED BY <2>2, <2>3, <2>4
  <1>9. Below(d, r)
    <2>1. SUFFICES ASSUME NEW i \in 1 .. Len(d), NEW j \in 1 .. Len(r) PROVE d[i] < r[j]
      BY DEF Below
    <2>2. r[j] = h[k + j] /\ k + j \in 1 .. Len(h) /\ j \in Nat \ {0}
      BY <1>1
    <2>3. CASE i \in 1 .. Len(c) /\ d[i] = c[i]
      BY <1>5, <2>2, <2>3 DEF Below
    <2>4. CASE i - Len(c) \in 1 .. k /\ i - Len(c) \in 1 .. Len(h) /\ d[i] = h[i - Len(c)]
      <3>1. i - Len(c) < k + j
        BY <1>2, <2>2, <2>4
      <3> QED BY <1>5, <2>2, <2>4, <3>1 DEF Rising
    <2> QED BY <1>3, <2>3, <2>4
  <1>10. ASSUME NEW s, Below(s, c), Below(s, h) PROVE Below(s, d) /\ Below(s, r)
    BY <1>1, <1>3, <1>10 DEF Below
  <1>11. ASSUME NEW s, Below(c, s), Below(h, s) PROVE Below(d, s) /\ Below(r, s)
    BY <1>1, <1>3, <1>11 DEF Below
  <1>12. \A i \in 1 .. Len(q) : Below(q[i].units, d) /\ Below(q[i].units, r)
    BY <1>10 DEF InOrder
  <1>13. \A j \in 1 .. Len(w) : Below(d, w[j].units) /\ Below(r, w[j].units)
    BY <1>11 DEF InOrder
  <1>14. InOrder(u, q, d, r, w, n)
    BY <1>6, <1>7, <1>8, <1>9, <1>12, <1>13 DEF InOrder
  <1> QED BY <1>14 DEF d, r

LEMMA OrderTypes ==
    ASSUME SourceTypes
    PROVE  /\ heard.upto \in Nat /\ chunks \in Seq(Chunk) /\ task.chunk.units \in Seq(Nat)
           /\ task.held.units \in Seq(Nat) /\ written \in Seq(Writes) /\ capture.n \in Nat
           /\ <<>> \in Seq(Chunk) /\ <<>> \in Seq(Nat) /\ <<>> \in Seq(Writes)
  <1>1. task.chunk \in Chunk /\ task.held \in Writes \cup {NoWrite}
    BY DEF SourceTypes, TaskTypes, TaskType
  <1>2. task.chunk.units \in Seq(Nat)
    BY <1>1 DEF Chunk
  <1>3. task.held.units \in Seq(Nat)
    <2>1. CASE task.held \in Writes
      BY <2>1 DEF Writes
    <2>2. CASE task.held = NoWrite
      <3>1. <<>> \in Seq(Nat)
        OBVIOUS
      <3> QED BY <2>2, <3>1, Nothing
    <2> QED BY <1>1, <2>1, <2>2
  <1> QED BY <1>2, <1>3 DEF SourceTypes, ProtocolTypes, HeardType, TaskTypes, CaptureTypes

LEMMA ProtocolOrder ==
    ASSUME SourceTypes, OrderInv, heard'.upto \in {0, heard.upto},
           UNCHANGED <<chunks, task, written, capture>>
    PROVE  OrderInv'
  <1>1. heard'.upto \in Nat /\ heard'.upto <= heard.upto
    BY OrderTypes
  <1>2. InOrder(heard'.upto, chunks, task.chunk.units, task.held.units, written, capture.n)
    BY <1>1, OrderTypes, OrderHeard DEF OrderInv
  <1>3. heard'.upto <= capture.n
    BY <1>1, OrderTypes DEF OrderInv
  <1> QED BY <1>2, <1>3 DEF OrderInv

LEMMA SendsOrder ==
    ASSUME SourceTypes, OrderInv, chunks # <<>>, chunks' = Tail(chunks),
           UNCHANGED <<task, written, capture>>,
           \/ heard' = heard
           \/ /\ chunks[1].units # <<>>
              /\ heard'.upto = chunks[1].units[Len(chunks[1].units)]
    PROVE  OrderInv'
  <1>1. 1 \in 1 .. Len(chunks)
    BY OrderTypes
  <1>2. chunks[1].units \in Seq(Nat) /\ UpTo(chunks[1].units, capture.n)
    BY <1>1, OrderTypes, UnitsType DEF OrderInv, InOrder
  <1>3. heard'.upto \in Nat /\ heard'.upto <= capture.n
    <2>1. CASE heard' = heard
      BY <2>1, OrderTypes DEF OrderInv
    <2>2. CASE chunks[1].units # <<>> /\ heard'.upto = chunks[1].units[Len(chunks[1].units)]
      <3>1. Len(chunks[1].units) \in 1 .. Len(chunks[1].units)
        BY <1>2, <2>2
      <3> QED BY <1>2, <2>2, <3>1 DEF UpTo
    <2> QED BY <2>1, <2>2
  <1>4. \/ heard'.upto <= heard.upto
        \/ chunks[1].units # <<>> /\ heard'.upto = chunks[1].units[Len(chunks[1].units)]
    BY OrderTypes
  <1>5. InOrder(heard'.upto, Tail(chunks), task.chunk.units, task.held.units, written, capture.n)
    BY <1>3, <1>4, OrderTypes, OrderTaken DEF OrderInv
  <1> QED BY <1>3, <1>5 DEF OrderInv

LEMMA CaptureOrder ==
    ASSUME SourceTypes, OrderInv, ReadGate \/ Refuse \/ (\E len \in WriteUnits : Write(len))
    PROVE  OrderInv'
  <1>1. UNCHANGED <<heard, chunks, task>>
    BY DEF ReadGate, Refuse, Write, Captures, protocolSide
  <1>2. capture \in [gen : Nat, n : Nat]
    BY DEF SourceTypes, CaptureTypes
  <1>3. CASE ReadGate \/ Refuse
    <2>1. capture'.n = capture.n /\ written' = written
      BY <1>2, <1>3 DEF ReadGate, Refuse
    <2> QED BY <1>1, <2>1 DEF OrderInv
  <1>4. ASSUME NEW len \in WriteUnits, Write(len)
        PROVE  OrderInv'
    <2> DEFINE units == [i \in 1 .. len |-> capture.n + i]
               e     == [gen |-> capture.gen, units |-> units]
               n     == capture.n + len
    <2>1. len \in Nat \ {0} /\ capture.n \in Nat /\ capture.gen \in Nat \ {0} /\ n \in Nat
      BY <1>2, <1>4, Sizes DEF Write
    <2>2. /\ units \in Seq(Nat) /\ Len(units) = len
          /\ \A i \in 1 .. Len(units) : units[i] = capture.n + i /\ capture.n + i <= n
      BY <2>1
    <2>3. capture'.n = n /\ (written' = written \/ written' = Append(written, e))
      BY <1>4 DEF Write
    <2> HIDE DEF units, n
    <2>4. /\ e \in Writes
          /\ \A i \in 1 .. Len(e.units) : e.units[i] = capture.n + i /\ capture.n + i <= n
      BY <2>1, <2>2 DEF Writes
    <2>5. capture.n <= n /\ heard.upto <= capture.n /\ heard.upto <= n
      BY <2>1, OrderTypes DEF OrderInv, n
    <2> HIDE DEF e
    <2>6. /\ InOrder(heard.upto, chunks, task.chunk.units, task.held.units, written, n)
          /\ InOrder(heard.upto, chunks, task.chunk.units, task.held.units, Append(written, e), n)
      BY <2>1, <2>4, <2>5, OrderTypes, OrderCaptured DEF OrderInv
    <2> QED BY <1>1, <2>3, <2>5, <2>6 DEF OrderInv
  <1> QED BY <1>3, <1>4

LEMMA TaskOrder ==
    ASSUME SourceTypes, GensInv, OrderInv, TaskNext
    PROVE  OrderInv'
  <1> DEFINE u == heard.upto
             n == capture.n
             c == task.chunk.units
             h == task.held.units
  <1>1. UNCHANGED <<heard, capture>> /\ task \in TaskType
    BY DEF TaskNext, TakeWrite, CheckGate, CheckOverflow, NoRoom, Fill, Leave, Tasks, protocolSide,
           SourceTypes, TaskTypes
  <1>2. /\ u \in Nat /\ n \in Nat /\ c \in Seq(Nat) /\ h \in Seq(Nat)
        /\ chunks \in Seq(Chunk) /\ written \in Seq(Writes)
        /\ InOrder(u, chunks, c, h, written, n)
        /\ task.chunk = NoChunk => c = <<>>
        /\ task.held = NoWrite => h = <<>>
    BY OrderTypes, Nothing DEF OrderInv
  <1>3. SUFFICES InOrder(u, chunks', task'.chunk.units, task'.held.units, written', n)
    BY <1>1 DEF OrderInv
  <1>d. Dropped(chunks) \in Seq(Chunk) /\ InOrder(u, Dropped(chunks), <<>>, h, written, n)
    <2>1. CASE task.chunk = NoChunk
      BY <1>2, <2>1 DEF Dropped
    <2>2. CASE task.chunk # NoChunk
      <3>1. Dropped(chunks) = Append(chunks, NoChunk)
        BY <2>2 DEF Dropped
      <3>2. NoChunk \in Chunk /\ NoChunk.units \in {c, <<>>}
        BY Nothing
      <3>3. InOrder(u, Append(chunks, NoChunk), <<>>, h, written, n)
        BY <1>2, <3>2, OrderCompleted
      <3> QED BY <3>1, <3>3, DroppedType
    <2> QED BY <2>1, <2>2
  <1> HIDE DEF u, n
  <1>e. <<>> \in Seq(Nat) /\ <<>> \in Seq(Writes)
    OBVIOUS
  <1>f. InOrder(u, Dropped(chunks), <<>>, <<>>, written, n)
    BY <1>2, <1>d, <1>e, OrderDropped
  <1>4. CASE TakeWrite
    <2>1. /\ chunks' = chunks
          /\ \/ /\ written # <<>> /\ written' = Tail(written)
                /\ task' = [task EXCEPT !.at = "gate", !.held = Head(written), !.fresh = TRUE]
             \/ /\ written' = written
                /\ task' = [task EXCEPT !.at = "gate", !.fresh = FALSE]
      BY <1>4 DEF TakeWrite
    <2>2. /\ task'.chunk = task.chunk
          /\ \/ written # <<>> /\ written' = Tail(written) /\ task'.held = Head(written)
             \/ written' = written /\ task'.held = task.held
      BY <1>1, <2>1 DEF TaskType
    <2>3. written # <<>> => InOrder(u, chunks, c, Head(written).units, Tail(written), n)
      BY <1>2, OrderHeld
    <2> QED BY <1>2, <2>1, <2>2, <2>3
  <1>5. CASE CheckGate
    <2>1. CASE ~Admits(task.held.gen)
      <3>1. /\ task' = [task EXCEPT !.at = "loop", !.held = NoWrite, !.chunk = NoChunk]
            /\ chunks' = Dropped(chunks) /\ written' = written
        BY <1>5, <2>1 DEF CheckGate
      <3>2. task'.held.units = <<>> /\ task'.chunk.units = <<>>
        BY <1>1, <3>1, Nothing DEF TaskType
      <3> QED BY <1>f, <3>1, <3>2
    <2>2. CASE Admits(task.held.gen)
      <3>1. /\ task' = [task EXCEPT !.at = IF task.fresh THEN "overflow" ELSE "chunk",
                              !.chunk = IF KeepsChunk(task.held.gen) THEN @ ELSE NoChunk]
            /\ chunks' = IF KeepsChunk(task.held.gen) THEN chunks ELSE Dropped(chunks)
            /\ written' = written
        BY <1>5, <2>2 DEF CheckGate
      <3>2. /\ task'.held = task.held
            /\ task'.chunk = IF KeepsChunk(task.held.gen) THEN task.chunk ELSE NoChunk
        BY <1>1, <3>1 DEF TaskType
      <3> QED BY <1>2, <1>d, <3>1, <3>2, Nothing
    <2> QED BY <2>1, <2>2
  <1>6. CASE CheckOverflow
    <2>1. CASE overflow = task.held.gen
      <3>1. /\ task' = [task EXCEPT !.at = "loop", !.held = NoWrite, !.chunk = NoChunk]
            /\ chunks' = Dropped(chunks) /\ written' = <<>>
        BY <1>6, <2>1 DEF CheckOverflow
      <3>2. task'.held.units = <<>> /\ task'.chunk.units = <<>>
        BY <1>1, <3>1, Nothing DEF TaskType
      <3>3. InOrder(u, Dropped(chunks), <<>>, <<>>, <<>>, n)
        BY <1>2, <1>d, <1>e, <1>f, OrderDropped
      <3> QED BY <3>1, <3>2, <3>3
    <2>2. CASE overflow # task.held.gen
      <3>1. /\ task' = [task EXCEPT !.at = "chunk"] /\ chunks' = chunks /\ written' = written
        BY <1>6, <2>2 DEF CheckOverflow
      <3>2. task'.held = task.held /\ task'.chunk = task.chunk
        BY <1>1, <3>1 DEF TaskType
      <3> QED BY <1>2, <3>1, <3>2
    <2> QED BY <2>1, <2>2
  <1>7. CASE NoRoom
    <2>1. /\ chunks' = chunks
          /\ \/ /\ task' = [task EXCEPT !.at = "loop", !.held = NoWrite] /\ written' = <<>>
             \/ task' = [task EXCEPT !.at = "loop"] /\ written' = written
      BY <1>7 DEF NoRoom
    <2>2. /\ task'.chunk = task.chunk
          /\ \/ task'.held.units = <<>> /\ written' = <<>>
             \/ task'.held = task.held /\ written' = written
      BY <1>1, <2>1, Nothing DEF TaskType
    <2>3. InOrder(u, chunks, c, <<>>, written, n)
      BY <1>2, OrderDropped
    <2>4. InOrder(u, chunks, c, <<>>, <<>>, n)
      BY <1>2, <1>e, <2>3, OrderDropped
    <2> QED BY <1>2, <2>1, <2>2, <2>4
  <1>8. CASE Fill
    <2>1. Begun.units = c
      BY <1>2 DEF Begun
    <2> DEFINE d == c \o SubSeq(h, 1, Taken)
    <2>2. /\ Taken \in 0 .. Len(h) /\ Full \in Chunk /\ Full.units = d
          /\ Left \in Seq(Nat)
      BY <1>8, <2>1, FillEffect
    <2>3. InOrder(u, chunks, d, Left, written, n)
      BY <1>2, <2>2, OrderFilled DEF Left
    <2>4. task'.held.units = Left
      <3>1. task'.held = IF Left = <<>> THEN NoWrite ELSE [task.held EXCEPT !.units = Left]
        BY <1>8, FillEffect
      <3>2. task.held \in Writes
        BY <1>8, FillEffect
      <3> QED BY <3>1, <3>2, Nothing DEF Writes
    <2>5. written' = written
      BY <1>8 DEF Fill
    <2>6. CASE task'.chunk = Full /\ chunks' = chunks
      BY <2>2, <2>3, <2>4, <2>5, <2>6
    <2>7. CASE task'.chunk = NoChunk /\ \E e \in {Full, NoChunk} : chunks' = Append(chunks, e)
      <3>1. PICK e \in {Full, NoChunk} : chunks' = Append(chunks, e)
        BY <2>7
      <3>2. d \in Seq(Nat)
        BY <2>2 DEF Chunk
      <3> HIDE DEF d
      <3>3. e \in Chunk /\ e.units \in {d, <<>>}
        BY <2>2, Nothing
      <3>4. InOrder(u, Append(chunks, e), <<>>, Left, written, n)
        BY <1>2, <2>2, <2>3, <3>2, <3>3, OrderCompleted
      <3> QED BY <2>4, <2>5, <2>7, <3>1, <3>4, Nothing
    <2> QED BY <1>8, <2>6, <2>7, FillEffect
  <1>9. CASE Leave
    <2>1. task' = TaskIdle /\ chunks' = Dropped(chunks) /\ written' = written
      BY <1>9 DEF Leave
    <2>2. task'.held.units = <<>> /\ task'.chunk.units = <<>>
      BY <2>1, Nothing DEF TaskIdle
    <2> QED BY <1>f, <2>1, <2>2
  <1> QED BY <1>4, <1>5, <1>6, <1>7, <1>8, <1>9 DEF TaskNext

LEMMA MainOrder ==
    ASSUME SourceTypes, OrderInv, heard'.upto = heard.upto, UNCHANGED <<written, capture>>,
           chunks' \in {chunks, <<>>},
           task' \in {task, [TaskIdle EXCEPT !.at = "loop"]}
    PROVE  OrderInv'
  <1> DEFINE u == heard.upto
             n == capture.n
             c == task.chunk.units
             h == task.held.units
  <1>1. /\ u \in Nat /\ n \in Nat /\ c \in Seq(Nat) /\ h \in Seq(Nat)
        /\ chunks \in Seq(Chunk) /\ written \in Seq(Writes)
        /\ <<>> \in Seq(Chunk) /\ <<>> \in Seq(Nat)
        /\ InOrder(u, chunks, c, h, written, n)
    BY OrderTypes DEF OrderInv
  <1>2. InOrder(u, <<>>, c, h, written, n) /\ InOrder(u, chunks, <<>>, h, written, n)
    BY <1>1, OrderDropped
  <1>3. InOrder(u, <<>>, <<>>, h, written, n) /\ InOrder(u, chunks, <<>>, <<>>, written, n)
    BY <1>1, <1>2, OrderDropped, ZenonT(40)
  <1>4. InOrder(u, <<>>, <<>>, <<>>, written, n)
    BY <1>1, <1>3, OrderDropped
  <1>5. \/ task'.chunk.units = c /\ task'.held.units = h
        \/ task'.chunk.units = <<>> /\ task'.held.units = <<>>
    BY Nothing DEF TaskIdle
  <1>6. InOrder(u, chunks', task'.chunk.units, task'.held.units, written, n)
    BY <1>1, <1>2, <1>3, <1>4, <1>5
  <1> QED BY <1>6 DEF OrderInv

-----------------------------------------------------------------------------
(* The events, and the teardowns they belong to *)

EventsFit(q, torn) == Len(q) <= room /\ \A i \in 1 .. Len(q) : q[i].torn <= torn

LEMMA PushedFits ==
    ASSUME room \in Nat, NEW q \in Seq(Events), NEW kind \in {"started", "stopped", "cleared"},
           NEW old \in Nat, NEW torn \in Nat, NEW new \in Nat, old <= new, torn <= new,
           EventsFit(q, old)
    PROVE  EventsFit(Pushed(q, kind, torn), new)
  <1> DEFINE p == Pushed(q, kind, torn)
  <1>1. /\ p \in Seq(Events) /\ PushedAs(p, q, [kind |-> kind, torn |-> torn])
        /\ Len(q) <= room
    BY PushedType, PushedEffect DEF EventsFit
  <1> HIDE DEF p
  <1>2. ASSUME NEW i \in 1 .. Len(p)
        PROVE  p[i].torn <= new
    <2>1. CASE i <= Len(q)
      <3>1. i \in 1 .. Len(q) /\ p[i] = q[i]
        BY <1>1, <2>1 DEF PushedAs
      <3>2. q[i] \in Events /\ q[i].torn <= old
        BY <3>1 DEF EventsFit
      <3> QED BY <3>1, <3>2 DEF Events
    <2>2. CASE ~(i <= Len(q))
      <3>1. p[i].torn = torn
        BY <1>1, <2>2 DEF PushedAs
      <3> QED BY <3>1
    <2> QED BY <2>1, <2>2
  <1>3. EventsFit(p, new)
    BY <1>1, <1>2 DEF EventsFit, PushedAs
  <1> QED BY <1>3 DEF p

LEMMA EventsTypes ==
    ASSUME SourceTypes
    PROVE  /\ sourceEvents \in Seq(Events) /\ room \in Nat /\ stream.torn \in Nat
           /\ listener \in ListenerType /\ listener.torn \in Nat
  BY DEF SourceTypes, ProtocolTypes, MainTypes, StreamType, ListenerType

LEMMA TornDownFits ==
    ASSUME SourceTypes, NEW r \in Roles3, EventsFit(r.sourceEvents, r.stream.torn)
    PROVE  /\ EventsFit(TornDown(r).sourceEvents, TornDown(r).stream.torn)
           /\ TornDown(r).stream.torn = r.stream.torn + 1
  <1>1. r.sourceEvents \in Seq(Events) /\ r.stream.torn \in Nat
    BY DEF Roles3, StreamType
  <1>2. EventsFit(Pushed(r.sourceEvents, "cleared", r.stream.torn + 1), r.stream.torn + 1)
    BY <1>1, EventsTypes, PushedFits
  <1> QED BY <1>2, TornDownEffect

LEMMA EndedFits ==
    ASSUME SourceTypes, NEW r \in Roles3, NEW owner \in BOOLEAN, NEW act \in BOOLEAN,
           EventsFit(r.sourceEvents, r.stream.torn)
    PROVE  /\ EventsFit(Ended(r, owner, act).sourceEvents, Ended(r, owner, act).stream.torn)
           /\ Ended(r, owner, act).stream.torn = r.stream.torn
  <1> DEFINE e == Ended(r, owner, act)
  <1>1. EndedAs(e, r, owner, act)
    BY EndedEffect
  <1> HIDE DEF e
  <1>2. r.sourceEvents \in Seq(Events) /\ r.stream.torn \in Nat
    BY DEF Roles3, StreamType
  <1>3. EventsFit(Pushed(r.sourceEvents, "stopped", r.stream.torn), r.stream.torn)
    BY <1>2, EventsTypes, PushedFits
  <1>4. /\ e.stream.torn = r.stream.torn
        /\ e.sourceEvents \in {r.sourceEvents, Pushed(r.sourceEvents, "stopped", r.stream.torn)}
    BY <1>1 DEF EndedAs
  <1>5. EventsFit(e.sourceEvents, e.stream.torn)
    BY <1>3, <1>4
  <1> QED BY <1>4, <1>5 DEF e

LEMMA LosesEvents ==
    ASSUME SourceTypes, EventsFit(sourceEvents, stream.torn), Loses
    PROVE  EventsFit(sourceEvents', stream'.torn) /\ stream.torn <= stream'.torn
  <1>1. Become(IF peer.owner THEN TornDown(Now) ELSE Now)
    BY DEF Loses
  <1>2. /\ EventsFit(TornDown(Now).sourceEvents, TornDown(Now).stream.torn)
        /\ TornDown(Now).stream.torn = stream.torn + 1
    BY NowType, TornDownFits
  <1> QED BY <1>1, <1>2, NowType, EventsTypes DEF Become

LEMMA ProtocolEvents ==
    ASSUME SourceTypes, StreamInv, EventsFit(sourceEvents, stream.torn),
           \/ TryOpen \/ StartCommand \/ StopCommand \/ Unavailable \/ Connected \/ QuietWindow
           \/ (\E owner \in BOOLEAN : Activation(owner)) \/ SourceLost
    PROVE  EventsFit(sourceEvents', stream'.torn) /\ stream.torn <= stream'.torn
  <1>1. peer \in SourcePeer /\ stream \in StreamType /\ stream.torn <= stream.torn
    BY EventsTypes DEF SourceTypes, ProtocolTypes
  <1>p. peer.owner \in BOOLEAN /\ peer.act \in BOOLEAN
    BY <1>1 DEF SourcePeer
  <1>2. CASE TryOpen
    <2>1. stream'.torn = stream.torn
      BY <1>1, <1>2 DEF TryOpen, StreamType
    <2>2. sourceEvents' \in {sourceEvents, Pushed(sourceEvents, "started", stream.torn)}
      BY <1>2 DEF TryOpen
    <2>3. EventsFit(Pushed(sourceEvents, "started", stream.torn), stream.torn)
      BY <1>1, EventsTypes, PushedFits
    <2> QED BY <1>1, <2>1, <2>2, <2>3
  <1>3. CASE StartCommand \/ Connected \/ QuietWindow
    <2>1. stream'.torn = stream.torn /\ sourceEvents' = sourceEvents
      BY <1>1, <1>3 DEF StartCommand, Connected, QuietWindow, StreamType
    <2> QED BY <1>1, <2>1
  <1>4. CASE StopCommand \/ Unavailable
    <2>1. \E owner \in BOOLEAN, act \in BOOLEAN : Become(Ended(Now, owner, act))
      BY <1>p, <1>4 DEF StopCommand, Unavailable
    <2>2. PICK owner \in BOOLEAN, act \in BOOLEAN : Become(Ended(Now, owner, act))
      BY <2>1
    <2>3. /\ EventsFit(Ended(Now, owner, act).sourceEvents, Ended(Now, owner, act).stream.torn)
          /\ Ended(Now, owner, act).stream.torn = stream.torn
      BY NowType, EndedFits
    <2> QED BY <1>1, <2>2, <2>3 DEF Become
  <1>5. ASSUME NEW owner \in BOOLEAN, Activation(owner)
        PROVE  EventsFit(sourceEvents', stream'.torn) /\ stream.torn <= stream'.torn
    <2> DEFINE paid == Paid(Now)
               over == Ended(paid, TRUE, TRUE)
               gone == TornDown(over)
    <2>1. paid \in Roles3 /\ paid.stream.torn = stream.torn /\ paid.sourceEvents = sourceEvents
      BY PaidEffect
    <2>2. Become(IF peer.owner /\ ~owner THEN gone ELSE paid)
      BY <1>5 DEF Activation
    <2> HIDE DEF paid
    <2>3. /\ over \in Roles3 /\ EventsFit(over.sourceEvents, over.stream.torn)
          /\ over.stream.torn = stream.torn
      BY <2>1, EndedType, EndedFits
    <2> HIDE DEF over
    <2>4. EventsFit(gone.sourceEvents, gone.stream.torn) /\ gone.stream.torn = stream.torn + 1
      BY <2>3, TornDownFits
    <2> HIDE DEF gone
    <2> QED BY <1>1, <2>1, <2>2, <2>4, EventsTypes DEF Become
  <1>6. CASE SourceLost
    BY <1>6, LosesEvents DEF SourceLost
  <1> QED BY <1>2, <1>3, <1>4, <1>5, <1>6

\* While the role's task runs, what the protocol task does leaves the listener behind at most.
LEMMA RunningEvents ==
    ASSUME SourceTypes, RingsInv, TeardownsInv, Running, listener' = listener, room' = room,
           EventsFit(sourceEvents', stream'.torn), stream.torn <= stream'.torn,
           stream'.torn \in Nat
    PROVE  TeardownsInv' /\ Len(sourceEvents') <= room'
  <1>1. listener.torn <= stream'.torn
    BY EventsTypes DEF TeardownsInv
  <1> QED BY <1>1 DEF TeardownsInv, EventsFit, Running, StoppedIsSilent

LEMMA NowFits ==
    ASSUME RingsInv, TeardownsInv
    PROVE  EventsFit(sourceEvents, stream.torn)
  BY DEF EventsFit, RingsInv, TeardownsInv

-----------------------------------------------------------------------------
(* The rings, and the listener as the role stops *)

Busy == IF task.chunk = NoChunk THEN 0 ELSE 1

RingsTypes ==
    /\ chunks \in Seq(Chunk) /\ Len(chunks) \in Nat /\ lent \in Nat
    /\ task \in TaskType /\ Busy \in {0, 1} /\ TaskIdle.chunk = NoChunk
    /\ NoChunk \in Chunk /\ OUTBOUND_RING_ITEM_COUNT \in Nat \ {0}

LEMMA RingsTyped ==
    ASSUME SourceTypes
    PROVE  RingsTypes
  BY Nothing, Sizes DEF RingsTypes, SourceTypes, TaskTypes, Busy, TaskIdle

\* A step of the task: what it drops or completes takes the place of the chunk in progress.
LEMMA TaskRings ==
    ASSUME SourceTypes, GensInv, RingsInv, TaskNext
    PROVE  RingsInv'
  <1>0. RingsTypes /\ written \in Seq(Writes) /\ Len(written) <= CaptureRoom
        /\ CaptureRoom \in Nat \ {0}
    BY RingsTyped, Sizes DEF SourceTypes, CaptureTypes, RingsInv
  <1>1. UNCHANGED <<sourceEvents, room, lent, listener>>
    BY DEF TaskNext, TakeWrite, CheckGate, CheckOverflow, NoRoom, Fill, Leave, Tasks
  <1>2. /\ Len(chunks) + lent + Busy <= OUTBOUND_RING_ITEM_COUNT
        /\ task # TaskIdle /\ listener.at \notin {"draining", "stopped"}
    <2>1. task.at # "out"
      BY DEF TaskNext, TakeWrite, CheckGate, CheckOverflow, NoRoom, Fill, Leave
    <2> QED BY <2>1 DEF RingsInv, ChunksFit, Busy, TaskIdle
  <1>3. SUFFICES /\ Len(written') <= CaptureRoom
                 /\ Len(chunks') + lent + Busy' <= OUTBOUND_RING_ITEM_COUNT
                 /\ task'.at = "out" => task' = TaskIdle
    BY <1>1, <1>2 DEF RingsInv, ChunksFit, Busy
  <1>w. Len(written') <= CaptureRoom
    <2>1. written' \in {written, <<>>} \/ (written # <<>> /\ written' = Tail(written))
      BY DEF TaskNext, TakeWrite, CheckGate, CheckOverflow, NoRoom, Fill, Leave
    <2>2. Len(<<>>) = 0 /\ (written # <<>> => Len(Tail(written)) = Len(written) - 1)
          /\ Len(written) \in Nat
      BY <1>0
    <2> QED BY <1>0, <2>1, <2>2
  <1>d. Len(Dropped(chunks)) = Len(chunks) + Busy
    <2>1. CASE task.chunk = NoChunk
      BY <1>0, <2>1 DEF Dropped, Busy, RingsTypes
    <2>2. CASE task.chunk # NoChunk
      BY <1>0, <2>2 DEF Dropped, Busy, RingsTypes
    <2> QED BY <2>1, <2>2
  <1>4. CASE TakeWrite
    <2>1. /\ chunks' = chunks
          /\ \/ \E h : task' = [task EXCEPT !.at = "gate", !.held = h, !.fresh = TRUE]
             \/ task' = [task EXCEPT !.at = "gate", !.fresh = FALSE]
      BY <1>4 DEF TakeWrite
    <2>c. task'.at = "gate" /\ task'.chunk = task.chunk
      BY <1>0, <2>1 DEF RingsTypes, TaskType
    <2>2. task'.at = "gate" /\ Busy' = Busy
      BY <2>c DEF Busy
    <2> QED BY <1>2, <1>w, <2>1, <2>2
  <1>5. CASE CheckGate
    <2>1. CASE ~Admits(task.held.gen)
      <3>1. /\ task' = [task EXCEPT !.at = "loop", !.held = NoWrite, !.chunk = NoChunk]
            /\ chunks' = Dropped(chunks)
        BY <1>5, <2>1 DEF CheckGate
      <3>2. task'.at = "loop" /\ Busy' = 0
        BY <1>0, <3>1 DEF RingsTypes, TaskType, Busy
      <3> QED BY <1>0, <1>2, <1>d, <1>w, <3>1, <3>2 DEF RingsTypes
    <2>2. CASE Admits(task.held.gen)
      <3>1. /\ task' = [task EXCEPT !.at = IF task.fresh THEN "overflow" ELSE "chunk",
                              !.chunk = IF KeepsChunk(task.held.gen) THEN @ ELSE NoChunk]
            /\ chunks' = IF KeepsChunk(task.held.gen) THEN chunks ELSE Dropped(chunks)
        BY <1>5, <2>2 DEF CheckGate
      <3>2. /\ task'.at \in {"overflow", "chunk"}
            /\ task'.chunk = IF KeepsChunk(task.held.gen) THEN task.chunk ELSE NoChunk
        BY <1>0, <3>1 DEF RingsTypes, TaskType
      <3>3. Len(chunks') + Busy' = Len(chunks) + Busy
        <4>1. CASE KeepsChunk(task.held.gen)
          BY <3>1, <3>2, <4>1 DEF Busy
        <4>2. CASE ~KeepsChunk(task.held.gen)
          <5>1. Len(chunks') = Len(chunks) + Busy /\ Busy' = 0
            BY <1>d, <3>1, <3>2, <4>2 DEF Busy
          <5> QED BY <1>0, <5>1 DEF RingsTypes
        <4> QED BY <4>1, <4>2
      <3>4. Len(chunks') \in Nat /\ Busy' \in {0, 1}
        BY <1>0, <1>d, <3>1 DEF RingsTypes, Busy
      <3> QED BY <1>0, <1>2, <1>w, <3>2, <3>3, <3>4 DEF RingsTypes
    <2> QED BY <2>1, <2>2
  <1>6. CASE CheckOverflow
    <2>1. CASE overflow = task.held.gen
      <3>1. /\ task' = [task EXCEPT !.at = "loop", !.held = NoWrite, !.chunk = NoChunk]
            /\ chunks' = Dropped(chunks)
        BY <1>6, <2>1 DEF CheckOverflow
      <3>2. task'.at = "loop" /\ Busy' = 0
        BY <1>0, <3>1 DEF RingsTypes, TaskType, Busy
      <3> QED BY <1>0, <1>2, <1>d, <1>w, <3>1, <3>2 DEF RingsTypes
    <2>2. CASE overflow # task.held.gen
      <3>1. task' = [task EXCEPT !.at = "chunk"] /\ chunks' = chunks
        BY <1>6, <2>2 DEF CheckOverflow
      <3>2. task'.at = "chunk" /\ Busy' = Busy
        BY <1>0, <3>1 DEF RingsTypes, TaskType, Busy
      <3> QED BY <1>2, <1>w, <3>1, <3>2
    <2> QED BY <2>1, <2>2
  <1>7. CASE NoRoom
    <2>1. /\ chunks' = chunks
          /\ \/ task' = [task EXCEPT !.at = "loop", !.held = NoWrite]
             \/ task' = [task EXCEPT !.at = "loop"]
      BY <1>7 DEF NoRoom
    <2>c. task'.at = "loop" /\ task'.chunk = task.chunk
      BY <1>0, <2>1 DEF RingsTypes, TaskType
    <2>2. task'.at = "loop" /\ Busy' = Busy
      BY <2>c DEF Busy
    <2> QED BY <1>2, <1>w, <2>1, <2>2
  <1>8. CASE Fill
    <2>1. Len(chunks) + lent + 1 <= OUTBOUND_RING_ITEM_COUNT
      <3>1. CASE task.chunk # NoChunk
        BY <1>2, <3>1 DEF Busy
      <3>2. CASE task.chunk = NoChunk
        <4>1. ~(Len(chunks) + lent + 0 >= OUTBOUND_RING_ITEM_COUNT)
          BY <1>8, <3>2 DEF Fill, OutboundFull
        <4> QED BY <1>0, <4>1 DEF RingsTypes
      <3> QED BY <3>1, <3>2
    <2>2. /\ \/ task'.chunk = Full /\ chunks' = chunks
             \/ task'.chunk = NoChunk /\ \E e \in {Full, NoChunk} : chunks' = Append(chunks, e)
          /\ Full # NoChunk /\ task'.at = "loop" /\ Full \in Chunk
      BY <1>8, FillEffect
    <2>3. \/ Busy' = 1 /\ chunks' = chunks
          \/ Busy' = 0 /\ \E e \in Chunk : chunks' = Append(chunks, e)
      BY <1>0, <2>2 DEF Busy, RingsTypes
    <2>4. Len(chunks') + lent + Busy' <= OUTBOUND_RING_ITEM_COUNT
      <3>1. CASE Busy' = 1 /\ chunks' = chunks
        BY <2>1, <3>1
      <3>2. CASE Busy' = 0 /\ \E e \in Chunk : chunks' = Append(chunks, e)
        <4>1. Len(chunks') = Len(chunks) + 1
          BY <1>0, <3>2 DEF RingsTypes
        <4> QED BY <1>0, <2>1, <3>2, <4>1 DEF RingsTypes
      <3> QED BY <2>3, <3>1, <3>2
    <2> QED BY <1>w, <2>2, <2>4
  <1>9. CASE Leave
    <2>1. task' = TaskIdle /\ chunks' = Dropped(chunks)
      BY <1>9 DEF Leave
    <2>2. Busy' = 0
      BY <1>0, <2>1 DEF Busy, RingsTypes
    <2> QED BY <1>0, <1>2, <1>d, <1>w, <2>1, <2>2 DEF RingsTypes
  <1> QED BY <1>4, <1>5, <1>6, <1>7, <1>8, <1>9 DEF TaskNext

LEMMA ProtocolRings ==
    ASSUME SourceTypes, StreamInv, RingsInv, TeardownsInv,
           \/ TryOpen \/ StartCommand \/ StopCommand \/ Unavailable \/ Connected \/ QuietWindow
           \/ (\E owner \in BOOLEAN : Activation(owner)) \/ SourceLost
    PROVE  RingsInv' /\ TeardownsInv'
  <1>1. /\ UNCHANGED <<listener, written, task, chunks, lent, room>> /\ Running
    BY DEF Protocol, TryOpen, StartCommand, StopCommand, Unavailable, Connected, QuietWindow,
           Activation, SourceLost
  <1>2. EventsFit(sourceEvents', stream'.torn) /\ stream.torn <= stream'.torn
    BY NowFits, ProtocolEvents
  <1>3. stream'.torn \in Nat
    BY ProtocolStepTypes DEF SourceTypes, ProtocolTypes, StreamType
  <1>4. TeardownsInv' /\ Len(sourceEvents') <= room'
    BY <1>1, <1>2, <1>3, RunningEvents
  <1> QED BY <1>1, <1>4 DEF RingsInv, ChunksFit

LEMMA SendsRings ==
    ASSUME SourceTypes, StreamInv, RingsInv, TeardownsInv, SendChunk
    PROVE  RingsInv' /\ TeardownsInv'
  <1>0. RingsTypes
    BY RingsTyped
  <1>1. /\ UNCHANGED <<listener, written, task, room>> /\ Running
        /\ chunks # <<>> /\ chunks' = Tail(chunks)
        /\ \/ lent' = lent + 1 /\ UNCHANGED <<stream, sourceEvents>>
           \/ Loses /\ lent' = lent
           \/ UNCHANGED <<stream, sourceEvents, lent>>
    BY DEF SendChunk, protocolSide
  <1>2. Len(chunks') = Len(chunks) - 1
    BY <1>0, <1>1 DEF RingsTypes
  <1>3. EventsFit(sourceEvents, stream.torn) /\ stream.torn <= stream.torn /\ stream.torn \in Nat
    BY NowFits, EventsTypes
  <1>4. EventsFit(sourceEvents', stream'.torn) /\ stream.torn <= stream'.torn
    <2>1. CASE Loses
      BY <1>3, <2>1, LosesEvents
    <2>2. CASE UNCHANGED <<stream, sourceEvents>>
      BY <1>1, <1>3, <2>2 DEF EventsFit
    <2> QED BY <1>1, <2>1, <2>2
  <1>5. stream'.torn \in Nat
    BY <1>1, <1>3, LosesType DEF StreamType
  <1>6. TeardownsInv' /\ Len(sourceEvents') <= room'
    BY <1>1, <1>4, <1>5, RunningEvents
  <1>7. Len(chunks') + lent' + Busy <= OUTBOUND_RING_ITEM_COUNT
    BY <1>0, <1>1, <1>2 DEF RingsInv, ChunksFit, RingsTypes, Busy
  <1> QED BY <1>1, <1>6, <1>7 DEF RingsInv, ChunksFit, Busy, Running

LEMMA CaptureRings ==
    ASSUME SourceTypes, RingsInv, TeardownsInv,
           ReturnLent \/ ReadGate \/ Refuse \/ (\E len \in WriteUnits : Write(len))
    PROVE  RingsInv' /\ TeardownsInv'
  <1>0. RingsTypes /\ written \in Seq(Writes) /\ Len(written) <= CaptureRoom
        /\ CaptureRoom \in Nat \ {0}
    BY RingsTyped, Sizes DEF SourceTypes, CaptureTypes, RingsInv
  <1>1. /\ UNCHANGED <<stream, sourceEvents, listener, task, chunks, room>>
        /\ lent' = lent \/ (lent > 0 /\ lent' = lent - 1)
    BY DEF ReturnLent, ReadGate, Refuse, Write, Captures, protocolSide
  <1>2. Len(written') <= CaptureRoom
    <2>1. \/ written' = written
          \/ ~RingFull /\ \E e : written' = Append(written, e)
      BY DEF ReturnLent, ReadGate, Refuse, Write
    <2>2. CASE ~RingFull /\ \E e : written' = Append(written, e)
      <3>1. Len(written') = Len(written) + 1 /\ Len(written) \in Nat
        BY <1>0, <2>2
      <3>2. Len(written) < CaptureRoom
        <4> DEFINE held == IF task.held = NoWrite THEN 0 ELSE 1
        <4>1. held \in {0, 1} /\ ~(Len(written) + held >= CaptureRoom)
          BY <2>2 DEF RingFull
        <4> HIDE DEF held
        <4> QED BY <1>0, <3>1, <4>1
      <3> QED BY <1>0, <3>1, <3>2
    <2> QED BY <1>0, <2>1, <2>2
  <1>3. TeardownsInv'
    BY <1>1 DEF TeardownsInv, StoppedIsSilent
  <1>4. Len(chunks) + lent' + Busy <= OUTBOUND_RING_ITEM_COUNT /\ (lent = 0 => lent' = 0)
    BY <1>0, <1>1 DEF RingsInv, ChunksFit, RingsTypes, Busy
  <1> QED BY <1>1, <1>2, <1>3, <1>4 DEF RingsInv, ChunksFit, Busy

\* A stopped role has nothing on its way, and the listener has caught up with what ended.
LEMMA MainRings ==
    ASSUME SourceTypes, StreamInv, RingsInv, TeardownsInv, MainNext \/ StopSource \/ StartSource
    PROVE  RingsInv' /\ TeardownsInv'
  <1>0. RingsTypes
    BY RingsTyped
  <1>1. /\ sourceEvents \in Seq(Events) /\ stream \in StreamType /\ stream.torn \in Nat
        /\ listener \in ListenerType /\ listener.torn \in Nat
        /\ Len(sourceEvents) <= room /\ room \in Nat
    BY EventsTypes DEF RingsInv, SourceTypes, ProtocolTypes
  <1>2. /\ UNCHANGED <<written, room>> /\ Len(written) <= CaptureRoom
        /\ Len(chunks) + lent + Busy <= OUTBOUND_RING_ITEM_COUNT
    BY DEF MainNext, CatchUpSource, TakeEvent, ShutDown, JoinTask, Stopped, StopSource,
           StartSource, MainOnly, RingsInv, ChunksFit, Busy
  <1>3. CASE CatchUpSource
    <2>1. /\ UNCHANGED <<stream, sourceEvents, task, chunks, lent>>
          /\ listener.at \in {"idle", "draining"}
          /\ listener'.at = listener.at /\ listener'.torn = stream.torn /\ ~listener'.streaming
      BY <1>1, <1>3 DEF CatchUpSource, MainOnly, ListenerType
    <2>2. RingsInv'
      BY <1>2, <2>1 DEF RingsInv, ChunksFit
    <2>3. TeardownsInv'
      BY <1>1, <2>1 DEF TeardownsInv, StoppedIsSilent
    <2> QED BY <2>2, <2>3
  <1>4. CASE TakeEvent
    <2> DEFINE e == Head(sourceEvents)
    <2>1. /\ UNCHANGED <<stream, task, chunks, lent>>
          /\ listener.at \in {"idle", "draining"} /\ sourceEvents # <<>>
          /\ sourceEvents' = Tail(sourceEvents)
          /\ \/ listener' = listener
             \/ /\ e.torn = stream.torn
                /\ listener' = [listener EXCEPT !.torn = e.torn,
                                  !.streaming = CASE e.kind = "started" -> TRUE
                                                  [] e.kind = "stopped" -> FALSE
                                                  [] OTHER -> @ /\ listener.torn = e.torn]
      BY <1>4 DEF TakeEvent, MainOnly
    <2>2. /\ Len(sourceEvents') = Len(sourceEvents) - 1
          /\ \A i \in 1 .. Len(sourceEvents') :
                sourceEvents'[i] = sourceEvents[i + 1] /\ i + 1 \in 1 .. Len(sourceEvents)
          /\ 1 \in 1 .. Len(sourceEvents) /\ e = sourceEvents[1]
      BY <1>1, <2>1
    <2> HIDE DEF e
    <2>3. listener'.at = listener.at /\ listener'.torn <= stream.torn
      <3>1. \/ listener' = listener
            \/ \E b : listener' = [listener EXCEPT !.torn = stream.torn, !.streaming = b]
        BY <2>1
      <3>2. listener'.at = listener.at /\ listener'.torn \in {listener.torn, stream.torn}
        BY <1>1, <3>1 DEF ListenerType
      <3> QED BY <1>1, <3>2 DEF TeardownsInv
    <2>4. \A i \in 1 .. Len(sourceEvents') :
            /\ sourceEvents'[i].torn <= stream.torn
            /\ listener.at \in {"draining", "stopped"} =>
                  (sourceEvents'[i].torn = stream.torn => sourceEvents'[i].kind = "cleared")
      BY <2>2 DEF TeardownsInv
    <2>5. listener.at = "draining" => (listener'.torn = stream.torn => ~listener'.streaming)
      <3>1. SUFFICES ASSUME listener.at = "draining", listener'.torn = stream.torn
                     PROVE  ~listener'.streaming
        OBVIOUS
      <3>2. CASE listener' = listener
        BY <3>1, <3>2 DEF TeardownsInv
      <3>3. CASE /\ e.torn = stream.torn
                 /\ listener' = [listener EXCEPT !.torn = e.torn,
                                   !.streaming = CASE e.kind = "started" -> TRUE
                                                   [] e.kind = "stopped" -> FALSE
                                                   [] OTHER -> @ /\ listener.torn = e.torn]
        <4>1. e.kind = "cleared"
          BY <2>2, <3>1, <3>3 DEF TeardownsInv
        <4>2. listener' = [listener EXCEPT !.torn = e.torn,
                                           !.streaming = @ /\ listener.torn = e.torn]
          BY <3>3, <4>1
        <4>3. listener'.streaming = (listener.streaming /\ listener.torn = stream.torn)
          BY <1>1, <3>3, <4>2 DEF ListenerType
        <4> QED BY <3>1, <4>3 DEF TeardownsInv
      <3> QED BY <2>1, <3>2, <3>3
    <2>6. RingsInv'
      <3>1. Len(sourceEvents') <= room
        BY <1>1, <2>2
      <3> QED BY <1>2, <2>1, <2>3, <3>1 DEF RingsInv, ChunksFit
    <2>7. TeardownsInv'
      BY <2>1, <2>3, <2>4, <2>5 DEF TeardownsInv, StoppedIsSilent
    <2> QED BY <2>6, <2>7
  <1>5. CASE ShutDown
    <2>1. /\ UNCHANGED <<chunks, task>> /\ lent' = 0
          /\ listener.at = "closing" /\ listener'.at = "stopping"
          /\ listener'.torn = listener.torn
          /\ Become(Ended(Now, peer.owner, peer.act))
      BY <1>1, <1>5 DEF ShutDown, ListenerType
    <2>2. peer.owner \in BOOLEAN /\ peer.act \in BOOLEAN
      BY DEF SourceTypes, ProtocolTypes, SourcePeer
    <2>3. EventsFit(sourceEvents', stream'.torn) /\ stream'.torn = stream.torn
      BY <2>1, <2>2, NowType, NowFits, EndedFits DEF Become
    <2>4. RingsInv'
      <3>1. Len(chunks) + 0 + Busy <= OUTBOUND_RING_ITEM_COUNT
        BY <1>0, <1>2 DEF RingsTypes
      <3> QED BY <1>2, <2>1, <2>3, <3>1 DEF RingsInv, ChunksFit, Busy, EventsFit
    <2>5. TeardownsInv'
      BY <2>1, <2>3 DEF TeardownsInv, EventsFit, StoppedIsSilent
    <2> QED BY <2>4, <2>5
  <1>6. CASE JoinTask
    <2>1. /\ UNCHANGED <<task, lent>> /\ chunks' = <<>> /\ task.at = "out"
          /\ listener.at = "stopping" /\ listener'.at = "draining"
          /\ listener'.torn = listener.torn
          /\ Become(TornDown(Now))
      BY <1>1, <1>6 DEF JoinTask, ListenerType
    <2>2. /\ EventsFit(sourceEvents', stream'.torn) /\ stream'.torn = stream.torn + 1
          /\ sourceEvents' = Pushed(sourceEvents, "cleared", stream.torn + 1)
      BY <2>1, NowType, NowFits, TornDownFits, TornDownEffect DEF Become
    <2>3. task' = TaskIdle /\ lent' = 0
      BY <2>1 DEF RingsInv
    <2>4. RingsInv'
      <3>1. Len(<<>>) + 0 + 0 <= OUTBOUND_RING_ITEM_COUNT
        BY <1>0 DEF RingsTypes
      <3>2. task'.chunk = NoChunk
        BY <1>0, <2>3 DEF RingsTypes
      <3> QED BY <1>2, <2>1, <2>2, <2>3, <3>1, <3>2 DEF RingsInv, ChunksFit, EventsFit
    <2>5. ASSUME NEW i \in 1 .. Len(sourceEvents'), sourceEvents'[i].torn = stream'.torn
          PROVE  sourceEvents'[i].kind = "cleared"
      <3>1. stream.torn + 1 \in Nat
        BY <1>1
      <3>2. IF i <= Len(sourceEvents) THEN sourceEvents'[i] = sourceEvents[i]
            ELSE sourceEvents'[i] = [kind |-> "cleared", torn |-> stream.torn + 1]
        <4>1. PushedAs(sourceEvents', sourceEvents, [kind |-> "cleared", torn |-> stream.torn + 1])
          BY <1>1, <2>2, PushedEffect
        <4> QED BY <4>1 DEF PushedAs
      <3>3. CASE i <= Len(sourceEvents)
        <4>1. i \in 1 .. Len(sourceEvents) /\ sourceEvents'[i] = sourceEvents[i]
          BY <1>1, <3>2, <3>3
        <4>2. sourceEvents[i].torn <= stream.torn
          BY <4>1 DEF TeardownsInv
        <4> QED BY <1>1, <2>2, <2>5, <4>1, <4>2
      <3> QED BY <3>2, <3>3
    <2>6. listener'.torn < stream'.torn
      BY <1>1, <2>1, <2>2 DEF TeardownsInv
    <2>7. TeardownsInv'
      BY <1>1, <2>1, <2>2, <2>5, <2>6 DEF TeardownsInv, EventsFit, StoppedIsSilent
    <2> QED BY <2>4, <2>7
  <1>7. CASE Stopped \/ StopSource
    <2>1. /\ UNCHANGED <<stream, sourceEvents, task, chunks, lent>>
          /\ listener'.torn = listener.torn /\ listener'.streaming = listener.streaming
          /\ \/ /\ listener.at = "draining" /\ listener.torn = stream.torn
                /\ listener'.at = "stopped"
             \/ listener.at = "idle" /\ listener'.at = "closing"
      BY <1>1, <1>7 DEF Stopped, StopSource, MainOnly, ListenerType
    <2>2. RingsInv'
      BY <1>2, <2>1 DEF RingsInv, ChunksFit
    <2>3. TeardownsInv'
      BY <2>1 DEF TeardownsInv, StoppedIsSilent
    <2> QED BY <2>2, <2>3
  <1>8. CASE StartSource
    <2>1. /\ UNCHANGED <<stream, sourceEvents, chunks, lent>>
          /\ listener.at = "stopped" /\ listener'.at = "idle"
          /\ listener'.torn = listener.torn
          /\ task' = [TaskIdle EXCEPT !.at = "loop"]
      BY <1>1, <1>8 DEF StartSource, MainOnly, ListenerType
    <2>2. task'.at = "loop" /\ task'.chunk = NoChunk /\ task.chunk = NoChunk
      BY <1>0, <2>1 DEF TaskIdle, RingsInv, ChunksFit
    <2>3. RingsInv'
      BY <1>2, <2>1, <2>2 DEF RingsInv, ChunksFit
    <2>4. TeardownsInv'
      BY <2>1 DEF TeardownsInv, StoppedIsSilent
    <2> QED BY <2>3, <2>4
  <1> QED BY <1>3, <1>4, <1>5, <1>6, <1>7, <1>8 DEF MainNext

-----------------------------------------------------------------------------
(* The theorem *)

\* Only Fill completes a chunk, when it is full; the others drop one, or take them out.
LEMMA WholeStep ==
    ASSUME SourceTypes, GensInv, WholeChunks, [SourceNext]_sourceVars
    PROVE  WholeChunks'
  <1>1. chunks \in Seq(Chunk)
    BY DEF SourceTypes, TaskTypes
  <1>2. ASSUME NEW c \in Chunk, chunks' = Append(chunks, c), Len(c.units) \in {0, CHUNK_UNITS}
        PROVE  WholeChunks'
    <2>1. \A i \in 1 .. Len(chunks') : chunks'[i] = c \/ (i \in 1 .. Len(chunks) /\ chunks'[i] = chunks[i])
      BY <1>1, <1>2
    <2> QED BY <1>2, <2>1 DEF WholeChunks
  <1>3. NoChunk \in Chunk /\ Len(NoChunk.units) = 0
    BY Nothing
  <1>4. CASE chunks' \in {chunks, <<>>, Append(chunks, NoChunk)}
    BY <1>2, <1>3, <1>4 DEF WholeChunks
  <1>5. CASE Fill
    <2>1. \/ chunks' = chunks
          \/ chunks' = Append(chunks, NoChunk)
          \/ chunks' = Append(chunks, Full) /\ Full \in Chunk /\ Len(Full.units) = CHUNK_UNITS
      BY <1>5, FillEffect
    <2> QED BY <1>2, <1>4, <2>1
  <1>6. CASE SendChunk
    <2>1. chunks # <<>> /\ chunks' = Tail(chunks)
      BY <1>6 DEF SendChunk
    <2>2. \A i \in 1 .. Len(chunks') : i + 1 \in 1 .. Len(chunks) /\ chunks'[i] = chunks[i + 1]
      BY <1>1, <2>1
    <2> QED BY <2>2 DEF WholeChunks
  <1>7. CASE TaskNext
    BY <1>4, <1>5, <1>7 DEF TaskNext, TakeWrite, CheckGate, CheckOverflow, NoRoom, Leave, Tasks, Dropped
  <1>8. CASE MainNext \/ StopSource \/ StartSource
    BY <1>4, <1>8 DEF MainNext, CatchUpSource, TakeEvent, ShutDown, JoinTask, Stopped, StopSource,
                      StartSource, MainOnly
  <1>9. CASE ReadGate \/ Refuse \/ (\E len \in WriteUnits : Write(len)) \/ ReturnLent
    BY <1>4, <1>9 DEF ReadGate, Refuse, Write, Captures, ReturnLent
  <1>10. CASE \/ TryOpen \/ StartCommand \/ StopCommand \/ Unavailable \/ Connected \/ QuietWindow
              \/ (\E owner \in BOOLEAN : Activation(owner)) \/ SourceLost
    BY <1>4, <1>10 DEF TryOpen, StartCommand, StopCommand, Unavailable, Connected, QuietWindow,
                       Activation, SourceLost, Protocol
  <1>11. CASE UNCHANGED sourceVars
    BY <1>4, <1>11 DEF sourceVars
  <1> QED BY <1>5, <1>6, <1>7, <1>8, <1>9, <1>10, <1>11 DEF SourceNext

LEMMA SourceInitInv == SourceInit => SourceIInv
  <1> SUFFICES ASSUME SourceInit PROVE SourceIInv
    OBVIOUS
  <1>1. PICK depth \in Depths : SourceStarts("stopped", depth[1], depth[2])
    BY DEF SourceInit
  <1>2. depth[1] \in 0 .. MaxUnits /\ depth[2] \in Nat /\ MaxUnits \in Nat
    BY SourceAssumption
  <1>3. MaxUnits - depth[1] \in Nat
    BY <1>2
  <1>4. /\ peer = NoPeerYet /\ room = depth[2]
        /\ stream = ClosedStream /\ heard = Silent /\ sourceEvents = <<>>
        /\ listener = [at |-> "stopped", torn |-> 0, streaming |-> FALSE]
        /\ capture = [gen |-> 0, n |-> MaxUnits - depth[1]] /\ written = <<>> /\ overflow = 0
        /\ task = TaskIdle /\ chunks = <<>> /\ lent = 0
    BY <1>1 DEF SourceStarts
  <1>5. ProtocolTypes
    BY <1>4, Sizes DEF ProtocolTypes, NoPeerYet, SourcePeer, ClosedStream, StreamType, Silent,
                       HeardType, Codecs
  <1>6. MainTypes
    BY <1>2, <1>4 DEF MainTypes, ListenerType
  <1>7. CaptureTypes
    <2>1. <<>> \in Seq(Writes) /\ 0 \in Nat
      OBVIOUS
    <2> QED BY <1>3, <1>4, <2>1 DEF CaptureTypes
  <1>8. TaskTypes
    <2>1. <<>> \in Seq(Chunk) /\ TaskIdle \in TaskType /\ TaskIdle.chunk = NoChunk
      BY Nothing DEF TaskIdle, TaskType, Codecs
    <2>2. Len(NoChunk.units) < CHUNK_UNITS
      BY Nothing, Sizes
    <2> QED BY <1>4, <2>1, <2>2 DEF TaskTypes
  <1>9. StreamInv
    BY <1>4 DEF StreamInv, NoPeerYet, ClosedStream, Silent
  <1>10. GensInv
    <2>1. OfStream(NoChunk)
      BY <1>4, Nothing DEF OfStream, OfThis, ClosedStream
    <2> QED BY <1>4, <2>1, Nothing DEF GensInv, ClosedStream, TaskIdle
  <1>11. OrderInv
    <2>1. Len(<<>>) = 0 /\ \A i \in 1 .. Len(<<>>) : FALSE
      OBVIOUS
    <2>2. /\ After(0, <<>>) /\ Rising(<<>>) /\ UpTo(<<>>, MaxUnits - depth[1])
          /\ Below(<<>>, <<>>)
      BY OrderNothing
    <2>3. InOrder(0, <<>>, <<>>, <<>>, <<>>, MaxUnits - depth[1])
      BY <2>1, <2>2 DEF InOrder
    <2>4. heard.upto = 0 /\ task.chunk.units = <<>> /\ task.held.units = <<>>
      BY <1>4, Nothing DEF Silent, TaskIdle
    <2> QED BY <1>3, <1>4, <2>3, <2>4 DEF OrderInv
  <1>w. WholeChunks
    BY <1>4 DEF WholeChunks
  <1>12. RingsInv
    BY <1>2, <1>4, Sizes DEF RingsInv, ChunksFit, TaskIdle
  <1>13. TeardownsInv
    BY <1>4 DEF TeardownsInv, ClosedStream, StoppedIsSilent
  <1> QED BY <1>5, <1>6, <1>7, <1>8, <1>9, <1>10, <1>11, <1>w, <1>12, <1>13 DEF SourceIInv, SourceTypes

LEMMA SourceStep == SourceIInv /\ [SourceNext]_sourceVars => SourceIInv'
  <1> SUFFICES ASSUME SourceIInv, [SourceNext]_sourceVars PROVE SourceIInv'
    OBVIOUS
  <1>0. SourceTypes /\ StreamInv /\ GensInv /\ OrderInv /\ WholeChunks /\ RingsInv /\ TeardownsInv
    BY DEF SourceIInv
  <1>w. WholeChunks'
    BY <1>0, WholeStep
  <1>g. ASSUME SourceTypes', StreamInv', GensInv', OrderInv', RingsInv', TeardownsInv'
        PROVE  SourceIInv'
    BY <1>g, <1>w DEF SourceIInv
  <1>1. CASE TryOpen
    <2>1. UNCHANGED <<capture, written, task, chunks>>
      BY <1>1 DEF TryOpen, Protocol
    <2>2. SourceTypes' /\ RingsInv' /\ TeardownsInv'
      BY <1>0, <1>1, ProtocolStepTypes, ProtocolRings
    <2>3. /\ StreamInv'
          /\ \/ stream'.gen = stream.gen /\ stream'.codec = stream.codec /\ heard' = heard
             \/ stream'.gen = stream.gen + 1 /\ stream'.codec # "none" /\ heard'.upto = 0
      BY <1>0, <1>1, OpensStream
    <2>4. GensInv'
      BY <1>0, <2>1, <2>3, StreamGens
    <2>5. OrderInv'
      BY <1>0, <2>1, <2>3, ProtocolOrder
    <2> QED BY <1>g, <2>2, <2>3, <2>4, <2>5
  <1>2. CASE \/ StartCommand \/ StopCommand \/ Unavailable \/ Connected \/ QuietWindow
             \/ (\E owner \in BOOLEAN : Activation(owner)) \/ SourceLost
    <2>1. UNCHANGED <<capture, written, task, chunks>>
      BY <1>2 DEF StartCommand, StopCommand, Unavailable, Connected, QuietWindow, Activation,
                  SourceLost, Protocol
    <2>2. SourceTypes' /\ RingsInv' /\ TeardownsInv'
      BY <1>0, <1>2, ProtocolStepTypes, ProtocolRings
    <2>3. /\ StreamInv' /\ heard'.upto \in {0, heard.upto}
          /\ stream'.gen = stream.gen /\ stream'.codec = stream.codec
      BY <1>0, <1>2, ProtocolStream
    <2>4. GensInv'
      BY <1>0, <2>1, <2>3, StreamGens
    <2>5. OrderInv'
      BY <1>0, <2>1, <2>3, ProtocolOrder
    <2> QED BY <1>g, <2>2, <2>3, <2>4, <2>5
  <1>3. CASE SendChunk
    <2>1. UNCHANGED <<capture, written, task>> /\ chunks # <<>> /\ chunks' = Tail(chunks)
      BY <1>3 DEF SendChunk
    <2>2. SourceTypes' /\ RingsInv' /\ TeardownsInv'
      BY <1>0, <1>3, OtherStepTypes, SendsRings
    <2>3. /\ StreamInv' /\ stream'.gen = stream.gen /\ stream'.codec = stream.codec
          /\ \/ heard' = heard
             \/ /\ chunks[1].units # <<>>
                /\ heard'.upto = chunks[1].units[Len(chunks[1].units)]
      BY <1>0, <1>3, SendsStream
    <2>4. GensInv'
      BY <1>0, <2>1, <2>3, StreamGens
    <2>5. OrderInv'
      BY <1>0, <2>1, <2>3, SendsOrder
    <2> QED BY <1>g, <2>2, <2>3, <2>4, <2>5
  <1>4. CASE ReturnLent
    <2>1. UNCHANGED <<protocolSide, listener, capture, written, task, chunks>>
      BY <1>4 DEF ReturnLent
    <2>2. SourceTypes' /\ RingsInv' /\ TeardownsInv'
      BY <1>0, <1>4, OtherStepTypes, CaptureRings
    <2>3. StreamInv' /\ GensInv' /\ OrderInv'
      BY <1>0, <2>1 DEF protocolSide, StreamInv, Running, GensInv, KeepsChunk, OfStream, OrderInv
    <2> QED BY <1>g, <2>2, <2>3
  <1>5. CASE ReadGate \/ Refuse \/ \E len \in WriteUnits : Write(len)
    <2>1. UNCHANGED <<protocolSide, listener>>
      BY <1>5 DEF ReadGate, Refuse, Write, Captures
    <2>2. SourceTypes' /\ RingsInv' /\ TeardownsInv'
      BY <1>0, <1>5, CaptureStepTypes, CaptureRings
    <2>3. GensInv' /\ OrderInv'
      BY <1>0, <1>5, CaptureGens, CaptureOrder
    <2>4. StreamInv'
      BY <1>0, <2>1 DEF protocolSide, StreamInv, Running
    <2> QED BY <1>g, <2>2, <2>3, <2>4
  <1>6. CASE TaskNext
    <2>1. UNCHANGED <<protocolSide, listener, sourceEvents>>
      BY <1>6 DEF TaskNext, TakeWrite, CheckGate, CheckOverflow, NoRoom, Fill, Leave, Tasks
    <2>2. SourceTypes' /\ RingsInv'
      BY <1>0, <1>6, TaskStepTypes, TaskRings
    <2>3. GensInv' /\ OrderInv'
      BY <1>0, <1>6, TaskGens, TaskOrder
    <2>4. StreamInv' /\ TeardownsInv'
      BY <1>0, <2>1 DEF protocolSide, StreamInv, Running, TeardownsInv, StoppedIsSilent
    <2> QED BY <1>g, <2>2, <2>3, <2>4
  <1>7. CASE MainNext \/ StopSource \/ StartSource
    <2>1. UNCHANGED <<capture, written>> /\ chunks' \in {chunks, <<>>}
          /\ task' \in {task, [TaskIdle EXCEPT !.at = "loop"]}
      BY <1>7 DEF MainNext, CatchUpSource, TakeEvent, ShutDown, JoinTask, Stopped, StopSource,
                  StartSource, MainOnly
    <2>2. SourceTypes' /\ RingsInv' /\ TeardownsInv'
      BY <1>0, <1>7, OtherStepTypes, MainRings
    <2>3. /\ StreamInv' /\ heard'.upto = heard.upto
          /\ stream'.gen = stream.gen /\ stream'.codec = stream.codec
      BY <1>0, <1>7, MainStream, ShutDownStream DEF MainNext
    <2>4. GensInv'
      <3>1. CASE task' = task
        BY <1>0, <2>1, <2>3, <3>1, StreamGens
      <3>2. CASE task' # task
        <4>1. StartSource
          BY <1>7, <3>2 DEF MainNext, CatchUpSource, TakeEvent, ShutDown, JoinTask, Stopped,
                            StopSource, MainOnly
        <4>2. /\ task' = [TaskIdle EXCEPT !.at = "loop"] /\ task = TaskIdle
              /\ UNCHANGED <<stream, capture, written, chunks>>
          BY <1>0, <4>1 DEF StartSource, MainOnly, RingsInv, ChunksFit
        <4>3. /\ task'.at = "loop" /\ task'.held = task.held /\ task'.chunk = task.chunk
              /\ task'.encGen = task.encGen /\ task'.encoder = task.encoder
          BY <4>2 DEF TaskIdle
        <4> QED BY <1>0, <4>2, <4>3 DEF GensInv, OfStream
      <3> QED BY <3>1, <3>2
    <2>5. OrderInv'
      BY <1>0, <2>1, <2>3, MainOrder
    <2> QED BY <1>g, <2>2, <2>3, <2>4, <2>5
  <1>8. CASE UNCHANGED sourceVars
    BY <1>0, <1>8 DEF sourceVars, protocolSide, SourceIInv, SourceTypes, ProtocolTypes, MainTypes,
       CaptureTypes, TaskTypes, StreamInv, Running, GensInv, KeepsChunk, OfStream, OrderInv,
       WholeChunks, RingsInv, ChunksFit, TeardownsInv, StoppedIsSilent
  <1> QED BY <1>1, <1>2, <1>3, <1>4, <1>5, <1>6, <1>7, <1>8 DEF SourceNext

\* Whatever the sizes, and whatever the threads' interleaving: the server hears the start of a
\* stream, whole chunks of that stream in order and its end, none is forgotten, nothing is out when the
\* rings are destroyed, and a stopped client's listener is not streaming (source_role.cpp,
\* source_task.cpp).
THEOREM SourceCorrect == SourceSpec => []SourceSafe
  <1>1. SourceIInv => SourceSafe
    BY Sizes DEF SourceIInv, SourceTypes, ProtocolTypes, MainTypes, TaskTypes, StreamType,
       ListenerType, TaskType, StreamInv, RingsInv, TeardownsInv, SourceSafe, SourceTypeOK,
       ServerHearsStreams, EndIsNotForgotten
  <1> QED BY <1>1, SourceInitInv, SourceStep, PTL DEF SourceSpec

===============================================================================
