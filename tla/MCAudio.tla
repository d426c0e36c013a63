-------------------------------- MODULE MCAudio --------------------------------
(***************************************************************************)
(* The roles that carry audio, one at a time, on a client that is stopped  *)
(* and started again: the player's streams and the source's. `part` is     *)
(* chosen at the start.                                                    *)
(***************************************************************************)
EXTENDS PlayerStream, SourceStream

VARIABLE part

audioVars == <<vars, sourceVars, part>>

\* Three units, in writes of one or in one longer than a chunk, and no room for an event; or three
\* events and no audio.
MCDepths == {<<3, 0>>, <<0, 3>>}

\* A client that is stopped, so that the fairness of its player asks for nothing
PlayerAtRest ==
    /\ proto = [pc |-> "joined", ordinal |-> FirstOrdinal,
                messages |-> 0, clears |-> 0, teardowns |-> 0, stops |-> 0, lost |-> FALSE]
    /\ sync = [pc |-> "stopped", flag |-> FALSE, held |-> NoItem, next |-> NoItem,
               active |-> FirstOrdinal, decoded |-> NoItem, abandoned |-> FALSE,
               return |-> "idle"]
    /\ main = [pc |-> "tick", batch |-> <<>>, gen |-> 0, completed |-> 0, awaiting |-> <<>>,
               awaitingIdle |-> FALSE, syncIdle |-> FALSE, streamActive |-> FALSE,
               hpHeld |-> FALSE, params |-> -1]
    /\ generation = 0 /\ list = <<>> /\ flags = {} /\ ended = FirstOrdinal
    /\ started = FirstOrdinal /\ idleNote = FALSE /\ params = NoParams /\ events = <<>>

AudioInit ==
    /\ part \in {"player", "source"}
    /\ IF part = "player" THEN Init ELSE PlayerAtRest
    /\ IF part = "source" THEN SourceInit ELSE SourceStarts("stopped", 0, 0)

AudioNext ==
    \/ part = "player" /\ Next /\ UNCHANGED <<sourceVars, part>>
    \/ part = "source" /\ SourceNext /\ UNCHANGED <<vars, part>>

AudioSpec == AudioInit /\ [][AudioNext]_audioVars /\ Fairness /\ SourceFairness
=============================================================================
