------------------------------ MODULE RingQueue ------------------------------
(***************************************************************************)
(* What a shared ring promises its users: items are reserved in one order, *)
(* filled in any order, taken in the order they were reserved and only     *)
(* once filled, and returned in any order, each once. The room of an item  *)
(* is given back when every item reserved before it has been returned.     *)
(***************************************************************************)
EXTENDS Naturals, Sequences, FiniteSetsExt

CONSTANT Lengths    \* what an item can hold

VARIABLE queue      \* the items whose room is not given back yet, oldest first

Stages == {"acquired", "written", "taken", "returned"}

QueueInit == queue = <<>>

Acquire ==
    \E len \in Lengths : queue' = Append(queue, [len |-> len, stage |-> "acquired"])

Complete(i) ==
    /\ queue[i].stage = "acquired"
    /\ queue' = [queue EXCEPT ![i].stage = "written"]

Take(i) ==
    /\ queue[i].stage = "written"
    /\ \A j \in 1 .. i - 1 : queue[j].stage \in {"taken", "returned"}
    /\ queue' = [queue EXCEPT ![i].stage = "taken"]

\* The queue without the returned items at its head.
Reclaimed(items) ==
    LET kept == {i \in DOMAIN items : items[i].stage # "returned"} IN
    IF kept = {} THEN <<>> ELSE SubSeq(items, Min(kept), Len(items))

Return(i) ==
    /\ queue[i].stage = "taken"
    /\ queue' = Reclaimed([queue EXCEPT ![i].stage = "returned"])

QueueNext == Acquire \/ \E i \in DOMAIN queue : Complete(i) \/ Take(i) \/ Return(i)

QueueSpec == QueueInit /\ [][QueueNext]_queue
=============================================================================
