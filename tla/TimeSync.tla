------------------------------- MODULE TimeSync -------------------------------
(***************************************************************************)
(* Time bursts on the admitted connections, and the hold on the platform's *)
(* high-performance networking each burst waits for: the protocol task     *)
(* asks for it, the main loop calls the listener and grants it. Playback   *)
(* and capture hold it too, on the main loop itself.                       *)
(*                                                                         *)
(* A frame is known by its client_transmitted, a number whose low bits are *)
(* its tag. The server echoes what it likes, when it likes.                *)
(*                                                                         *)
(* A definition whose name ends in Mutant is a deliberate mistake the      *)
(* properties are tested against.                                          *)
(***************************************************************************)
EXTENDS ModularCount, FiniteSets

CONSTANTS
    MAX_ADMITTED,     \* admitted connections at a time
    BurstSize,        \* time_burst_size
    MaxFrames,        \* bound: the largest client_transmitted of a connection
    TagSpan,          \* values of a tag, 2^32 in the code
    TicketSpan,       \* values of a ticket, 2^32 in the code
    MaxReproofs,      \* bound: in-band re-handshakes of a connection
    MaxStalled        \* bound: acquires that wait for the main loop when a connection is admitted

ASSUME SyncAssumption ==
    /\ {MAX_ADMITTED, BurstSize, TagSpan} \subseteq Nat \ {0}
    /\ {MaxFrames, MaxReproofs, MaxStalled} \subseteq Nat
    /\ TicketSpan \in Nat /\ TicketSpan > 2 * (MAX_ADMITTED + MaxStalled) + 2

SyncSlots == 1 .. MAX_ADMITTED
Echoes == 1 .. MaxFrames + TagSpan

VARIABLES
    clocks,      \* of each admitted slot: its burst and its hold, see Clock
    tickets,     \* high_performance_requests
    syncTask,    \* run_time_sync(): the slot it is at, or 0 while the task waits
    wakened,     \* the task's event bit
    holdSlot,    \* high_performance_slot, and what the main loop took from it
    holdTaken,
    holdMain,    \* the main loop: "idle", "acquire", "grant", "release", or "stopped"
    granted,     \* high_performance_granted_
    refs,        \* high_performance_ref_count_: the listener's mode is on while it is not 0
    playing      \* the main loop holds the mode for playback or capture

taskSide == <<clocks, tickets, syncTask>>
mainSide == <<holdTaken, holdMain, granted, refs, playing>>
syncVars == <<taskSide, mainSide, wakened, holdSlot>>

Clock ==
    [in : BOOLEAN,                    \* the slot has a connection
     op : BOOLEAN,                    \* which is operational: proved and activated
     reproofs : 0 .. MaxReproofs,
     held : BOOLEAN, ticket : 0 .. TicketSpan - 1,
     index : 0 .. BurstSize, completed : BOOLEAN,
     pending : 0 .. MaxFrames, tag : 0 .. TagSpan - 1, stamp : 0 .. MaxFrames,
     late : BOOLEAN,                  \* the interval or the response timeout has passed
     deadline : BOOLEAN,              \* the task wakes when what this one waits for is due
     best : {0} \cup Echoes,          \* the frame whose measurement is the burst's best
     fed : {0} \cup Echoes,           \* the frame whose measurement the filter had last
     sent : SUBSET (1 .. MaxFrames)]  \* history: the frames of this burst

FreeClock ==
    [in |-> FALSE, op |-> FALSE, reproofs |-> 0, held |-> FALSE, ticket |-> 0,
     index |-> BurstSize, completed |-> FALSE, pending |-> 0, tag |-> 0, stamp |-> 0,
     late |-> FALSE, deadline |-> FALSE, best |-> 0, fed |-> 0, sent |-> {}]

Nothing == [acquires |-> 0, releases |-> 0]

-----------------------------------------------------------------------------
(* One burst *)

StartsBurst(k) == k.index >= BurstSize /\ ~k.completed /\ k.late

\* The filter is fed the best measurement, and the interval to the next burst begins.
Finished(k) == [k EXCEPT !.fed = IF k.best = 0 THEN @ ELSE k.best, !.late = FALSE]

\* retire_message(): the clock, and whether the burst is over
Retired(k) ==
    LET next == [k EXCEPT !.index = @ + 1]
    IN  IF next.index < BurstSize THEN [clock |-> next, done |-> FALSE]
        ELSE [clock |-> Finished(next), done |-> TRUE]

\* The time of a frame sent now: one whose tag is 0 is moved on.
NextStamp(n) == IF (n + 1) % TagSpan = 0 THEN n + 2 ELSE n + 1

\* send_time_message(): the tag is set before the write, which may fail.
Sends(k) ==
    LET n == NextStamp(k.stamp)
        staged == [k EXCEPT !.stamp = n, !.tag = n % TagSpan]
    IN  {Retired(k)} \cup
        IF n > MaxFrames THEN {}
        ELSE {Retired(staged),
              [clock |-> [staged EXCEPT !.pending = n, !.late = FALSE, !.sent = @ \cup {n}],
               done |-> FALSE]}

Opened(k) == [k EXCEPT !.index = 0, !.best = 0, !.sent = {}]

\* SendspinTimeBurst::loop(): what may come of it
Looped(k, mayOpen) ==
    LET over == k.index >= BurstSize
        open == IF over THEN Opened(k) ELSE k
    IN  IF k.completed THEN {[clock |-> [k EXCEPT !.completed = FALSE], done |-> TRUE]}
        ELSE IF over /\ (~mayOpen \/ ~k.late) THEN {[clock |-> k, done |-> FALSE]}
        ELSE IF open.pending = 0 THEN Sends(open)
        ELSE IF open.late THEN {Retired([open EXCEPT !.pending = 0, !.tag = 0])}
        ELSE {[clock |-> open, done |-> FALSE]}

\* The echo is not compared: the reply claimed a frame.
AnsweredMutant(k, echo, good) ==
    LET next == [k EXCEPT !.pending = 0, !.index = @ + 1,
                          !.best = IF good THEN echo ELSE @]
    IN  IF k.pending = 0 THEN k
        ELSE IF next.index < BurstSize THEN next
        ELSE [Finished(next) EXCEPT !.completed = TRUE]

\* on_time_response(): a reply whose measurement counts if it is good
Answered(k, echo, good) ==
    LET next == [k EXCEPT !.pending = 0, !.index = @ + 1,
                          !.best = IF good THEN echo ELSE @]
    IN  IF echo # k.pending THEN k
        ELSE IF next.index < BurstSize THEN next
        ELSE [Finished(next) EXCEPT !.completed = TRUE]

\* Whether what the deadline is for is due (ms_until_due())
Due(k) ==
    k.completed \/ (k.index < BurstSize /\ k.pending = 0) \/ k.late

-----------------------------------------------------------------------------
(* The protocol task *)

\* request_high_performance()
Requested(acquires, releases) ==
    /\ holdSlot' = [acquires |-> holdSlot.acquires + acquires,
                    releases |-> holdSlot.releases + releases]
    /\ tickets' = IF acquires = 1 THEN NextCount(tickets, TicketSpan) ELSE tickets

\* high_performance_granted()
Granted(ticket) == ~CountAfter(ticket, granted, TicketSpan)

TickStarts ==
    /\ syncTask = 0 /\ holdMain # "stopped"
    /\ wakened \/ \E c \in SyncSlots : clocks[c].deadline /\ Due(clocks[c])
    /\ syncTask' = 1 /\ wakened' = FALSE
    /\ UNCHANGED <<clocks, tickets, holdSlot, mainSide>>

\* run_time_sync() at slot c
Serve(c) ==
    LET k == clocks[c]
        asks == ~k.held /\ StartsBurst(k)
        asked == IF asks THEN [k EXCEPT !.held = TRUE, !.ticket = NextCount(tickets, TicketSpan)]
                 ELSE k
        may == asked.held /\ Granted(asked.ticket)
        runs == k.in /\ k.op /\ (may \/ ~asked.held)
    IN  /\ syncTask = c
        /\ syncTask' = (c + 1) % (MAX_ADMITTED + 1)
        /\ IF runs
           THEN \E after \in Looped(asked, may) :
                   /\ clocks' = [clocks EXCEPT ![c] =
                        [after.clock EXCEPT !.held = @ /\ ~after.done, !.deadline = TRUE]]
                   /\ Requested(IF asks THEN 1 ELSE 0,
                                IF after.done /\ asked.held THEN 1 ELSE 0)
           ELSE /\ clocks' = [clocks EXCEPT ![c] =
                     [(IF k.in /\ k.op THEN asked ELSE k) EXCEPT !.deadline = FALSE]]
                /\ Requested(IF asks /\ k.in /\ k.op THEN 1 ELSE 0, 0)
        /\ UNCHANGED <<wakened, mainSide>>

\* A message is handled by the tick, which then runs time synchronisation.
Handled(c, k) ==
    /\ syncTask = 0 /\ holdMain # "stopped"
    /\ clocks' = [clocks EXCEPT ![c] = k]
    /\ wakened' = TRUE
    /\ UNCHANGED <<syncTask, mainSide>>

\* SERVER_TIME: a reply that claims the frame in flight
ServerTime(c, echo, good) ==
    LET k == clocks[c]
    IN  /\ k.in /\ k.tag # 0 /\ echo % TagSpan = k.tag
        /\ Handled(c, Answered([k EXCEPT !.tag = 0], echo, good))
        /\ UNCHANGED <<holdSlot, tickets>>

Admit(c) ==
    /\ ~clocks[c].in /\ holdSlot.acquires + holdTaken.acquires <= MaxStalled
    /\ \E late \in BOOLEAN :
          Handled(c, [FreeClock EXCEPT !.in = TRUE, !.op = TRUE, !.late = late])
    /\ UNCHANGED <<holdSlot, tickets>>

Reprove(c) ==
    LET k == clocks[c]
    IN  /\ k.in /\ k.op /\ k.reproofs < MaxReproofs
        /\ Handled(c, [k EXCEPT !.op = FALSE, !.reproofs = @ + 1])
        /\ UNCHANGED <<holdSlot, tickets>>

Activated(c) ==
    /\ clocks[c].in /\ ~clocks[c].op
    /\ Handled(c, [clocks[c] EXCEPT !.op = TRUE])
    /\ UNCHANGED <<holdSlot, tickets>>

\* vacate_admitted(): the burst ends with its connection
Vacated(c) ==
    /\ Handled(c, FreeClock)
    /\ Requested(0, IF clocks[c].held THEN 1 ELSE 0)

Vacate(c) == clocks[c].in /\ Vacated(c)

\* A connection that does not prove itself again in time is dropped.
ReproveTimeout(c) == ~clocks[c].op /\ Vacate(c)

\* The interval between bursts, or the time a reply may take
PassTime(c) ==
    LET k == clocks[c]
    IN  /\ k.in /\ ~k.late /\ (k.index >= BurstSize \/ k.pending # 0)
        /\ clocks' = [clocks EXCEPT ![c].late = TRUE]
        /\ UNCHANGED <<tickets, syncTask, wakened, holdSlot, mainSide>>

-----------------------------------------------------------------------------
(* The main loop *)

\* release_high_performance(), n times: one of nothing is ignored
Released(n, count) == IF n >= count THEN 0 ELSE count - n

HoldTake ==
    /\ holdMain = "idle" /\ holdSlot # Nothing
    /\ holdTaken' = holdSlot /\ holdSlot' = Nothing
    /\ holdMain' = IF holdSlot.acquires = 0 THEN "release" ELSE "acquire"
    /\ UNCHANGED <<taskSide, wakened, granted, refs, playing>>

\* What was taken is released first.
HoldAcquireMutant ==
    /\ holdMain = "acquire"
    /\ refs' = Released(holdTaken.releases, refs) + holdTaken.acquires
    /\ holdTaken' = [holdTaken EXCEPT !.releases = 0]
    /\ holdMain' = "grant"
    /\ UNCHANGED <<taskSide, wakened, holdSlot, granted, playing>>

\* The acquires come first: a hold asked for and given back between two drains reaches the listener
\* as a request and its release.
HoldAcquire ==
    /\ holdMain = "acquire"
    /\ refs' = refs + holdTaken.acquires
    /\ holdMain' = "grant"
    /\ UNCHANGED <<taskSide, wakened, holdSlot, holdTaken, granted, playing>>

\* A waiting burst has no deadline, and is not woken either.
GrantWakeMutant == UNCHANGED wakened

GrantWake == wakened' = TRUE

HoldGrant ==
    /\ holdMain = "grant"
    /\ granted' = (granted + holdTaken.acquires) % TicketSpan
    /\ GrantWake
    /\ holdMain' = "release"
    /\ UNCHANGED <<taskSide, holdSlot, holdTaken, refs, playing>>

HoldRelease ==
    /\ holdMain = "release"
    /\ refs' = Released(holdTaken.releases, refs)
    /\ holdTaken' = Nothing /\ holdMain' = "idle"
    /\ UNCHANGED <<taskSide, wakened, holdSlot, granted, playing>>

\* on_stream_start(), on_streaming_started() and their ends
Play ==
    /\ holdMain = "idle"
    /\ playing' = ~playing
    /\ refs' = IF playing THEN Released(1, refs) ELSE refs + 1
    /\ UNCHANGED <<taskSide, wakened, holdSlot, holdTaken, holdMain, granted>>

\* stop() with the protocol task joined: every connection is dropped, then the last drain
Stop ==
    LET ended == Cardinality({c \in SyncSlots : clocks[c].held})
        owed  == holdSlot.releases + ended + (IF playing THEN 1 ELSE 0)
    IN  /\ holdMain = "idle" /\ syncTask = 0
        /\ clocks' = [c \in SyncSlots |-> FreeClock]
        /\ holdSlot' = Nothing
        /\ refs' = Released(owed, refs + holdSlot.acquires)
        /\ granted' = (granted + holdSlot.acquires) % TicketSpan
        /\ playing' = FALSE /\ holdMain' = "stopped" /\ wakened' = FALSE
        /\ UNCHANGED <<tickets, syncTask, holdTaken>>

Restart ==
    /\ holdMain = "stopped"
    /\ holdMain' = "idle"
    /\ UNCHANGED <<taskSide, wakened, holdSlot, holdTaken, granted, refs, playing>>

-----------------------------------------------------------------------------

SyncInit ==
    /\ clocks = [c \in SyncSlots |-> FreeClock]
    /\ tickets = 0 /\ granted = 0 /\ syncTask = 0 /\ wakened = FALSE
    /\ holdSlot = Nothing /\ holdTaken = Nothing
    /\ holdMain = "idle" /\ refs = 0 /\ playing = FALSE

SyncMainNext == HoldTake \/ HoldAcquire \/ HoldGrant \/ HoldRelease

SyncTaskNext == TickStarts \/ \E c \in SyncSlots : Serve(c)

SyncNext ==
    \/ SyncTaskNext \/ SyncMainNext \/ Play \/ Stop \/ Restart
    \/ \E c \in SyncSlots :
          Admit(c) \/ Reprove(c) \/ Activated(c) \/ Vacate(c) \/ PassTime(c)
    \/ \E c \in SyncSlots, echo \in Echoes, good \in BOOLEAN : ServerTime(c, echo, good)

\* Both threads go on, time passes, and a connection does not stay unproved.
SyncFairness ==
    /\ WF_syncVars(SyncTaskNext) /\ WF_syncVars(SyncMainNext)
    /\ \A c \in SyncSlots : WF_syncVars(PassTime(c)) /\ WF_syncVars(ReproveTimeout(c))

SyncSpec == SyncInit /\ [][SyncNext]_syncVars /\ SyncFairness

-----------------------------------------------------------------------------

\* Types of the bursts, the requests and the hold.
SyncTypeOK ==
    /\ clocks \in [SyncSlots -> Clock]
    /\ {tickets, granted} \subseteq 0 .. TicketSpan - 1
    /\ syncTask \in 0 .. MAX_ADMITTED /\ wakened \in BOOLEAN
    /\ {holdSlot, holdTaken} \subseteq [acquires : Nat, releases : Nat]
    /\ holdMain \in {"idle", "acquire", "grant", "release", "stopped"}
    /\ refs \in Nat /\ playing \in BOOLEAN

Taken(stages, n) == IF holdMain \in stages THEN n ELSE 0

\* Whatever was merged between two drains, the count the listener's mode follows and the requests
\* still on their way to it add up to who holds the mode: no hold outlives its burst, its connection
\* or a stop(), and none is given back twice (apply_high_performance_requests(), client.h:81-82).
HoldsBalanced ==
    refs + holdSlot.acquires + Taken({"acquire"}, holdTaken.acquires) + (IF playing THEN 0 ELSE 1) =
      1 + holdSlot.releases + Taken({"acquire", "grant", "release"}, holdTaken.releases)
        + Cardinality({c \in SyncSlots : clocks[c].held})

\* A frame is in flight only with the listener's mode on, so the round trip is measured in it
\* (run_time_sync(); client.h:79-80).
MeasuredInMode == \A c \in SyncSlots : clocks[c].pending # 0 => refs > 0

\* A burst's best measurement is that of a frame this burst sent: no late, repeated or invented
\* reply, and none of an earlier burst, reaches the filter (on_time_response()).
MeasuresItsFrames ==
    \A c \in SyncSlots :
       /\ clocks[c].best # 0 => clocks[c].best \in clocks[c].sent
       /\ clocks[c].pending # 0 => clocks[c].pending \in clocks[c].sent

SyncSafe == SyncTypeOK /\ HoldsBalanced /\ MeasuredInMode /\ MeasuresItsFrames

\* A burst that asked for the mode gives it back in the end: the grant reaches it wherever the task
\* is, its frames are answered or time out, and an unproved connection goes (run_time_sync()).
HoldEnds == \A c \in SyncSlots : clocks[c].held ~> ~clocks[c].held

=============================================================================
