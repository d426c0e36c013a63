---------------------------- MODULE PairingSession ----------------------------
(***************************************************************************)
(* Pairing on the admitted connection: the attempt and its rounds, the     *)
(* pairing window an operator opens, and the notes that put its prompts in *)
(* front of the operator and take them away again. The handlers run on the *)
(* protocol task; the notes wait in a slot that the main loop takes whole  *)
(* and delivers one callback at a time.                                    *)
(*                                                                         *)
(* Whether a confirmation tag verifies is the server's choice here: the    *)
(* keys are not modelled. A note is its type; the three that report how an *)
(* attempt goes are one.                                                   *)
(*                                                                         *)
(* A definition whose name ends in Mutant is a deliberate mistake the      *)
(* properties are tested against.                                          *)
(***************************************************************************)
EXTENDS Naturals, Sequences

CONSTANTS
    PAIRING_ROUND_LIMIT,
    WINDOW_FAILED_ATTEMPT_LIMIT,
    CodeMethods,       \* the pairing-code methods on offer
    StopInCallback,    \* may a listener callback call stop()?
    MaxHandshakes,     \* bound: Noise handshakes
    MaxActivations,    \* bound: pairing activations of the first handshake, fewer of the next
    MaxRounds,         \* bound: rounds of one attempt, which gestures may prolong
    MaxNotes           \* bound: notes waiting when an activation arrives

ASSUME PairingAssumption ==
    /\ PAIRING_ROUND_LIMIT \in Nat \ {0} /\ WINDOW_FAILED_ATTEMPT_LIMIT \in Nat \ {0}
    /\ CodeMethods \subseteq {"dynamic", "static"}
    /\ {MaxHandshakes, MaxRounds, MaxNotes} \subseteq Nat /\ MaxActivations \in Nat \ {0}

VARIABLES
    sess,        \* the admitted connection's pairing state, see Session
    hash,        \* history: handshakes so far; the latest one's hash is its number
    window,      \* the pairing window: open, bound to the connection, failed attempts
    rounds,      \* pairing_rounds_since_verified_kc_
    notes,       \* pairing_slot
    screen,      \* what the listener last heard of each prompt: TRUE if shown
    pake,        \* history: the sid of the latest PAKE run
    guesses      \* history: failed verifications of the static code since the last gesture

pairingHistory == <<pake, guesses>>
pairingVars == <<sess, hash, window, rounds, notes, screen, pairingHistory>>

Attempts == (1 .. MaxHandshakes) \X (1 .. MaxActivations)
NoAttempt == <<0, 0>>

Session ==
    [up : BOOLEAN,                       \* a connection is admitted
     kind : {"none", "pairing", "sentinel", "long"},
     act : BOOLEAN,                      \* first_activate_received_
     index : 0 .. MaxActivations,        \* the pairing index
     running : BOOLEAN,                  \* pairing_in_progress_
     final : BOOLEAN,                    \* pairing_finalized_
     pending : Attempts \cup {NoAttempt},  \* the attempt of the pending_pairing_record_
     step : {"idle", "window", "init", "auth", "confirm", "finalize"},
     method : {"none", "psk", "dynamic", "static"},
     sid : Attempts \cup {NoAttempt},    \* handshake hash and index the attempt captured
     round : Nat,
     timed : BOOLEAN,                    \* attempt_deadline_us is set
     emitted : BOOLEAN, prompted : BOOLEAN]    \* code_emitted, window_shown

NoSession ==
    [up |-> FALSE, kind |-> "none", act |-> FALSE, index |-> 0, running |-> FALSE,
     final |-> FALSE, pending |-> NoAttempt, step |-> "idle", method |-> "none",
     sid |-> NoAttempt, round |-> 0, timed |-> FALSE, emitted |-> FALSE, prompted |-> FALSE]

Closed == [open |-> FALSE, bound |-> FALSE, failed |-> 0]

-----------------------------------------------------------------------------
(* The pieces the handlers are made of *)

\* The record of the attempt that was given up stays behind.
ClearedMutant(k) ==
    [NoSession EXCEPT !.up = k.up, !.kind = k.kind, !.act = k.act, !.index = k.index,
                      !.pending = k.pending]

\* clear_pairing_state()
Cleared(k) ==
    [NoSession EXCEPT !.up = k.up, !.kind = k.kind, !.act = k.act, !.index = k.index]

\* note_pairing_ui_dismissals(snapshot_pairing_ui())
Dismissals(k) ==
    (IF k.emitted THEN <<"clear code">> ELSE <<>>) \o
    (IF k.prompted THEN <<"close window">> ELSE <<>>)

\* Every pending note goes, also the dismissal of a prompt the listener shows.
RetainedMutant(queue) == <<>>

\* A dismissal whose prompt was delivered before: one with none of `shows` ahead of it in the queue.
\* The code keeps each of them; they say the same, so one stands for all.
Kept(queue, shows, hides) ==
    IF \E i \in DOMAIN queue : queue[i] = hides /\ \A j \in 1 .. i - 1 : queue[j] # shows
    THEN <<hides>> ELSE <<>>

\* retain_delivered_dismissals()
Retained(queue) ==
    Kept(queue, "display code", "clear code") \o Kept(queue, "open window", "close window")

\* Whether a prompt that was shown or not is, once the notes of `queue` are heard
Shown(before, queue, shows, hides) ==
    \/ before /\ \A i \in DOMAIN queue : queue[i] # hides
    \/ \E i \in DOMAIN queue :
          queue[i] = shows /\ \A j \in DOMAIN queue : j > i => queue[j] # hides

\* What the listener shows once it has heard the notes of `queue`.
Seen(shown, queue) ==
    [code |-> Shown(shown.code, queue, "display code", "clear code"),
     window |-> Shown(shown.window, queue, "open window", "close window")]

\* A handler leaves session k and window w, and appends `more` to the notes.
Handled(k, w, more) == sess' = k /\ window' = w /\ notes' = notes \o more

\* abort_pairing_attempt() of session k that keeps the connection open
Aborted(k, w) == Handled(Cleared(k), w, <<"report">> \o Dismissals(k))

\* drop_connection(): the teardown covers every role, so it reaches the waiting notes
Left(more) ==
    /\ sess' = NoSession
    /\ window' = IF window.bound THEN Closed ELSE window
    /\ notes' = Retained(notes) \o more \o Dismissals(sess)

\* start_pake_round() of session k, already in its round
PakeRound(k) == pake' = <<k.sid[1], k.sid[2], k.round>>

\* The timeout is left unarmed: nothing ends an attempt whose server falls silent.
StartedMutant(k) ==
    IF k.method = "dynamic" THEN [k EXCEPT !.step = "init"]
                            ELSE [k EXCEPT !.step = "auth", !.round = 1]

\* start_pairing_attempt(): the static code's only round starts at once
Started(k) ==
    IF k.method = "dynamic" THEN [k EXCEPT !.step = "init", !.timed = TRUE]
                            ELSE [k EXCEPT !.step = "auth", !.round = 1, !.timed = TRUE]

StartsPake(k) == IF k.method = "static" THEN PakeRound(k) ELSE UNCHANGED pake

Bound(w) == IF w.open THEN [w EXCEPT !.bound = TRUE] ELSE w

-----------------------------------------------------------------------------
(* Activations *)

\* The prompts of the attempt a re-handshake cut off are forgotten.
EntryNotesMutant(k) == <<"report">>

EntryNotes(k) == Dismissals(k) \o <<"report">>

LimitReached == rounds >= PAIRING_ROUND_LIMIT

\* handle_enter_pairing() of session k on the latest handshake
EnterPairing(k, method) ==
    LET sid == <<hash', k.index>>
        new == [Cleared(k) EXCEPT !.running = TRUE, !.method = method, !.sid = sid]
        gated == method = "static" \/ (method = "dynamic" /\ LimitReached)
    IN  \/ /\ method = "psk"
           /\ Handled([new EXCEPT !.pending = sid, !.timed = TRUE], window, EntryNotes(k))
           /\ UNCHANGED pake
        \/ /\ gated /\ ~window.open
           /\ Handled([new EXCEPT !.step = "window", !.prompted = TRUE], window,
                      EntryNotes(k) \o <<"open window">>)
           /\ UNCHANGED pake
        \/ /\ method # "psk" /\ (gated => window.open)
           /\ Handled(Started(new), Bound(window), EntryNotes(k))
           /\ StartsPake(Started(new))

\* on_server_activate() applied to session k, or the activation that admits it
Activated(k, method) ==
    LET applied == [k EXCEPT !.act = TRUE, !.final = FALSE]
    IN  \/ /\ method # "none"
           /\ EnterPairing([applied EXCEPT !.index = @ + 1], method)
        \/ /\ method = "none" /\ UNCHANGED pake
           /\ IF k.running \/ ~k.act
              THEN Handled(Cleared(applied), window, Dismissals(k))
              ELSE Handled(applied, window, <<>>)

\* The method a server may select under its PSK
Selectable(kind) ==
    {"none"} \cup CASE kind = "pairing" -> {"psk"} [] kind = "sentinel" -> CodeMethods
                    [] OTHER -> {}

Kinds == {"pairing", "sentinel", "long"}
Methods == {"none", "psk"} \cup CodeMethods

Admit(kind, method) ==
    /\ ~sess.up /\ hash < MaxHandshakes /\ method \in Selectable(kind)
    /\ hash' = hash + 1
    /\ Activated([NoSession EXCEPT !.up = TRUE, !.kind = kind], method)
    /\ UNCHANGED <<rounds, screen, guesses>>

Activate(method) ==
    /\ sess.up /\ hash + sess.index <= MaxActivations /\ Len(notes) <= MaxNotes
    /\ method \in Selectable(sess.kind)
    /\ UNCHANGED hash
    /\ Activated(sess, method)
    /\ UNCHANGED <<rounds, screen, guesses>>

\* The pairing object names what is not on offer: counted, answered, not applied.
RefuseActivate ==
    /\ sess.up /\ hash + sess.index <= MaxActivations
    /\ sess' = [sess EXCEPT !.index = @ + 1]
    /\ UNCHANGED <<hash, window, rounds, notes, screen, pairingHistory>>

\* The attempt's session and its prompts stay, only its messages are no longer awaited.
Rehandshake(kind) ==
    /\ sess.up /\ hash < MaxHandshakes
    /\ hash' = hash + 1
    /\ sess' = [sess EXCEPT !.kind = kind, !.act = FALSE, !.running = FALSE, !.index = 0]
    /\ UNCHANGED <<window, rounds, notes, screen, pairingHistory>>

-----------------------------------------------------------------------------
(* The server's pairing messages *)

\* A retry runs under the sid of the round before it.
NextRoundMutant(k) == [k EXCEPT !.round = IF @ = 0 THEN 1 ELSE @, !.step = "auth", !.emitted = TRUE]

NextRound(k) == [k EXCEPT !.round = @ + 1, !.step = "auth", !.emitted = TRUE]

PairInit ==
    /\ sess.running /\ sess.method = "dynamic" /\ sess.step = "init" /\ sess.round < MaxRounds
    /\ Handled(NextRound(sess), window, IF sess.round = 0 THEN <<"display code">> ELSE <<>>)
    /\ PakeRound(NextRound(sess))
    /\ rounds' = rounds + 1
    /\ UNCHANGED <<hash, screen, guesses>>

PairAuth ==
    /\ sess.running /\ sess.step = "auth"
    /\ Handled([sess EXCEPT !.step = "confirm"], window, <<>>)
    /\ UNCHANGED <<hash, rounds, screen, pake, guesses>>

\* server_kc verifies
PairConfirm ==
    /\ sess.running /\ sess.step = "confirm"
    /\ Handled([sess EXCEPT !.step = "finalize", !.pending = sess.sid,
                            !.emitted = FALSE, !.prompted = FALSE],
               window, Dismissals(sess))
    /\ rounds' = 0
    /\ UNCHANGED <<hash, screen, pake, guesses>>

\* A count that is never kept: the window admits guess after guess.
CountedMutant(w) == w

\* note_pairing_window_attempt_failed()
Counted(w) ==
    IF ~w.open THEN w
    ELSE IF w.failed + 1 < WINDOW_FAILED_ATTEMPT_LIMIT THEN [w EXCEPT !.failed = @ + 1]
    ELSE Closed

\* server_kc does not verify
PairMismatch ==
    /\ sess.running /\ sess.step = "confirm"
    /\ IF sess.method = "dynamic" /\ ~LimitReached
       THEN Handled([sess EXCEPT !.step = "init"], window, <<>>)
       ELSE Aborted(sess, Counted(window))
    /\ guesses' = IF sess.method = "static" THEN guesses + 1 ELSE guesses
    /\ UNCHANGED <<hash, rounds, screen, pake>>

\* A pairing message out of sequence, or malformed in a code exchange
Misstep ==
    /\ sess.running
    /\ Left(<<"report">>)
    /\ UNCHANGED <<hash, rounds, screen, pake, guesses>>

PairAbort(concurrent) ==
    /\ sess.running
    /\ IF concurrent THEN Left(<<"report">>) ELSE Aborted(sess, window)
    /\ UNCHANGED <<hash, rounds, screen, pake, guesses>>

\* server/pair-finalize: whatever the session holds is stored, and a re-handshake is due
PairFinalize ==
    LET done == sess.pending # NoAttempt
    IN  /\ sess.up
        /\ Handled([sess EXCEPT !.pending = NoAttempt, !.act = FALSE, !.final = TRUE],
                   IF done /\ window.bound THEN Closed ELSE window,
                   IF done THEN <<"report">> ELSE <<>>)
        /\ UNCHANGED <<hash, rounds, screen, pake, guesses>>

-----------------------------------------------------------------------------
(* The operator's gesture, and time *)

Gesture ==
    LET opened == [Closed EXCEPT !.open = TRUE]
    IN  /\ IF sess.step = "window"
           THEN /\ Handled(Started(sess), Bound(opened), <<>>)
                /\ StartsPake(Started(sess))
           ELSE Handled(sess, opened, <<>>) /\ UNCHANGED pake
        /\ rounds' = 0 /\ guesses' = 0
        /\ UNCHANGED <<hash, screen>>

CancelWindow ==
    /\ window.open \/ sess.step = "window"
    /\ IF sess.step = "window" THEN Aborted(sess, Closed) ELSE Handled(sess, Closed, <<>>)
    /\ UNCHANGED <<hash, rounds, screen, pake, guesses>>

WindowExpires ==
    /\ window.open
    /\ Handled(sess, Closed, <<>>)
    /\ UNCHANGED <<hash, rounds, screen, pake, guesses>>

AttemptTimeout ==
    /\ sess.timed /\ ~sess.final /\ sess.act
    /\ Aborted(sess, window)
    /\ UNCHANGED <<hash, rounds, screen, pake, guesses>>

\* The connection is lost or displaced, or does not re-prove itself in time.
Drop ==
    /\ sess.up
    /\ Left(<<>>)
    /\ UNCHANGED <<hash, rounds, screen, pake, guesses>>

ReproveTimeout == ~sess.act /\ Drop

-----------------------------------------------------------------------------
(* The main loop *)

\* One drain: the protocol task sees nothing of a batch once it is taken, so its callbacks are
\* one step with the taking.
DeliverNotes ==
    /\ notes # <<>>
    /\ screen' = Seen(screen, notes) /\ notes' = <<>>
    /\ UNCHANGED <<sess, hash, window, rounds, pairingHistory>>

\* stop() from outside the drain (`called` is 0), or from the callback of a batch's note, whose
\* drain then abandons the others. What the teardown left is delivered by stop()'s own drain.
Stop(called) ==
    LET batch == IF called = 0 THEN <<>> ELSE notes
        slot  == IF called = 0 THEN notes ELSE <<>>
    IN  /\ screen' = Seen(screen, SubSeq(batch, 1, called) \o Retained(slot) \o Dismissals(sess))
        /\ notes' = <<>>
        /\ sess' = NoSession /\ window' = Closed
        /\ UNCHANGED <<hash, rounds, pairingHistory>>

-----------------------------------------------------------------------------

PairingInit ==
    /\ sess = NoSession /\ hash = 0 /\ window = Closed /\ rounds = 0
    /\ notes = <<>> /\ screen = [code |-> FALSE, window |-> FALSE]
    /\ pake = <<0, 0, 0>> /\ guesses = 0

PairingNext ==
    \/ \E kind \in Kinds : Rehandshake(kind)
    \/ \E kind \in Kinds, method \in Methods : Admit(kind, method)
    \/ \E method \in Methods : Activate(method)
    \/ RefuseActivate \/ PairInit \/ PairAuth \/ PairConfirm \/ PairMismatch \/ Misstep
    \/ \E concurrent \in BOOLEAN : PairAbort(concurrent)
    \/ PairFinalize \/ Gesture \/ CancelWindow \/ WindowExpires \/ AttemptTimeout \/ Drop
    \/ DeliverNotes
    \/ \E called \in 0 .. Len(notes) : (called > 0 => StopInCallback) /\ Stop(called)

\* loop() is called again and again, and the protocol task's deadlines pass.
PairingFairness ==
    /\ WF_pairingVars(DeliverNotes)
    /\ WF_pairingVars(AttemptTimeout) /\ WF_pairingVars(ReproveTimeout)

PairingSpec == PairingInit /\ [][PairingNext]_pairingVars /\ PairingFairness

-----------------------------------------------------------------------------
(* Properties *)

\* Types of the session, the window, the notes and the listener's view
\* (SendspinConnection::PairingSession, the ConnectionManager's window members).
PairingTypeOK ==
    /\ sess \in Session /\ hash \in 0 .. MaxHandshakes
    /\ window \in [open : BOOLEAN, bound : BOOLEAN, failed : 0 .. WINDOW_FAILED_ATTEMPT_LIMIT - 1]
    /\ rounds \in Nat /\ guesses \in Nat
    /\ notes \in Seq({"report", "display code", "clear code", "open window", "close window"})
    /\ screen \in [code : BOOLEAN, window : BOOLEAN]

\* Once the notes on their way are delivered, the listener shows the pairing code and the window
\* prompt exactly as long as the attempt that asked for them is on: whatever ended it (an abort,
\* a lost connection, a re-handshake and its activation, a stop()), and although a teardown
\* drops the notes that wait.
PromptsFollowSession ==
    Seen(screen, notes) = [code |-> sess.emitted, window |-> sess.prompted]

\* One gesture allows so many wrong static codes, whatever attempts, aborts, timeouts and
\* reconnections lie between them (note_pairing_window_attempt_failed()).
GuessesPerGesture == guesses <= WINDOW_FAILED_ATTEMPT_LIMIT

\* The record a server/pair-finalize would store is that of the attempt that is on: an attempt
\* that was given up leaves none behind for a late acknowledgement (clear_pairing_state()).
PendingIsCurrent == sess.pending \in {NoAttempt, sess.sid}

PairingSafe == PairingTypeOK /\ PromptsFollowSession /\ GuessesPerGesture /\ PendingIsCurrent

Later(sid, than) ==
    \E i \in 1 .. 3 : sid[i] > than[i] /\ \A j \in 1 .. i - 1 : sid[j] = than[j]

\* No PAKE run reuses the sid of an earlier one: each is later than all before it, across rounds,
\* attempts, refused activations and re-handshakes (build_pake_sid()).
SidsFresh ==
    [][(sess'.step = "auth" /\ sess.step \in {"init", "window"}) \/ pake' # pake
          => Later(pake', pake)]_pairingVars

\* A pairing code that is shown is taken away again, whatever the server does or leaves undone
\* (client.h: "always followed by on_clear_pairing_code").
CodeWithdrawn == screen.code ~> ~screen.code

\* A client that has received Noise message 1 sends nothing but the handshake until the new
\* server/activate arrives (connection_manager.cpp, role_send_target() and scan_admitted()): no
\* attempt is started with its client/pair-init before.
OnlyTheHandshake == [][~sess.timed /\ sess'.timed => sess'.act]_pairingVars

=============================================================================
