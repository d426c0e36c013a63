--------------------------- MODULE Connections_proofs ---------------------------
(***************************************************************************)
(* Proofs about the admitted connection, for every value of the bounds:    *)
(* pairing attempts, their prompts and their PAKE runs, and the reports of *)
(* its client/state.                                                       *)
(***************************************************************************)
EXTENDS MCConnections, TLAPS

-----------------------------------------------------------------------------
(* The pairing session: its inductive invariant *)

\* A code is shown from the first round on, only the code methods wait for the window, and a record
\* is pending for the session's own attempt.
Sound(k) ==
    /\ k \in Session
    /\ k.round = 0 => ~k.emitted
    /\ k.method = "dynamic" /\ k.step \in {"init", "auth", "confirm"} => k.round = 0 \/ k.emitted
    /\ k.step = "window" => k.method \in {"dynamic", "static"} /\ k.round = 0
    /\ k.pending \in {NoAttempt, k.sid}

SessionInv ==
    /\ Sound(sess) /\ hash \in 0 .. MaxHandshakes
    /\ IF sess.up THEN hash >= 1 ELSE sess = NoSession

WindowRecords == [open : BOOLEAN, bound : BOOLEAN, failed : 0 .. WINDOW_FAILED_ATTEMPT_LIMIT - 1]

\* A wrong static code is counted in the window, and one more can come of the attempt that is on once
\* the window is gone.
GuessInv ==
    /\ window \in WindowRecords /\ rounds \in Nat /\ guesses \in Nat
    /\ GuessesPerGesture
    /\ window.open => guesses <= window.failed
    /\ sess.method = "static" /\ sess.step \in {"auth", "confirm"} =>
         guesses < WINDOW_FAILED_ATTEMPT_LIMIT

\* The attempt named sid is later than the one of a run's sid.
Before(run, sid) == run[1] < sid[1] \/ (run[1] = sid[1] /\ run[2] < sid[2])

\* A run is before the attempt of session k, or of it and not after its round.
RunOf(run, k) ==
    Before(run, k.sid) \/ (run[1] = k.sid[1] /\ run[2] = k.sid[2] /\ run[3] <= k.round)

\* The latest run is of no handshake and activation to come, and neither is the session's attempt;
\* and it is of no later round than that attempt is in.
SidInv ==
    /\ pake \in Nat \X Nat \X Nat
    /\ pake[1] < hash \/ (pake[1] = hash /\ (sess.up => pake[2] <= sess.index))
    /\ sess.sid[1] < hash \/ (sess.sid[1] = hash /\ (sess.up => sess.sid[2] <= sess.index))
    /\ sess.step \in {"window", "init", "auth", "confirm"} => RunOf(pake, sess)

Notes == {"report", "display code", "clear code", "open window", "close window"}

\* Wherever a prompt that is on is asked for again, it is taken away first.
Paired(before, queue, shows, hides) ==
    before /\ (\E i \in DOMAIN queue : queue[i] = shows) =>
      \E i \in DOMAIN queue : queue[i] = hides /\ \A j \in 1 .. i - 1 : queue[j] # shows

\* The notes of `queue` bring a prompt from one state to another.
Brings(before, queue, shows, hides, after) ==
    /\ Shown(before, queue, shows, hides) <=> after
    /\ Paired(before, queue, shows, hides)

BringsBoth(code, showing, queue, emitted, prompted) ==
    /\ Brings(code, queue, "display code", "clear code", emitted)
    /\ Brings(showing, queue, "open window", "close window", prompted)

\* The notes on their way bring the listener to the prompts of the session, unless a callback stops
\* the client and the rest of its batch is abandoned.
PromptInv ==
    /\ notes \in Seq(Notes) /\ screen \in [code : BOOLEAN, window : BOOLEAN]
    /\ ~StopInCallback =>
         BringsBoth(screen.code, screen.window, notes, sess.emitted, sess.prompted)

PairingIInv == SessionInv /\ GuessInv /\ SidInv /\ PromptInv

-----------------------------------------------------------------------------
(* Notes *)

LEMMA ShownBehind ==
    ASSUME NEW s \in Seq(Notes), NEW t \in Seq(Notes), NEW before \in BOOLEAN,
           NEW shows, NEW hides
    PROVE  Shown(before, s \o t, shows, hides) <=>
             Shown(Shown(before, s, shows, hides), t, shows, hides)
  <1>1. /\ Len(s) \in Nat /\ Len(t) \in Nat /\ DOMAIN s = 1 .. Len(s) /\ DOMAIN t = 1 .. Len(t)
        /\ DOMAIN (s \o t) = 1 .. Len(s) + Len(t)
        /\ \A i \in 1 .. Len(s) : (s \o t)[i] = s[i] /\ i \in 1 .. Len(s) + Len(t)
        /\ \A i \in 1 .. Len(t) : (s \o t)[Len(s) + i] = t[i] /\ Len(s) + i \in 1 .. Len(s) + Len(t)
        /\ \A i \in 1 .. Len(s) + Len(t) :
             i \in 1 .. Len(s) \/ (i - Len(s) \in 1 .. Len(t) /\ (s \o t)[i] = t[i - Len(s)])
    OBVIOUS
  <1> DEFINE HidesIn(q) == \E i \in DOMAIN q : q[i] = hides
             ShowsLast(q) == \E i \in DOMAIN q :
                               q[i] = shows /\ \A j \in DOMAIN q : j > i => q[j] # hides
  <1>2. HidesIn(s \o t) <=> HidesIn(s) \/ HidesIn(t)
    <2>1. ASSUME HidesIn(s \o t) PROVE HidesIn(s) \/ HidesIn(t)
      BY <1>1, <2>1
    <2>2. ASSUME HidesIn(s) PROVE HidesIn(s \o t)
      BY <1>1, <2>2
    <2>3. ASSUME HidesIn(t) PROVE HidesIn(s \o t)
      BY <1>1, <2>3
    <2> QED BY <2>1, <2>2, <2>3
  <1>3. ASSUME ShowsLast(t) PROVE ShowsLast(s \o t)
    <2>1. PICK i \in 1 .. Len(t) : t[i] = shows /\ \A j \in 1 .. Len(t) : j > i => t[j] # hides
      BY <1>1, <1>3
    <2>2. ASSUME NEW j \in 1 .. Len(s) + Len(t), j > Len(s) + i PROVE (s \o t)[j] # hides
      BY <1>1, <2>1, <2>2
    <2> QED BY <1>1, <2>1, <2>2
  <1>4. ASSUME ShowsLast(s), ~HidesIn(t) PROVE ShowsLast(s \o t)
    <2>1. PICK i \in 1 .. Len(s) : s[i] = shows /\ \A j \in 1 .. Len(s) : j > i => s[j] # hides
      BY <1>1, <1>4
    <2>2. ASSUME NEW j \in 1 .. Len(s) + Len(t), j > i PROVE (s \o t)[j] # hides
      BY <1>1, <1>4, <2>1, <2>2
    <2> QED BY <1>1, <2>1, <2>2
  <1>5. ASSUME ShowsLast(s \o t) PROVE ShowsLast(t) \/ (ShowsLast(s) /\ ~HidesIn(t))
    <2>1. PICK i \in 1 .. Len(s) + Len(t) :
            (s \o t)[i] = shows /\ \A j \in 1 .. Len(s) + Len(t) : j > i => (s \o t)[j] # hides
      BY <1>1, <1>5
    <2>2. CASE i \in 1 .. Len(s)
      <3>1. \A j \in 1 .. Len(s) : j > i => s[j] # hides
        BY <1>1, <2>1, <2>2
      <3>2. ASSUME NEW j \in 1 .. Len(t) PROVE t[j] # hides
        <4>1. Len(s) + j \in 1 .. Len(s) + Len(t) /\ Len(s) + j > i
          BY <1>1, <2>2
        <4> QED BY <1>1, <2>1, <4>1
      <3> QED BY <1>1, <2>1, <2>2, <3>1, <3>2
    <2>3. CASE i - Len(s) \in 1 .. Len(t)
      <3>1. t[i - Len(s)] = shows
        BY <1>1, <2>1, <2>3
      <3>2. ASSUME NEW j \in 1 .. Len(t), j > i - Len(s) PROVE t[j] # hides
        <4>1. Len(s) + j \in 1 .. Len(s) + Len(t) /\ Len(s) + j > i
          BY <1>1, <2>3, <3>2
        <4> QED BY <1>1, <2>1, <4>1
      <3> QED BY <1>1, <2>3, <3>1, <3>2
    <2> QED BY <1>1, <2>2, <2>3
  <1>6. \A q, b : Shown(b, q, shows, hides) <=> (b /\ ~HidesIn(q)) \/ ShowsLast(q)
    BY DEF Shown
  <1> HIDE DEF HidesIn, ShowsLast
  <1> QED BY <1>2, <1>3, <1>4, <1>5, <1>6

LEMMA PairedBehind ==
    ASSUME NEW s \in Seq(Notes), NEW t \in Seq(Notes), NEW before \in BOOLEAN,
           NEW shows, NEW hides, shows # hides,
           Paired(before, s, shows, hides),
           Paired(Shown(before, s, shows, hides), t, shows, hides)
    PROVE  Paired(before, s \o t, shows, hides)
  <1>1. /\ Len(s) \in Nat /\ Len(t) \in Nat /\ DOMAIN s = 1 .. Len(s) /\ DOMAIN t = 1 .. Len(t)
        /\ DOMAIN (s \o t) = 1 .. Len(s) + Len(t)
        /\ \A i \in 1 .. Len(s) : (s \o t)[i] = s[i] /\ i \in 1 .. Len(s) + Len(t)
        /\ \A i \in 1 .. Len(t) : (s \o t)[Len(s) + i] = t[i] /\ Len(s) + i \in 1 .. Len(s) + Len(t)
        /\ \A i \in 1 .. Len(s) + Len(t) :
             i \in 1 .. Len(s) \/ (i - Len(s) \in 1 .. Len(t) /\ (s \o t)[i] = t[i - Len(s)])
    OBVIOUS
  <1>2. SUFFICES ASSUME before, NEW n \in 1 .. Len(s) + Len(t), (s \o t)[n] = shows
                 PROVE  \E i \in 1 .. Len(s) + Len(t) :
                          (s \o t)[i] = hides /\ \A j \in 1 .. i - 1 : (s \o t)[j] # shows
    BY <1>1 DEF Paired
  <1>3. ASSUME NEW i \in 1 .. Len(s), s[i] = hides, \A j \in 1 .. i - 1 : s[j] # shows
        PROVE  (s \o t)[i] = hides /\ \A j \in 1 .. i - 1 : (s \o t)[j] # shows
    BY <1>1, <1>3
  <1>4. CASE \E i \in 1 .. Len(s) : s[i] = shows
    BY <1>1, <1>2, <1>3, <1>4 DEF Paired
  <1>5. CASE (\A i \in 1 .. Len(s) : s[i] # shows) /\ (\E i \in 1 .. Len(s) : s[i] = hides)
    BY <1>1, <1>3, <1>5
  <1>6. CASE (\A i \in 1 .. Len(s) : s[i] # shows) /\ (\A i \in 1 .. Len(s) : s[i] # hides)
    <2>1. Shown(before, s, shows, hides)
      BY <1>1, <1>2, <1>6 DEF Shown
    <2>2. n - Len(s) \in 1 .. Len(t) /\ t[n - Len(s)] = shows
      BY <1>1, <1>2, <1>6
    <2>3. PICK i \in 1 .. Len(t) : t[i] = hides /\ \A j \in 1 .. i - 1 : t[j] # shows
      BY <1>1, <2>1, <2>2 DEF Paired
    <2>4. ASSUME NEW j \in 1 .. Len(s) + i - 1 PROVE (s \o t)[j] # shows
      <3>1. CASE j \in 1 .. Len(s)
        BY <1>1, <1>6, <3>1
      <3>2. CASE j - Len(s) \in 1 .. i - 1
        <4>1. j - Len(s) \in 1 .. Len(t) /\ j \in 1 .. Len(s) + Len(t) /\ j \notin 1 .. Len(s)
          BY <1>1, <3>2
        <4> QED BY <1>1, <2>3, <3>2, <4>1
      <3> QED BY <1>1, <3>1, <3>2
    <2>5. Len(s) + i \in 1 .. Len(s) + Len(t) /\ (s \o t)[Len(s) + i] = hides
      BY <1>1, <2>3
    <2> QED BY <2>4, <2>5
  <1> QED BY <1>4, <1>5, <1>6

LEMMA BringsOn ==
    ASSUME NEW s \in Seq(Notes), NEW t \in Seq(Notes), NEW before \in BOOLEAN,
           NEW between \in BOOLEAN, NEW after \in BOOLEAN, NEW shows, NEW hides, shows # hides,
           Brings(before, s, shows, hides, between), Brings(between, t, shows, hides, after)
    PROVE  Brings(before, s \o t, shows, hides, after)
  <1>1. Shown(before, s, shows, hides) = between
    BY Zenon DEF Brings, Shown
  <1>2. Shown(before, s \o t, shows, hides) <=> after
    BY <1>1, ShownBehind DEF Brings
  <1>3. Paired(before, s \o t, shows, hides)
    BY <1>1, PairedBehind DEF Brings
  <1> QED BY <1>2, <1>3 DEF Brings

\* A list of no note or of one
LEMMA FewNotes ==
    /\ <<>> \in Seq(Notes) /\ DOMAIN <<>> = {}
    /\ \A n \in Notes : <<n>> \in Seq(Notes)
    /\ \A n : DOMAIN <<n>> = {1} /\ <<n>>[1] = n
  OBVIOUS

LEMMA NotesBehind ==
    ASSUME NEW s \in Seq(Notes), NEW t \in Seq(Notes)
    PROVE  s \o t \in Seq(Notes)
  OBVIOUS

LEMMA BringsFew ==
    ASSUME NEW before \in BOOLEAN, NEW shows, NEW hides, shows # hides
    PROVE  /\ Brings(before, <<>>, shows, hides, before)
           /\ \A n : n \notin {shows, hides} => Brings(before, <<n>>, shows, hides, before)
           /\ Brings(FALSE, <<shows>>, shows, hides, TRUE)
           /\ Brings(before, <<hides>>, shows, hides, FALSE)
  <1>1. Brings(before, <<>>, shows, hides, before)
    BY FewNotes DEF Brings, Shown, Paired
  <1>2. ASSUME NEW n, n \notin {shows, hides} PROVE Brings(before, <<n>>, shows, hides, before)
    BY <1>2, FewNotes DEF Brings, Shown, Paired
  <1>3. Brings(FALSE, <<shows>>, shows, hides, TRUE)
    <2>1. \A i, j \in {1} : ~(j > i)
      OBVIOUS
    <2> QED BY <2>1, FewNotes DEF Brings, Shown, Paired
  <1>4. Brings(before, <<hides>>, shows, hides, FALSE)
    <2>1. 1 .. 1 - 1 = {}
      OBVIOUS
    <2> QED BY <2>1, FewNotes DEF Brings, Shown, Paired
  <1> QED BY <1>1, <1>2, <1>3, <1>4

LEMMA Prompts ==
    /\ "display code" # "clear code" /\ "open window" # "close window"
    /\ "display code" \in Notes /\ "clear code" \in Notes
    /\ "open window" \in Notes /\ "close window" \in Notes
  BY DEF Notes

LEMMA BothOn ==
    ASSUME NEW code \in BOOLEAN, NEW showing \in BOOLEAN, NEW s \in Seq(Notes), NEW t \in Seq(Notes),
           NEW e \in BOOLEAN, NEW p \in BOOLEAN, NEW f \in BOOLEAN, NEW q \in BOOLEAN,
           BringsBoth(code, showing, s, e, p), BringsBoth(e, p, t, f, q)
    PROVE  BringsBoth(code, showing, s \o t, f, q)
  <1>1. Brings(code, s \o t, "display code", "clear code", f)
    BY BringsOn, Prompts DEF BringsBoth
  <1>2. Brings(showing, s \o t, "open window", "close window", q)
    BY BringsOn, Prompts DEF BringsBoth
  <1> QED BY <1>1, <1>2 DEF BringsBoth

\* The dismissals that close the list put every prompt away.
LEMMA ThenDismissed ==
    ASSUME NEW code \in BOOLEAN, NEW showing \in BOOLEAN, NEW s \in Seq(Notes), NEW t \in Seq(Notes),
           NEW e \in BOOLEAN, NEW p \in BOOLEAN,
           BringsBoth(code, showing, s, e, p), BringsBoth(e, p, t, FALSE, FALSE)
    PROVE  BringsBoth(code, showing, s \o t, FALSE, FALSE)
  <1>1. \A f, q \in BOOLEAN : BringsBoth(e, p, t, f, q) => BringsBoth(code, showing, s \o t, f, q)
    <2> SUFFICES ASSUME NEW f \in BOOLEAN, NEW q \in BOOLEAN, BringsBoth(e, p, t, f, q)
                 PROVE  BringsBoth(code, showing, s \o t, f, q)
      OBVIOUS
    <2> QED BY BothOn, SMTT(30)
  <1> QED BY <1>1, Zenon

\* Nothing, or a report, changes no prompt.
LEMMA NothingBrings ==
    ASSUME NEW e \in BOOLEAN, NEW p \in BOOLEAN
    PROVE  BringsBoth(e, p, <<>>, e, p) /\ BringsBoth(e, p, <<"report">>, e, p)
  BY BringsFew DEF BringsBoth

LEMMA DismissalsBring ==
    ASSUME NEW k \in Session, NEW e \in BOOLEAN, NEW p \in BOOLEAN, e => k.emitted, p => k.prompted
    PROVE  Dismissals(k) \in Seq(Notes) /\ BringsBoth(e, p, Dismissals(k), FALSE, FALSE)
  <1> DEFINE codes == IF k.emitted THEN <<"clear code">> ELSE <<>>
             windows == IF k.prompted THEN <<"close window">> ELSE <<>>
  <1>1. codes \in Seq(Notes) /\ windows \in Seq(Notes)
    BY FewNotes DEF Notes
  <1>2. Brings(e, codes, "display code", "clear code", FALSE)
    BY BringsFew
  <1>3. Brings(FALSE, windows, "display code", "clear code", FALSE)
    BY BringsFew
  <1>4. Brings(p, codes, "open window", "close window", p)
    BY BringsFew
  <1>5. Brings(p, windows, "open window", "close window", FALSE)
    BY BringsFew
  <1>6. Dismissals(k) = codes \o windows
    BY DEF Dismissals
  <1> HIDE DEF codes, windows
  <1>7. Brings(e, codes \o windows, "display code", "clear code", FALSE)
    BY <1>1, <1>2, <1>3, BringsOn
  <1>8. Brings(p, codes \o windows, "open window", "close window", FALSE)
    BY <1>1, <1>4, <1>5, BringsOn
  <1>9. codes \o windows \in Seq(Notes)
    BY <1>1
  <1> QED BY <1>6, <1>7, <1>8, <1>9 DEF BringsBoth

StaysShown(before, queue, shows, hides) == before /\ Kept(queue, shows, hides) = <<>>

\* What is kept of a prompt takes it away, if it was shown and the notes would have.
LEMMA KeptBrings ==
    ASSUME NEW s \in Seq(Notes), NEW before \in BOOLEAN, NEW after \in BOOLEAN,
           NEW shows, NEW hides, shows # hides, Brings(before, s, shows, hides, after)
    PROVE  /\ StaysShown(before, s, shows, hides) \in BOOLEAN
           /\ StaysShown(before, s, shows, hides) => after
           /\ Brings(before, Kept(s, shows, hides), shows, hides,
                     StaysShown(before, s, shows, hides))
  <1>0. StaysShown(before, s, shows, hides) \in BOOLEAN
    BY DEF StaysShown
  <1>1. CASE Kept(s, shows, hides) = <<hides>>
    <2>1. <<hides>> # <<>>
      BY FewNotes
    <2>2. StaysShown(before, s, shows, hides) = FALSE
      BY <1>1, <2>1 DEF StaysShown
    <2> QED BY <1>1, <2>2, BringsFew
  <1>2. CASE Kept(s, shows, hides) # <<hides>>
    <2>1. ~ \E i \in DOMAIN s : s[i] = hides /\ \A j \in 1 .. i - 1 : s[j] # shows
      BY <1>2 DEF Kept
    <2>2. Kept(s, shows, hides) = <<>>
      BY <2>1 DEF Kept
    <2>3. ASSUME before PROVE after
      <3>1. \A i \in DOMAIN s : s[i] # shows
        BY <2>1, <2>3 DEF Brings, Paired
      <3>2. \A i \in DOMAIN s : s[i] # hides
        <4>1. SUFFICES ASSUME NEW i \in DOMAIN s, s[i] = hides PROVE FALSE
          OBVIOUS
        <4>2. \A j \in 1 .. i - 1 : j \in DOMAIN s
          BY <4>1
        <4> QED BY <2>1, <3>1, <4>1, <4>2
      <3> QED BY <2>3, <3>2 DEF Brings, Shown
    <2>4. StaysShown(before, s, shows, hides) = before
      BY <2>2 DEF StaysShown
    <2> QED BY <2>2, <2>3, <2>4, BringsFew
  <1> QED BY <1>0, <1>1, <1>2

LEMMA KeptOthers ==
    ASSUME NEW s, NEW before \in BOOLEAN, NEW shows, NEW hides, shows # hides,
           NEW others, NEW taken, taken \notin {shows, hides}
    PROVE  Brings(before, Kept(s, others, taken), shows, hides, before)
  BY BringsFew DEF Kept

LEMMA RetainedNotes ==
    ASSUME NEW s \in Seq(Notes)
    PROVE  Retained(s) \in Seq(Notes)
  <1>1. Kept(s, "display code", "clear code") \in Seq(Notes)
        /\ Kept(s, "open window", "close window") \in Seq(Notes)
    BY FewNotes DEF Kept, Notes
  <1> QED BY <1>1, NotesBehind DEF Retained

LEMMA RetainedBrings ==
    ASSUME NEW code \in BOOLEAN, NEW showing \in BOOLEAN, NEW s \in Seq(Notes),
           NEW f \in BOOLEAN, NEW q \in BOOLEAN, BringsBoth(code, showing, s, f, q)
    PROVE  /\ Retained(s) \in Seq(Notes)
           /\ \E e, p \in BOOLEAN : /\ (e => f) /\ (p => q)
                                    /\ BringsBoth(code, showing, Retained(s), e, p)
  <1> DEFINE codes == Kept(s, "display code", "clear code")
             windows == Kept(s, "open window", "close window")
  <1>1. codes \in Seq(Notes) /\ windows \in Seq(Notes)
    BY FewNotes DEF Kept, Notes
  <1> DEFINE e == StaysShown(code, s, "display code", "clear code")
             p == StaysShown(showing, s, "open window", "close window")
  <1>2. e \in BOOLEAN /\ (e => f) /\ Brings(code, codes, "display code", "clear code", e)
    BY KeptBrings, Prompts DEF BringsBoth
  <1>3. p \in BOOLEAN /\ (p => q) /\ Brings(showing, windows, "open window", "close window", p)
    BY KeptBrings, Prompts DEF BringsBoth
  <1>4. Retained(s) = codes \o windows
    BY DEF Retained
  <1> HIDE DEF e, p
  <1>5. Brings(e, windows, "display code", "clear code", e)
    BY <1>2, KeptOthers
  <1>6. Brings(showing, codes, "open window", "close window", showing)
    BY KeptOthers
  <1> HIDE DEF codes, windows
  <1>7. Brings(code, codes \o windows, "display code", "clear code", e)
    BY <1>1, <1>2, <1>5, BringsOn, Prompts
  <1>8. Brings(showing, codes \o windows, "open window", "close window", p)
    BY <1>1, <1>3, <1>6, BringsOn, Prompts
  <1>9. codes \o windows \in Seq(Notes)
    BY <1>1
  <1>10. BringsBoth(code, showing, Retained(s), e, p)
    BY <1>4, <1>7, <1>8 DEF BringsBoth
  <1> QED BY <1>2, <1>3, <1>4, <1>9, <1>10


-----------------------------------------------------------------------------
(* What the handlers make of a session *)

LEMMA Bounds ==
    /\ MaxHandshakes \in Nat /\ MaxRounds \in Nat /\ MaxActivations \in Nat /\ MaxActivations >= 1
    /\ WINDOW_FAILED_ATTEMPT_LIMIT \in Nat /\ WINDOW_FAILED_ATTEMPT_LIMIT >= 1
    /\ \A m \in CodeMethods : m \in {"dynamic", "static"}
  BY PairingAssumption

\* No round of the attempt has begun.
Fresh(k) == k.round = 0

LEMMA NoneSound == NoSession \in Session /\ Sound(NoSession)
  BY Bounds DEF Sound, NoSession, Session

LEMMA ClearedSound ==
    ASSUME NEW k \in Session, NEW c, c = Cleared(k)
    PROVE  /\ c \in Session /\ Sound(c) /\ Fresh(c)
           /\ ~c.emitted /\ ~c.prompted
           /\ c.up = k.up /\ c.step = "idle" /\ c.index = k.index
           /\ c.sid = NoAttempt /\ c.method = "none"
  <1>1. c \in Session
    BY DEF Cleared, NoSession, Session
  <1>2. /\ ~c.emitted /\ ~c.prompted /\ Fresh(c)
        /\ c.up = k.up /\ c.step = "idle" /\ c.index = k.index
        /\ c.sid = NoAttempt /\ c.method = "none" /\ c.pending = NoAttempt
    BY DEF Cleared, NoSession, Session, Fresh
  <1>3. Sound(c)
    BY <1>1, <1>2 DEF Sound
  <1> QED BY <1>1, <1>2, <1>3

\* An attempt that may start does, in a round of its own if its code is static.
LEMMA StartedSound ==
    ASSUME NEW k, Sound(k), k.method \in {"dynamic", "static"}, Fresh(k)
    PROVE  /\ Started(k) \in Session /\ Sound(Started(k))
           /\ Started(k).emitted = k.emitted /\ Started(k).prompted = k.prompted
           /\ Started(k).up = k.up /\ Started(k).index = k.index /\ Started(k).sid = k.sid
           /\ Started(k).method = k.method
           /\ IF k.method = "dynamic" THEN Started(k).step = "init" /\ Fresh(Started(k))
                                      ELSE Started(k).step = "auth" /\ Started(k).round = 1
  BY DEF Fresh, Sound, Started, Session

\* The session of an attempt that an activation begins
Selected == {"psk", "dynamic", "static"}
Entered(k, method, sid) ==
    [Cleared(k) EXCEPT !.running = TRUE, !.method = method, !.sid = sid]

LEMMA EnteredSound ==
    ASSUME NEW k \in Session, NEW method \in Selected, NEW sid \in Attempts,
           NEW new, new = Entered(k, method, sid)
    PROVE  /\ new \in Session /\ Sound(new) /\ Fresh(new)
           /\ ~new.emitted /\ ~new.prompted
           /\ new.up = k.up /\ new.index = k.index
           /\ new.sid = sid /\ new.method = method /\ new.step = "idle"
  <1> DEFINE c == Cleared(k)
  <1>1. sid \in Attempts \cup {NoAttempt}
    OBVIOUS
  <1>2. /\ c \in Session /\ Sound(c) /\ ~c.emitted /\ ~c.prompted
        /\ c.up = k.up /\ c.step = "idle" /\ c.index = k.index /\ c.sid = NoAttempt /\ Fresh(c)
    BY ClearedSound
  <1>3. new = [c EXCEPT !.running = TRUE, !.method = method, !.sid = sid]
    BY DEF Entered
  <1> HIDE DEF c
  <1>4. new \in Session
    BY <1>1, <1>2, <1>3 DEF Selected, Session
  <1>5. /\ ~new.emitted /\ ~new.prompted /\ new.up = k.up /\ new.index = k.index
        /\ new.sid = sid /\ new.method = method /\ Fresh(new) /\ new.step = "idle"
        /\ new.pending = c.pending
    BY <1>2, <1>3 DEF Fresh, Session
  <1>6. Sound(new)
    BY <1>2, <1>4, <1>5 DEF Sound
  <1> QED BY <1>4, <1>5, <1>6

\* How an activation leaves the session k it is applied to.
EntersPsk(k, sid) == sess' = [Entered(k, "psk", sid) EXCEPT !.pending = sid, !.timed = TRUE]
EntersWindow(k, method, sid) ==
    sess' = [Entered(k, method, sid) EXCEPT !.step = "window", !.prompted = TRUE]
EntersCode(k, method, sid) == sess' = Started(Entered(k, method, sid))

Enters(k, method) ==
    LET sid == <<hash', k.index>>
    IN  \/ /\ method = "psk" /\ EntersPsk(k, sid) /\ window' = window /\ pake' = pake
           /\ notes' = notes \o EntryNotes(k)
        \/ /\ method \in {"dynamic", "static"} /\ EntersWindow(k, method, sid)
           /\ window' = window /\ pake' = pake
           /\ notes' = notes \o (EntryNotes(k) \o <<"open window">>)
        \/ /\ method \in {"dynamic", "static"} /\ EntersCode(k, method, sid)
           /\ window' = Bound(window) /\ notes' = notes \o EntryNotes(k)
           /\ method = "static" => window.open
           /\ pake' = IF method = "static" THEN <<hash', k.index, 1>> ELSE pake

LEMMA EnterPairingMoves ==
    ASSUME NEW k \in Session, NEW method \in Methods, EnterPairing(k, method), method # "none",
           <<hash', k.index>> \in Attempts
    PROVE  Enters(k, method)
  <1>1. method \in {"psk", "dynamic", "static"}
    BY Bounds DEF Methods
  <1>0. method \in Selected
    BY <1>1 DEF Selected
  <1> DEFINE sid == <<hash', k.index>>
             new == Entered(k, method, sid)
  <1>2. /\ new.sid = sid /\ new.method = method /\ Fresh(new) /\ Sound(new)
    <2>1. ASSUME NEW s \in Attempts, NEW n, n = Entered(k, method, s)
          PROVE  n.sid = s /\ n.method = method /\ Fresh(n) /\ Sound(n)
      BY <1>0, <2>1, EnteredSound
    <2> QED BY <2>1
  <1>3. CASE method = "psk" /\ Handled([new EXCEPT !.pending = sid, !.timed = TRUE], window,
                                       EntryNotes(k)) /\ UNCHANGED pake
    BY <1>3 DEF Enters, EntersPsk, Handled
  <1>4. CASE method # "psk" /\ UNCHANGED pake
             /\ Handled([new EXCEPT !.step = "window", !.prompted = TRUE], window,
                        EntryNotes(k) \o <<"open window">>)
    BY <1>1, <1>4 DEF Enters, EntersWindow, Handled
  <1>5. CASE method # "psk" /\ (method = "static" => window.open)
             /\ Handled(Started(new), Bound(window), EntryNotes(k)) /\ StartsPake(Started(new))
    <2>1. /\ Started(new).method = method /\ Started(new).sid = sid
          /\ method = "static" => Started(new).round = 1
      BY <1>1, <1>2, <1>5, StartedSound
    <2> HIDE DEF new
    <2>2. pake' = IF method = "static" THEN <<hash', k.index, 1>> ELSE pake
      BY <1>5, <2>1 DEF StartsPake, PakeRound
    <2>3. sess' = Started(new) /\ window' = Bound(window) /\ notes' = notes \o EntryNotes(k)
      BY <1>5 DEF Handled
    <2> QED BY <1>1, <1>5, <2>2, <2>3 DEF Enters, EntersCode, new
  <1> QED BY <1>3, <1>4, <1>5 DEF EnterPairing, Entered


\* Where an activation leaves a session that it is applied to, and the notes that go with it.
Applies(k, method) ==
    \/ method # "none" /\ Enters([k EXCEPT !.act = TRUE, !.final = FALSE, !.index = @ + 1], method)
    \/ /\ method = "none" /\ pake' = pake /\ window' = window
       /\ \/ /\ sess' = Cleared([k EXCEPT !.act = TRUE, !.final = FALSE])
             /\ notes' = notes \o Dismissals(k)
          \/ sess' = [k EXCEPT !.act = TRUE, !.final = FALSE] /\ notes' = notes \o <<>>

LEMMA ActivatedMoves ==
    ASSUME NEW k \in Session, NEW method \in Methods, Activated(k, method),
           hash' \in 1 .. MaxHandshakes, k.index < MaxActivations
    PROVE  Applies(k, method)
  <1> DEFINE l == [k EXCEPT !.act = TRUE, !.final = FALSE, !.index = @ + 1]
  <1>1. CASE method # "none"
    <2>1. EnterPairing(l, method)
      <3>1. [[k EXCEPT !.act = TRUE, !.final = FALSE] EXCEPT !.index = @ + 1] = l
        BY DEF Session
      <3> QED BY <1>1, <3>1 DEF Activated
    <2>0. k.index \in 0 .. MaxActivations /\ k.index + 1 \in 1 .. MaxActivations
      BY Bounds DEF Session
    <2>2. l \in Session /\ l.index \in 1 .. MaxActivations
      <3>1. l.index = k.index + 1
        BY DEF Session
      <3>2. l.index \in 0 .. MaxActivations
        BY <2>0, <3>1
      <3> QED BY <2>0, <3>1, <3>2 DEF Session
    <2> HIDE DEF l
    <2>3. <<hash', l.index>> \in Attempts
      BY <2>2 DEF Attempts
    <2>4. Enters(l, method)
      BY <1>1, <2>1, <2>2, <2>3, EnterPairingMoves
    <2> QED BY <1>1, <2>4 DEF Applies, l
  <1>2. CASE method = "none"
    BY <1>2 DEF Activated, Applies, Handled
  <1> QED BY <1>1, <1>2

-----------------------------------------------------------------------------
(* Prompts *)

\* A handler that leaves the session's prompts as the notes it appends bring them.
LEMMA HandledPrompts ==
    ASSUME PairingIInv, NEW t \in Seq(Notes), notes' = notes \o t, screen' = screen,
           sess' \in Session,
           BringsBoth(sess.emitted, sess.prompted, t, sess'.emitted, sess'.prompted)
    PROVE  PromptInv'
  <1>1. /\ sess.emitted \in BOOLEAN /\ sess.prompted \in BOOLEAN
        /\ sess'.emitted \in BOOLEAN /\ sess'.prompted \in BOOLEAN
        /\ screen.code \in BOOLEAN /\ screen.window \in BOOLEAN /\ notes \in Seq(Notes)
    BY DEF PairingIInv, SessionInv, Sound, Session, PromptInv
  <1>2. ~StopInCallback =>
          BringsBoth(screen.code, screen.window, notes \o t, sess'.emitted, sess'.prompted)
    BY <1>1, BothOn, SMTT(30) DEF PairingIInv, PromptInv
  <1>3. notes \o t \in Seq(Notes)
    BY <1>1
  <1> QED BY <1>2, <1>3 DEF PairingIInv, PromptInv

\* What a teardown leaves in the slot puts every prompt away.
LEMMA TearsDown ==
    ASSUME PairingIInv, NEW more \in {<<>>, <<"report">>},
           NEW all, all = Retained(notes) \o more \o Dismissals(sess)
    PROVE  /\ all \in Seq(Notes)
           /\ ~StopInCallback => BringsBoth(screen.code, screen.window, all, FALSE, FALSE)
  <1>1. /\ sess \in Session /\ sess.emitted \in BOOLEAN /\ sess.prompted \in BOOLEAN
        /\ screen.code \in BOOLEAN /\ screen.window \in BOOLEAN /\ notes \in Seq(Notes)
        /\ ~StopInCallback =>
             BringsBoth(screen.code, screen.window, notes, sess.emitted, sess.prompted)
    BY DEF PairingIInv, SessionInv, Sound, Session, PromptInv
  <1>2. Retained(notes) \in Seq(Notes) /\ more \in Seq(Notes) /\ Dismissals(sess) \in Seq(Notes)
    <2>1. Retained(notes) \in Seq(Notes)
      BY <1>1, RetainedNotes
    <2>2. more \in Seq(Notes)
      BY FewNotes DEF Notes
    <2>3. Dismissals(sess) \in Seq(Notes)
      BY <1>1, DismissalsBring
    <2> QED BY <2>1, <2>2, <2>3
  <1>3. PICK kept \in Seq(Notes) : kept = Retained(notes) \o more
    BY <1>2, NotesBehind
  <1>4. all = kept \o Dismissals(sess)
    BY <1>3
  <1>5. ASSUME ~StopInCallback
        PROVE  BringsBoth(screen.code, screen.window, kept \o Dismissals(sess), FALSE, FALSE)
    <2>1. PICK e, p \in BOOLEAN :
            /\ e => sess.emitted
            /\ p => sess.prompted
            /\ BringsBoth(screen.code, screen.window, Retained(notes), e, p)
      BY <1>1, <1>5, RetainedBrings
    <2>2. BringsBoth(e, p, more, e, p)
      BY NothingBrings
    <2>3. \A c, w \in BOOLEAN : BringsBoth(c, w, Retained(notes), e, p) =>
                                  BringsBoth(c, w, Retained(notes) \o more, e, p)
      BY <1>2, <2>2, BothOn
    <2>4. BringsBoth(screen.code, screen.window, kept, e, p)
      BY <1>1, <1>3, <2>1, <2>3, Zenon
    <2>5. BringsBoth(e, p, Dismissals(sess), FALSE, FALSE)
      BY <1>1, <2>1, DismissalsBring
    <2>6. \A c, w \in BOOLEAN, d \in Seq(Notes) :
            BringsBoth(c, w, kept, e, p) /\ BringsBoth(e, p, d, FALSE, FALSE)
              => BringsBoth(c, w, kept \o d, FALSE, FALSE)
      BY ThenDismissed
    <2> QED BY <1>1, <1>2, <2>4, <2>5, <2>6, Zenon
  <1>6. kept \o Dismissals(sess) \in Seq(Notes)
    BY <1>2, <1>3, NotesBehind
  <1> QED BY <1>4, <1>5, <1>6

LEMMA LeftPrompts ==
    ASSUME PairingIInv, NEW more \in {<<>>, <<"report">>}, sess' = NoSession,
           notes' = Retained(notes) \o more \o Dismissals(sess), screen' = screen
    PROVE  PromptInv'
  <1>1. /\ notes' \in Seq(Notes)
        /\ ~StopInCallback => BringsBoth(screen.code, screen.window, notes', FALSE, FALSE)
    BY TearsDown
  <1>2. sess'.emitted = FALSE /\ sess'.prompted = FALSE
    BY DEF NoSession
  <1>3. screen'.code = screen.code /\ screen'.window = screen.window
    OBVIOUS
  <1> QED BY <1>1, <1>2, <1>3 DEF PairingIInv, PromptInv

\* What EnteredSound says of a session, as one fact
Made(new, k, method, sid) ==
    /\ new \in Session /\ Sound(new) /\ Fresh(new) /\ ~new.emitted /\ ~new.prompted
    /\ new.up = k.up /\ new.index = k.index
    /\ new.sid = sid /\ new.method = method /\ new.step = "idle"

LEMMA EnteredMade ==
    \A k \in Session, method \in Selected, sid \in Attempts :
       \A new : new = Entered(k, method, sid) => Made(new, k, method, sid)
  <1> SUFFICES ASSUME NEW k \in Session, NEW method \in Selected, NEW sid \in Attempts,
                      NEW new, new = Entered(k, method, sid)
               PROVE  Made(new, k, method, sid)
    OBVIOUS
  <1> QED BY EnteredSound DEF Made

\* The session an activation leaves: of a new attempt, of a static code's whose only round has
\* begun, of none, or the one it found.
Begins(k) ==
    /\ sess'.index = k.index + 1 /\ sess'.sid = <<hash', k.index + 1>> /\ Fresh(sess')
    /\ sess'.step \in {"idle", "window", "init"} /\ pake' = pake
    /\ window' \in {window, Bound(window)}
BeginsStatic(k) ==
    /\ sess'.index = k.index + 1 /\ sess'.sid = <<hash', k.index + 1>>
    /\ sess'.step = "auth" /\ sess'.round = 1 /\ pake' = <<hash', k.index + 1, 1>>
    /\ window.open /\ window' = Bound(window)
Clears(k) ==
    /\ sess'.index = k.index /\ sess'.sid = NoAttempt /\ sess'.step = "idle"
    /\ pake' = pake /\ window' = window
Keeps(k) ==
    /\ sess' = [k EXCEPT !.act = TRUE, !.final = FALSE]
    /\ pake' = pake /\ window' = window
Brought(k) ==
    \E t \in Seq(Notes) :
       notes' = notes \o t /\ BringsBoth(k.emitted, k.prompted, t, sess'.emitted, sess'.prompted)

LEMMA EntersMoves ==
    ASSUME NEW k, Sound(k), k.up, NEW method \in Methods, Enters(k, method),
           <<hash', k.index>> \in Attempts
    PROVE  /\ Sound(sess') /\ sess'.up /\ ~sess'.emitted
           /\ sess'.index = k.index /\ sess'.sid = <<hash', k.index>>
           /\ \/ /\ Fresh(sess') /\ sess'.step \in {"idle", "window", "init"}
                 /\ pake' = pake /\ window' \in {window, Bound(window)}
              \/ /\ sess'.step = "auth" /\ sess'.round = 1
                 /\ pake' = <<hash', k.index, 1>> /\ window.open /\ window' = Bound(window)
           /\ \/ ~sess'.prompted /\ notes' = notes \o EntryNotes(k)
              \/ sess'.prompted /\ notes' = notes \o (EntryNotes(k) \o <<"open window">>)
  <1>0. k \in Session /\ "psk" \in Selected /\ (method \in {"dynamic", "static"} => method \in Selected)
    BY DEF Sound, Selected
  <1>1. CASE method = "psk" /\ EntersPsk(k, <<hash', k.index>>)
             /\ window' = window /\ pake' = pake /\ notes' = notes \o EntryNotes(k)
    <2>1. PICK new, sid : sid = <<hash', k.index>> /\ new = Entered(k, "psk", sid)
      OBVIOUS
    <2>2. "psk" \in Selected /\ sid \in Attempts
      BY <2>1 DEF Selected
    <2>3. /\ new \in Session /\ Sound(new) /\ Fresh(new) /\ ~new.emitted /\ ~new.prompted
          /\ new.up = k.up /\ new.index = k.index /\ new.sid = sid /\ new.step = "idle"
      <3>1. Made(new, k, "psk", sid)
        BY <1>0, <2>1, <2>2, EnteredMade, Zenon
      <3> QED BY <3>1 DEF Made
    <2>4. sess' = [new EXCEPT !.pending = sid, !.timed = TRUE]
      BY <1>1, <2>1 DEF EntersPsk
    <2>5. sess' \in Session
      BY <2>2, <2>3, <2>4 DEF Session
    <2>6. /\ ~sess'.emitted /\ ~sess'.prompted /\ sess'.up = k.up /\ sess'.index = k.index
          /\ sess'.sid = sid /\ sess'.step = "idle" /\ sess'.pending = sid
          /\ sess'.round = new.round
      BY <2>3, <2>4 DEF Session
    <2>7. Sound(sess') /\ Fresh(sess')
      BY <2>3, <2>5, <2>6 DEF Sound, Fresh
    <2> QED BY <1>1, <2>1, <2>6, <2>7
  <1>2. CASE method \in {"dynamic", "static"} /\ EntersWindow(k, method, <<hash', k.index>>)
             /\ window' = window /\ pake' = pake
             /\ notes' = notes \o (EntryNotes(k) \o <<"open window">>)
    <2>1. PICK new, sid : sid = <<hash', k.index>> /\ new = Entered(k, method, sid)
      OBVIOUS
    <2>2. method \in Selected /\ sid \in Attempts
      BY <1>0, <1>2, <2>1
    <2>3. /\ new \in Session /\ Sound(new) /\ Fresh(new) /\ ~new.emitted /\ ~new.prompted
          /\ new.up = k.up /\ new.index = k.index /\ new.sid = sid /\ new.step = "idle"
          /\ new.method = method
      <3>1. Made(new, k, method, sid)
        BY <1>0, <2>1, <2>2, EnteredMade, Zenon
      <3> QED BY <3>1 DEF Made
    <2>4. sess' = [new EXCEPT !.step = "window", !.prompted = TRUE]
      BY <1>2, <2>1 DEF EntersWindow
    <2>5. sess' \in Session
      BY <2>2, <2>3, <2>4 DEF Session
    <2>6. /\ ~sess'.emitted /\ sess'.prompted /\ sess'.up = k.up /\ sess'.index = k.index
          /\ sess'.sid = sid /\ sess'.step = "window" /\ sess'.pending = new.pending
          /\ sess'.round = new.round /\ sess'.method = method
      BY <2>3, <2>4 DEF Session
    <2>7. Sound(sess') /\ Fresh(sess')
      BY <1>2, <2>3, <2>5, <2>6 DEF Sound, Fresh
    <2> QED BY <1>2, <2>1, <2>6, <2>7
  <1>3. CASE method \in {"dynamic", "static"} /\ EntersCode(k, method, <<hash', k.index>>)
             /\ window' = Bound(window) /\ notes' = notes \o EntryNotes(k)
             /\ (method = "static" => window.open)
             /\ pake' = IF method = "static" THEN <<hash', k.index, 1>> ELSE pake
    <2>1. PICK new, sid : sid = <<hash', k.index>> /\ new = Entered(k, method, sid)
      OBVIOUS
    <2>2. method \in Selected /\ sid \in Attempts
      BY <1>0, <1>3, <2>1
    <2>3. /\ new \in Session /\ Sound(new) /\ Fresh(new) /\ ~new.emitted /\ ~new.prompted
          /\ new.up = k.up /\ new.index = k.index /\ new.sid = sid /\ new.method = method
      <3>1. Made(new, k, method, sid)
        BY <1>0, <2>1, <2>2, EnteredMade, Zenon
      <3> QED BY <3>1 DEF Made
    <2>4. sess' = Started(new)
      BY <1>3, <2>1 DEF EntersCode
    <2>5. /\ Sound(sess') /\ sess'.emitted = new.emitted /\ sess'.prompted = new.prompted
          /\ sess'.up = k.up /\ sess'.index = k.index /\ sess'.sid = sid
          /\ IF method = "dynamic" THEN sess'.step = "init" /\ Fresh(sess')
                                   ELSE sess'.step = "auth" /\ sess'.round = 1
      BY <1>3, <2>3, <2>4, StartedSound
    <2> QED BY <1>3, <2>1, <2>3, <2>5
  <1> QED BY <1>1, <1>2, <1>3 DEF Enters

LEMMA EntryNotesBring ==
    ASSUME NEW k \in Session
    PROVE  /\ EntryNotes(k) \in Seq(Notes) /\ EntryNotes(k) \o <<"open window">> \in Seq(Notes)
           /\ BringsBoth(k.emitted, k.prompted, EntryNotes(k), FALSE, FALSE)
           /\ BringsBoth(k.emitted, k.prompted, EntryNotes(k) \o <<"open window">>, FALSE, TRUE)
  <1>0. k.emitted \in BOOLEAN /\ k.prompted \in BOOLEAN
    BY DEF Session
  <1>1. /\ Dismissals(k) \in Seq(Notes)
        /\ BringsBoth(k.emitted, k.prompted, Dismissals(k), FALSE, FALSE)
    BY <1>0, DismissalsBring
  <1>2. <<"report">> \in Seq(Notes) /\ <<"open window">> \in Seq(Notes)
    BY FewNotes DEF Notes
  <1>3. BringsBoth(FALSE, FALSE, <<"report">>, FALSE, FALSE)
    BY NothingBrings
  <1>4. BringsBoth(FALSE, FALSE, <<"open window">>, FALSE, TRUE)
    BY BringsFew DEF BringsBoth
  <1>5. EntryNotes(k) = Dismissals(k) \o <<"report">>
    BY DEF EntryNotes
  <1>6. BringsBoth(k.emitted, k.prompted, EntryNotes(k), FALSE, FALSE)
    BY <1>0, <1>1, <1>2, <1>3, <1>5, BothOn, ZenonT(40)
  <1>7. EntryNotes(k) \in Seq(Notes)
    BY <1>1, <1>2, <1>5, NotesBehind
  <1>8. BringsBoth(k.emitted, k.prompted, EntryNotes(k) \o <<"open window">>, FALSE, TRUE)
    BY <1>0, <1>2, <1>4, <1>6, <1>7, BothOn
  <1>9. EntryNotes(k) \o <<"open window">> \in Seq(Notes)
    BY <1>2, <1>7, NotesBehind
  <1> QED BY <1>6, <1>7, <1>8, <1>9

LEMMA AppliesMoves ==
    ASSUME NEW k, Sound(k), k.up, NEW method \in Methods, Applies(k, method),
           hash' \in 1 .. MaxHandshakes, k.index < MaxActivations
    PROVE  /\ Sound(sess') /\ sess'.up /\ Brought(k)
           /\ Begins(k) \/ BeginsStatic(k) \/ Clears(k) \/ Keeps(k)
  <1>0. /\ k \in Session /\ k.emitted \in BOOLEAN /\ k.prompted \in BOOLEAN
        /\ k.index \in 0 .. MaxActivations /\ k.index + 1 \in 1 .. MaxActivations
    BY Bounds DEF Sound, Session
  <1>1. CASE method # "none"
            /\ Enters([k EXCEPT !.act = TRUE, !.final = FALSE, !.index = @ + 1], method)
    <2>1. PICK l : l = [k EXCEPT !.act = TRUE, !.final = FALSE, !.index = @ + 1]
      OBVIOUS
    <2>2. /\ l.index = k.index + 1 /\ l.up = k.up /\ l.emitted = k.emitted
          /\ l.prompted = k.prompted /\ l.round = k.round /\ l.step = k.step
          /\ l.method = k.method /\ l.pending = k.pending /\ l.sid = k.sid
      BY <1>0, <2>1 DEF Session
    <2>3. l \in Session
      <3>1. k.index + 1 \in 0 .. MaxActivations
        BY <1>0, Bounds
      <3> QED BY <1>0, <2>1, <3>1 DEF Session
    <2>4. Sound(l) /\ l.up
      BY <2>2, <2>3 DEF Sound
    <2>5. <<hash', l.index>> \in Attempts
      BY <1>0, <2>2 DEF Attempts
    <2>6. Enters(l, method)
      BY <1>1, <2>1
    <2>7. /\ Sound(sess') /\ sess'.up /\ ~sess'.emitted
          /\ sess'.index = l.index /\ sess'.sid = <<hash', l.index>>
          /\ \/ /\ Fresh(sess') /\ sess'.step \in {"idle", "window", "init"}
                /\ pake' = pake /\ window' \in {window, Bound(window)}
             \/ /\ sess'.step = "auth" /\ sess'.round = 1
                /\ pake' = <<hash', l.index, 1>> /\ window.open /\ window' = Bound(window)
          /\ \/ ~sess'.prompted /\ notes' = notes \o EntryNotes(l)
             \/ sess'.prompted /\ notes' = notes \o (EntryNotes(l) \o <<"open window">>)
      BY <2>4, <2>5, <2>6, EntersMoves
    <2>8. Begins(k) \/ BeginsStatic(k)
      BY <2>2, <2>7 DEF Begins, BeginsStatic
    <2>9. sess'.emitted \in BOOLEAN /\ sess'.prompted \in BOOLEAN
      BY <2>7 DEF Sound, Session
    <2>10. Brought(k)
      <3>1. CASE ~sess'.prompted /\ notes' = notes \o EntryNotes(l)
        <4>1. sess'.emitted = FALSE /\ sess'.prompted = FALSE
          BY <2>7, <2>9, <3>1
        <4> QED BY <2>2, <2>3, <3>1, <4>1, EntryNotesBring DEF Brought
      <3>2. CASE sess'.prompted /\ notes' = notes \o (EntryNotes(l) \o <<"open window">>)
        <4>1. sess'.emitted = FALSE /\ sess'.prompted = TRUE
          BY <2>7, <2>9, <3>2
        <4> QED BY <2>2, <2>3, <3>2, <4>1, EntryNotesBring DEF Brought
      <3> QED BY <2>7, <3>1, <3>2
    <2> QED BY <2>7, <2>8, <2>10
  <1>2. CASE pake' = pake /\ window' = window
             /\ sess' = Cleared([k EXCEPT !.act = TRUE, !.final = FALSE])
             /\ notes' = notes \o Dismissals(k)
    <2>1. PICK l : l = [k EXCEPT !.act = TRUE, !.final = FALSE]
      OBVIOUS
    <2>2. l \in Session /\ l.up = k.up /\ l.index = k.index
      BY <1>0, <2>1 DEF Session
    <2>3. sess' = Cleared(l)
      BY <1>2, <2>1
    <2>4. /\ Sound(sess') /\ ~sess'.emitted /\ ~sess'.prompted /\ sess'.up = l.up
          /\ sess'.step = "idle" /\ sess'.index = l.index /\ sess'.sid = NoAttempt
      BY <2>2, <2>3, ClearedSound
    <2>5. sess'.emitted = FALSE /\ sess'.prompted = FALSE
      BY <2>4 DEF Sound, Session
    <2>6. Brought(k)
      BY <1>0, <1>2, <2>5, DismissalsBring DEF Brought
    <2> QED BY <1>2, <2>2, <2>4, <2>6 DEF Clears
  <1>3. CASE pake' = pake /\ window' = window
             /\ sess' = [k EXCEPT !.act = TRUE, !.final = FALSE] /\ notes' = notes \o <<>>
    <2>1. sess' \in Session
      BY <1>0, <1>3 DEF Session
    <2>2. /\ sess'.emitted = k.emitted /\ sess'.prompted = k.prompted /\ sess'.up = k.up
          /\ sess'.round = k.round /\ sess'.step = k.step /\ sess'.method = k.method
          /\ sess'.pending = k.pending /\ sess'.sid = k.sid
      BY <1>0, <1>3 DEF Session
    <2>3. Sound(sess')
      BY <2>1, <2>2 DEF Sound
    <2>4. Brought(k)
      BY <1>0, <1>3, <2>2, NothingBrings, FewNotes DEF Brought
    <2> QED BY <1>3, <2>2, <2>3, <2>4 DEF Keeps
  <1> QED BY <1>1, <1>2, <1>3 DEF Applies

-----------------------------------------------------------------------------
(* What the steps leave as it was *)

Step == (sess'.step = "auth" /\ sess.step \in {"init", "window"}) \/ pake' # pake
          => Later(pake', pake)

LEMMA Numbers ==
    /\ \A sid \in Attempts \cup {NoAttempt} : sid[1] \in Nat /\ sid[2] \in Nat
    /\ NoAttempt[1] = 0 /\ NoAttempt[2] = 0
    /\ \A k \in Session : k.index \in Nat /\ k.round \in Nat
                            /\ k.sid[1] \in Nat /\ k.sid[2] \in Nat
  <1>1. NoAttempt[1] = 0 /\ NoAttempt[2] = 0
    BY DEF NoAttempt
  <1>2. \A sid \in Attempts : sid[1] \in Nat /\ sid[2] \in Nat
    BY Bounds DEF Attempts
  <1>3. \A sid \in Attempts \cup {NoAttempt} : sid[1] \in Nat /\ sid[2] \in Nat
    BY <1>1, <1>2
  <1>4. ASSUME NEW k \in Session
        PROVE  /\ k.index \in Nat /\ k.round \in Nat /\ k.sid \in Attempts \cup {NoAttempt}
    <2>1. /\ k.index \in 0 .. MaxActivations /\ k.round \in Nat
          /\ k.sid \in Attempts \cup {NoAttempt}
      BY DEF Session
    <2> QED BY <2>1, Bounds
  <1> QED BY <1>1, <1>3, <1>4

LEMMA LaterOf ==
    ASSUME NEW sid, NEW than,
           \/ sid[1] > than[1]
           \/ sid[1] = than[1] /\ sid[2] > than[2]
           \/ sid[1] = than[1] /\ sid[2] = than[2] /\ sid[3] > than[3]
    PROVE  Later(sid, than)
  <1>1. /\ 1 \in 1 .. 3 /\ 2 \in 1 .. 3 /\ 3 \in 1 .. 3
        /\ 1 .. 1 - 1 = {} /\ 1 .. 2 - 1 = {1} /\ 1 .. 3 - 1 = {1, 2}
    OBVIOUS
  <1> QED BY <1>1 DEF Later

AttemptSteps == {"window", "init", "auth", "confirm"}

\* A step that starts no attempt and no run
LEMMA SidStays ==
    ASSUME PairingIInv, pake' = pake, hash' \in Nat, sess' \in Session,
           \/ hash' > hash
           \/ hash' = hash /\ (sess'.up => sess.up /\ sess'.index >= sess.index),
           sess'.sid \in {sess.sid, NoAttempt},
           sess'.step \in AttemptSteps =>
             /\ sess.step \in AttemptSteps
             /\ sess'.sid = sess.sid /\ sess'.round = sess.round,
           sess'.step = "auth" => sess.step = "auth"
    PROVE  SidInv' /\ Step
  <1>1. /\ sess \in Session /\ hash \in Nat /\ pake \in Nat \X Nat \X Nat
        /\ pake[1] < hash \/ (pake[1] = hash /\ (sess.up => pake[2] <= sess.index))
        /\ sess.sid[1] < hash \/ (sess.sid[1] = hash /\ (sess.up => sess.sid[2] <= sess.index))
        /\ sess.step \in AttemptSteps => RunOf(pake, sess)
    BY Bounds DEF PairingIInv, SessionInv, SidInv, Sound, AttemptSteps
  <1>2. /\ sess.index \in Nat /\ sess.sid[1] \in Nat /\ sess.sid[2] \in Nat
        /\ sess'.index \in Nat /\ NoAttempt[1] = 0 /\ NoAttempt[2] = 0
        /\ pake[1] \in Nat /\ pake[2] \in Nat
    BY <1>1, Numbers
  <1>3. pake'[1] < hash' \/ (pake'[1] = hash' /\ (sess'.up => pake'[2] <= sess'.index))
    BY <1>1, <1>2
  <1>4. sess'.sid[1] < hash' \/ (sess'.sid[1] = hash' /\ (sess'.up => sess'.sid[2] <= sess'.index))
    <2>1. CASE sess'.sid = NoAttempt
      BY <1>2, <2>1
    <2>2. CASE sess'.sid = sess.sid
      BY <1>1, <1>2, <2>2
    <2> QED BY <2>1, <2>2
  <1>5. sess'.step \in AttemptSteps => RunOf(pake, sess)'
    BY <1>1 DEF RunOf, Before
  <1>6. Step
    BY DEF Step
  <1> QED BY <1>1, <1>3, <1>4, <1>5, <1>6 DEF SidInv, AttemptSteps

\* A step that counts no guess
LEMMA GuessStays ==
    ASSUME PairingIInv, rounds' \in Nat, guesses' = guesses,
           window' \in {window, Closed, Bound(window)},
           sess'.method = "static" /\ sess'.step \in {"auth", "confirm"} =>
             guesses < WINDOW_FAILED_ATTEMPT_LIMIT
    PROVE  GuessInv'
  <1>1. window' \in WindowRecords /\ window'.open => window.open /\ window'.failed = window.failed
    BY Bounds DEF Bound, Closed, PairingIInv, GuessInv, WindowRecords
  <1>2. window' \in WindowRecords
    <2>1. window \in WindowRecords /\ 0 \in 0 .. WINDOW_FAILED_ATTEMPT_LIMIT - 1
      BY Bounds DEF PairingIInv, GuessInv
    <2>2. Closed \in WindowRecords /\ Bound(window) \in WindowRecords
      BY <2>1 DEF Bound, Closed, WindowRecords
    <2> QED BY <2>1, <2>2
  <1> QED BY <1>1, <1>2 DEF PairingIInv, GuessInv, GuessesPerGesture

LEMMA ClearedNone == Cleared(NoSession) = NoSession
  BY DEF Cleared, NoSession

\* The state of the invariant, in a form that is easy to cite
LEMMA Holds ==
    ASSUME PairingIInv
    PROVE  /\ Sound(sess) /\ sess \in Session /\ sess.emitted \in BOOLEAN /\ sess.prompted \in BOOLEAN
           /\ sess.up \in BOOLEAN
           /\ hash \in Nat /\ hash \in 0 .. MaxHandshakes /\ notes \in Seq(Notes)
           /\ sess.up \/ sess = NoSession
           /\ sess.up => hash >= 1
           /\ window \in WindowRecords /\ rounds \in Nat /\ guesses \in Nat
  BY Bounds DEF PairingIInv, SessionInv, Sound, Session, GuessInv, PromptInv

\* The session ends, its connection stays.
LEMMA AbortedHolds ==
    ASSUME PairingIInv, NEW w, Aborted(sess, w), UNCHANGED <<hash, screen, pake>>
    PROVE  SessionInv' /\ SidInv' /\ Step /\ PromptInv' /\ sess'.step = "idle"
  <1>0. Sound(sess) /\ sess \in Session /\ sess.emitted \in BOOLEAN /\ sess.prompted \in BOOLEAN
    BY Holds
  <1>1. sess' = Cleared(sess) /\ notes' = notes \o (<<"report">> \o Dismissals(sess))
    BY DEF Aborted, Handled
  <1>2. /\ sess' \in Session /\ Sound(sess') /\ ~sess'.emitted /\ ~sess'.prompted
        /\ sess'.up = sess.up /\ sess'.step = "idle" /\ sess'.index = sess.index
        /\ sess'.sid = NoAttempt
    BY <1>0, <1>1, ClearedSound
  <1>3. SessionInv'
    BY <1>1, <1>2, ClearedNone DEF PairingIInv, SessionInv
  <1>4. SidInv' /\ Step
    <2>1. sess.index \in Nat /\ hash \in Nat
      BY <1>0, Numbers, Holds
    <2> QED BY <1>2, <2>1, SidStays DEF AttemptSteps
  <1>5. sess'.emitted = FALSE /\ sess'.prompted = FALSE
    BY <1>2 DEF Session
  <1>6. /\ <<"report">> \in Seq(Notes) /\ Dismissals(sess) \in Seq(Notes)
        /\ BringsBoth(sess.emitted, sess.prompted, <<"report">>, sess.emitted, sess.prompted)
        /\ BringsBoth(sess.emitted, sess.prompted, Dismissals(sess), FALSE, FALSE)
    BY <1>0, FewNotes, NothingBrings, DismissalsBring DEF Notes
  <1>7. <<"report">> \o Dismissals(sess) \in Seq(Notes)
    BY <1>6, NotesBehind
  <1>8. BringsBoth(sess.emitted, sess.prompted, <<"report">> \o Dismissals(sess), FALSE, FALSE)
    BY <1>0, <1>6, BothOn
  <1>9. PromptInv'
    BY <1>1, <1>2, <1>5, <1>7, <1>8, HandledPrompts
  <1> QED BY <1>2, <1>3, <1>4, <1>9

\* The connection goes.
LEMMA LeftHolds ==
    ASSUME PairingIInv, NEW more \in {<<>>, <<"report">>}, Left(more),
           UNCHANGED <<hash, rounds, screen, pake, guesses>>
    PROVE  PairingIInv' /\ Step
  <1>1. /\ sess' = NoSession /\ window' \in {window, Closed}
        /\ notes' = Retained(notes) \o more \o Dismissals(sess)
    BY DEF Left
  <1>2. PromptInv'
    BY <1>1, LeftPrompts
  <1>3. NoSession.step = "idle" /\ ~NoSession.up /\ NoSession.sid = NoAttempt
    BY DEF NoSession
  <1>4. SessionInv'
    BY <1>1, <1>3, NoneSound DEF PairingIInv, SessionInv
  <1>5. SidInv' /\ Step
    BY <1>1, <1>3, NoneSound, Holds, SidStays DEF AttemptSteps
  <1>6. GuessInv'
    BY <1>1, <1>3, Holds, GuessStays
  <1> QED BY <1>2, <1>4, <1>5, <1>6 DEF PairingIInv

-----------------------------------------------------------------------------
(* Activations keep the invariant *)

\* Session k is the one that is on, or an empty one where none is.
Stands(k) ==
    /\ k.emitted = sess.emitted /\ k.prompted = sess.prompted
    /\ k.round = sess.round /\ k.sid = sess.sid /\ k.step = sess.step /\ k.method = sess.method

\* An activation's attempt is later than every run.
LEMMA BeginsLater ==
    ASSUME PairingIInv, NEW k \in Session, hash' \in Nat,
           hash' > hash \/ (hash' = hash /\ sess.up /\ k.index = sess.index),
           NEW sid, sid = <<hash', k.index + 1>>
    PROVE  Before(pake, sid) /\ sid[1] = hash' /\ sid[2] = k.index + 1 /\ k.index \in Nat
  <1>1. /\ hash \in Nat /\ pake[1] \in Nat /\ pake[2] \in Nat /\ k.index \in Nat
        /\ pake[1] < hash \/ (pake[1] = hash /\ (sess.up => pake[2] <= sess.index))
    BY Numbers, Holds DEF PairingIInv, SidInv
  <1>2. sid[1] = hash' /\ sid[2] = k.index + 1
    OBVIOUS
  <1> QED BY <1>1, <1>2 DEF Before

LEMMA ActivationHolds ==
    ASSUME PairingIInv, NEW k, Sound(k), k.up, Stands(k), NEW method \in Methods,
           Applies(k, method), hash' \in 1 .. MaxHandshakes, k.index < MaxActivations,
           hash' > hash \/ (hash' = hash /\ sess.up /\ k.index = sess.index),
           UNCHANGED <<rounds, screen, guesses>>
    PROVE  PairingIInv' /\ Step
  <1>1. /\ Sound(sess') /\ sess'.up /\ Brought(k)
        /\ Begins(k) \/ BeginsStatic(k) \/ Clears(k) \/ Keeps(k)
    BY AppliesMoves
  <1>2. /\ hash' \in Nat /\ hash' \in 0 .. MaxHandshakes /\ hash' >= 1 /\ k \in Session
        /\ sess' \in Session /\ hash \in Nat
    BY <1>1, Bounds, Holds DEF Sound
  <1>3. SessionInv'
    BY <1>1, <1>2 DEF SessionInv, Sound
  <1>4. PromptInv'
    BY <1>1, <1>2, HandledPrompts DEF Brought, Stands
  <1>5. CASE Keeps(k)
    <2>1. /\ sess'.index = k.index /\ sess'.sid = sess.sid /\ sess'.step = sess.step
          /\ sess'.method = sess.method /\ sess'.round = sess.round
          /\ pake' = pake /\ window' = window
      BY <1>2, <1>5 DEF Keeps, Stands, Session
    <2>2. SidInv' /\ Step
      <3>1. k.index \in Nat
        BY <1>2, Numbers
      <3> QED BY <1>2, <2>1, <3>1, SidStays
    <2>3. GuessInv'
      BY <2>1, Holds, GuessStays DEF PairingIInv, GuessInv
    <2> QED BY <1>3, <1>4, <2>2, <2>3 DEF PairingIInv
  <1>6. CASE Clears(k)
    <2>1. SidInv' /\ Step
      <3>1. k.index \in Nat
        BY <1>2, Numbers
      <3> QED BY <1>2, <1>6, <3>1, SidStays DEF Clears, AttemptSteps
    <2>2. GuessInv'
      BY <1>6, Holds, GuessStays DEF Clears
    <2> QED BY <1>3, <1>4, <2>1, <2>2 DEF PairingIInv
  <1>7. CASE Begins(k)
    <2>1. Before(pake, sess'.sid) /\ sess'.sid[1] = hash' /\ sess'.sid[2] = sess'.index
          /\ sess'.index \in Nat
      BY <1>2, <1>7, BeginsLater, Numbers DEF Begins
    <2>2. SidInv' /\ Step
      <3>1. pake' = pake /\ sess'.step \in {"idle", "window", "init"}
        BY <1>7 DEF Begins
      <3>2. Step
        BY <3>1 DEF Step
      <3>3. RunOf(pake, sess)'
        BY <2>1, <3>1 DEF RunOf, Before
      <3>4. /\ pake \in Nat \X Nat \X Nat
            /\ pake[1] < hash \/ (pake[1] = hash /\ (sess.up => pake[2] <= sess.index))
        BY DEF PairingIInv, SidInv
      <3>5. pake[1] \in Nat /\ pake[2] \in Nat
        BY <3>4
      <3>6. pake[1] < hash' \/ (pake[1] = hash' /\ pake[2] <= sess'.index)
        BY <1>2, <2>1, <3>5 DEF Before
      <3> QED BY <1>2, <2>1, <3>1, <3>2, <3>3, <3>4, <3>6 DEF SidInv
    <2>3. GuessInv'
      BY <1>7, Holds, GuessStays DEF Begins
    <2> QED BY <1>3, <1>4, <2>2, <2>3 DEF PairingIInv
  <1>8. CASE BeginsStatic(k)
    <2>1. Before(pake, sess'.sid) /\ sess'.sid[1] = hash' /\ sess'.sid[2] = sess'.index
          /\ sess'.index \in Nat /\ k.index + 1 = sess'.index
      BY <1>2, <1>8, BeginsLater, Numbers DEF BeginsStatic
    <2>2. pake' = <<hash', sess'.index, 1>> /\ sess'.round = 1
      BY <1>8, <2>1 DEF BeginsStatic
    <2>3. pake'[1] = hash' /\ pake'[2] = sess'.index /\ pake'[3] = 1 /\ pake' \in Nat \X Nat \X Nat
      BY <1>2, <2>1, <2>2
    <2>4. Step
      <3>1. pake[1] \in Nat /\ pake[2] \in Nat
        BY DEF PairingIInv, SidInv
      <3>2. pake[1] < pake'[1] \/ (pake[1] = pake'[1] /\ pake[2] < pake'[2])
        BY <2>1, <2>3 DEF Before
      <3>3. pake'[1] > pake[1] \/ (pake'[1] = pake[1] /\ pake'[2] > pake[2])
        BY <1>2, <2>1, <2>3, <3>1, <3>2
      <3> QED BY <3>3, LaterOf DEF Step
    <2>5. SidInv'
      <3>1. RunOf(pake, sess)'
        BY <2>1, <2>2, <2>3 DEF RunOf
      <3> QED BY <1>2, <2>1, <2>3, <3>1 DEF SidInv
    <2>6. GuessInv'
      <3>1. guesses < WINDOW_FAILED_ATTEMPT_LIMIT
        <4>1. guesses <= window.failed /\ window.failed \in 0 .. WINDOW_FAILED_ATTEMPT_LIMIT - 1
          BY <1>8 DEF PairingIInv, GuessInv, WindowRecords, BeginsStatic
        <4>2. guesses \in Nat
          BY Holds
        <4> QED BY <4>1, <4>2, Bounds
      <3> QED BY <1>8, <3>1, Holds, GuessStays DEF BeginsStatic
    <2> QED BY <1>3, <1>4, <2>4, <2>5, <2>6 DEF PairingIInv
  <1> QED BY <1>1, <1>5, <1>6, <1>7, <1>8

LEMMA AdmitHolds ==
    ASSUME PairingIInv, NEW kind \in Kinds, NEW method \in Methods, Admit(kind, method)
    PROVE  PairingIInv' /\ Step
  <1>1. PICK k : k = [NoSession EXCEPT !.up = TRUE, !.kind = kind]
    OBVIOUS
  <1>2. sess = NoSession /\ hash \in Nat /\ hash < MaxHandshakes /\ hash' = hash + 1
    BY Holds DEF Admit
  <1>3. k \in Session
    <2>1. kind \in {"none", "pairing", "sentinel", "long"}
      BY DEF Kinds
    <2> QED BY <1>1, <2>1, NoneSound DEF Session
  <1>4. /\ k.up /\ k.index = 0 /\ k.emitted = NoSession.emitted /\ k.prompted = NoSession.prompted
        /\ k.round = NoSession.round /\ k.sid = NoSession.sid /\ k.step = NoSession.step
        /\ k.method = NoSession.method /\ k.pending = NoSession.pending
    BY <1>1 DEF NoSession
  <1>5. Sound(k) /\ Stands(k)
    BY <1>2, <1>3, <1>4, NoneSound DEF Sound, Stands
  <1>6. Activated(k, method) /\ UNCHANGED <<rounds, screen, guesses>>
    BY <1>1 DEF Admit
  <1>7. hash' \in 1 .. MaxHandshakes /\ hash' > hash /\ k.index < MaxActivations
    BY <1>2, <1>4, Bounds
  <1>8. Applies(k, method)
    BY <1>3, <1>6, <1>7, ActivatedMoves
  <1> QED BY <1>4, <1>5, <1>6, <1>7, <1>8, ActivationHolds

LEMMA ActivateHolds ==
    ASSUME PairingIInv, NEW method \in Methods, Activate(method)
    PROVE  PairingIInv' /\ Step
  <1>1. /\ sess.up /\ hash + sess.index <= MaxActivations /\ hash' = hash
        /\ Activated(sess, method) /\ UNCHANGED <<rounds, screen, guesses>>
    BY DEF Activate
  <1>2. /\ hash \in Nat /\ hash >= 1 /\ sess \in Session /\ Sound(sess) /\ sess.index \in Nat
        /\ hash \in 0 .. MaxHandshakes
    BY <1>1, Holds, Numbers
  <1>3. sess.index < MaxActivations /\ hash' \in 1 .. MaxHandshakes
    BY <1>1, <1>2, Bounds
  <1>4. Applies(sess, method)
    BY <1>1, <1>2, <1>3, ActivatedMoves
  <1>5. Stands(sess)
    BY DEF Stands
  <1> QED BY <1>1, <1>2, <1>3, <1>4, <1>5, ActivationHolds

-----------------------------------------------------------------------------
(* The other steps keep the invariant *)

\* A step that leaves the attempt and its prompts as they are, and the rest of the session sound
LEMMA StandsHolds ==
    ASSUME PairingIInv, Sound(sess'), hash' \in 0 .. MaxHandshakes, hash' >= hash, sess'.up, sess.up,
           hash' = hash => sess'.index >= sess.index,
           sess'.step \in {sess.step, "confirm"},
           sess'.step # sess.step => sess.step = "auth",
           sess'.emitted = sess.emitted, sess'.prompted = sess.prompted, sess'.sid = sess.sid,
           sess'.round = sess.round, sess'.method = sess.method,
           NEW t \in {<<>>, <<"report">>}, notes' = notes \o t,
           window' \in {window, Closed}, UNCHANGED <<rounds, screen, pake, guesses>>
    PROVE  PairingIInv' /\ Step
  <1>1. SessionInv'
    <2>1. hash \in Nat /\ hash >= 1 /\ hash' \in Nat
      BY Holds, Bounds
    <2> QED BY <2>1 DEF SessionInv
  <1>2. PromptInv'
    <2>1. t \in Seq(Notes) /\ BringsBoth(sess.emitted, sess.prompted, t, sess.emitted, sess.prompted)
      BY Holds, NothingBrings, FewNotes DEF Notes
    <2> QED BY <2>1, HandledPrompts DEF Sound
  <1>3. SidInv' /\ Step
    <2>1. hash \in Nat /\ hash' \in Nat
      BY Holds, Bounds
    <2>2. hash' > hash \/ hash' = hash
      BY <2>1
    <2>3. sess'.step \in AttemptSteps => sess.step \in AttemptSteps
      BY DEF AttemptSteps
    <2>4. sess'.step = "auth" => sess.step = "auth"
      OBVIOUS
    <2> QED BY <2>1, <2>2, <2>3, <2>4, SidStays DEF Sound
  <1>4. GuessInv'
    <2>1. sess'.method = "static" /\ sess'.step \in {"auth", "confirm"} =>
             guesses < WINDOW_FAILED_ATTEMPT_LIMIT
      BY DEF PairingIInv, GuessInv
    <2> QED BY <2>1, Holds, GuessStays
  <1> QED BY <1>1, <1>2, <1>3, <1>4 DEF PairingIInv

LEMMA RefuseActivateHolds ==
    ASSUME PairingIInv, RefuseActivate
    PROVE  PairingIInv' /\ Step
  <1>1. /\ sess.up /\ hash + sess.index <= MaxActivations /\ hash' = hash
        /\ sess' = [sess EXCEPT !.index = @ + 1] /\ notes' = notes
        /\ UNCHANGED <<window, rounds, screen, pake, guesses>>
    BY DEF RefuseActivate, pairingHistory
  <1>2. /\ hash \in Nat /\ hash >= 1 /\ sess \in Session /\ Sound(sess) /\ sess.index \in Nat
        /\ hash \in 0 .. MaxHandshakes /\ notes \in Seq(Notes)
    BY <1>1, Holds, Numbers
  <1>3. sess.index + 1 \in 0 .. MaxActivations
    BY <1>1, <1>2, Bounds
  <1>4. sess' \in Session
    BY <1>1, <1>2, <1>3 DEF Session
  <1>5. /\ sess'.up = sess.up /\ sess'.index = sess.index + 1 /\ sess'.step = sess.step
        /\ sess'.emitted = sess.emitted /\ sess'.prompted = sess.prompted /\ sess'.sid = sess.sid
        /\ sess'.round = sess.round /\ sess'.method = sess.method /\ sess'.pending = sess.pending
    BY <1>1, <1>2 DEF Session
  <1>6. Sound(sess')
    BY <1>2, <1>4, <1>5 DEF Sound
  <1>7. notes' = notes \o <<>>
    BY <1>1, <1>2
  <1>8. hash' >= hash /\ sess'.index >= sess.index
    BY <1>1, <1>2, <1>5
  <1> QED BY <1>1, <1>2, <1>5, <1>6, <1>7, <1>8, StandsHolds

LEMMA RehandshakeHolds ==
    ASSUME PairingIInv, NEW kind \in Kinds, Rehandshake(kind)
    PROVE  PairingIInv' /\ Step
  <1>1. /\ sess.up /\ hash < MaxHandshakes /\ hash' = hash + 1
        /\ sess' = [sess EXCEPT !.kind = kind, !.act = FALSE, !.running = FALSE, !.index = 0]
        /\ notes' = notes /\ UNCHANGED <<window, rounds, screen, pake, guesses>>
    BY DEF Rehandshake, pairingHistory
  <1>2. /\ hash \in Nat /\ sess \in Session /\ Sound(sess) /\ notes \in Seq(Notes)
        /\ kind \in {"none", "pairing", "sentinel", "long"} /\ 0 \in 0 .. MaxActivations
    BY <1>1, Holds, Bounds DEF Kinds
  <1>3. sess' \in Session
    BY <1>1, <1>2 DEF Session
  <1>4. /\ sess'.up = sess.up /\ sess'.step = sess.step
        /\ sess'.emitted = sess.emitted /\ sess'.prompted = sess.prompted /\ sess'.sid = sess.sid
        /\ sess'.round = sess.round /\ sess'.method = sess.method /\ sess'.pending = sess.pending
    BY <1>1, <1>2 DEF Session
  <1>5. Sound(sess')
    BY <1>2, <1>3, <1>4 DEF Sound
  <1>6. notes' = notes \o <<>>
    BY <1>1, <1>2
  <1>7. hash' \in 0 .. MaxHandshakes /\ hash' >= hash /\ hash' # hash
    BY <1>1, <1>2, Bounds
  <1> QED BY <1>1, <1>4, <1>5, <1>6, <1>7, StandsHolds

LEMMA PairAuthHolds ==
    ASSUME PairingIInv, PairAuth
    PROVE  PairingIInv' /\ Step
  <1>1. /\ sess.running /\ sess.step = "auth" /\ sess' = [sess EXCEPT !.step = "confirm"]
        /\ notes' = notes \o <<>> /\ UNCHANGED <<hash, window, rounds, screen, pake, guesses>>
    BY DEF PairAuth, Handled
  <1>2. /\ hash \in Nat /\ sess \in Session /\ Sound(sess) /\ hash \in 0 .. MaxHandshakes
        /\ sess.index \in Nat
    BY Holds, Numbers
  <1>3. sess.up
    <2>1. ~NoSession.running
      BY DEF NoSession
    <2> QED BY <1>1, <2>1, Holds
  <1>4. sess' \in Session
    BY <1>1, <1>2 DEF Session
  <1>5. /\ sess'.up = sess.up /\ sess'.step = "confirm" /\ sess'.index = sess.index
        /\ sess'.emitted = sess.emitted /\ sess'.prompted = sess.prompted /\ sess'.sid = sess.sid
        /\ sess'.round = sess.round /\ sess'.method = sess.method /\ sess'.pending = sess.pending
    BY <1>1, <1>2 DEF Session
  <1>6. Sound(sess')
    BY <1>1, <1>2, <1>4, <1>5 DEF Sound
  <1>7. hash' >= hash /\ sess'.index >= sess.index
    BY <1>1, <1>2, <1>5
  <1> QED BY <1>1, <1>2, <1>3, <1>5, <1>6, <1>7, StandsHolds

LEMMA PairFinalizeHolds ==
    ASSUME PairingIInv, PairFinalize
    PROVE  PairingIInv' /\ Step
  <1>1. /\ sess.up /\ sess' = [sess EXCEPT !.pending = NoAttempt, !.act = FALSE, !.final = TRUE]
        /\ window' \in {window, Closed} /\ UNCHANGED <<hash, rounds, screen, pake, guesses>>
    BY DEF PairFinalize, Handled
  <1>2. PICK t \in {<<>>, <<"report">>} : notes' = notes \o t
    BY DEF PairFinalize, Handled
  <1>3. /\ hash \in Nat /\ sess \in Session /\ Sound(sess) /\ hash \in 0 .. MaxHandshakes
        /\ sess.index \in Nat
    BY Holds, Numbers
  <1>4. sess' \in Session
    BY <1>1, <1>3 DEF Session
  <1>5. /\ sess'.up = sess.up /\ sess'.step = sess.step /\ sess'.index = sess.index
        /\ sess'.emitted = sess.emitted /\ sess'.prompted = sess.prompted /\ sess'.sid = sess.sid
        /\ sess'.round = sess.round /\ sess'.method = sess.method /\ sess'.pending = NoAttempt
    BY <1>1, <1>3 DEF Session
  <1>6. Sound(sess')
    BY <1>3, <1>4, <1>5 DEF Sound
  <1>7. hash' >= hash /\ sess'.index >= sess.index
    BY <1>1, <1>3, <1>5
  <1> QED BY <1>1, <1>2, <1>3, <1>5, <1>6, <1>7, StandsHolds

LEMMA PairInitHolds ==
    ASSUME PairingIInv, PairInit
    PROVE  PairingIInv' /\ Step
  <1>1. /\ sess.running /\ sess.method = "dynamic" /\ sess.step = "init"
        /\ sess' = [sess EXCEPT !.round = @ + 1, !.step = "auth", !.emitted = TRUE]
        /\ pake' = <<sess'.sid[1], sess'.sid[2], sess'.round>> /\ window' = window
        /\ notes' = notes \o (IF sess.round = 0 THEN <<"display code">> ELSE <<>>)
        /\ rounds' = rounds + 1 /\ UNCHANGED <<hash, screen, guesses>>
    BY DEF PairInit, Handled, NextRound, PakeRound
  <1>2. /\ hash \in Nat /\ sess \in Session /\ Sound(sess) /\ hash \in 0 .. MaxHandshakes
        /\ sess.index \in Nat /\ sess.round \in Nat /\ sess.sid[1] \in Nat /\ sess.sid[2] \in Nat
        /\ sess.emitted \in BOOLEAN /\ sess.prompted \in BOOLEAN /\ rounds \in Nat
        /\ window \in WindowRecords
    BY Holds, Numbers
  <1>3. sess.up
    <2>1. ~NoSession.running
      BY DEF NoSession
    <2> QED BY <1>1, <2>1, Holds
  <1>4. sess.round + 1 \in Nat /\ sess.round + 1 # 0
    BY <1>2
  <1>5. sess' \in Session
    BY <1>1, <1>2, <1>4 DEF Session
  <1>6. /\ sess'.up = sess.up /\ sess'.step = "auth" /\ sess'.index = sess.index
        /\ sess'.emitted = TRUE /\ sess'.prompted = sess.prompted /\ sess'.sid = sess.sid
        /\ sess'.round = sess.round + 1 /\ sess'.method = sess.method
        /\ sess'.pending = sess.pending
    BY <1>1, <1>2 DEF Session
  <1>7. Sound(sess')
    BY <1>2, <1>4, <1>5, <1>6 DEF Sound
  <1>8. SessionInv'
    BY <1>1, <1>2, <1>3, <1>6, <1>7, Holds DEF SessionInv
  <1>9. PromptInv'
    <2>1. CASE sess.round = 0
      <3>1. sess.emitted = FALSE
        BY <1>2, <2>1 DEF Sound
      <3>2. <<"display code">> \in Seq(Notes) /\ notes' = notes \o <<"display code">>
        BY <1>1, <2>1, FewNotes DEF Notes
      <3>3. BringsBoth(FALSE, sess.prompted, <<"display code">>, TRUE, sess.prompted)
        BY <1>2, BringsFew DEF BringsBoth
      <3> QED BY <1>1, <1>5, <1>6, <3>1, <3>2, <3>3, HandledPrompts
    <2>2. CASE sess.round # 0
      <3>1. sess.emitted = TRUE
        BY <1>1, <1>2, <2>2 DEF Sound
      <3>2. <<>> \in Seq(Notes) /\ notes' = notes \o <<>>
        BY <1>1, <2>2, FewNotes
      <3>3. BringsBoth(TRUE, sess.prompted, <<>>, TRUE, sess.prompted)
        BY <1>2, NothingBrings
      <3> QED BY <1>1, <1>5, <1>6, <3>1, <3>2, <3>3, HandledPrompts
    <2> QED BY <2>1, <2>2
  <1>10. pake' = <<sess.sid[1], sess.sid[2], sess.round + 1>>
    BY <1>1, <1>6
  <1>11. /\ pake'[1] = sess.sid[1] /\ pake'[2] = sess.sid[2] /\ pake'[3] = sess.round + 1
         /\ pake' \in Nat \X Nat \X Nat
    BY <1>2, <1>4, <1>10
  <1>12. pake \in Nat \X Nat \X Nat /\ RunOf(pake, sess)
         /\ (sess.sid[1] < hash \/ (sess.sid[1] = hash /\ (sess.up => sess.sid[2] <= sess.index)))
    BY <1>1 DEF PairingIInv, SidInv
  <1>13. SidInv'
    <2>1. RunOf(pake, sess)'
      BY <1>2, <1>4, <1>6, <1>11 DEF RunOf
    <2> QED BY <1>1, <1>3, <1>6, <1>11, <1>12, <2>1 DEF SidInv
  <1>14. Step
    <2>1. pake[1] \in Nat /\ pake[2] \in Nat /\ pake[3] \in Nat
      BY <1>12
    <2>2. \/ pake'[1] > pake[1]
          \/ pake'[1] = pake[1] /\ pake'[2] > pake[2]
          \/ pake'[1] = pake[1] /\ pake'[2] = pake[2] /\ pake'[3] > pake[3]
      BY <1>2, <1>11, <1>12, <2>1 DEF RunOf, Before
    <2> QED BY <2>2, LaterOf DEF Step
  <1>15. GuessInv'
    <2>1. rounds' \in Nat
      <3>1. rounds \in Nat /\ rounds' = rounds + 1
        BY <1>1, <1>2, Zenon
      <3> QED BY <3>1
    <2>2. ~(sess'.method = "static")
      BY <1>1, <1>6
    <2> QED BY <1>1, <2>1, <2>2, GuessStays
  <1> QED BY <1>8, <1>9, <1>13, <1>15, <1>14 DEF PairingIInv

LEMMA PairConfirmHolds ==
    ASSUME PairingIInv, PairConfirm
    PROVE  PairingIInv' /\ Step
  <1>1. /\ sess.running /\ sess.step = "confirm"
        /\ sess' = [sess EXCEPT !.step = "finalize", !.pending = sess.sid,
                                !.emitted = FALSE, !.prompted = FALSE]
        /\ notes' = notes \o Dismissals(sess) /\ window' = window
        /\ rounds' = 0 /\ UNCHANGED <<hash, screen, pake, guesses>>
    BY DEF PairConfirm, Handled
  <1>2. /\ hash \in Nat /\ sess \in Session /\ Sound(sess) /\ hash \in 0 .. MaxHandshakes
        /\ sess.index \in Nat /\ sess.emitted \in BOOLEAN /\ sess.prompted \in BOOLEAN
    BY Holds, Numbers
  <1>3. sess.up
    <2>1. ~NoSession.running
      BY DEF NoSession
    <2> QED BY <1>1, <2>1, Holds
  <1>4. sess' \in Session
    <2>1. sess.sid \in Attempts \cup {NoAttempt}
      BY <1>2 DEF Session
    <2> QED BY <1>1, <1>2, <2>1 DEF Session
  <1>5. /\ sess'.up = sess.up /\ sess'.step = "finalize" /\ sess'.index = sess.index
        /\ sess'.emitted = FALSE /\ sess'.prompted = FALSE /\ sess'.sid = sess.sid
        /\ sess'.round = sess.round /\ sess'.method = sess.method /\ sess'.pending = sess.sid
    BY <1>1, <1>2 DEF Session
  <1>6. Sound(sess')
    BY <1>4, <1>5 DEF Sound
  <1>7. SessionInv'
    BY <1>1, <1>2, <1>3, <1>5, <1>6, Holds DEF SessionInv
  <1>8. PromptInv'
    <2>1. /\ Dismissals(sess) \in Seq(Notes)
          /\ BringsBoth(sess.emitted, sess.prompted, Dismissals(sess), FALSE, FALSE)
      BY <1>2, DismissalsBring
    <2> QED BY <1>1, <1>4, <1>5, <2>1, HandledPrompts
  <1>9. SidInv' /\ Step
    BY <1>1, <1>2, <1>3, <1>4, <1>5, SidStays DEF AttemptSteps
  <1>10. GuessInv'
    BY <1>1, <1>5, GuessStays
  <1> QED BY <1>7, <1>8, <1>9, <1>10 DEF PairingIInv

\* A wrong tag: it is counted, or the next round may come.
LEMMA PairMismatchHolds ==
    ASSUME PairingIInv, PairMismatch
    PROVE  PairingIInv' /\ Step
  <1>1. /\ sess.running /\ sess.step = "confirm"
        /\ guesses' = IF sess.method = "static" THEN guesses + 1 ELSE guesses
        /\ UNCHANGED <<hash, rounds, screen, pake>>
    BY DEF PairMismatch
  <1>2. /\ hash \in Nat /\ sess \in Session /\ Sound(sess) /\ hash \in 0 .. MaxHandshakes
        /\ sess.index \in Nat /\ rounds \in Nat
    BY Holds, Numbers
  <1>3. sess.up
    <2>1. ~NoSession.running
      BY DEF NoSession
    <2> QED BY <1>1, <2>1, Holds
  <1>4. CASE sess.method = "dynamic" /\ Handled([sess EXCEPT !.step = "init"], window, <<>>)
    <2>1. sess' = [sess EXCEPT !.step = "init"] /\ window' = window /\ notes' = notes \o <<>>
      BY <1>4 DEF Handled
    <2>2. sess' \in Session
      BY <1>2, <2>1 DEF Session
    <2>3. /\ sess'.up = sess.up /\ sess'.step = "init" /\ sess'.index = sess.index
          /\ sess'.emitted = sess.emitted /\ sess'.prompted = sess.prompted /\ sess'.sid = sess.sid
          /\ sess'.round = sess.round /\ sess'.method = sess.method
          /\ sess'.pending = sess.pending
      BY <1>2, <2>1 DEF Session
    <2>4. Sound(sess')
      BY <1>1, <1>2, <2>2, <2>3 DEF Sound
    <2>5. SessionInv'
      BY <1>1, <1>2, <1>3, <2>3, <2>4, Holds DEF SessionInv
    <2>6. PromptInv'
      <3>1. /\ <<>> \in Seq(Notes) /\ sess.emitted \in BOOLEAN /\ sess.prompted \in BOOLEAN
        BY Holds, FewNotes
      <3>2. BringsBoth(sess.emitted, sess.prompted, <<>>, sess.emitted, sess.prompted)
        BY <3>1, NothingBrings
      <3> QED BY <1>1, <2>1, <2>2, <2>3, <3>1, <3>2, HandledPrompts
    <2>7. SidInv' /\ Step
      BY <1>1, <1>2, <1>3, <2>2, <2>3, SidStays DEF AttemptSteps
    <2>8. GuessInv'
      BY <1>1, <1>2, <1>4, <2>1, <2>3, GuessStays
    <2> QED BY <2>5, <2>6, <2>7, <2>8 DEF PairingIInv
  <1>5. CASE Aborted(sess, Counted(window))
    <2>1. SessionInv' /\ SidInv' /\ Step /\ PromptInv' /\ sess'.step = "idle"
      BY <1>1, <1>5, AbortedHolds
    <2>2. GuessInv'
      <3>1. /\ window \in WindowRecords /\ guesses \in Nat
            /\ guesses <= WINDOW_FAILED_ATTEMPT_LIMIT
            /\ window.open => guesses <= window.failed
            /\ sess.method = "static" => guesses < WINDOW_FAILED_ATTEMPT_LIMIT
        BY <1>1 DEF PairingIInv, GuessInv, GuessesPerGesture
      <3>2. window' = Counted(window)
        BY <1>5 DEF Aborted, Handled
      <3>3. /\ guesses' \in Nat /\ guesses' <= WINDOW_FAILED_ATTEMPT_LIMIT
            /\ guesses' <= guesses + 1
        BY <1>1, <3>1, Bounds
      <3>4. window' \in WindowRecords /\ (window'.open => window.open /\ window'.failed = window.failed + 1)
        <4>1. CASE ~window.open
          BY <3>1, <3>2, <4>1 DEF Counted
        <4>2. CASE window.open /\ window.failed + 1 < WINDOW_FAILED_ATTEMPT_LIMIT
          <5>1. window' = [window EXCEPT !.failed = @ + 1]
            BY <3>2, <4>2 DEF Counted
          <5>2. window.failed \in 0 .. WINDOW_FAILED_ATTEMPT_LIMIT - 1
            BY <3>1 DEF WindowRecords
          <5>3. window.failed + 1 \in 0 .. WINDOW_FAILED_ATTEMPT_LIMIT - 1
            BY <4>2, <5>2, Bounds
          <5> QED BY <3>1, <4>2, <5>1, <5>3 DEF WindowRecords
        <4>3. CASE window.open /\ ~(window.failed + 1 < WINDOW_FAILED_ATTEMPT_LIMIT)
          <5>1. window' = Closed /\ 0 \in 0 .. WINDOW_FAILED_ATTEMPT_LIMIT - 1
            BY <3>2, <4>3, Bounds DEF Counted
          <5> QED BY <5>1 DEF Closed, WindowRecords
        <4> QED BY <4>1, <4>2, <4>3
      <3>5. window'.open => guesses' <= window'.failed
        <4>1. window.failed \in Nat
          BY <3>1, Bounds DEF WindowRecords
        <4> QED BY <3>1, <3>3, <3>4, <4>1
      <3>6. rounds' \in Nat
        BY <1>1, <1>2
      <3> QED BY <2>1, <3>3, <3>4, <3>5, <3>6 DEF GuessInv, GuessesPerGesture
    <2> QED BY <2>1, <2>2 DEF PairingIInv
  <1> QED BY <1>4, <1>5 DEF PairMismatch

\* A handler that only looks at the window
LEMMA WindowHolds ==
    ASSUME PairingIInv, Handled(sess, Closed, <<>>), UNCHANGED <<hash, rounds, screen, pake, guesses>>
    PROVE  PairingIInv' /\ Step
  <1>1. sess' = sess /\ window' = Closed /\ notes' = notes \o <<>>
    BY DEF Handled
  <1>2. /\ hash \in Nat /\ sess \in Session /\ sess.emitted \in BOOLEAN /\ sess.prompted \in BOOLEAN
        /\ sess.index \in Nat
    BY Holds, Numbers
  <1>3. SessionInv'
    BY <1>1 DEF PairingIInv, SessionInv
  <1>4. PromptInv'
    BY <1>1, <1>2, NothingBrings, FewNotes, HandledPrompts
  <1>5. SidInv' /\ Step
    BY <1>1, <1>2, SidStays
  <1>6. GuessInv'
    BY <1>1, Holds, GuessStays DEF PairingIInv, GuessInv
  <1> QED BY <1>3, <1>4, <1>5, <1>6 DEF PairingIInv

LEMMA AbortedKeepsGuesses ==
    ASSUME PairingIInv, NEW w \in {window, Closed}, Aborted(sess, w),
           UNCHANGED <<hash, rounds, screen, pake, guesses>>
    PROVE  PairingIInv' /\ Step
  <1>1. SessionInv' /\ SidInv' /\ Step /\ PromptInv' /\ sess'.step = "idle"
    BY AbortedHolds
  <1>2. window' \in {window, Closed}
    BY DEF Aborted, Handled
  <1>3. GuessInv'
    BY <1>1, <1>2, Holds, GuessStays
  <1> QED BY <1>1, <1>3 DEF PairingIInv

\* Once its notes are heard, the listener is where they bring it.
LEMMA Heard ==
    ASSUME PairingIInv, NEW t, NEW e \in BOOLEAN, NEW p \in BOOLEAN,
           ~StopInCallback => BringsBoth(screen.code, screen.window, t, e, p),
           screen' = Seen(screen, t), notes' = <<>>, sess'.emitted = e, sess'.prompted = p
    PROVE  PromptInv'
  <1> DEFINE c == Shown(screen.code, t, "display code", "clear code")
             w == Shown(screen.window, t, "open window", "close window")
  <1>1. c \in BOOLEAN /\ w \in BOOLEAN
    BY DEF Shown
  <1>2. ~StopInCallback => (c <=> e) /\ (w <=> p)
    BY Zenon DEF BringsBoth, Brings
  <1>3. screen' = [code |-> c, window |-> w]
    BY DEF Seen
  <1> HIDE DEF c, w
  <1>4. screen'.code = c /\ screen'.window = w /\ screen' \in [code : BOOLEAN, window : BOOLEAN]
    BY <1>1, <1>3
  <1>5. BringsBoth(e, p, <<>>, e, p) /\ <<>> \in Seq(Notes)
    BY NothingBrings, FewNotes
  <1>6. ~StopInCallback => c = e /\ w = p
    BY <1>1, <1>2
  <1> QED BY <1>4, <1>5, <1>6 DEF PromptInv

LEMMA SeenPrompts ==
    ASSUME PairingIInv, screen' = Seen(screen, notes), notes' = <<>>, sess' = sess
    PROVE  PromptInv'
  BY Holds, Heard DEF PairingIInv, PromptInv

LEMMA StopPrompts ==
    ASSUME PairingIInv, NEW heard, sess' = NoSession, notes' = <<>>,
           screen' = Seen(screen, heard \o Dismissals(sess)),
           StopInCallback \/ heard = SubSeq(<<>>, 1, 0) \o Retained(notes)
    PROVE  PromptInv'
  <1>1. sess'.emitted = FALSE /\ sess'.prompted = FALSE
    BY DEF NoSession
  <1>2. ASSUME ~StopInCallback
        PROVE  BringsBoth(screen.code, screen.window, heard \o Dismissals(sess), FALSE, FALSE)
    <2>1. PICK kept \in Seq(Notes) : kept = Retained(notes)
      BY RetainedNotes, Holds
    <2>2. SubSeq(<<>>, 1, 0) = <<>>
      OBVIOUS
    <2>3. <<>> \o kept = kept \o <<>>
      BY <2>1
    <2>4. heard = Retained(notes) \o <<>>
      BY <1>2, <2>1, <2>2, <2>3
    <2>5. <<>> \in {<<>>, <<"report">>}
      OBVIOUS
    <2> QED BY <1>2, <2>4, <2>5, TearsDown
  <1> QED BY <1>1, <1>2, Heard

LEMMA MisstepHolds ==
    ASSUME PairingIInv, Misstep PROVE PairingIInv' /\ Step
  BY LeftHolds DEF Misstep

LEMMA PairAbortHolds ==
    ASSUME PairingIInv, NEW concurrent \in BOOLEAN, PairAbort(concurrent)
    PROVE  PairingIInv' /\ Step
  <1>1. CASE Left(<<"report">>)
    BY <1>1, LeftHolds DEF PairAbort
  <1>2. CASE Aborted(sess, window)
    BY <1>2, AbortedKeepsGuesses DEF PairAbort
  <1> QED BY <1>1, <1>2 DEF PairAbort

LEMMA GestureHolds ==
    ASSUME PairingIInv, Gesture
    PROVE  PairingIInv' /\ Step
  <1> DEFINE opened == [Closed EXCEPT !.open = TRUE]
  <1>1. rounds' = 0 /\ guesses' = 0 /\ UNCHANGED <<hash, screen>>
    BY DEF Gesture
  <1>2. /\ hash \in Nat /\ sess \in Session /\ Sound(sess) /\ hash \in 0 .. MaxHandshakes
        /\ sess.index \in Nat /\ sess.sid[1] \in Nat /\ sess.sid[2] \in Nat
        /\ sess.emitted \in BOOLEAN /\ sess.prompted \in BOOLEAN
    BY Holds, Numbers
  <1>3. opened \in WindowRecords /\ Bound(opened) \in WindowRecords
        /\ opened.failed = 0 /\ Bound(opened).failed = 0
    <2>1. 0 \in 0 .. WINDOW_FAILED_ATTEMPT_LIMIT - 1
      BY Bounds
    <2> QED BY <2>1 DEF Closed, Bound, WindowRecords
  <1>4. ASSUME window' \in {opened, Bound(opened)} PROVE GuessInv'
    <2>1. window' \in WindowRecords /\ window'.failed = 0
      BY <1>3, <1>4
    <2> QED BY <1>1, <2>1, Bounds DEF GuessInv, GuessesPerGesture
  <1>5. CASE sess.step # "window" /\ Handled(sess, opened, <<>>) /\ UNCHANGED pake
    <2>1. /\ sess' = sess /\ window' = opened /\ notes' = notes \o <<>>
      BY <1>5 DEF Handled
    <2>2. SessionInv'
      BY <1>1, <2>1 DEF PairingIInv, SessionInv
    <2>3. PromptInv'
      BY <1>1, <1>2, <2>1, NothingBrings, FewNotes, HandledPrompts
    <2>4. SidInv' /\ Step
      BY <1>1, <1>2, <1>5, <2>1, SidStays
    <2> QED BY <1>4, <2>1, <2>2, <2>3, <2>4 DEF PairingIInv
  <1>6. CASE sess.step = "window" /\ Handled(Started(sess), Bound(opened), <<>>)
              /\ StartsPake(Started(sess))
    <2>1. sess' = Started(sess) /\ window' = Bound(opened) /\ notes' = notes \o <<>>
      BY <1>6 DEF Handled
    <2>2. sess.up
      <3>1. NoSession.step = "idle"
        BY DEF NoSession
      <3> QED BY <1>6, <3>1, Holds
    <2>3. sess.method \in {"dynamic", "static"} /\ sess.round = 0
      BY <1>2, <1>6 DEF Sound
    <2>4. /\ sess' \in Session /\ Sound(sess')
          /\ sess'.emitted = sess.emitted /\ sess'.prompted = sess.prompted
          /\ sess'.up = sess.up /\ sess'.index = sess.index /\ sess'.sid = sess.sid
          /\ sess'.method = sess.method
          /\ IF sess.method = "dynamic" THEN sess'.step = "init" /\ Fresh(sess')
                                        ELSE sess'.step = "auth" /\ sess'.round = 1
      BY <1>2, <2>1, <2>3, StartedSound DEF Fresh
    <2>5. SessionInv'
      BY <1>1, <2>2, <2>4, Holds DEF SessionInv
    <2>6. PromptInv'
      BY <1>1, <1>2, <2>1, <2>4, NothingBrings, FewNotes, HandledPrompts
    <2>7. RunOf(pake, sess) /\ pake \in Nat \X Nat \X Nat
      BY <1>6 DEF PairingIInv, SidInv
    <2>8. CASE sess.method = "dynamic"
      <3>1. pake' = pake /\ sess'.step = "init" /\ sess'.round = 0
        BY <1>6, <2>1, <2>4, <2>8 DEF StartsPake, Fresh
      <3>2. SidInv' /\ Step
        BY <1>1, <1>2, <1>6, <2>2, <2>3, <2>4, <3>1, SidStays DEF AttemptSteps
      <3> QED BY <1>4, <2>1, <2>5, <2>6, <3>2 DEF PairingIInv
    <2>9. CASE sess.method = "static"
      <3>1. pake' = <<sess.sid[1], sess.sid[2], 1>> /\ sess'.step = "auth" /\ sess'.round = 1
        BY <1>6, <2>1, <2>4, <2>9 DEF StartsPake, PakeRound
      <3>2. /\ pake'[1] = sess.sid[1] /\ pake'[2] = sess.sid[2] /\ pake'[3] = 1
            /\ pake' \in Nat \X Nat \X Nat
        BY <1>2, <3>1
      <3>3. pake[1] \in Nat /\ pake[2] \in Nat /\ pake[3] \in Nat
        BY <2>7
      <3>4. Step
        <4>1. \/ pake'[1] > pake[1]
              \/ pake'[1] = pake[1] /\ pake'[2] > pake[2]
              \/ pake'[1] = pake[1] /\ pake'[2] = pake[2] /\ pake'[3] > pake[3]
          BY <1>2, <2>3, <2>7, <3>2, <3>3 DEF RunOf, Before
        <4> QED BY <4>1, LaterOf DEF Step
      <3>5. SidInv'
        <4>1. RunOf(pake, sess)'
          BY <2>4, <3>1, <3>2 DEF RunOf
        <4>2. sess.sid[1] < hash \/ (sess.sid[1] = hash /\ (sess.up => sess.sid[2] <= sess.index))
          BY DEF PairingIInv, SidInv
        <4> QED BY <1>1, <2>2, <2>4, <3>2, <4>1, <4>2 DEF SidInv
      <3> QED BY <1>4, <2>1, <2>5, <2>6, <3>4, <3>5 DEF PairingIInv
    <2> QED BY <2>3, <2>8, <2>9
  <1> QED BY <1>5, <1>6 DEF Gesture

LEMMA CancelWindowHolds ==
    ASSUME PairingIInv, CancelWindow
    PROVE  PairingIInv' /\ Step
  <1>1. CASE Aborted(sess, Closed)
    BY <1>1, AbortedKeepsGuesses DEF CancelWindow
  <1>2. CASE Handled(sess, Closed, <<>>)
    BY <1>2, WindowHolds DEF CancelWindow
  <1> QED BY <1>1, <1>2 DEF CancelWindow

LEMMA WindowExpiresHolds ==
    ASSUME PairingIInv, WindowExpires PROVE PairingIInv' /\ Step
  BY WindowHolds DEF WindowExpires

LEMMA AttemptTimeoutHolds ==
    ASSUME PairingIInv, AttemptTimeout PROVE PairingIInv' /\ Step
  BY AbortedKeepsGuesses DEF AttemptTimeout

LEMMA DropHolds ==
    ASSUME PairingIInv, Drop PROVE PairingIInv' /\ Step
  BY LeftHolds DEF Drop

\* A whole batch is delivered.
LEMMA DeliverNotesHolds ==
    ASSUME PairingIInv, DeliverNotes
    PROVE  PairingIInv' /\ Step
  <1>1. /\ screen' = Seen(screen, notes) /\ notes' = <<>>
        /\ UNCHANGED <<sess, hash, window, rounds, pake, guesses>>
    BY DEF DeliverNotes, pairingHistory
  <1>2. /\ hash \in Nat /\ sess \in Session /\ sess.emitted \in BOOLEAN /\ sess.prompted \in BOOLEAN
        /\ sess.index \in Nat
    BY Holds, Numbers
  <1>3. SessionInv'
    BY <1>1 DEF PairingIInv, SessionInv
  <1>4. GuessInv'
    BY <1>1 DEF PairingIInv, GuessInv, GuessesPerGesture
  <1>5. SidInv' /\ Step
    BY <1>1, <1>2, SidStays
  <1>6. PromptInv'
    BY <1>1, <1>2, SeenPrompts
  <1> QED BY <1>3, <1>4, <1>5, <1>6 DEF PairingIInv

\* stop(), from outside the drain or from a callback of it
LEMMA StopHolds ==
    ASSUME PairingIInv, NEW called \in 0 .. Len(notes), called > 0 => StopInCallback, Stop(called)
    PROVE  PairingIInv' /\ Step
  <1>1. /\ notes' = <<>> /\ sess' = NoSession /\ window' = Closed
        /\ UNCHANGED <<hash, rounds, pake, guesses>>
    BY DEF Stop, pairingHistory
  <1>2. NoSession.step = "idle" /\ ~NoSession.up /\ NoSession.sid = NoAttempt
        /\ NoSession.emitted = FALSE /\ NoSession.prompted = FALSE
    BY DEF NoSession
  <1>3. SessionInv'
    BY <1>1, <1>2, NoneSound DEF PairingIInv, SessionInv
  <1>4. SidInv' /\ Step
    BY <1>1, <1>2, NoneSound, Holds, SidStays DEF AttemptSteps
  <1>5. GuessInv'
    BY <1>1, <1>2, Holds, GuessStays
  <1>6. PromptInv'
    <2>1. CASE StopInCallback
      <3>1. PICK heard : screen' = Seen(screen, heard \o Dismissals(sess))
        BY DEF Stop
      <3> QED BY <1>1, <2>1, <3>1, StopPrompts
    <2>2. CASE ~StopInCallback
      <3>1. called = 0
        BY <2>2
      <3>2. screen' = Seen(screen, (SubSeq(<<>>, 1, 0) \o Retained(notes)) \o Dismissals(sess))
        BY <3>1 DEF Stop
      <3> QED BY <1>1, <3>2, StopPrompts
    <2> QED BY <2>1, <2>2
  <1> QED BY <1>3, <1>4, <1>5, <1>6 DEF PairingIInv

LEMMA PairingSteps ==
    ASSUME PairingIInv, [PairingNext]_pairingVars
    PROVE  PairingIInv' /\ (pairingVars' # pairingVars => Step)
  <1>1. ASSUME NEW kind \in Kinds, Rehandshake(kind) PROVE PairingIInv' /\ Step
    BY <1>1, RehandshakeHolds
  <1>2. ASSUME NEW kind \in Kinds, NEW method \in Methods, Admit(kind, method)
        PROVE  PairingIInv' /\ Step
    BY <1>2, AdmitHolds
  <1>3. ASSUME NEW method \in Methods, Activate(method) PROVE PairingIInv' /\ Step
    BY <1>3, ActivateHolds
  <1>4. ASSUME NEW concurrent \in BOOLEAN, PairAbort(concurrent) PROVE PairingIInv' /\ Step
    BY <1>4, PairAbortHolds
  <1>5. ASSUME NEW called \in 0 .. Len(notes), called > 0 => StopInCallback, Stop(called)
        PROVE  PairingIInv' /\ Step
    BY <1>5, StopHolds
  <1>6. CASE RefuseActivate \/ PairInit \/ PairAuth \/ PairConfirm \/ PairMismatch
    BY <1>6, RefuseActivateHolds, PairInitHolds, PairAuthHolds, PairConfirmHolds,
       PairMismatchHolds
  <1>7. CASE Misstep \/ PairFinalize \/ Gesture \/ CancelWindow \/ WindowExpires
    BY <1>7, MisstepHolds, PairFinalizeHolds, GestureHolds, CancelWindowHolds, WindowExpiresHolds
  <1>8. CASE AttemptTimeout \/ Drop \/ DeliverNotes
    BY <1>8, AttemptTimeoutHolds, DropHolds, DeliverNotesHolds
  <1>9. CASE UNCHANGED pairingVars
    BY <1>9 DEF pairingVars, pairingHistory, PairingIInv, SessionInv, GuessInv, GuessesPerGesture,
                SidInv, PromptInv, RunOf, Before
  <1> QED BY <1>1, <1>2, <1>3, <1>4, <1>5, <1>6, <1>7, <1>8, <1>9 DEF PairingNext

LEMMA PairingStarts ==
    ASSUME PairingInit PROVE PairingIInv
  <1>1. /\ sess = NoSession /\ hash = 0 /\ window = Closed /\ rounds = 0 /\ guesses = 0
        /\ notes = <<>> /\ screen = [code |-> FALSE, window |-> FALSE] /\ pake = <<0, 0, 0>>
    BY DEF PairingInit
  <1>2. /\ ~NoSession.up /\ NoSession.sid = NoAttempt /\ NoSession.step = "idle"
        /\ NoSession.emitted = FALSE /\ NoSession.prompted = FALSE
    BY DEF NoSession
  <1>3. SessionInv
    BY <1>1, <1>2, NoneSound, Bounds DEF SessionInv
  <1>4. GuessInv
    <2>1. 0 \in 0 .. WINDOW_FAILED_ATTEMPT_LIMIT - 1
      BY Bounds
    <2> QED BY <1>1, <1>2, <2>1, Bounds DEF GuessInv, GuessesPerGesture, Closed, WindowRecords
  <1>5. SidInv
    <2>1. pake[1] = 0 /\ pake[2] = 0 /\ pake \in Nat \X Nat \X Nat
      BY <1>1
    <2> QED BY <1>1, <1>2, <2>1, Numbers DEF SidInv
  <1>6. PromptInv
    <2>1. BringsBoth(FALSE, FALSE, <<>>, FALSE, FALSE) /\ <<>> \in Seq(Notes)
      BY NothingBrings, FewNotes
    <2>2. screen.code = FALSE /\ screen.window = FALSE /\ screen \in [code : BOOLEAN, window : BOOLEAN]
      BY <1>1
    <2> QED BY <1>1, <1>2, <2>1, <2>2 DEF PromptInv
  <1> QED BY <1>3, <1>4, <1>5, <1>6 DEF PairingIInv

\* What the invariant says of the pairing session
LEMMA PairingSays ==
    ASSUME PairingIInv
    PROVE  PairingTypeOK /\ GuessesPerGesture /\ PendingIsCurrent
           /\ (~StopInCallback => PromptsFollowSession)
  <1>1. PairingTypeOK
    BY Holds DEF PairingTypeOK, PairingIInv, PromptInv, Notes, WindowRecords
  <1>2. GuessesPerGesture
    BY DEF PairingIInv, GuessInv
  <1>3. PendingIsCurrent
    BY DEF PairingIInv, SessionInv, Sound, PendingIsCurrent
  <1>4. ASSUME ~StopInCallback PROVE PromptsFollowSession
    <2>1. BringsBoth(screen.code, screen.window, notes, sess.emitted, sess.prompted)
      BY <1>4 DEF PairingIInv, PromptInv
    <2>2. /\ Shown(screen.code, notes, "display code", "clear code") <=> sess.emitted
          /\ Shown(screen.window, notes, "open window", "close window") <=> sess.prompted
      BY <2>1, Zenon DEF BringsBoth, Brings
    <2>3. /\ Shown(screen.code, notes, "display code", "clear code") \in BOOLEAN
          /\ Shown(screen.window, notes, "open window", "close window") \in BOOLEAN
      BY DEF Shown
    <2>4. /\ Shown(screen.code, notes, "display code", "clear code") = sess.emitted
          /\ Shown(screen.window, notes, "open window", "close window") = sess.prompted
      BY <2>2, <2>3, Holds
    <2> QED BY <2>4 DEF PromptsFollowSession, Seen
  <1> QED BY <1>1, <1>2, <1>3, <1>4

-----------------------------------------------------------------------------
(* The reports *)

\* The server was sent the object of every role that is active on its connection, or the state
\* waits: also while the connection proves itself anew.
AnnouncedInv == ReportsTypeOK /\ (~peer.held => peer.roles \subseteq peer.told)

Snapshots == [number : 1 .. MaxSnapshots, available : BOOLEAN]

Announced(k) == k \in Peer /\ (~k.held => k.roles \subseteq k.told)

\* What is published announces every role, or waits.
LEMMA PublishedAnnounces ==
    ASSUME NEW k \in Peer, NEW s \in Snapshots, k.act \/ Announced(k)
    PROVE  Announced(Published(k, s))
  <1>1. s.number \in 0 .. MaxSnapshots
    BY ReportsAssumption DEF Snapshots
  <1>2. CASE Published(k, s) = k /\ ~k.act
    BY <1>2
  <1>3. CASE Published(k, s) = [k EXCEPT !.held = TRUE]
    BY <1>3 DEF Announced, Peer
  <1>4. CASE Published(k, s) = [k EXCEPT !.held = FALSE, !.told = k.roles, !.heard = s.number]
    BY <1>1, <1>4 DEF Announced, Peer
  <1> QED BY <1>2, <1>3, <1>4 DEF Published

\* An activation applied to connection k makes it l.
Takes(k, roles, l) ==
    /\ l \in Peer /\ l.act = TRUE /\ l.held = k.held /\ l.roles = roles
    /\ l.told = k.told \cap roles

LEMMA AppliedPeer ==
    \A k \in Peer, selects \in BOOLEAN, roles \in SUBSET RoleNames :
       Takes(k, roles, Applied(k, selects, roles))
  BY ZenonT(40) DEF Applied, Peer, Takes

LEMMA NobodyAnnounced == NoPeer \in Peer /\ Announced(NoPeer) /\ NoPeer.roles = {}
  <1>1. 0 \in 0 .. MaxSnapshots
    BY ReportsAssumption
  <1> QED BY <1>1 DEF NoPeer, Peer, Announced

LEMMA ReportsSteps ==
    ASSUME AnnouncedInv, [ReportsNext]_reportVars
    PROVE  AnnouncedInv'
  <1>1. peer \in Peer /\ Announced(peer) /\ snapshot \in Snapshots
    BY DEF AnnouncedInv, ReportsTypeOK, Announced, Snapshots
  <1>2. SUFFICES Announced(peer') /\ snapshot' \in Snapshots
    BY DEF AnnouncedInv, ReportsTypeOK, Announced, Snapshots
  <1>3. ASSUME NEW playback \in BOOLEAN, NEW selects \in BOOLEAN, NEW roles \in SUBSET RoleNames,
               Promoted(playback, selects, roles)
        PROVE  Announced(peer') /\ snapshot' \in Snapshots
    <2>1. PICK n, k : n = [NoPeer EXCEPT !.up = TRUE] /\ k = Applied(n, selects, roles)
      OBVIOUS
    <2>2. n \in Peer
      BY <2>1, NobodyAnnounced DEF Peer
    <2>3. k \in Peer /\ k.act = TRUE /\ k.roles = roles /\ k.told = n.told \cap roles
      <3>1. Takes(n, roles, k)
        BY <2>1, <2>2, AppliedPeer, Zenon
      <3> QED BY <3>1 DEF Takes
    <2>4. /\ peer' = IF ~selects \/ playback \/ roles # {} THEN Published(k, snapshot) ELSE k
          /\ snapshot' = snapshot
      BY <1>3, <2>1 DEF Promoted
    <2>5. Announced(Published(k, snapshot))
      BY <1>1, <2>3, PublishedAnnounces
    <2>6. roles = {} => Announced(k)
      BY <2>3 DEF Announced
    <2> QED BY <1>1, <2>4, <2>5, <2>6
  <1>4. ASSUME NEW playback \in BOOLEAN, NEW selects \in BOOLEAN, NEW roles \in SUBSET RoleNames,
               Reactivated(playback, selects, roles)
        PROVE  Announced(peer') /\ snapshot' \in Snapshots
    <2>1. PICK k : k = Applied(peer, selects, roles)
      OBVIOUS
    <2>2. /\ k \in Peer /\ k.act = TRUE /\ k.held = peer.held /\ k.roles = roles
          /\ k.told = peer.told \cap roles
      <3>1. Takes(peer, roles, k)
        BY <1>1, <2>1, AppliedPeer, Zenon
      <3> QED BY <3>1 DEF Takes
    <2>3. /\ peer' = IF OwesReport(peer, playback, selects, roles)
                     THEN Published(k, snapshot) ELSE k
          /\ snapshot' = snapshot
      BY <1>4, <2>1 DEF Reactivated
    <2>4. Announced(Published(k, snapshot))
      BY <1>1, <2>2, PublishedAnnounces
    <2>5. ASSUME ~OwesReport(peer, playback, selects, roles) PROVE Announced(k)
      <3>1. roles \subseteq peer.roles
        BY <2>5 DEF OwesReport
      <3> QED BY <1>1, <2>2, <3>1 DEF Announced
    <2> QED BY <1>1, <2>3, <2>4, <2>5
  <1>5. CASE Rehandshaken
    BY <1>1, <1>5 DEF Rehandshaken, Announced, Peer
  <1>6. CASE PairingAcked
    BY <1>1, <1>6 DEF PairingAcked, Announced, Peer
  <1>7. CASE PairingOver
    BY <1>1, <1>7 DEF PairingOver, Announced, Peer
  <1>8. CASE Measure
    <2>1. PICK k : k = [peer EXCEPT !.synced = TRUE]
      OBVIOUS
    <2>2. k \in Peer /\ Announced(k)
      BY <1>1, <2>1 DEF Announced, Peer
    <2>3. peer' \in {k, Published(k, snapshot)} /\ snapshot' = snapshot
      BY <1>8, <2>1 DEF Measure, Measured
    <2> QED BY <1>1, <2>2, <2>3, PublishedAnnounces
  <1>9. CASE Dropped
    BY <1>1, <1>9, NobodyAnnounced DEF Dropped
  <1>10. ASSUME NEW available \in BOOLEAN, AdoptState(available)
         PROVE  Announced(peer') /\ snapshot' \in Snapshots
    <2>1. snapshot.number \in 1 .. MaxSnapshots /\ snapshot.number < MaxSnapshots
      BY <1>1, <1>10 DEF AdoptState, Snapshots
    <2>2. snapshot.number + 1 \in 1 .. MaxSnapshots
      BY <2>1, ReportsAssumption
    <2>3. snapshot' = [number |-> snapshot.number + 1, available |-> available]
      BY <1>10 DEF AdoptState
    <2>4. snapshot' \in Snapshots
      BY <2>2, <2>3 DEF Snapshots
    <2>5. peer' = Published(peer, snapshot')
      BY <1>10 DEF AdoptState
    <2> QED BY <1>1, <2>4, <2>5, PublishedAnnounces
  <1>11. CASE UNCHANGED reportVars
    BY <1>1, <1>11 DEF reportVars
  <1> QED BY <1>3, <1>4, <1>5, <1>6, <1>7, <1>8, <1>9, <1>10, <1>11 DEF ReportsNext

LEMMA ReportsStart ==
    ASSUME ReportsInit PROVE AnnouncedInv
  <1>1. 1 \in 1 .. MaxSnapshots
    BY ReportsAssumption
  <1> QED BY <1>1, NobodyAnnounced DEF ReportsInit, AnnouncedInv, ReportsTypeOK, Announced

-----------------------------------------------------------------------------
(* The admitted connection *)

ConnectionsIInv == PairingIInv /\ AnnouncedInv

LEMMA ConnectionsSteps ==
    ASSUME ConnectionsIInv, [ConnectionsNext]_connectionVars
    PROVE  ConnectionsIInv' /\ (pairingVars' # pairingVars => Step)
  <1>1. [PairingNext]_pairingVars /\ [ReportsNext]_reportVars
    BY DEF ConnectionsNext, connectionVars
  <1> QED BY <1>1, PairingSteps, ReportsSteps DEF ConnectionsIInv

LEMMA ConnectionsHold == ConnectionsSpec => []ConnectionsIInv
  <1>1. ConnectionsInit => ConnectionsIInv
    BY PairingStarts, ReportsStart DEF ConnectionsInit, ConnectionsIInv
  <1>2. ConnectionsIInv /\ [ConnectionsNext]_connectionVars => ConnectionsIInv'
    BY ConnectionsSteps
  <1> QED BY <1>1, <1>2, PTL DEF ConnectionsSpec

\* Whatever a listener does in its callbacks: one gesture allows so many wrong static codes, a late
\* acknowledgement stores no record of an attempt that was given up, and the server was sent every
\* active role's object or the state waits for the clock.
THEOREM AttemptsAndReports ==
    ConnectionsSpec => [](PairingTypeOK /\ GuessesPerGesture /\ PendingIsCurrent /\ ReportsSafe)
  <1>1. ConnectionsIInv => PairingTypeOK /\ GuessesPerGesture /\ PendingIsCurrent /\ ReportsSafe
    BY PairingSays DEF ConnectionsIInv, AnnouncedInv, ReportsSafe, RolesAnnounced
  <1> QED BY <1>1, ConnectionsHold, PTL

\* As long as no callback stops the client: the prompts a listener shows are those of the session
\* besides, once the notes on their way are delivered.
THEOREM ConnectionsCorrect ==
    ASSUME ~StopInCallback
    PROVE  ConnectionsSpec => []ConnectionsSafe
  <1>1. ConnectionsIInv => ConnectionsSafe
    BY PairingSays DEF ConnectionsIInv, AnnouncedInv, ConnectionsSafe, PairingSafe, ReportsSafe,
                       RolesAnnounced
  <1> QED BY <1>1, ConnectionsHold, PTL

\* No PAKE run reuses the sid of an earlier one, over any number of rounds, attempts, refused
\* activations and re-handshakes: handshake, index and round grow in this order.
THEOREM SidsStayFresh == ConnectionsSpec => SidsFresh
  <1>1. ConnectionsIInv /\ [ConnectionsNext]_connectionVars => [Step]_pairingVars
    BY ConnectionsSteps
  <1>2. ConnectionsSpec => [][Step]_pairingVars
    BY <1>1, ConnectionsHold, PTL DEF ConnectionsSpec
  <1> QED BY <1>2 DEF SidsFresh, Step

=============================================================================
