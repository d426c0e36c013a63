----------------------------- MODULE StateReports -----------------------------
(***************************************************************************)
(* client/state on the admitted connection: the snapshot the main loop     *)
(* published is sent when it is adopted, when an activation asks for it,   *)
(* and, while it waits for the connection's clock, at the first            *)
(* measurement. One step is one handler of the protocol task.              *)
(*                                                                         *)
(* A definition whose name ends in Mutant is a deliberate mistake the      *)
(* properties are tested against.                                          *)
(***************************************************************************)
EXTENDS Naturals

CONSTANTS
    RoleNames,         \* the roles a server may activate
    ClockedRoles,      \* the player and the source: available only with a clock
    MaxSnapshots       \* bound: snapshots the main loop publishes

ASSUME ReportsAssumption == ClockedRoles \subseteq RoleNames /\ MaxSnapshots \in Nat \ {0}

VARIABLES
    peer,        \* the admitted connection, see Peer
    snapshot     \* client_state: its number, and what it says; the first tick adopts one

reportVars == <<peer, snapshot>>

\* roles are those it activated, and owns: it is the only one admitted.
Peer ==
    [up : BOOLEAN, act : BOOLEAN, pairing : BOOLEAN, synced : BOOLEAN,
     roles : SUBSET RoleNames,
     held : BOOLEAN,                  \* AdmittedEntry::state_held
     told : SUBSET RoleNames,         \* the active roles whose objects it was sent
     heard : 0 .. MaxSnapshots]       \* the latest snapshot it was sent

NoPeer == [up |-> FALSE, act |-> FALSE, pairing |-> FALSE, synced |-> FALSE, roles |-> {},
           held |-> FALSE, told |-> {}, heard |-> 0]

-----------------------------------------------------------------------------

\* publish_client_state() of connection k
Published(k, s) ==
    LET waits == s.available /\ k.roles \cap ClockedRoles # {} /\ ~k.synced
    IN  IF ~k.act THEN k
        ELSE IF waits THEN [k EXCEPT !.held = TRUE]
        ELSE [k EXCEPT !.held = FALSE, !.told = k.roles, !.heard = s.number]

\* A pairing activation behind a re-handshake reports nothing, whatever it adds.
OwesReportMutant(k, playback, selects, roles) ==
    k.pairing \/ (~k.act /\ (~selects \/ playback)) \/ (k.act /\ roles # k.roles)

\* Does an activation of the admitted connection k publish? (on_server_activate())
OwesReport(k, playback, selects, roles) ==
    \/ k.pairing                                         \* leftover: on_handshake_complete()
    \/ ~k.act /\ (~selects \/ playback)                  \* on_handshake_complete()
    \/ ~k.act /\ selects /\ ~(roles \subseteq k.roles)   \* pairing alone that adds a role
    \/ k.act /\ roles # k.roles

Applied(k, selects, roles) ==
    [k EXCEPT !.act = TRUE, !.pairing = selects, !.roles = roles, !.told = @ \cap roles]

Promoted(playback, selects, roles) ==
    LET k == Applied([NoPeer EXCEPT !.up = TRUE], selects, roles)
    IN  /\ ~peer.up
        /\ peer' = IF ~selects \/ playback \/ roles # {} THEN Published(k, snapshot) ELSE k
        /\ UNCHANGED snapshot

Reactivated(playback, selects, roles) ==
    LET k == Applied(peer, selects, roles)
    IN  /\ peer.up
        /\ peer' = IF OwesReport(peer, playback, selects, roles)
                   THEN Published(k, snapshot) ELSE k
        /\ UNCHANGED snapshot

Rehandshaken ==
    /\ peer.up
    /\ peer' = [peer EXCEPT !.act = FALSE, !.pairing = FALSE]
    /\ UNCHANGED snapshot

\* server/pair-finalize: the attempt counts as in progress until the re-handshake
PairingAcked ==
    /\ peer.up
    /\ peer' = [peer EXCEPT !.act = FALSE]
    /\ UNCHANGED snapshot

PairingOver ==
    /\ peer.pairing
    /\ peer' = [peer EXCEPT !.pairing = FALSE]
    /\ UNCHANGED snapshot

\* publish_state(), adopted by the next tick
AdoptState(available) ==
    LET s == [number |-> snapshot.number + 1, available |-> available]
    IN  /\ snapshot.number < MaxSnapshots
        /\ snapshot' = s
        /\ peer' = Published(peer, s)

\* The measurement arrives, and nobody looks at what it was awaited for.
MeasuredMutant(k, s) == [k EXCEPT !.synced = TRUE]

\* The first measurement of the connection's clock, and the end of run_time_sync()
Measured(k, s) ==
    LET synced == [k EXCEPT !.synced = TRUE]
    IN  IF k.held THEN Published(synced, s) ELSE synced

Measure ==
    /\ peer.up /\ peer.act /\ (peer.held \/ ~peer.synced)
    /\ peer' = Measured(peer, snapshot)
    /\ UNCHANGED snapshot

Dropped ==
    /\ peer.up
    /\ peer' = NoPeer
    /\ UNCHANGED snapshot

NotReproved == ~peer.act /\ Dropped

-----------------------------------------------------------------------------

ReportsInit ==
    peer = NoPeer /\ \E available \in BOOLEAN : snapshot = [number |-> 1, available |-> available]

ReportsNext ==
    \/ \E playback, selects \in BOOLEAN, roles \in SUBSET RoleNames :
          Promoted(playback, selects, roles) \/ Reactivated(playback, selects, roles)
    \/ Rehandshaken \/ PairingAcked \/ PairingOver \/ Measure \/ Dropped
    \/ \E available \in BOOLEAN : AdoptState(available)

\* A burst is run again and again, and the re-prove deadline passes.
ReportsFairness == SF_reportVars(Measure) /\ WF_reportVars(NotReproved)

ReportsSpec == ReportsInit /\ [][ReportsNext]_reportVars /\ ReportsFairness

-----------------------------------------------------------------------------

\* Types of the connection's report state and of the snapshot.
ReportsTypeOK ==
    /\ peer \in Peer
    /\ snapshot \in [number : 1 .. MaxSnapshots, available : BOOLEAN]

\* The server of an activated connection was sent the object of every role that is active on it,
\* unless the state waits for its clock: whatever sequence of activations, re-handshakes and
\* pairings made it active (on_server_activate(), publish_client_state()).
RolesAnnounced ==
    peer.act /\ ~peer.held => peer.roles \subseteq peer.told

ReportsSafe == ReportsTypeOK /\ RolesAnnounced

\* A state that waits for the connection's clock does not wait for ever: it is sent with the first
\* measurement, replaced by one that need not wait, or goes with its connection (run_time_sync()).
HeldIsSent == peer.held ~> ~peer.held

\* The newest snapshot is sent to every admitted connection (internals.md, the tick's step 3), so
\* one that is activated and has roles has it, or it waits for the clock.
LatestStateSent == peer.act /\ peer.roles # {} /\ ~peer.held => peer.heard = snapshot.number

=============================================================================
