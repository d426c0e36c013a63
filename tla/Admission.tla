------------------------------ MODULE Admission ------------------------------
(***************************************************************************)
(* ConnectionManager: which connections are admitted, which of them drives *)
(* each role, and which must be closed when a record is revoked or         *)
(* unpaired access is turned off. Each handler of the protocol task is one *)
(* action; set_unpaired_access_enabled() runs on any other thread.         *)
(*                                                                         *)
(* The transports, the pairing exchange and the client/state messages are  *)
(* in ConnectionLife, PairingSession and StateReports.                     *)
(*                                                                         *)
(* A definition whose name ends in Mutant is a deliberate mistake the      *)
(* properties are tested against.                                          *)
(***************************************************************************)
EXTENDS Naturals, FiniteSets

CONSTANTS
    Conns,             \* connections, each used once
    Outbound,          \* those connect_to() opens
    Servers, ServerOf, \* the server_id of each connection's peer
    NoServer,          \* no server played yet
    Roles,
    NoConn,            \* nobody's: the role's client state is at rest
    Records,           \* psk_ids of the records the store starts with
    Offers,            \* bound: the PSKs each peer may authenticate with
    MaxAdmitted,       \* MAX_ADMITTED
    NurseryCapacity,   \* NURSERY_CAPACITY
    SetWhileStarting   \* may another thread change unpaired access while start() runs?

PskIds == Records \cup {"pairing", "sentinel"}

ASSUME AdmissionAssumption ==
    /\ Outbound \subseteq Conns /\ NoConn \notin Conns
    /\ ServerOf \in [Conns -> Servers] /\ NoServer \notin Servers
    /\ Offers \in [Conns -> SUBSET PskIds]
    /\ "none" \notin PskIds
    /\ MaxAdmitted \in Nat \ {0} /\ NurseryCapacity \in Nat

VARIABLES
    conn,        \* each connection as the manager sees it, see Connection
    owned,       \* AdmittedEntry::owned_roles, {} for a connection not admitted
    live,        \* history: whose traffic each role's client state was built from
    lastPlayed,  \* last_played_server_id_
    revoked,     \* the records server/unpair removed from the store
    unpaired,    \* unpaired_access_enabled_
    asked,       \* the unpaired_access_changed request is waiting
    setter,      \* the thread in set_unpaired_access_enabled(): "idle", or "exchanged"
    life         \* lifecycle_, and start() once its protocol task runs

managed == <<conn, owned, live, lastPlayed>>
setting == <<unpaired, asked, setter>>
admissionVars == <<managed, revoked, setting, life>>

Activities == SUBSET {"playback", "pairing"}

\* act: first_activate_received_; hello: is_handshake_complete(); final: pairing_finalized_
Connection ==
    [place : {"fresh", "nursery", "admitted", "released"}, psk : PskIds \cup {"none"},
     hello : BOOLEAN, act : BOOLEAN, acts : Activities, roles : SUBSET Roles, final : BOOLEAN]

At(place) == [place |-> place, psk |-> "none", hello |-> FALSE, act |-> FALSE,
              acts |-> {}, roles |-> {}, final |-> FALSE]

Nursery  == {c \in Conns : conn[c].place = "nursery"}
Admitted == {c \in Conns : conn[c].place = "admitted"}
Managed  == Nursery \cup Admitted

-----------------------------------------------------------------------------
(* admission.h *)

ActivitiesAllowed(psk, acts, access) ==
    IF psk \in Records THEN "pairing" \notin acts ELSE "playback" \in acts => access

PlaybackCapable(psk, acts, access) == ActivitiesAllowed(psk, acts \cup {"playback"}, access)

Admissible(psk, acts, roles, access) ==
    /\ ActivitiesAllowed(psk, acts, access)
    /\ roles # {} => PlaybackCapable(psk, acts, access)

ReliesOnUnpaired(k) ==
    /\ Admissible(k.psk, k.acts, k.roles, TRUE)
    /\ ~Admissible(k.psk, k.acts, k.roles, FALSE)

Rank(acts) == IF "playback" \in acts THEN 2 ELSE IF "pairing" \in acts THEN 1 ELSE 0

\* A pairing in flight shields nobody, and the idle are admitted as they come.
ShouldAdmitMutant(c, k, d) ==
    Rank(k.acts) >= Rank(conn[d].acts)

\* should_admit_connection() of c, activated as k, against the admitted connection d
ShouldAdmit(c, k, d) ==
    LET mine == Rank(k.acts)
        its  == Rank(conn[d].acts)
    IN  /\ ~(~conn[d].final /\ "pairing" \in conn[d].acts /\ mine # 0)
        /\ \/ mine > its
           \/ mine = its /\ mine # 0
           \/ mine = its /\ mine = 0
              /\ ServerOf[c] = lastPlayed /\ ServerOf[d] # lastPlayed

Conflicts(roles) ==
    LET sharing == {d \in Admitted : owned[d] \cap roles # {}}
    IN  IF sharing = {} /\ Cardinality(Admitted) >= MaxAdmitted THEN Admitted ELSE sharing

-----------------------------------------------------------------------------
(* What leaving the manager does *)

Gone(leaving) == [c \in Conns |-> IF c \in leaving THEN At("released") ELSE conn[c]]

Keeping(leaving) == [c \in Conns |-> IF c \in leaving THEN {} ELSE owned[c]]

\* Only what the newcomer is about to own is cleaned up, by its own first message.
CleanedUpMutant(own) == live

\* cleanup_connection_state() of the roles nobody owns any more
CleanedUp(own) == [r \in Roles |-> IF \E c \in Conns : r \in own[c] THEN live[r] ELSE NoConn]

DropConnections(leaving) ==
    /\ conn' = Gone(leaving)
    /\ owned' = Keeping(leaving)
    /\ live' = IF leaving \cap Admitted = {} THEN live ELSE CleanedUp(Keeping(leaving))
    /\ UNCHANGED lastPlayed

NotePlaybackActivity(c, acts) ==
    lastPlayed' = IF "playback" \in acts THEN ServerOf[c] ELSE lastPlayed

\* promote_or_arbitrate_nursery_entry() of c, activated as k
PromoteOrArbitrate(c, k) ==
    LET rivals == Conflicts(k.roles)
        left   == Keeping(rivals)
    IN  \/ /\ \E d \in rivals : ~ShouldAdmit(c, k, d)
           /\ conn' = Gone({c})
           /\ UNCHANGED <<owned, live, lastPlayed>>
        \/ /\ \A d \in rivals : ShouldAdmit(c, k, d)
           /\ conn' = [Gone(rivals) EXCEPT ![c] = [k EXCEPT !.place = "admitted"]]
           /\ owned' = [left EXCEPT ![c] = k.roles \ UNION {left[d] : d \in Conns}]
           /\ live' = IF rivals = {} THEN live ELSE CleanedUp(left)
           /\ NotePlaybackActivity(c, k.acts)

-----------------------------------------------------------------------------
(* Entering the nursery *)

Ticking == life \in {"starting", "running", "stopping"}

\* accept(), and release_connection() when the nursery is full
Accept(c) ==
    /\ Ticking /\ conn[c].place = "fresh" /\ c \notin Outbound
    /\ conn' = [conn EXCEPT ![c] =
                  IF Cardinality(Nursery \ Outbound) >= NurseryCapacity
                  THEN At("released") ELSE At("nursery")]
    /\ UNCHANGED <<owned, live, lastPlayed, revoked, setting, life>>

\* connect_to(): `lost` are the admitted connections whose transport is gone by now
ConnectTo(c) ==
    /\ life = "running" /\ conn[c].place = "fresh" /\ c \in Outbound
    /\ \E lost \in SUBSET Admitted :
          LET leaving == lost \cup (Nursery \cap Outbound)
          IN  /\ conn' = [Gone(leaving) EXCEPT ![c] = At("nursery")]
              /\ owned' = Keeping(leaving)
              /\ live' = IF lost = {} THEN live ELSE CleanedUp(Keeping(leaving))
    /\ UNCHANGED <<lastPlayed, revoked, setting, life>>

\* disconnect(): an admitted connection whose transport is gone is left to its loss
DisconnectAll ==
    /\ life = "running"
    /\ \E lost \in SUBSET Admitted : DropConnections(Managed \ lost)
    /\ UNCHANGED <<revoked, setting, life>>

\* on_connection_lost(), the liveness, re-prove and establish deadlines, a failed hello
DropConnection(c) ==
    /\ Ticking /\ c \in Managed
    /\ DropConnections({c})
    /\ UNCHANGED <<revoked, setting, life>>

-----------------------------------------------------------------------------
(* The messages of one connection *)

Handshake(c, psk) ==
    /\ Ticking /\ c \in Nursery /\ conn[c].psk = "none" /\ psk \notin revoked
    /\ conn' = [conn EXCEPT ![c].psk = psk]
    /\ UNCHANGED <<owned, live, lastPlayed, revoked, setting, life>>

\* scan_nursery(): the hello goes out, and an activation that came first is acted on
SendHello(c) ==
    LET k == [conn[c] EXCEPT !.hello = TRUE]
    IN  /\ Ticking /\ c \in Nursery /\ conn[c].psk # "none" /\ ~conn[c].hello
        /\ IF k.act THEN PromoteOrArbitrate(c, k)
           ELSE conn' = [conn EXCEPT ![c] = k] /\ UNCHANGED <<owned, live, lastPlayed>>
        /\ UNCHANGED <<revoked, setting, life>>

\* What the activation leaves active: the roles it names, or with none named those before, if
\* the connection may still carry any.
EffectiveRoles(c, acts, named) ==
    IF named # {} THEN UNION named
    ELSE IF PlaybackCapable(conn[c].psk, acts, unpaired) THEN conn[c].roles ELSE {}

ApplyActivation(c, acts, roles) ==
    LET k == [conn[c] EXCEPT !.act = TRUE, !.acts = acts, !.roles = roles, !.final = FALSE]
        claimed == roles \ UNION {owned[d] : d \in Conns \ {c}}
    IN  CASE c \in Admitted ->
               /\ conn' = [conn EXCEPT ![c] = k]
               /\ owned' = [owned EXCEPT ![c] = claimed]
               /\ live' = [r \in Roles |-> IF r \in owned[c] \ claimed THEN NoConn ELSE live[r]]
               /\ NotePlaybackActivity(c, acts)
          [] c \in Nursery /\ k.hello -> PromoteOrArbitrate(c, k)
          [] OTHER -> conn' = [conn EXCEPT ![c] = k] /\ UNCHANGED <<owned, live, lastPlayed>>

\* on_server_activate(). `named` holds the role set the message names, or nothing. An activation
\* whose pairing object is refused is not applied and changes nothing here.
ServerActivate(c, acts, named) ==
    LET roles == EffectiveRoles(c, acts, named)
    IN  /\ Ticking /\ c \in Managed /\ conn[c].psk # "none"
        /\ IF Admissible(conn[c].psk, acts, roles, unpaired)
           THEN ApplyActivation(c, acts, roles)
           ELSE DropConnections({c})
        /\ UNCHANGED <<revoked, setting, life>>

\* handle_noise_rehandshake(): the PSK must resolve, and the activation is awaited again
NoiseRehandshake(c, psk) ==
    /\ Ticking /\ c \in Managed /\ conn[c].psk # "none" /\ psk \notin revoked
    /\ conn' = [conn EXCEPT ![c].act = FALSE, ![c].psk = psk]
    /\ UNCHANGED <<owned, live, lastPlayed, revoked, setting, life>>

\* note_pairing_finalize_ack(), of a peer that acks what it asked for
PairFinalizeAck(c) ==
    /\ Ticking /\ c \in Managed /\ conn[c].act /\ "pairing" \in conn[c].acts
    /\ conn' = [conn EXCEPT ![c].act = FALSE, ![c].final = TRUE]
    /\ UNCHANGED <<owned, live, lastPlayed, revoked, setting, life>>

\* handle_server_unpair() and drop_connections_using_psk_id()
ServerUnpair(c) ==
    /\ Ticking /\ c \in Admitted /\ conn[c].psk \in Records
    /\ revoked' = revoked \cup {conn[c].psk}
    /\ DropConnections({d \in Managed : conn[d].psk = conn[c].psk})
    /\ UNCHANGED <<setting, life>>

\* A message of role r: only its owner's is acted on.
RoleTraffic(c, r) ==
    /\ Ticking /\ c \in Admitted /\ r \in owned[c] \cap conn[c].roles
    /\ live' = [live EXCEPT ![r] = c]
    /\ UNCHANGED <<conn, owned, lastPlayed, revoked, setting, life>>

-----------------------------------------------------------------------------
(* Unpaired access *)

\* set_unpaired_access_enabled(): the exchange, then the check and the request
ExchangeUnpaired ==
    /\ setter = "idle" /\ (life = "starting" => SetWhileStarting)
    /\ unpaired' = ~unpaired /\ setter' = "exchanged"
    /\ UNCHANGED <<managed, revoked, asked, life>>

PostUnpaired ==
    /\ setter = "exchanged" /\ setter' = "idle"
    /\ asked' = (asked \/ life = "running")
    /\ UNCHANGED <<managed, revoked, unpaired, life>>

\* A connection in the nursery is left to be judged when it is admitted.
ReliantConnectionsMutant == {c \in Admitted : conn[c].act /\ ReliesOnUnpaired(conn[c])}

\* Whom apply_unpaired_access_change() closes: those that rely on it, or with it now on those
\* whose server should read the new value in another hello.
ReliantConnections == {c \in Managed : conn[c].act /\ ReliesOnUnpaired(conn[c])}

OutdatedConnections ==
    {c \in Managed \ Outbound :
        /\ conn[c].hello /\ conn[c].psk \notin Records /\ "pairing" \notin conn[c].acts
        /\ conn[c].act \/ (c \in Nursery /\ conn[c].psk # "pairing")}

ApplyUnpairedChange ==
    /\ Ticking /\ asked /\ asked' = FALSE
    /\ DropConnections(IF unpaired THEN OutdatedConnections ELSE ReliantConnections)
    /\ UNCHANGED <<revoked, unpaired, setter, life>>

-----------------------------------------------------------------------------
(* start() and stop() *)

Start ==
    /\ life = "stopped" /\ life' = "starting" /\ asked' = FALSE
    /\ UNCHANGED <<managed, revoked, unpaired, setter>>

StartReturns ==
    /\ life = "starting" /\ life' = "running"
    /\ UNCHANGED <<managed, revoked, setting>>

StopBegins ==
    /\ life = "running" /\ life' = "stopping"
    /\ UNCHANGED <<managed, revoked, setting>>

\* The final tick and what stop() does once the task is joined
StopReturns ==
    /\ life = "stopping" /\ life' = "stopped" /\ asked' = FALSE
    /\ conn' = Gone(Managed)
    /\ owned' = [c \in Conns |-> {}]
    /\ live' = [r \in Roles |-> NoConn]
    /\ UNCHANGED <<lastPlayed, revoked, unpaired, setter>>

-----------------------------------------------------------------------------
AdmissionStarts(phase) ==
    /\ conn = [c \in Conns |-> At("fresh")]
    /\ owned = [c \in Conns |-> {}]
    /\ live = [r \in Roles |-> NoConn]
    /\ lastPlayed = NoServer
    /\ revoked = {}
    /\ unpaired = FALSE /\ asked = FALSE /\ setter = "idle"
    /\ life = phase

AdmissionInit == AdmissionStarts("stopped")

ConnectionStep(c) ==
    \/ Accept(c) \/ ConnectTo(c) \/ DropConnection(c)
    \/ \E psk \in Offers[c] : Handshake(c, psk) \/ NoiseRehandshake(c, psk)
    \/ SendHello(c) \/ PairFinalizeAck(c) \/ ServerUnpair(c)
    \/ \E acts \in Activities, named \in {{}} \cup {{roles} : roles \in SUBSET Roles} :
          ServerActivate(c, acts, named)
    \/ \E r \in Roles : RoleTraffic(c, r)

AdmissionNext ==
    \/ \E c \in Conns : ConnectionStep(c)
    \/ DisconnectAll
    \/ ExchangeUnpaired \/ PostUnpaired \/ ApplyUnpairedChange
    \/ Start \/ StartReturns \/ StopBegins \/ StopReturns

AdmissionSpec == AdmissionInit /\ [][AdmissionNext]_admissionVars

-----------------------------------------------------------------------------
(* Properties *)

AdmissionTypeOK ==
    /\ conn \in [Conns -> Connection]
    /\ owned \in [Conns -> SUBSET Roles]
    /\ live \in [Roles -> Conns \cup {NoConn}]
    /\ lastPlayed \in Servers \cup {NoServer}
    /\ revoked \subseteq Records
    /\ unpaired \in BOOLEAN /\ asked \in BOOLEAN
    /\ setter \in {"idle", "exchanged"}
    /\ life \in {"stopped", "starting", "running", "stopping"}

\* Within its bounds, and empty while the client is stopped.
SlotsBounded ==
    /\ Cardinality(Admitted) <= MaxAdmitted
    /\ Cardinality(Nursery \ Outbound) <= NurseryCapacity
    /\ \A c, d \in Nursery \cap Outbound : c = d
    /\ life = "stopped" => Managed = {}

\* Each role is driven by one admitted connection that has it active, and the client state of a
\* role was built from the messages of the connection that owns it now: nothing of a connection
\* that was dropped, displaced or lost the role is left behind.
RolesAttributed ==
    /\ \A c \in Conns : owned[c] # {} => c \in Admitted /\ owned[c] \subseteq conn[c].roles
    /\ \A c, d \in Conns : c # d => owned[c] \cap owned[d] = {}
    /\ \A r \in Roles : live[r] # NoConn => r \in owned[live[r]]

\* From the moment a record is revoked no connection the manager keeps runs on it.
RevokedGone == \A c \in Managed : conn[c].psk \notin revoked

AdmissionInv == AdmissionTypeOK /\ SlotsBounded /\ RolesAttributed /\ RevokedGone

\* With unpaired access off and no change of it under way, no connection without a record declares
\* playback or holds a role in an activation still in force: those it had let in were closed, and
\* those on their way were judged by the value now set.
UnpairedHonoured ==
    ~unpaired /\ ~asked /\ setter = "idle" /\ life # "stopping" =>
        \A c \in Managed : conn[c].act /\ conn[c].psk \notin Records =>
                              "playback" \notin conn[c].acts /\ conn[c].roles = {}

\* The connection a newcomer displaces was not stronger and was not in an unfinished pairing, and
\* an idle one gives way to nobody but the server that played last.
GivesWayTo(d) ==
    \E c \in Conns :
        /\ conn[c].place = "nursery" /\ conn'[c].place = "admitted"
        /\ Rank(conn'[c].acts) >= Rank(conn[d].acts)
        /\ "pairing" \in conn[d].acts => conn[d].final
        /\ Rank(conn'[c].acts) = 0 => ServerOf[c] = lastPlayed /\ ServerOf[d] # lastPlayed

SlotGoesToTheStronger ==
    [][(\E c \in Conns : conn[c].place = "nursery" /\ conn'[c].place = "admitted")
          => \A d \in Admitted : conn'[d].place = "released" => GivesWayTo(d)]_admissionVars
=============================================================================
