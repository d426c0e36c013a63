----------------------------- MODULE Manager_proofs ----------------------------
(***************************************************************************)
(* Proofs about what the connection manager decides and keeps.             *)
(*                                                                         *)
(* Admission, for any connections, servers, roles, records and capacities: *)
(* what the manager holds stays within its bounds and is attributed to the *)
(* right peer, and turning unpaired access off reaches every connection    *)
(* that relies on it.                                                      *)
(*                                                                         *)
(* RecordStore, for any number of slots, records and faults: the inductive *)
(* invariant, and that the store implements PairingBook.                   *)
(***************************************************************************)
EXTENDS Admission, RecordStore, FiniteSetTheorems, TLAPS

-----------------------------------------------------------------------------
(* Admission *)

-----------------------------------------------------------------------------
(* Types *)

LEMMA RoleSetsType ==
    ASSUME NEW named \in {{}} \cup {{roles} : roles \in SUBSET Roles}
    PROVE  UNION named \subseteq Roles
  OBVIOUS

LEMMA RestType ==
    ASSUME NEW place \in {"fresh", "nursery", "admitted", "released"}
    PROVE  At(place) \in Connection
  BY DEF At, Connection, Activities

\* Dropping connections keeps the types, whether or not a role's state is cleaned up.
LEMMA LeavingType ==
    ASSUME AdmissionTypeOK, NEW leaving
    PROVE  /\ Gone(leaving) \in [Conns -> Connection]
           /\ Keeping(leaving) \in [Conns -> SUBSET Roles]
           /\ CleanedUp(Keeping(leaving)) \in [Roles -> Conns \cup {NoConn}]
  <1>1. Gone(leaving) \in [Conns -> Connection]
    BY RestType DEF Gone, AdmissionTypeOK
  <1>2. Keeping(leaving) \in [Conns -> SUBSET Roles]
    BY DEF Keeping, AdmissionTypeOK
  <1>3. CleanedUp(Keeping(leaving)) \in [Roles -> Conns \cup {NoConn}]
    BY DEF CleanedUp, AdmissionTypeOK
  <1> QED BY <1>1, <1>2, <1>3

LEMMA DropType ==
    ASSUME AdmissionTypeOK, NEW leaving, DropConnections(leaving)
    PROVE  /\ conn' \in [Conns -> Connection] /\ owned' \in [Conns -> SUBSET Roles]
           /\ live' \in [Roles -> Conns \cup {NoConn}] /\ lastPlayed' \in Servers \cup {NoServer}
  BY LeavingType DEF DropConnections, AdmissionTypeOK

LEMMA NoteType ==
    ASSUME AdmissionTypeOK, NEW c \in Conns, NEW acts, NotePlaybackActivity(c, acts)
    PROVE  lastPlayed' \in Servers \cup {NoServer}
  BY AdmissionAssumption DEF NotePlaybackActivity, AdmissionTypeOK

LEMMA PromoteType ==
    ASSUME AdmissionTypeOK, NEW c \in Conns, NEW k \in Connection, PromoteOrArbitrate(c, k)
    PROVE  /\ conn' \in [Conns -> Connection] /\ owned' \in [Conns -> SUBSET Roles]
           /\ live' \in [Roles -> Conns \cup {NoConn}] /\ lastPlayed' \in Servers \cup {NoServer}
  <1> DEFINE rivals == Conflicts(k.roles)
             left   == Keeping(rivals)
  <1>1. CASE /\ conn' = Gone({c})
             /\ UNCHANGED <<owned, live, lastPlayed>>
    BY <1>1, LeavingType DEF AdmissionTypeOK
  <1>2. CASE /\ conn' = [Gone(rivals) EXCEPT ![c] = [k EXCEPT !.place = "admitted"]]
             /\ owned' = [left EXCEPT ![c] = k.roles \ UNION {left[d] : d \in Conns}]
             /\ live' = IF rivals = {} THEN live ELSE CleanedUp(left)
             /\ NotePlaybackActivity(c, k.acts)
    <2>1. [k EXCEPT !.place = "admitted"] \in Connection
      BY DEF Connection
    <2>2. k.roles \subseteq Roles
      BY DEF Connection
    <2> HIDE DEF rivals
    <2>3. left \in [Conns -> SUBSET Roles]
      BY LeavingType
    <2>4. conn' \in [Conns -> Connection]
      BY <1>2, <2>1, LeavingType
    <2>5. owned' \in [Conns -> SUBSET Roles]
      BY <1>2, <2>2, <2>3
    <2>6. live' \in [Roles -> Conns \cup {NoConn}]
      BY <1>2, LeavingType DEF AdmissionTypeOK
    <2>7. lastPlayed' \in Servers \cup {NoServer}
      BY <1>2, NoteType
    <2> QED BY <2>4, <2>5, <2>6, <2>7
  <1> QED BY <1>1, <1>2 DEF PromoteOrArbitrate

LEMMA ActivationType ==
    ASSUME AdmissionTypeOK, NEW c \in Conns, NEW acts \in Activities, NEW roles \in SUBSET Roles,
           ApplyActivation(c, acts, roles)
    PROVE  /\ conn' \in [Conns -> Connection] /\ owned' \in [Conns -> SUBSET Roles]
           /\ live' \in [Roles -> Conns \cup {NoConn}] /\ lastPlayed' \in Servers \cup {NoServer}
  <1> DEFINE k == [conn[c] EXCEPT !.act = TRUE, !.acts = acts, !.roles = roles, !.final = FALSE]
             claimed == roles \ UNION {owned[d] : d \in Conns \ {c}}
  <1>1. k \in Connection
    <2>1. conn[c] \in Connection
      BY DEF AdmissionTypeOK
    <2> QED BY <2>1 DEF Connection
  <1>2. [conn EXCEPT ![c] = k] \in [Conns -> Connection]
    <2> HIDE DEF k
    <2> QED BY <1>1 DEF AdmissionTypeOK
  <1>3. CASE c \in Admitted
    <2>1. /\ conn' = [conn EXCEPT ![c] = k]
          /\ owned' = [owned EXCEPT ![c] = claimed]
          /\ live' = [r \in Roles |-> IF r \in owned[c] \ claimed THEN NoConn ELSE live[r]]
          /\ NotePlaybackActivity(c, acts)
      BY <1>3 DEF ApplyActivation, Admitted, Nursery
    <2>2. claimed \subseteq Roles
      OBVIOUS
    <2> HIDE DEF k, claimed
    <2> QED BY <1>2, <2>1, <2>2, NoteType DEF AdmissionTypeOK
  <1>4. CASE c \in Nursery /\ k.hello
    <2>1. PromoteOrArbitrate(c, k)
      BY <1>4 DEF ApplyActivation, Admitted, Nursery
    <2> HIDE DEF k
    <2> QED BY <1>1, <2>1, PromoteType
  <1>5. CASE c \notin Admitted /\ ~(c \in Nursery /\ k.hello)
    <2>1. conn' = [conn EXCEPT ![c] = k] /\ UNCHANGED <<owned, live, lastPlayed>>
      BY <1>5 DEF ApplyActivation
    <2> HIDE DEF k
    <2> QED BY <1>2, <2>1 DEF AdmissionTypeOK
  <1> QED BY <1>3, <1>4, <1>5

LEMMA AdmissionInitType == AdmissionInit => AdmissionTypeOK
  BY RestType DEF AdmissionInit, AdmissionStarts, AdmissionTypeOK

LEMMA AdmissionStepType ==
    AdmissionTypeOK /\ [AdmissionNext]_admissionVars => AdmissionTypeOK'
  <1> SUFFICES ASSUME AdmissionTypeOK, [AdmissionNext]_admissionVars PROVE AdmissionTypeOK'
    OBVIOUS
  <1> USE DEF admissionVars, managed, setting
  <1>1. ASSUME NEW c \in Conns, Accept(c) PROVE AdmissionTypeOK'
    <2>1. conn' \in [Conns -> Connection]
      BY <1>1, RestType DEF Accept, AdmissionTypeOK
    <2> QED BY <1>1, <2>1 DEF Accept, AdmissionTypeOK
  <1>2. ASSUME NEW c \in Conns, ConnectTo(c) PROVE AdmissionTypeOK'
    <2>1. PICK stray \in SUBSET Admitted :
            LET leaving == stray \cup (Nursery \cap Outbound)
            IN  /\ conn' = [Gone(leaving) EXCEPT ![c] = At("nursery")]
                /\ owned' = Keeping(leaving)
                /\ live' = IF stray = {} THEN live ELSE CleanedUp(Keeping(leaving))
      BY <1>2 DEF ConnectTo
    <2> DEFINE leaving == stray \cup (Nursery \cap Outbound)
    <2>2. /\ conn' = [Gone(leaving) EXCEPT ![c] = At("nursery")]
          /\ owned' = Keeping(leaving)
          /\ live' = IF stray = {} THEN live ELSE CleanedUp(Keeping(leaving))
      BY <2>1
    <2> HIDE DEF leaving
    <2>3. /\ conn' \in [Conns -> Connection] /\ owned' \in [Conns -> SUBSET Roles]
          /\ live' \in [Roles -> Conns \cup {NoConn}]
      BY <2>2, LeavingType, RestType DEF AdmissionTypeOK
    <2> QED BY <1>2, <2>3 DEF ConnectTo, AdmissionTypeOK
  <1>3. ASSUME NEW c \in Conns, DropConnection(c) PROVE AdmissionTypeOK'
    BY <1>3, DropType DEF DropConnection, AdmissionTypeOK
  <1>4. ASSUME NEW c \in Conns, NEW psk \in Offers[c], Handshake(c, psk) \/ NoiseRehandshake(c, psk)
        PROVE  AdmissionTypeOK'
    <2>1. psk \in PskIds
      BY AdmissionAssumption
    <2>2. /\ [conn[c] EXCEPT !.psk = psk] \in Connection
          /\ [conn[c] EXCEPT !.act = FALSE, !.psk = psk] \in Connection
      BY <2>1 DEF AdmissionTypeOK, Connection
    <2>3. \/ conn' = [conn EXCEPT ![c] = [conn[c] EXCEPT !.psk = psk]]
          \/ conn' = [conn EXCEPT ![c] = [conn[c] EXCEPT !.act = FALSE, !.psk = psk]]
      BY <1>4 DEF Handshake, NoiseRehandshake, AdmissionTypeOK
    <2>4. conn' \in [Conns -> Connection]
      BY <2>2, <2>3 DEF AdmissionTypeOK
    <2> QED BY <1>4, <2>4 DEF Handshake, NoiseRehandshake, AdmissionTypeOK
  <1>5. ASSUME NEW c \in Conns, SendHello(c) PROVE AdmissionTypeOK'
    <2> DEFINE k == [conn[c] EXCEPT !.hello = TRUE]
    <2>1. k \in Connection
      BY DEF AdmissionTypeOK, Connection
    <2>2. \/ PromoteOrArbitrate(c, k)
          \/ conn' = [conn EXCEPT ![c] = k] /\ UNCHANGED <<owned, live, lastPlayed>>
      BY <1>5 DEF SendHello
    <2> HIDE DEF k
    <2>3. /\ conn' \in [Conns -> Connection] /\ owned' \in [Conns -> SUBSET Roles]
          /\ live' \in [Roles -> Conns \cup {NoConn}] /\ lastPlayed' \in Servers \cup {NoServer}
      BY <2>1, <2>2, PromoteType DEF AdmissionTypeOK
    <2> QED BY <1>5, <2>3 DEF SendHello, AdmissionTypeOK
  <1>6. ASSUME NEW c \in Conns, PairFinalizeAck(c) PROVE AdmissionTypeOK'
    <2>1. [conn[c] EXCEPT !.act = FALSE, !.final = TRUE] \in Connection
      BY DEF AdmissionTypeOK, Connection
    <2>2. conn' = [conn EXCEPT ![c] = [conn[c] EXCEPT !.act = FALSE, !.final = TRUE]]
      BY <1>6 DEF PairFinalizeAck, AdmissionTypeOK
    <2>3. conn' \in [Conns -> Connection]
      BY <2>1, <2>2 DEF AdmissionTypeOK
    <2> QED BY <1>6, <2>3 DEF PairFinalizeAck, AdmissionTypeOK
  <1>7. ASSUME NEW c \in Conns, ServerUnpair(c) PROVE AdmissionTypeOK'
    BY <1>7, DropType DEF ServerUnpair, AdmissionTypeOK
  <1>8. ASSUME NEW c \in Conns, NEW acts \in Activities,
               NEW named \in {{}} \cup {{roles} : roles \in SUBSET Roles},
               ServerActivate(c, acts, named)
        PROVE  AdmissionTypeOK'
    <2>1. EffectiveRoles(c, acts, named) \in SUBSET Roles
      BY RoleSetsType DEF EffectiveRoles, AdmissionTypeOK, Connection
    <2>2. \/ ApplyActivation(c, acts, EffectiveRoles(c, acts, named))
          \/ DropConnections({c})
      BY <1>8 DEF ServerActivate
    <2>3. /\ conn' \in [Conns -> Connection] /\ owned' \in [Conns -> SUBSET Roles]
          /\ live' \in [Roles -> Conns \cup {NoConn}] /\ lastPlayed' \in Servers \cup {NoServer}
      BY <2>1, <2>2, ActivationType, DropType
    <2> QED BY <1>8, <2>3 DEF ServerActivate, AdmissionTypeOK
  <1>9. ASSUME NEW c \in Conns, NEW r \in Roles, RoleTraffic(c, r) PROVE AdmissionTypeOK'
    BY <1>9 DEF RoleTraffic, AdmissionTypeOK
  <1>10. ASSUME DisconnectAll PROVE AdmissionTypeOK'
    BY <1>10, DropType DEF DisconnectAll, AdmissionTypeOK
  <1>11. ASSUME ExchangeUnpaired \/ PostUnpaired PROVE AdmissionTypeOK'
    BY <1>11 DEF ExchangeUnpaired, PostUnpaired, AdmissionTypeOK
  <1>12. ASSUME ApplyUnpairedChange PROVE AdmissionTypeOK'
    BY <1>12, DropType DEF ApplyUnpairedChange, AdmissionTypeOK
  <1>13. ASSUME Start \/ StartReturns \/ StopBegins PROVE AdmissionTypeOK'
    BY <1>13 DEF Start, StartReturns, StopBegins, AdmissionTypeOK
  <1>14. ASSUME StopReturns PROVE AdmissionTypeOK'
    BY <1>14, LeavingType DEF StopReturns, AdmissionTypeOK
  <1>15. CASE UNCHANGED admissionVars
    BY <1>15 DEF AdmissionTypeOK
  <1> QED BY <1>1, <1>2, <1>3, <1>4, <1>5, <1>6, <1>7, <1>8, <1>9, <1>10, <1>11, <1>12, <1>13,
             <1>14, <1>15 DEF AdmissionNext, ConnectionStep

\* What the messages that change one connection's own record change of it.
LEMMA AuthenticationEffect ==
    ASSUME AdmissionTypeOK, NEW c \in Conns, NEW psk,
           Handshake(c, psk) \/ NoiseRehandshake(c, psk)
    PROVE  /\ c \in Managed /\ psk \notin revoked /\ conn'[c].psk = psk
           /\ conn'[c].place = conn[c].place /\ conn'[c].roles = conn[c].roles
           /\ conn'[c].acts = conn[c].acts
           /\ conn'[c].act => conn[c].act /\ conn[c].psk = "none"
           /\ \A d \in Conns \ {c} : conn'[d] = conn[d]
           /\ UNCHANGED <<owned, live, lastPlayed, revoked, setting, life>>
  <1>1. \/ /\ conn[c].psk = "none"
           /\ conn' = [conn EXCEPT ![c] = [conn[c] EXCEPT !.psk = psk]]
        \/ conn' = [conn EXCEPT ![c] = [conn[c] EXCEPT !.act = FALSE, !.psk = psk]]
    BY DEF Handshake, NoiseRehandshake, AdmissionTypeOK
  <1>2. \/ conn[c].psk = "none" /\ conn'[c] = [conn[c] EXCEPT !.psk = psk]
        \/ conn'[c] = [conn[c] EXCEPT !.act = FALSE, !.psk = psk]
    BY <1>1 DEF AdmissionTypeOK
  <1>3. /\ conn'[c].psk = psk /\ conn'[c].place = conn[c].place /\ conn'[c].roles = conn[c].roles
        /\ conn'[c].acts = conn[c].acts
        /\ conn'[c].act => conn[c].act /\ conn[c].psk = "none"
    BY <1>2 DEF AdmissionTypeOK, Connection
  <1>4. \A d \in Conns \ {c} : conn'[d] = conn[d]
    BY <1>1 DEF AdmissionTypeOK
  <1> QED BY <1>3, <1>4 DEF Handshake, NoiseRehandshake, Managed

LEMMA AckEffect ==
    ASSUME AdmissionTypeOK, NEW c \in Conns, PairFinalizeAck(c)
    PROVE  /\ ~conn'[c].act /\ conn'[c].psk = conn[c].psk
           /\ conn'[c].place = conn[c].place /\ conn'[c].roles = conn[c].roles
           /\ \A d \in Conns \ {c} : conn'[d] = conn[d]
  <1>1. conn' = [conn EXCEPT ![c] = [conn[c] EXCEPT !.act = FALSE, !.final = TRUE]]
    BY DEF PairFinalizeAck, AdmissionTypeOK
  <1>2. conn'[c] = [conn[c] EXCEPT !.act = FALSE, !.final = TRUE]
    BY <1>1 DEF AdmissionTypeOK
  <1>3. \A d \in Conns \ {c} : conn'[d] = conn[d]
    BY <1>1 DEF AdmissionTypeOK
  <1> QED BY <1>2, <1>3 DEF AdmissionTypeOK, Connection

-----------------------------------------------------------------------------
(* Whose traffic a role's state was built from *)

\* After a departure a role's state is at rest or its owner's.
LEMMA LeavingRoles ==
    ASSUME AdmissionTypeOK, RolesAttributed, NEW leaving
    PROVE  /\ leaving \cap Admitted = {} => Keeping(leaving) = owned
           /\ \A r \in Roles : LET left == CleanedUp(Keeping(leaving))
                               IN  left[r] # NoConn => r \in Keeping(leaving)[left[r]]
           /\ \A c \in Conns : Keeping(leaving)[c] = IF c \in leaving THEN {} ELSE owned[c]
  <1>1. \A c \in Conns : Keeping(leaving)[c] = IF c \in leaving THEN {} ELSE owned[c]
    BY DEF Keeping
  <1>2. ASSUME leaving \cap Admitted = {} PROVE Keeping(leaving) = owned
    BY <1>2 DEF Keeping, RolesAttributed, AdmissionTypeOK
  <1>3. ASSUME NEW r \in Roles, CleanedUp(Keeping(leaving))[r] # NoConn
        PROVE  r \in Keeping(leaving)[CleanedUp(Keeping(leaving))[r]]
    <2>1. CleanedUp(Keeping(leaving))[r] = live[r]
      BY <1>3 DEF CleanedUp
    <2>2. PICK c \in Conns : r \in Keeping(leaving)[c]
      BY <1>3 DEF CleanedUp
    <2>3. r \in owned[c] /\ c \notin leaving
      BY <1>1, <2>2
    <2>4. live[r] \in Conns /\ r \in owned[live[r]]
      BY <1>3, <2>1 DEF RolesAttributed, AdmissionTypeOK
    <2>5. live[r] = c
      BY <2>3, <2>4 DEF RolesAttributed
    <2> QED BY <2>1, <2>2, <2>5
  <1> QED BY <1>1, <1>2, <1>3

LEMMA DropRoles ==
    ASSUME AdmissionTypeOK, RolesAttributed, NEW leaving, DropConnections(leaving)
    PROVE  RolesAttributed'
  <1>1. \A c \in Conns : /\ conn'[c] = IF c \in leaving THEN At("released") ELSE conn[c]
                         /\ owned'[c] = IF c \in leaving THEN {} ELSE owned[c]
    BY LeavingRoles DEF DropConnections, Gone
  <1>2. \A r \in Roles : live'[r] # NoConn => r \in owned'[live'[r]]
    <2>1. CASE leaving \cap Admitted = {}
      BY <2>1, LeavingRoles DEF DropConnections, RolesAttributed
    <2>2. CASE leaving \cap Admitted # {}
      BY <2>2, LeavingRoles DEF DropConnections
    <2> QED BY <2>1, <2>2
  <1> QED BY <1>1, <1>2 DEF RolesAttributed, Admitted

LEMMA PromoteRoles ==
    ASSUME AdmissionTypeOK, RolesAttributed, NEW c \in Nursery, NEW k \in Connection,
           PromoteOrArbitrate(c, k)
    PROVE  RolesAttributed'
  <1> DEFINE rivals == Conflicts(k.roles)
             left   == Keeping(rivals)
  <1>1. c \in Conns /\ c \notin Admitted /\ owned[c] = {}
    BY DEF Nursery, Admitted, RolesAttributed
  <1>2. CASE /\ conn' = Gone({c})
             /\ UNCHANGED <<owned, live, lastPlayed>>
    BY <1>1, <1>2 DEF Gone, RolesAttributed, Admitted
  <1>3. CASE /\ conn' = [Gone(rivals) EXCEPT ![c] = [k EXCEPT !.place = "admitted"]]
             /\ owned' = [left EXCEPT ![c] = k.roles \ UNION {left[d] : d \in Conns}]
             /\ live' = IF rivals = {} THEN live ELSE CleanedUp(left)
    <2> DEFINE mine == k.roles \ UNION {left[d] : d \in Conns}
    <2>1. /\ conn'[c].place = "admitted" /\ conn'[c].roles = k.roles
          /\ owned'[c] = mine
      BY <1>1, <1>3, LeavingType DEF Connection
    <2>2. \A d \in Conns : d # c => /\ conn'[d] = IF d \in rivals THEN At("released") ELSE conn[d]
                                    /\ owned'[d] = left[d]
      BY <1>3, LeavingType DEF Gone
    <2> HIDE DEF rivals
    <2>3. \A d \in Conns : left[d] = IF d \in rivals THEN {} ELSE owned[d]
      BY LeavingRoles
    <2>4. mine \subseteq k.roles /\ \A d \in Conns : mine \cap left[d] = {}
      OBVIOUS
    <2>5. \A r \in Roles : live'[r] # NoConn => live'[r] \in Conns /\ r \in left[live'[r]]
      <3>1. live' \in [Roles -> Conns \cup {NoConn}]
        BY <1>3, LeavingType DEF AdmissionTypeOK
      <3>2. CASE rivals = {}
        BY <1>3, <3>1, <3>2, LeavingRoles DEF RolesAttributed
      <3>3. CASE rivals # {}
        BY <1>3, <3>1, <3>3, LeavingRoles
      <3> QED BY <3>2, <3>3
    <2>6. left[c] = {}
      BY <1>1, <2>3
    <2> HIDE DEF left, mine
    <2>7. \A d \in Conns : owned'[d] # {} => d \in Admitted' /\ owned'[d] \subseteq conn'[d].roles
      BY <2>1, <2>2, <2>3, <2>4 DEF RolesAttributed, Admitted
    <2>8. \A d, e \in Conns : d # e => owned'[d] \cap owned'[e] = {}
      BY <2>1, <2>2, <2>3, <2>4 DEF RolesAttributed
    <2>9. \A r \in Roles : live'[r] # NoConn => r \in owned'[live'[r]]
      BY <2>2, <2>5, <2>6
    <2> QED BY <2>7, <2>8, <2>9 DEF RolesAttributed
  <1> QED BY <1>2, <1>3 DEF PromoteOrArbitrate

\* Nothing the roles depend on changes for a connection that keeps its place and its roles.
LEMMA UntouchedRoles ==
    ASSUME AdmissionTypeOK, RolesAttributed, UNCHANGED <<owned, live>>,
           \A c \in Conns : conn[c].place = "admitted"
                              => conn'[c].place = "admitted" /\ conn'[c].roles = conn[c].roles
    PROVE  RolesAttributed'
  BY DEF RolesAttributed, Admitted

LEMMA ActivationRoles ==
    ASSUME AdmissionTypeOK, RolesAttributed, NEW c \in Managed, NEW acts \in Activities,
           NEW roles \in SUBSET Roles, ApplyActivation(c, acts, roles)
    PROVE  RolesAttributed'
  <1> DEFINE k == [conn[c] EXCEPT !.act = TRUE, !.acts = acts, !.roles = roles, !.final = FALSE]
             claimed == roles \ UNION {owned[d] : d \in Conns \ {c}}
  <1> c \in Conns
    BY DEF Managed, Admitted, Nursery
  <1>1. k \in Connection /\ k.place = conn[c].place /\ k.roles = roles
    BY DEF AdmissionTypeOK, Connection
  <1>2. CASE c \in Admitted
    <2>1. /\ conn' = [conn EXCEPT ![c] = k]
          /\ owned' = [owned EXCEPT ![c] = claimed]
          /\ live' = [r \in Roles |-> IF r \in owned[c] \ claimed THEN NoConn ELSE live[r]]
      BY <1>2 DEF ApplyActivation, Admitted, Nursery
    <2>2. claimed \subseteq roles /\ \A d \in Conns \ {c} : claimed \cap owned[d] = {}
      OBVIOUS
    <2> HIDE DEF k, claimed
    <2>3. conn'[c] = k /\ owned'[c] = claimed
      BY <2>1 DEF AdmissionTypeOK
    <2>4. \A d \in Conns \ {c} : conn'[d] = conn[d] /\ owned'[d] = owned[d]
      BY <2>1 DEF AdmissionTypeOK
    <2>5. \A d \in Conns : owned'[d] # {} => d \in Admitted' /\ owned'[d] \subseteq conn'[d].roles
      BY <1>1, <1>2, <2>2, <2>3, <2>4 DEF RolesAttributed, Admitted
    <2>6. \A d, e \in Conns : d # e => owned'[d] \cap owned'[e] = {}
      BY <2>2, <2>3, <2>4 DEF RolesAttributed
    <2>7. ASSUME NEW r \in Roles, live'[r] # NoConn PROVE r \in owned'[live'[r]]
      <3>1. r \notin owned[c] \ claimed /\ live'[r] = live[r] /\ live[r] \in Conns
        BY <2>1, <2>7 DEF AdmissionTypeOK
      <3>2. r \in owned[live[r]]
        BY <2>7, <3>1 DEF RolesAttributed
      <3> QED BY <2>3, <2>4, <3>1, <3>2
    <2> QED BY <2>5, <2>6, <2>7 DEF RolesAttributed
  <1>3. CASE c \in Nursery /\ k.hello
    <2>1. PromoteOrArbitrate(c, k)
      BY <1>3 DEF ApplyActivation, Admitted, Nursery
    <2> HIDE DEF k
    <2> QED BY <1>1, <1>3, <2>1, PromoteRoles
  <1>4. CASE c \notin Admitted /\ ~(c \in Nursery /\ k.hello)
    <2>1. conn' = [conn EXCEPT ![c] = k] /\ UNCHANGED <<owned, live>>
      BY <1>4 DEF ApplyActivation
    <2> HIDE DEF k
    <2>2. \A d \in Conns \ {c} : conn'[d] = conn[d]
      BY <2>1 DEF AdmissionTypeOK
    <2> QED BY <1>4, <2>1, <2>2, UntouchedRoles DEF Admitted
  <1> QED BY <1>2, <1>3, <1>4

LEMMA RolesStep ==
    AdmissionTypeOK /\ RolesAttributed /\ [AdmissionNext]_admissionVars => RolesAttributed'
  <1> SUFFICES ASSUME AdmissionTypeOK, RolesAttributed, [AdmissionNext]_admissionVars
               PROVE  RolesAttributed'
    OBVIOUS
  <1> USE DEF admissionVars, managed, setting
  <1>1. ASSUME NEW c \in Conns, Accept(c) PROVE RolesAttributed'
    <2>1. \A d \in Conns : conn[d].place = "admitted" => conn'[d] = conn[d]
      BY <1>1 DEF Accept, AdmissionTypeOK
    <2> QED BY <1>1, <2>1, UntouchedRoles DEF Accept
  <1>2. ASSUME NEW c \in Conns, ConnectTo(c) PROVE RolesAttributed'
    <2>1. PICK stray \in SUBSET Admitted :
            LET leaving == stray \cup (Nursery \cap Outbound)
            IN  /\ conn' = [Gone(leaving) EXCEPT ![c] = At("nursery")]
                /\ owned' = Keeping(leaving)
                /\ live' = IF stray = {} THEN live ELSE CleanedUp(Keeping(leaving))
      BY <1>2 DEF ConnectTo
    <2> DEFINE leaving == stray \cup (Nursery \cap Outbound)
    <2>2. /\ conn' = [Gone(leaving) EXCEPT ![c] = At("nursery")]
          /\ owned' = Keeping(leaving)
          /\ live' = IF stray = {} THEN live ELSE CleanedUp(Keeping(leaving))
      BY <2>1
    <2>3. leaving \cap Admitted = stray
      BY DEF Nursery, Admitted
    <2> HIDE DEF leaving
    <2>4. conn[c].place = "fresh" /\ owned[c] = {}
      BY <1>2 DEF ConnectTo, RolesAttributed, Admitted
    <2>5. \A d \in Conns \ {c} : conn'[d] = IF d \in leaving THEN At("released") ELSE conn[d]
      BY <2>2 DEF Gone
    <2>6. \A d \in Conns : owned'[d] = IF d \in leaving THEN {} ELSE owned[d]
      BY <2>2, LeavingRoles
    <2>7. \A r \in Roles : live'[r] # NoConn => r \in owned'[live'[r]]
      <3>1. CASE stray = {}
        BY <2>2, <2>3, <3>1, LeavingRoles DEF RolesAttributed
      <3>2. CASE stray # {}
        BY <2>2, <3>2, LeavingRoles
      <3> QED BY <3>1, <3>2
    <2> QED BY <2>4, <2>5, <2>6, <2>7 DEF RolesAttributed, Admitted
  <1>3. ASSUME NEW c \in Conns, DropConnection(c) PROVE RolesAttributed'
    BY <1>3, DropRoles DEF DropConnection
  <1>4. ASSUME NEW c \in Conns, NEW psk \in Offers[c], Handshake(c, psk) \/ NoiseRehandshake(c, psk)
        PROVE  RolesAttributed'
    <2>1. \A d \in Conns : conn'[d].place = conn[d].place /\ conn'[d].roles = conn[d].roles
      BY <1>4, AuthenticationEffect
    <2> QED BY <1>4, <2>1, AuthenticationEffect, UntouchedRoles
  <1>5. ASSUME NEW c \in Conns, SendHello(c) PROVE RolesAttributed'
    <2> DEFINE k == [conn[c] EXCEPT !.hello = TRUE]
    <2>1. k \in Connection /\ k.place = conn[c].place /\ k.roles = conn[c].roles /\ c \in Nursery
      BY <1>5 DEF SendHello, AdmissionTypeOK, Connection
    <2>2. \/ PromoteOrArbitrate(c, k)
          \/ conn' = [conn EXCEPT ![c] = k] /\ UNCHANGED <<owned, live, lastPlayed>>
      BY <1>5 DEF SendHello
    <2> HIDE DEF k
    <2>3. CASE conn' = [conn EXCEPT ![c] = k] /\ UNCHANGED <<owned, live, lastPlayed>>
      BY <2>1, <2>3, UntouchedRoles DEF AdmissionTypeOK
    <2> QED BY <2>1, <2>2, <2>3, PromoteRoles
  <1>6. ASSUME NEW c \in Conns, PairFinalizeAck(c) PROVE RolesAttributed'
    <2>1. \A d \in Conns : conn'[d].place = conn[d].place /\ conn'[d].roles = conn[d].roles
      BY <1>6, AckEffect
    <2> QED BY <1>6, <2>1, UntouchedRoles DEF PairFinalizeAck
  <1>7. ASSUME NEW c \in Conns, ServerUnpair(c) PROVE RolesAttributed'
    BY <1>7, DropRoles DEF ServerUnpair
  <1>8. ASSUME NEW c \in Conns, NEW acts \in Activities,
               NEW named \in {{}} \cup {{roles} : roles \in SUBSET Roles},
               ServerActivate(c, acts, named)
        PROVE  RolesAttributed'
    <2>1. EffectiveRoles(c, acts, named) \in SUBSET Roles
      BY RoleSetsType DEF EffectiveRoles, AdmissionTypeOK, Connection
    <2>2. \/ ApplyActivation(c, acts, EffectiveRoles(c, acts, named))
          \/ DropConnections({c})
      BY <1>8 DEF ServerActivate
    <2> QED BY <1>8, <2>1, <2>2, ActivationRoles, DropRoles DEF ServerActivate
  <1>9. ASSUME NEW c \in Conns, NEW r \in Roles, RoleTraffic(c, r) PROVE RolesAttributed'
    BY <1>9 DEF RoleTraffic, RolesAttributed, AdmissionTypeOK, Admitted
  <1>10. ASSUME DisconnectAll PROVE RolesAttributed'
    BY <1>10, DropRoles DEF DisconnectAll
  <1>11. ASSUME ApplyUnpairedChange PROVE RolesAttributed'
    BY <1>11, DropRoles DEF ApplyUnpairedChange
  <1>12. ASSUME UNCHANGED managed PROVE RolesAttributed'
    BY <1>12 DEF RolesAttributed, Admitted
  <1>13. ASSUME StopReturns PROVE RolesAttributed'
    BY <1>13 DEF StopReturns, RolesAttributed
  <1> QED
    BY <1>1, <1>2, <1>3, <1>4, <1>5, <1>6, <1>7, <1>8, <1>9, <1>10, <1>11, <1>12, <1>13
    DEF AdmissionNext, ConnectionStep, ExchangeUnpaired, PostUnpaired, Start, StartReturns,
        StopBegins

-----------------------------------------------------------------------------
(* The places of the nursery and the admitted slots *)

\* The bounds of SlotsBounded need the sets they count to be finite, however many connections
\* there will ever be.
SlotsInv ==
    /\ SlotsBounded
    /\ IsFiniteSet(Admitted) /\ IsFiniteSet(Nursery \ Outbound)

LEMMA DropMembers ==
    ASSUME AdmissionTypeOK, NEW leaving, DropConnections(leaving)
    PROVE  Admitted' = Admitted \ leaving /\ Nursery' = Nursery \ leaving
  BY DEF DropConnections, Gone, At, Admitted, Nursery

LEMMA PromoteMembers ==
    ASSUME AdmissionTypeOK, NEW c \in Nursery, NEW k \in Connection, PromoteOrArbitrate(c, k)
    PROVE  /\ Nursery' = Nursery \ {c}
           /\ \/ Admitted' = Admitted
              \/ Admitted' = (Admitted \ Conflicts(k.roles)) \cup {c}
  <1> DEFINE rivals == Conflicts(k.roles)
  <1>1. c \in Conns /\ conn[c].place = "nursery"
    BY DEF Nursery
  <1>2. rivals \subseteq Admitted
    BY DEF Conflicts
  <1>3. CASE conn' = Gone({c})
    BY <1>1, <1>3 DEF Gone, At, Admitted, Nursery
  <1>4. CASE conn' = [Gone(rivals) EXCEPT ![c] = [k EXCEPT !.place = "admitted"]]
    <2>1. conn'[c].place = "admitted"
      BY <1>1, <1>4, LeavingType DEF Connection
    <2>2. \A d \in Conns : d # c => conn'[d] = IF d \in rivals THEN At("released") ELSE conn[d]
      BY <1>4 DEF Gone
    <2> HIDE DEF rivals
    <2>3. Nursery' = Nursery \ {c}
      BY <1>1, <1>2, <2>1, <2>2 DEF At, Admitted, Nursery
    <2>4. Admitted' = (Admitted \ rivals) \cup {c}
      BY <1>1, <1>2, <2>1, <2>2 DEF At, Admitted, Nursery
    <2> QED BY <2>3, <2>4 DEF rivals
  <1> QED BY <1>3, <1>4 DEF PromoteOrArbitrate

LEMMA FewerMembers ==
    ASSUME SlotsInv, Admitted' \subseteq Admitted, Nursery' \subseteq Nursery,
           life' = "stopped" => life = "stopped" \/ Managed' = {}
    PROVE  SlotsInv'
  <1>1. IsFiniteSet(Admitted') /\ Cardinality(Admitted') <= MaxAdmitted
    <2>1. Cardinality(Admitted') <= Cardinality(Admitted) /\ IsFiniteSet(Admitted')
      BY FS_Subset DEF SlotsInv
    <2>2. Cardinality(Admitted') \in Nat /\ Cardinality(Admitted) \in Nat
      BY <2>1, FS_CardinalityType DEF SlotsInv
    <2> QED BY <2>1, <2>2, AdmissionAssumption DEF SlotsInv, SlotsBounded
  <1>2. IsFiniteSet(Nursery' \ Outbound) /\ Cardinality(Nursery' \ Outbound) <= NurseryCapacity
    <2>1. Nursery' \ Outbound \in SUBSET (Nursery \ Outbound)
      OBVIOUS
    <2>2. /\ Cardinality(Nursery' \ Outbound) <= Cardinality(Nursery \ Outbound)
          /\ IsFiniteSet(Nursery' \ Outbound)
      BY <2>1, FS_Subset DEF SlotsInv
    <2>3. Cardinality(Nursery' \ Outbound) \in Nat /\ Cardinality(Nursery \ Outbound) \in Nat
      BY <2>2, FS_CardinalityType DEF SlotsInv
    <2> QED BY <2>2, <2>3, AdmissionAssumption DEF SlotsInv, SlotsBounded
  <1>3. \A c, d \in Nursery' \cap Outbound : c = d
    BY DEF SlotsInv, SlotsBounded
  <1>4. life' = "stopped" => Managed' = {}
    BY DEF SlotsInv, SlotsBounded, Managed
  <1> QED BY <1>1, <1>2, <1>3, <1>4 DEF SlotsInv, SlotsBounded

\* A newcomer displaces somebody, or there is a slot for it.
LEMMA PromoteSlots ==
    ASSUME AdmissionTypeOK, SlotsInv, NEW c \in Nursery, NEW k \in Connection,
           PromoteOrArbitrate(c, k), life' # "stopped"
    PROVE  SlotsInv'
  <1> DEFINE rivals == Conflicts(k.roles)
  <1>1. CASE Admitted' = Admitted
    BY <1>1, PromoteMembers, FewerMembers
  <1>2. CASE Admitted' = (Admitted \ rivals) \cup {c}
    <2>1. c \notin Admitted \ rivals
      BY DEF Nursery, Admitted
    <2>2. /\ IsFiniteSet(Admitted \ rivals) /\ Cardinality(Admitted \ rivals) \in Nat
          /\ Cardinality(Admitted) \in Nat
      BY FS_Subset, FS_CardinalityType DEF SlotsInv
    <2>3. IsFiniteSet(Admitted') /\ Cardinality(Admitted') = Cardinality(Admitted \ rivals) + 1
      BY <1>2, <2>1, <2>2, FS_AddElement
    <2>4. Cardinality(Admitted \ rivals) < MaxAdmitted
      <3>1. CASE rivals = {}
        <4>1. ~(Cardinality(Admitted) >= MaxAdmitted) \/ Admitted = {}
          BY <3>1 DEF Conflicts
        <4>2. Admitted \ rivals = Admitted
          BY <3>1
        <4>3. Cardinality({}) = 0
          BY FS_EmptySet
        <4> QED BY <2>2, <4>1, <4>2, <4>3, AdmissionAssumption
      <3>2. CASE rivals # {}
        <4>1. PICK d \in rivals : d \in Admitted
          BY <3>2 DEF Conflicts
        <4> HIDE DEF rivals
        <4>2. Admitted \ rivals \in SUBSET (Admitted \ {d})
          BY <4>1
        <4>3. /\ IsFiniteSet(Admitted \ {d})
              /\ Cardinality(Admitted \ {d}) = Cardinality(Admitted) - 1
          BY <4>1, FS_RemoveElement DEF SlotsInv
        <4>4. Cardinality(Admitted \ rivals) <= Cardinality(Admitted \ {d})
          BY <4>2, <4>3, FS_Subset
        <4> QED BY <2>2, <4>3, <4>4, AdmissionAssumption DEF SlotsInv, SlotsBounded
      <3> QED BY <3>1, <3>2
    <2>5. Cardinality(Admitted') <= MaxAdmitted
      BY <2>2, <2>3, <2>4, AdmissionAssumption
    <2>6. Nursery' \ Outbound \in SUBSET (Nursery \ Outbound) /\ Nursery' \subseteq Nursery
      BY PromoteMembers
    <2>7. /\ IsFiniteSet(Nursery' \ Outbound)
          /\ Cardinality(Nursery' \ Outbound) <= NurseryCapacity
      <3>1. /\ IsFiniteSet(Nursery' \ Outbound)
            /\ Cardinality(Nursery' \ Outbound) <= Cardinality(Nursery \ Outbound)
        BY <2>6, FS_Subset DEF SlotsInv
      <3>2. Cardinality(Nursery' \ Outbound) \in Nat /\ Cardinality(Nursery \ Outbound) \in Nat
        BY <3>1, FS_CardinalityType DEF SlotsInv
      <3> QED BY <3>1, <3>2, AdmissionAssumption DEF SlotsInv, SlotsBounded
    <2>8. \A d, e \in Nursery' \cap Outbound : d = e
      BY <2>6 DEF SlotsInv, SlotsBounded
    <2> QED BY <2>3, <2>5, <2>7, <2>8 DEF SlotsInv, SlotsBounded
  <1> QED BY <1>1, <1>2, PromoteMembers

LEMMA ActivationSlots ==
    ASSUME AdmissionTypeOK, SlotsInv, NEW c \in Managed, NEW acts \in Activities,
           NEW roles \in SUBSET Roles, ApplyActivation(c, acts, roles), life' # "stopped"
    PROVE  SlotsInv'
  <1> DEFINE k == [conn[c] EXCEPT !.act = TRUE, !.acts = acts, !.roles = roles, !.final = FALSE]
  <1> c \in Conns
    BY DEF Managed, Admitted, Nursery
  <1>1. k \in Connection /\ k.place = conn[c].place
    BY DEF AdmissionTypeOK, Connection
  <1>2. CASE c \in Nursery /\ k.hello
    <2>1. PromoteOrArbitrate(c, k)
      BY <1>2 DEF ApplyActivation, Admitted, Nursery
    <2> HIDE DEF k
    <2> QED BY <1>1, <1>2, <2>1, PromoteSlots
  <1>3. CASE conn' = [conn EXCEPT ![c] = k]
    <2> HIDE DEF k
    <2>1. \A d \in Conns : conn'[d].place = conn[d].place
      BY <1>1, <1>3 DEF AdmissionTypeOK
    <2>2. Admitted' = Admitted /\ Nursery' = Nursery
      BY <2>1 DEF Admitted, Nursery
    <2> QED BY <2>2, FewerMembers
  <1> QED BY <1>2, <1>3 DEF ApplyActivation, Admitted, Nursery

LEMMA SlotsStep ==
    AdmissionTypeOK /\ SlotsInv /\ [AdmissionNext]_admissionVars => SlotsInv'
  <1> SUFFICES ASSUME AdmissionTypeOK, SlotsInv, [AdmissionNext]_admissionVars PROVE SlotsInv'
    OBVIOUS
  <1> USE DEF admissionVars, managed, setting
  <1>1. ASSUME NEW c \in Conns, Accept(c) PROVE SlotsInv'
    <2>1. conn[c].place = "fresh" /\ c \notin Outbound /\ life' = life /\ life # "stopped"
      BY <1>1 DEF Accept, Ticking
    <2>2. \A d \in Conns \ {c} : conn'[d] = conn[d]
      BY <1>1 DEF Accept, AdmissionTypeOK
    <2>3. CASE conn'[c] = At("released")
      <3>1. Admitted' = Admitted /\ Nursery' = Nursery
        BY <2>1, <2>2, <2>3 DEF Admitted, Nursery, At
      <3> QED BY <2>1, <3>1, FewerMembers
    <2>4. CASE /\ conn'[c] = At("nursery")
               /\ ~(Cardinality(Nursery \ Outbound) >= NurseryCapacity)
      <3>1. Admitted' = Admitted /\ Nursery' = Nursery \cup {c}
        BY <2>1, <2>2, <2>4 DEF Admitted, Nursery, At
      <3>2. /\ Nursery' \ Outbound = (Nursery \ Outbound) \cup {c} /\ c \notin Nursery
            /\ Nursery' \cap Outbound = Nursery \cap Outbound
        BY <2>1, <3>1 DEF Nursery
      <3>3. /\ IsFiniteSet(Nursery' \ Outbound)
            /\ Cardinality(Nursery' \ Outbound) = Cardinality(Nursery \ Outbound) + 1
            /\ Cardinality(Nursery \ Outbound) \in Nat
        <4> DEFINE waiting == Nursery \ Outbound
        <4>1. IsFiniteSet(waiting) /\ c \notin waiting
          BY <3>2 DEF SlotsInv
        <4> HIDE DEF waiting
        <4>2. /\ IsFiniteSet(waiting \cup {c}) /\ Cardinality(waiting) \in Nat
              /\ Cardinality(waiting \cup {c}) = Cardinality(waiting) + 1
          BY <4>1, FS_AddElement, FS_CardinalityType
        <4> QED BY <3>2, <4>2 DEF waiting
      <3>4. Cardinality(Nursery' \ Outbound) <= NurseryCapacity
        BY <2>4, <3>3, AdmissionAssumption
      <3>5. \A d, e \in (Nursery \cap Outbound)' : d = e
        BY <3>2 DEF SlotsInv, SlotsBounded
      <3> QED BY <2>1, <3>1, <3>3, <3>4, <3>5 DEF SlotsInv, SlotsBounded
    <2> QED BY <1>1, <2>3, <2>4 DEF Accept, AdmissionTypeOK
  <1>2. ASSUME NEW c \in Conns, ConnectTo(c) PROVE SlotsInv'
    <2>1. PICK stray \in SUBSET Admitted :
            LET leaving == stray \cup (Nursery \cap Outbound)
            IN  conn' = [Gone(leaving) EXCEPT ![c] = At("nursery")]
      BY <1>2 DEF ConnectTo
    <2>2. conn[c].place = "fresh" /\ c \in Outbound /\ life' = life /\ life # "stopped"
      BY <1>2 DEF ConnectTo
    <2>3. /\ conn'[c] = At("nursery")
          /\ \A d \in Conns \ {c} : conn'[d] = IF d \in stray \cup (Nursery \cap Outbound)
                                               THEN At("released") ELSE conn[d]
      BY <2>1 DEF Gone
    <2>4. Admitted' \subseteq Admitted /\ Nursery' \ Outbound = Nursery \ Outbound
          /\ Nursery' \cap Outbound = {c}
      BY <2>2, <2>3 DEF Admitted, Nursery, At
    <2>5. /\ IsFiniteSet(Admitted') /\ Cardinality(Admitted') <= Cardinality(Admitted)
          /\ Cardinality(Admitted') \in Nat /\ Cardinality(Admitted) \in Nat
      BY <2>4, FS_Subset, FS_CardinalityType DEF SlotsInv
    <2>6. Cardinality(Admitted') <= MaxAdmitted
      BY <2>5, AdmissionAssumption DEF SlotsInv, SlotsBounded
    <2> QED BY <2>2, <2>4, <2>5, <2>6 DEF SlotsInv, SlotsBounded
  <1>3. ASSUME NEW leaving, DropConnections(leaving), life' = life PROVE SlotsInv'
    BY <1>3, DropMembers, FewerMembers
  <1>4. ASSUME NEW c \in Conns, NEW psk \in Offers[c], Handshake(c, psk) \/ NoiseRehandshake(c, psk)
        PROVE  SlotsInv'
    <2>1. \A d \in Conns : conn'[d].place = conn[d].place
      BY <1>4, AuthenticationEffect
    <2>2. Admitted' = Admitted /\ Nursery' = Nursery
      BY <2>1 DEF Admitted, Nursery
    <2> QED BY <1>4, <2>2, AuthenticationEffect, FewerMembers
  <1>5. ASSUME NEW c \in Conns, SendHello(c) PROVE SlotsInv'
    <2> DEFINE k == [conn[c] EXCEPT !.hello = TRUE]
    <2>1. /\ k \in Connection /\ k.place = conn[c].place /\ c \in Nursery
          /\ life' = life /\ life # "stopped"
      BY <1>5 DEF SendHello, AdmissionTypeOK, Connection, Ticking
    <2>2. PromoteOrArbitrate(c, k) \/ conn' = [conn EXCEPT ![c] = k]
      BY <1>5 DEF SendHello
    <2> HIDE DEF k
    <2>3. CASE conn' = [conn EXCEPT ![c] = k]
      <3>1. \A d \in Conns : conn'[d].place = conn[d].place
        BY <2>1, <2>3 DEF AdmissionTypeOK
      <3>2. Admitted' = Admitted /\ Nursery' = Nursery
        BY <3>1 DEF Admitted, Nursery
      <3> QED BY <2>1, <3>2, FewerMembers
    <2> QED BY <2>1, <2>2, <2>3, PromoteSlots
  <1>6. ASSUME NEW c \in Conns, PairFinalizeAck(c) PROVE SlotsInv'
    <2>1. \A d \in Conns : conn'[d].place = conn[d].place
      BY <1>6, AckEffect
    <2>2. Admitted' = Admitted /\ Nursery' = Nursery
      BY <2>1 DEF Admitted, Nursery
    <2> QED BY <1>6, <2>2, FewerMembers DEF PairFinalizeAck
  <1>7. ASSUME NEW c \in Conns, NEW acts \in Activities,
               NEW named \in {{}} \cup {{roles} : roles \in SUBSET Roles},
               ServerActivate(c, acts, named)
        PROVE  SlotsInv'
    <2>1. EffectiveRoles(c, acts, named) \in SUBSET Roles
      BY RoleSetsType DEF EffectiveRoles, AdmissionTypeOK, Connection
    <2>2. /\ ApplyActivation(c, acts, EffectiveRoles(c, acts, named)) \/ DropConnections({c})
          /\ c \in Managed /\ life' = life /\ life # "stopped"
      BY <1>7 DEF ServerActivate, Ticking
    <2> QED BY <1>3, <2>1, <2>2, ActivationSlots
  <1>8. ASSUME StopReturns PROVE SlotsInv'
    <2>1. Admitted' = {} /\ Nursery' = {} /\ Managed' = {}
      BY <1>8 DEF StopReturns, Gone, At, Managed, Admitted, Nursery
    <2> QED BY <2>1, FewerMembers
  <1>9. ASSUME UNCHANGED conn, life' = "stopped" => life = "stopped" PROVE SlotsInv'
    <2>1. Admitted' = Admitted /\ Nursery' = Nursery
      BY <1>9 DEF Admitted, Nursery
    <2> QED BY <1>9, <2>1, FewerMembers
  <1>10. ASSUME NEW c \in Conns, DropConnection(c) \/ ServerUnpair(c) PROVE SlotsInv'
    BY <1>3, <1>10 DEF DropConnection, ServerUnpair
  <1>11. ASSUME DisconnectAll \/ ApplyUnpairedChange PROVE SlotsInv'
    BY <1>3, <1>11 DEF DisconnectAll, ApplyUnpairedChange
  <1>12. ASSUME NEW c \in Conns, NEW r \in Roles, RoleTraffic(c, r) PROVE SlotsInv'
    BY <1>9, <1>12 DEF RoleTraffic
  <1>13. ASSUME \/ ExchangeUnpaired \/ PostUnpaired \/ Start \/ StartReturns \/ StopBegins
                \/ UNCHANGED admissionVars
         PROVE  SlotsInv'
    BY <1>9, <1>13 DEF ExchangeUnpaired, PostUnpaired, Start, StartReturns, StopBegins
  <1> QED BY <1>1, <1>2, <1>4, <1>5, <1>6, <1>7, <1>8, <1>10, <1>11, <1>12, <1>13
          DEF AdmissionNext, ConnectionStep

-----------------------------------------------------------------------------
(* Where the PSK and the activation of a managed connection come from *)

\* k is what the manager held of d before, with the activation or less of it.
HeldBefore(d, k) ==
    /\ d \in Managed /\ k.psk = conn[d].psk
    /\ k.act => conn[d].act /\ k.acts = conn[d].acts /\ k.roles = conn[d].roles

\* k authenticates with a PSK still in the store, and its activation was judged just now.
JudgedNow(k) ==
    /\ k.psk \notin revoked
    /\ k.act => k.psk # "none" /\ Admissible(k.psk, k.acts, k.roles, unpaired)

\* Every activation in force is one the connection could have while unpaired access was on.
ActivationsJudged ==
    \A c \in Managed : conn[c].act => /\ conn[c].psk # "none"
                                      /\ Admissible(conn[c].psk, conn[c].acts, conn[c].roles, TRUE)

Sourced == \A d \in Managed' : HeldBefore(d, conn'[d]) \/ JudgedNow(conn'[d])

LEMMA DropSourced ==
    ASSUME AdmissionTypeOK, NEW leaving, DropConnections(leaving)
    PROVE  \A d \in Managed' : d \notin leaving /\ HeldBefore(d, conn'[d])
  <1> SUFFICES ASSUME NEW d \in Managed' PROVE d \notin leaving /\ HeldBefore(d, conn'[d])
    OBVIOUS
  <1>1. d \in Managed /\ d \notin leaving
    BY DropMembers DEF Managed
  <1>2. conn'[d] = conn[d]
    BY <1>1 DEF DropConnections, Gone, Managed, Admitted, Nursery
  <1> QED BY <1>1, <1>2 DEF HeldBefore

LEMMA PromoteSourced ==
    ASSUME AdmissionTypeOK, NEW c \in Nursery, NEW k \in Connection, PromoteOrArbitrate(c, k),
           HeldBefore(c, k) \/ JudgedNow(k)
    PROVE  Sourced
  <1> SUFFICES ASSUME NEW d \in Managed' PROVE HeldBefore(d, conn'[d]) \/ JudgedNow(conn'[d])
    BY DEF Sourced
  <1> DEFINE rivals == Conflicts(k.roles)
  <1>1. c \in Conns /\ d \in Conns /\ conn'[d].place # "released"
    BY DEF Managed, Admitted, Nursery
  <1>2. CASE conn' = Gone({c})
    <2>1. d # c /\ conn'[d] = conn[d]
      BY <1>1, <1>2 DEF Gone, At
    <2> QED BY <2>1 DEF HeldBefore, Managed, Admitted, Nursery
  <1>3. CASE conn' = [Gone(rivals) EXCEPT ![c] = [k EXCEPT !.place = "admitted"]]
    <2>1. d # c => conn'[d] = IF d \in rivals THEN At("released") ELSE conn[d]
      BY <1>1, <1>3 DEF Gone
    <2>2. CASE d # c
      <3>1. conn'[d] = conn[d]
        BY <1>1, <2>1, <2>2 DEF At
      <3> QED BY <3>1 DEF HeldBefore, Managed, Admitted, Nursery
    <2>3. CASE d = c
      <3>1. conn'[c] = [k EXCEPT !.place = "admitted"]
        BY <1>1, <1>3, LeavingType
      <3>2. /\ conn'[c].psk = k.psk /\ conn'[c].act = k.act
            /\ conn'[c].acts = k.acts /\ conn'[c].roles = k.roles
        BY <3>1 DEF Connection
      <3> QED BY <2>3, <3>2 DEF HeldBefore, JudgedNow
    <2> QED BY <2>2, <2>3
  <1> QED BY <1>2, <1>3 DEF PromoteOrArbitrate

\* A connection that is given the record k, and nothing else changes.
LEMMA OwnSourced ==
    ASSUME AdmissionTypeOK, NEW c \in Conns, NEW k, conn' = [conn EXCEPT ![c] = k],
           HeldBefore(c, k) \/ JudgedNow(k)
    PROVE  Sourced
  <1> SUFFICES ASSUME NEW d \in Managed' PROVE HeldBefore(d, conn'[d]) \/ JudgedNow(conn'[d])
    BY DEF Sourced
  <1>1. CASE d = c
    BY <1>1 DEF AdmissionTypeOK
  <1>2. CASE d # c
    <2>1. conn'[d] = conn[d]
      BY <1>2 DEF Managed, Admitted, Nursery, AdmissionTypeOK
    <2> QED BY <2>1 DEF HeldBefore, Managed, Admitted, Nursery
  <1> QED BY <1>1, <1>2

LEMMA ActivationSourced ==
    ASSUME AdmissionTypeOK, RevokedGone, NEW c \in Managed, NEW acts \in Activities,
           NEW roles \in SUBSET Roles, conn[c].psk # "none",
           Admissible(conn[c].psk, acts, roles, unpaired),
           ApplyActivation(c, acts, roles)
    PROVE  Sourced
  <1> DEFINE k == [conn[c] EXCEPT !.act = TRUE, !.acts = acts, !.roles = roles, !.final = FALSE]
  <1> c \in Conns
    BY DEF Managed, Admitted, Nursery
  <1>1. k \in Connection /\ k.psk = conn[c].psk /\ k.acts = acts /\ k.roles = roles
    BY DEF AdmissionTypeOK, Connection
  <1>2. JudgedNow(k)
    BY <1>1 DEF JudgedNow, RevokedGone
  <1>3. (c \in Nursery /\ PromoteOrArbitrate(c, k)) \/ conn' = [conn EXCEPT ![c] = k]
    BY DEF ApplyActivation, Admitted, Nursery
  <1> HIDE DEF k
  <1> QED BY <1>1, <1>2, <1>3, PromoteSourced, OwnSourced

\* No step gives a managed connection an activation but the one it had or one judged now.
LEMMA StepSourced ==
    AdmissionTypeOK /\ RevokedGone /\ ActivationsJudged /\ [AdmissionNext]_admissionVars => Sourced
  <1> SUFFICES ASSUME AdmissionTypeOK, RevokedGone, ActivationsJudged,
                      [AdmissionNext]_admissionVars
               PROVE  Sourced
    OBVIOUS
  <1> USE DEF admissionVars, managed, setting
  <1>0. "none" \notin revoked
    BY AdmissionAssumption DEF AdmissionTypeOK, PskIds
  <1>1. ASSUME NEW c \in Conns, Accept(c) PROVE Sourced
    <2>1. JudgedNow(At("nursery")) /\ JudgedNow(At("released"))
      BY <1>0 DEF JudgedNow, At
    <2> QED BY <1>1, <2>1, OwnSourced DEF Accept
  <1>2. ASSUME NEW c \in Conns, ConnectTo(c) PROVE Sourced
    <2>1. PICK stray \in SUBSET Admitted :
            LET leaving == stray \cup (Nursery \cap Outbound)
            IN  conn' = [Gone(leaving) EXCEPT ![c] = At("nursery")]
      BY <1>2 DEF ConnectTo
    <2>2. /\ conn'[c] = At("nursery")
          /\ \A d \in Conns \ {c} : conn'[d] = IF d \in stray \cup (Nursery \cap Outbound)
                                               THEN At("released") ELSE conn[d]
      BY <2>1 DEF Gone
    <2>3. JudgedNow(At("nursery"))
      BY <1>0 DEF JudgedNow, At
    <2>4. ASSUME NEW d \in Managed', d # c PROVE HeldBefore(d, conn'[d])
      <3>1. d \in Conns /\ conn'[d] = conn[d]
        BY <2>2, <2>4 DEF Managed, Admitted, Nursery, At
      <3> QED BY <3>1 DEF HeldBefore, Managed, Admitted, Nursery
    <2> QED BY <2>2, <2>3, <2>4 DEF Sourced
  <1>3. ASSUME NEW leaving, DropConnections(leaving) PROVE Sourced
    BY <1>3, DropSourced DEF Sourced
  <1>4. ASSUME NEW c \in Conns, NEW psk \in Offers[c], Handshake(c, psk) \/ NoiseRehandshake(c, psk)
        PROVE  Sourced
    <2> SUFFICES ASSUME NEW d \in Managed' PROVE HeldBefore(d, conn'[d]) \/ JudgedNow(conn'[d])
      BY DEF Sourced
    <2>1. CASE d = c
      <3>1. conn'[c].psk = psk /\ psk \notin revoked /\ ~conn'[c].act
        BY <1>4, AuthenticationEffect DEF ActivationsJudged
      <3> QED BY <2>1, <3>1 DEF JudgedNow
    <2>2. CASE d # c
      <3>1. d \in Conns /\ conn'[d] = conn[d]
        BY <1>4, <2>2, AuthenticationEffect DEF Managed, Admitted, Nursery
      <3> QED BY <3>1 DEF HeldBefore, Managed, Admitted, Nursery
    <2> QED BY <2>1, <2>2
  <1>5. ASSUME NEW c \in Conns, SendHello(c) PROVE Sourced
    <2> DEFINE k == [conn[c] EXCEPT !.hello = TRUE]
    <2>1. k \in Connection /\ c \in Nursery /\ HeldBefore(c, k)
      BY <1>5 DEF SendHello, AdmissionTypeOK, Connection, HeldBefore, Managed
    <2>2. PromoteOrArbitrate(c, k) \/ conn' = [conn EXCEPT ![c] = k]
      BY <1>5 DEF SendHello
    <2> HIDE DEF k
    <2> QED BY <2>1, <2>2, PromoteSourced, OwnSourced
  <1>6. ASSUME NEW c \in Conns, PairFinalizeAck(c) PROVE Sourced
    <2> SUFFICES ASSUME NEW d \in Managed' PROVE HeldBefore(d, conn'[d])
      BY DEF Sourced
    <2>1. d \in Conns /\ d \in Managed
      BY <1>6, AckEffect DEF Managed, Admitted, Nursery
    <2> QED BY <1>6, <2>1, AckEffect DEF HeldBefore
  <1>7. ASSUME NEW c \in Conns, NEW acts \in Activities,
               NEW named \in {{}} \cup {{roles} : roles \in SUBSET Roles},
               ServerActivate(c, acts, named)
        PROVE  Sourced
    <2> DEFINE roles == EffectiveRoles(c, acts, named)
    <2>1. roles \in SUBSET Roles
      BY RoleSetsType DEF EffectiveRoles, AdmissionTypeOK, Connection
    <2>2. \/ /\ Admissible(conn[c].psk, acts, roles, unpaired)
             /\ ApplyActivation(c, acts, roles)
          \/ DropConnections({c})
      BY <1>7 DEF ServerActivate
    <2>3. c \in Managed /\ conn[c].psk # "none"
      BY <1>7 DEF ServerActivate
    <2> HIDE DEF roles
    <2> QED BY <1>3, <2>1, <2>2, <2>3, ActivationSourced
  <1>8. ASSUME StopReturns PROVE Sourced
    BY <1>8 DEF StopReturns, Sourced, Gone, At, Managed, Admitted, Nursery
  <1>9. ASSUME UNCHANGED conn PROVE Sourced
    BY <1>9 DEF Sourced, HeldBefore, Managed, Admitted, Nursery
  <1>10. ASSUME NEW c \in Conns, \/ DropConnection(c) \/ ServerUnpair(c)
                                 \/ \E r \in Roles : RoleTraffic(c, r)
         PROVE  Sourced
    BY <1>3, <1>9, <1>10 DEF DropConnection, ServerUnpair, RoleTraffic
  <1>11. ASSUME DisconnectAll \/ ApplyUnpairedChange PROVE Sourced
    BY <1>3, <1>11 DEF DisconnectAll, ApplyUnpairedChange
  <1>12. ASSUME \/ ExchangeUnpaired \/ PostUnpaired \/ Start \/ StartReturns \/ StopBegins
                \/ UNCHANGED admissionVars
         PROVE  Sourced
    BY <1>9, <1>12 DEF ExchangeUnpaired, PostUnpaired, Start, StartReturns, StopBegins
  <1> QED BY <1>1, <1>2, <1>4, <1>5, <1>6, <1>7, <1>8, <1>10, <1>11, <1>12
          DEF AdmissionNext, ConnectionStep

LEMMA RevokedStep ==
    /\ AdmissionTypeOK /\ RevokedGone /\ ActivationsJudged /\ [AdmissionNext]_admissionVars
    => RevokedGone'
  <1> SUFFICES ASSUME AdmissionTypeOK, RevokedGone, ActivationsJudged,
                      [AdmissionNext]_admissionVars
               PROVE  RevokedGone'
    OBVIOUS
  <1>1. CASE UNCHANGED revoked
    BY <1>1, StepSourced DEF Sourced, HeldBefore, JudgedNow, RevokedGone
  <1>2. ASSUME NEW c \in Conns, ServerUnpair(c) PROVE RevokedGone'
    <2>1. ASSUME NEW d \in Managed' PROVE conn'[d].psk # conn[c].psk /\ conn'[d].psk \notin revoked
      BY <1>2, DropSourced DEF ServerUnpair, HeldBefore, RevokedGone
    <2> QED BY <1>2, <2>1 DEF ServerUnpair, RevokedGone
  <1> QED
    BY <1>1, <1>2
    DEF AdmissionNext, ConnectionStep, admissionVars, Accept, ConnectTo, DropConnection, Handshake,
        NoiseRehandshake, SendHello, PairFinalizeAck, ServerActivate, RoleTraffic, DisconnectAll,
        ExchangeUnpaired, PostUnpaired, ApplyUnpairedChange, Start, StartReturns, StopBegins,
        StopReturns

LEMMA AdmissibleMonotonic ==
    ASSUME NEW psk, NEW acts, NEW roles, NEW access \in BOOLEAN,
           Admissible(psk, acts, roles, access)
    PROVE  Admissible(psk, acts, roles, TRUE)
  BY DEF Admissible, PlaybackCapable, ActivitiesAllowed

LEMMA JudgedStep ==
    /\ AdmissionTypeOK /\ RevokedGone /\ ActivationsJudged /\ [AdmissionNext]_admissionVars
    => ActivationsJudged'
  <1> SUFFICES ASSUME AdmissionTypeOK, RevokedGone, ActivationsJudged,
                      [AdmissionNext]_admissionVars,
                      NEW d \in Managed', conn'[d].act
               PROVE  /\ conn'[d].psk # "none"
                      /\ Admissible(conn'[d].psk, conn'[d].acts, conn'[d].roles, TRUE)
    BY DEF ActivationsJudged
  <1>1. CASE HeldBefore(d, conn'[d])
    BY <1>1 DEF HeldBefore, ActivationsJudged
  <1>2. CASE JudgedNow(conn'[d])
    BY <1>2, AdmissibleMonotonic DEF JudgedNow, AdmissionTypeOK
  <1> QED BY <1>1, <1>2, StepSourced DEF Sourced

\* With unpaired access off, a connection that relies on it is about to be judged again: the
\* request is there, or the thread that turned it off while the client runs has yet to leave it,
\* or the client is stopping.
RelianceAnnounced ==
    \/ unpaired \/ ReliantConnections = {} \/ asked
    \/ setter = "exchanged" /\ life = "running"
    \/ life = "stopping"

\* With access off no step makes a connection rely on it.
LEMMA ReliantShrinks ==
    ASSUME AdmissionTypeOK, Sourced, ~unpaired, NEW d \in ReliantConnections'
    PROVE  d \in ReliantConnections
  <1>1. d \in Managed' /\ conn'[d].act /\ ReliesOnUnpaired(conn'[d])
    BY DEF ReliantConnections
  <1>2. CASE HeldBefore(d, conn'[d])
    BY <1>1, <1>2 DEF HeldBefore, ReliantConnections, ReliesOnUnpaired
  <1>3. CASE JudgedNow(conn'[d])
    <2>1. unpaired = FALSE
      BY DEF AdmissionTypeOK
    <2>2. Admissible(conn'[d].psk, conn'[d].acts, conn'[d].roles, unpaired)
      BY <1>1, <1>3 DEF JudgedNow
    <2> QED BY <1>1, <2>1, <2>2 DEF ReliesOnUnpaired
  <1> QED BY <1>1, <1>2, <1>3 DEF Sourced

LEMMA AnnouncedStep ==
    ASSUME ~SetWhileStarting
    PROVE  /\ AdmissionTypeOK /\ SlotsInv /\ RevokedGone /\ ActivationsJudged
           /\ RelianceAnnounced /\ [AdmissionNext]_admissionVars
           => RelianceAnnounced'
  <1> SUFFICES ASSUME AdmissionTypeOK, SlotsInv, RevokedGone, ActivationsJudged,
                      RelianceAnnounced, [AdmissionNext]_admissionVars
               PROVE  RelianceAnnounced'
    OBVIOUS
  <1>0. Sourced
    BY StepSourced
  <1>1. CASE UNCHANGED <<unpaired, asked, setter, life>>
    BY <1>0, <1>1, ReliantShrinks DEF RelianceAnnounced
  <1>2. ASSUME Managed' = {} PROVE RelianceAnnounced'
    BY <1>2 DEF RelianceAnnounced, ReliantConnections
  <1>3. CASE ExchangeUnpaired
    <2>1. CASE life = "stopped"
      <3>1. Managed' = {}
        BY <1>3, <2>1 DEF ExchangeUnpaired, managed, SlotsInv, SlotsBounded, Managed, Admitted,
                          Nursery
      <3> QED BY <1>2, <3>1
    <2>2. CASE life \in {"running", "stopping"}
      BY <1>3, <2>2 DEF ExchangeUnpaired, RelianceAnnounced
    <2> QED BY <1>3, <2>1, <2>2 DEF ExchangeUnpaired, AdmissionTypeOK
  <1>4. CASE PostUnpaired
    <2>1. unpaired' = unpaired /\ life' = life /\ asked' = (asked \/ life = "running")
      BY <1>4 DEF PostUnpaired
    <2> QED BY <1>0, <2>1, ReliantShrinks DEF RelianceAnnounced
  <1>5. CASE ApplyUnpairedChange
    <2>1. CASE unpaired
      BY <1>5, <2>1 DEF ApplyUnpairedChange, RelianceAnnounced
    <2>2. CASE ~unpaired
      <3>1. DropConnections(ReliantConnections)
        BY <1>5, <2>2 DEF ApplyUnpairedChange
      <3>2. ReliantConnections' = {}
        BY <3>1, DropSourced DEF ReliantConnections, HeldBefore, ReliesOnUnpaired
      <3> QED BY <3>2 DEF RelianceAnnounced
    <2> QED BY <2>1, <2>2
  <1>6. CASE Start
    <2>1. Managed' = {}
      BY <1>6 DEF Start, managed, SlotsInv, SlotsBounded, Managed, Admitted, Nursery
    <2> QED BY <1>2, <2>1
  <1>7. CASE StartReturns \/ StopBegins
    <2>1. UNCHANGED <<unpaired, asked, setter>> /\ life # "stopping"
          /\ (life = "running" => life' = "stopping")
      BY <1>7 DEF StartReturns, StopBegins, setting
    <2> QED BY <1>0, <2>1, ReliantShrinks DEF RelianceAnnounced
  <1>8. CASE StopReturns
    <2>1. Managed' = {}
      BY <1>8 DEF StopReturns, Gone, At, Managed, Admitted, Nursery
    <2> QED BY <1>2, <2>1
  <1> QED
    BY <1>1, <1>3, <1>4, <1>5, <1>6, <1>7, <1>8
    DEF AdmissionNext, ConnectionStep, admissionVars, setting, Accept, ConnectTo, DropConnection,
        Handshake, NoiseRehandshake, SendHello, PairFinalizeAck, ServerUnpair, ServerActivate,
        RoleTraffic, DisconnectAll

-----------------------------------------------------------------------------
(* The theorems *)

AdmissionIInv ==
    AdmissionTypeOK /\ SlotsInv /\ RolesAttributed /\ RevokedGone /\ ActivationsJudged

LEMMA AdmissionInitIInv == AdmissionInit => AdmissionIInv /\ RelianceAnnounced
  <1> SUFFICES ASSUME AdmissionInit PROVE AdmissionIInv /\ RelianceAnnounced
    OBVIOUS
  <1>1. AdmissionTypeOK
    BY AdmissionInitType
  <1>2. Admitted = {} /\ Nursery = {}
    BY DEF AdmissionInit, AdmissionStarts, At, Admitted, Nursery
  <1>3. SlotsInv
    BY <1>2, FS_EmptySet, AdmissionAssumption DEF SlotsInv, SlotsBounded, Managed
  <1>4. RolesAttributed
    BY DEF AdmissionInit, AdmissionStarts, RolesAttributed
  <1> QED BY <1>1, <1>2, <1>3, <1>4 DEF AdmissionIInv, RevokedGone, ActivationsJudged,
                                        RelianceAnnounced, ReliantConnections, Managed

LEMMA AdmissionStepIInv == AdmissionIInv /\ [AdmissionNext]_admissionVars => AdmissionIInv'
  BY AdmissionStepType, SlotsStep, RolesStep, RevokedStep, JudgedStep DEF AdmissionIInv

\* Over any run of the client the manager stays within its slots, every role's state was built
\* from the messages of the connection that owns the role, and nobody keeps a revoked record.
THEOREM AdmissionCorrect == AdmissionSpec => []AdmissionInv
  <1>1. AdmissionIInv => AdmissionInv
    BY DEF AdmissionIInv, AdmissionInv, SlotsInv
  <1> QED BY <1>1, AdmissionInitIInv, AdmissionStepIInv, PTL DEF AdmissionSpec

\* Once a change to off has been acted on, no connection without a record plays or holds a role,
\* provided the setter is not called while start() runs: a run shows what it does there.
THEOREM UnpairedAccessHonoured ==
    ASSUME ~SetWhileStarting
    PROVE  AdmissionSpec => []UnpairedHonoured
  <1>1. AdmissionIInv /\ RelianceAnnounced => UnpairedHonoured
    <2> SUFFICES ASSUME AdmissionIInv, RelianceAnnounced,
                        ~unpaired, ~asked, setter = "idle", life # "stopping",
                        NEW c \in Managed, conn[c].act, conn[c].psk \notin Records
                 PROVE  "playback" \notin conn[c].acts /\ conn[c].roles = {}
      BY DEF UnpairedHonoured
    <2>1. c \notin ReliantConnections
      BY DEF RelianceAnnounced
    <2>2. Admissible(conn[c].psk, conn[c].acts, conn[c].roles, FALSE)
      BY <2>1 DEF AdmissionIInv, ActivationsJudged, ReliantConnections, ReliesOnUnpaired
    <2>3. "playback" \notin conn[c].acts
      BY <2>2 DEF Admissible, ActivitiesAllowed
    <2>4. ~PlaybackCapable(conn[c].psk, conn[c].acts, FALSE)
      BY DEF PlaybackCapable, ActivitiesAllowed
    <2> QED BY <2>2, <2>3, <2>4 DEF Admissible
  <1>2. /\ AdmissionIInv /\ RelianceAnnounced /\ [AdmissionNext]_admissionVars
        => AdmissionIInv' /\ RelianceAnnounced'
    BY AdmissionStepIInv, AnnouncedStep DEF AdmissionIInv
  <1> QED BY <1>1, <1>2, AdmissionInitIInv, PTL DEF AdmissionSpec

\* One step of an arbitration: who is displaced and by whom.
LEMMA PromoteGivesWay ==
    ASSUME AdmissionTypeOK, NEW c \in Nursery, NEW k \in Connection, PromoteOrArbitrate(c, k),
           NEW d \in Admitted, conn'[d].place = "released"
    PROVE  GivesWayTo(d)
  <1> DEFINE rivals == Conflicts(k.roles)
  <1>1. /\ c \in Conns /\ d \in Conns /\ c # d
        /\ conn[c].place = "nursery" /\ conn[d].place = "admitted"
    BY DEF Nursery, Admitted
  <1>2. CASE conn' = Gone({c})
    BY <1>1, <1>2 DEF Gone
  <1>3. CASE /\ \A e \in rivals : ShouldAdmit(c, k, e)
             /\ conn' = [Gone(rivals) EXCEPT ![c] = [k EXCEPT !.place = "admitted"]]
    <2>1. d \in rivals
      BY <1>1, <1>3 DEF Gone
    <2>2. ShouldAdmit(c, k, d)
      BY <1>3, <2>1
    <2>3. conn'[c].place = "admitted" /\ conn'[c].acts = k.acts
      BY <1>1, <1>3, LeavingType DEF Connection
    <2> HIDE DEF rivals
    <2>4. Rank(conn'[c].acts) >= Rank(conn[d].acts)
      BY <2>2, <2>3 DEF ShouldAdmit, Rank
    <2>5. "pairing" \in conn[d].acts => conn[d].final
      BY <2>2 DEF ShouldAdmit, Rank
    <2>6. Rank(conn'[c].acts) = 0 => ServerOf[c] = lastPlayed /\ ServerOf[d] # lastPlayed
      BY <2>2, <2>3 DEF ShouldAdmit, Rank
    <2> QED BY <1>1, <2>3, <2>4, <2>5, <2>6 DEF GivesWayTo
  <1> QED BY <1>2, <1>3 DEF PromoteOrArbitrate

\* Only an arbitration takes a connection out of the nursery into a slot.
LEMMA OnlyPromotionAdmits ==
    ASSUME AdmissionTypeOK, [AdmissionNext]_admissionVars,
           NEW e \in Conns, conn[e].place = "nursery", conn'[e].place = "admitted"
    PROVE  \E c \in Nursery, k \in Connection : PromoteOrArbitrate(c, k)
  <1> USE DEF admissionVars, managed, setting
  <1>1. ASSUME NEW leaving, conn' = Gone(leaving) PROVE FALSE
    BY <1>1 DEF Gone, At
  <1>2. ASSUME NEW c \in Conns, Accept(c) \/ ConnectTo(c) PROVE FALSE
    <2>1. \A leaving : [Gone(leaving) EXCEPT ![c] = At("nursery")][e].place # "admitted"
      BY DEF Gone, At
    <2> QED BY <1>2, <2>1 DEF Accept, ConnectTo, At, AdmissionTypeOK
  <1>3. ASSUME NEW c \in Conns, NEW psk \in Offers[c], Handshake(c, psk) \/ NoiseRehandshake(c, psk)
        PROVE  FALSE
    BY <1>3, AuthenticationEffect
  <1>4. ASSUME NEW c \in Conns, PairFinalizeAck(c) PROVE FALSE
    BY <1>4, AckEffect
  <1>5. ASSUME NEW c \in Conns, SendHello(c)
        PROVE  \E d \in Nursery, k \in Connection : PromoteOrArbitrate(d, k)
    <2> DEFINE k == [conn[c] EXCEPT !.hello = TRUE]
    <2>1. k \in Connection /\ c \in Nursery /\ k.place = conn[c].place
      BY <1>5, ZenonT(40) DEF SendHello, AdmissionTypeOK, Connection
    <2>2. PromoteOrArbitrate(c, k) \/ conn' = [conn EXCEPT ![c] = k]
      BY <1>5 DEF SendHello
    <2> HIDE DEF k
    <2>3. conn' # [conn EXCEPT ![c] = k]
      BY <2>1 DEF AdmissionTypeOK
    <2> QED BY <2>1, <2>2, <2>3
  <1>6. ASSUME NEW c \in Conns, NEW acts \in Activities,
               NEW named \in {{}} \cup {{roles} : roles \in SUBSET Roles},
               ServerActivate(c, acts, named)
        PROVE  \E d \in Nursery, k \in Connection : PromoteOrArbitrate(d, k)
    <2> DEFINE roles == EffectiveRoles(c, acts, named)
               k == [conn[c] EXCEPT !.act = TRUE, !.acts = acts, !.roles = roles, !.final = FALSE]
    <2>1. roles \in SUBSET Roles
      BY RoleSetsType DEF EffectiveRoles, AdmissionTypeOK, Connection
    <2> HIDE DEF roles
    <2>2. k \in Connection /\ k.place = conn[c].place
      BY <2>1 DEF AdmissionTypeOK, Connection
    <2>3. ApplyActivation(c, acts, roles) \/ conn' = Gone({c})
      BY <1>6 DEF ServerActivate, DropConnections, roles
    <2>4. (c \in Nursery /\ PromoteOrArbitrate(c, k)) \/ conn' = [conn EXCEPT ![c] = k]
      BY <1>1, <2>3 DEF ApplyActivation, Admitted, Nursery
    <2> HIDE DEF k
    <2>5. conn' # [conn EXCEPT ![c] = k]
      BY <2>2 DEF AdmissionTypeOK
    <2> QED BY <2>2, <2>4, <2>5
  <1>7. ASSUME UNCHANGED conn PROVE FALSE
    BY <1>7
  <1>8. ASSUME NEW c \in Conns, \/ DropConnection(c) \/ ServerUnpair(c)
                                \/ \E r \in Roles : RoleTraffic(c, r)
        PROVE  FALSE
    BY <1>1, <1>7, <1>8 DEF DropConnection, ServerUnpair, RoleTraffic, DropConnections
  <1>9. ASSUME DisconnectAll \/ ApplyUnpairedChange \/ StopReturns PROVE FALSE
    BY <1>1, <1>9 DEF DisconnectAll, ApplyUnpairedChange, StopReturns, DropConnections
  <1>10. ASSUME \/ ExchangeUnpaired \/ PostUnpaired \/ Start \/ StartReturns \/ StopBegins
                \/ UNCHANGED admissionVars
         PROVE  FALSE
    BY <1>7, <1>10 DEF ExchangeUnpaired, PostUnpaired, Start, StartReturns, StopBegins
  <1> QED BY <1>2, <1>3, <1>4, <1>5, <1>6, <1>8, <1>9, <1>10 DEF AdmissionNext, ConnectionStep

\* A slot taken from an admitted connection went to one at least as strong, never from an
\* unfinished pairing, and between idle ones only to the server that played last.
THEOREM SlotsGoToTheStronger == AdmissionSpec => SlotGoesToTheStronger
  <1>1. /\ AdmissionIInv /\ [AdmissionNext]_admissionVars
        => [(\E c \in Conns : conn[c].place = "nursery" /\ conn'[c].place = "admitted")
              => \A d \in Admitted : conn'[d].place = "released" => GivesWayTo(d)]_admissionVars
    <2> SUFFICES ASSUME AdmissionIInv, [AdmissionNext]_admissionVars,
                        NEW c \in Conns, conn[c].place = "nursery", conn'[c].place = "admitted",
                        NEW d \in Admitted, conn'[d].place = "released"
                 PROVE  GivesWayTo(d)
      OBVIOUS
    <2> QED BY OnlyPromotionAdmits, PromoteGivesWay DEF AdmissionIInv
  <1> QED
    BY <1>1, AdmissionInitIInv, AdmissionStepIInv, PTL DEF AdmissionSpec, SlotGoesToTheStronger

-----------------------------------------------------------------------------
(* The record store *)

-----------------------------------------------------------------------------
(* Slots and their ranks *)

LEMMA SlotsFinite ==
    /\ IsFiniteSet(Slots) /\ 0 \in Slots
    /\ Cardinality(Slots) = MaxRecords
    /\ \A S \in SUBSET Slots : IsFiniteSet(S) /\ Cardinality(S) \in Nat
  <1>1. IsFiniteSet(0 .. MaxRecords - 1) /\ Cardinality(0 .. MaxRecords - 1) = MaxRecords
    BY RecordsAssumption, FS_Interval
  <1>2. 0 \in Slots
    BY RecordsAssumption DEF Slots
  <1>3. ASSUME NEW S \in SUBSET Slots PROVE IsFiniteSet(S) /\ Cardinality(S) \in Nat
    BY <1>1, FS_Subset, FS_CardinalityType DEF Slots
  <1> QED BY <1>1, <1>2, <1>3 DEF Slots

\* A vector's places stay integers when some of its records are erased.
LEMMA RankWithoutType ==
    ASSUME rank \in [Slots -> Int], NEW gone \in SUBSET Slots
    PROVE  RankWithout(gone) \in [Slots -> Int]
  <1>1. ASSUME NEW s \in Slots
        PROVE  Cardinality({t \in gone : rank[t] < rank[s]}) \in Nat
    <2>1. {t \in gone : rank[t] < rank[s]} \in SUBSET Slots
      OBVIOUS
    <2> QED BY <2>1, SlotsFinite
  <1> QED BY <1>1 DEF RankWithout

LEMMA LoadedType ==
    ASSUME NEW blobs \in [Slots -> Blobs], NEW place
    PROVE  /\ Loaded(blobs) \in [Slots -> Blobs]
           /\ LoadedRank(Loaded(blobs), place) \in [Slots -> Int]
           /\ DuplicateSlots(blobs) \subseteq Slots
  <1>1. Loaded(blobs) \in [Slots -> Blobs]
    BY DEF Loaded, Blobs
  <1>2. DuplicateSlots(blobs) \subseteq Slots
    BY DEF DuplicateSlots
  <1> DEFINE occupied == {s \in Slots : Loaded(blobs)[s] # Free}
  <1>3. ASSUME NEW s \in Slots
        PROVE  Cardinality({t \in occupied : LoadedBefore(t, s, place)}) \in Nat
    <2>1. {t \in occupied : LoadedBefore(t, s, place)} \in SUBSET Slots
      OBVIOUS
    <2> HIDE DEF occupied
    <2> QED BY <2>1, SlotsFinite
  <1>4. LoadedRank(Loaded(blobs), place) \in [Slots -> Int]
    BY <1>3 DEF LoadedRank
  <1> QED BY <1>1, <1>2, <1>4

\* A boot loads no record twice.
LEMMA LoadedOnce ==
    ASSUME NEW blobs \in [Slots -> Blobs], NEW s \in Slots, NEW t \in Slots,
           Loaded(blobs)[s] # Free, Loaded(blobs)[s] = Loaded(blobs)[t]
    PROVE  s = t
  <1>1. s \notin DuplicateSlots(blobs) /\ t \notin DuplicateSlots(blobs)
    BY DEF Loaded
  <1>2. blobs[s] = blobs[t] /\ blobs[s] # Free
    BY <1>1 DEF Loaded
  <1>3. ~(s < t) /\ ~(t < s)
    BY <1>1, <1>2 DEF DuplicateSlots
  <1> QED BY <1>3, RecordsAssumption DEF Slots

\* What an insert is given: the slots that go, and one that is free once they have.
LEMMA StoreChoices ==
    ASSUME NEW p \in Psks, NEW evicted \in Evictions(p), NEW slot \in AssignedSlot(p, evicted),
           OneRecordEach
    PROVE  /\ evicted \subseteq Occupied /\ Retired(p) \subseteq Occupied
           /\ slot \in Slots
           /\ p \in Held => evicted = {} /\ held[slot] = p
           /\ p \notin Held => slot \in (Slots \ Occupied) \cup Retired(p) \cup evicted
           /\ \A s \in Occupied : held[s] = p => s = slot
  <1>1. evicted \subseteq Occupied
    BY DEF Evictions, Victim
  <1>2. Retired(p) \subseteq Occupied
    BY DEF Retired
  <1>3. p \in Held => evicted = {}
    BY DEF Evictions, MakesRoom
  <1>4. p \in Held => slot \in Slots /\ held[slot] = p
    BY DEF AssignedSlot
  <1>5. p \notin Held => slot \in (Slots \ Occupied) \cup Retired(p) \cup evicted
    BY DEF AssignedSlot, First
  <1>6. slot \in Slots
    BY <1>1, <1>2, <1>4, <1>5 DEF Occupied
  <1>7. ASSUME NEW s \in Occupied, held[s] = p PROVE s = slot
    <2>1. p \in Held /\ held[slot] = p
      BY <1>4, <1>7 DEF Held
    <2>2. p # Free
      BY PsksAssumption
    <2> QED BY <1>6, <1>7, <2>1, <2>2 DEF OneRecordEach, Occupied
  <1> QED BY <1>1, <1>2, <1>3, <1>4, <1>5, <1>6, <1>7

-----------------------------------------------------------------------------
(* Types *)

LEMMA InitType == StoreInit => StoreTypeOK
  <1> SUFFICES ASSUME StoreInit PROVE StoreTypeOK
    OBVIOUS
  <1>1. stored \in [Slots -> Blobs]
    BY PsksAssumption DEF StoreInit, Blobs
  <1>2. held \in [Slots -> Blobs] /\ rank \in [Slots -> Int] /\ dirtySlots \subseteq Slots
    BY <1>1, LoadedType DEF StoreInit
  <1>3. flush \in [pc : {"idle", "poll", "owed", "slots", "write", "commit", "deliver"},
                   notes : SUBSET Psks, todo : SUBSET Slots, order : BOOLEAN,
                   slot : Slots, blob : Blobs, batch : SUBSET (Slots \X Blobs)]
    BY SlotsFinite DEF StoreInit, IdleFlush, Blobs
  <1>4. /\ mutator \in [pc : {"ready", "request", "note"}, paired : Blobs]
        /\ mutator.pc = "ready" /\ mutator.paired = Free
        /\ spent \in [changes : Nat, faults : Nat]
    BY DEF StoreInit, Blobs
  <1>5. persistOwed \in BOOLEAN /\ orderDirty \in BOOLEAN
    BY DEF StoreInit
  <1>6. storedRank \in [Slots -> Int]
    BY DEF StoreInit
  <1>7. resolving = {} /\ notes = {} /\ lost = {}
    BY DEF StoreInit
  <1> QED BY <1>1, <1>2, <1>3, <1>4, <1>5, <1>6, <1>7 DEF StoreTypeOK

LEMMA StepType == StoreTypeOK /\ OneRecordEach /\ [StoreNext]_storeVars => StoreTypeOK'
  <1> SUFFICES ASSUME StoreTypeOK, OneRecordEach, [StoreNext]_storeVars PROVE StoreTypeOK'
    OBVIOUS
  <1> USE DEF StoreTypeOK, ram, client, provider
  <1>1. ASSUME NEW p \in Psks, OpenConnection(p) \/ CloseConnection(p) PROVE StoreTypeOK'
    BY <1>1 DEF OpenConnection, CloseConnection
  <1>2. ASSUME NEW p \in Psks, StoreRecord(p) PROVE StoreTypeOK'
    <2>1. ASSUME NEW evicted \in Evictions(p), NEW slot \in AssignedSlot(p, evicted),
                 StoreSuperseding(p, Retired(p) \cup evicted, slot)
          PROVE  StoreTypeOK'
      <3> DEFINE gone == Retired(p) \cup evicted
      <3>1. gone \in SUBSET Slots /\ slot \in Slots
        BY StoreChoices DEF Occupied
      <3>2. held' \in [Slots -> Blobs]
        BY <2>1 DEF StoreSuperseding, Blobs
      <3>3. RankWithout(gone) \in [Slots -> Int]
        BY <3>1, RankWithoutType
      <3>4. Cardinality(Occupied \ gone) + 1 \in Int
        <4>1. Occupied \ gone \in SUBSET Slots
          BY DEF Occupied
        <4> HIDE DEF gone
        <4>2. Cardinality(Occupied \ gone) \in Nat
          BY <4>1, SlotsFinite
        <4> QED BY <4>2
      <3>5. rank' \in [Slots -> Int]
        BY <2>1, <3>3, <3>4 DEF StoreSuperseding
      <3>6. dirtySlots' \subseteq Slots /\ orderDirty' \in BOOLEAN
        BY <2>1, <3>1 DEF StoreSuperseding, Touched
      <3>7. /\ mutator' = [pc |-> "request", paired |-> p]
            /\ spent' \in [changes : Nat, faults : Nat]
        BY <2>1 DEF StoreSuperseding, Blobs
      <3> QED BY <1>2, <3>2, <3>5, <3>6, <3>7 DEF StoreRecord, Blobs
    <2>2. ASSUME Changed(FALSE), UNCHANGED ram PROVE StoreTypeOK'
      BY <1>2, <2>2 DEF StoreRecord, Changed, Blobs
    <2> QED BY <1>2, <2>1, <2>2 DEF StoreRecord
  <1>3. ASSUME NEW p \in Psks, RemoveRecord(p) PROVE StoreTypeOK'
    <2>1. /\ mutator' \in [pc : {"ready", "request"}, paired : {Free}]
          /\ spent' \in [changes : Nat, faults : Nat]
          /\ resolving' \subseteq Psks
          /\ UNCHANGED <<persistOwed, notes, flush, provider>>
      BY <1>3 DEF RemoveRecord, Changed
    <2>2. CASE p \in Held
      <3>1. SlotOf(p) \in Slots
        BY <2>2 DEF SlotOf, Held, Occupied
      <3>2. RankWithout({SlotOf(p)}) \in [Slots -> Int]
        BY <3>1, RankWithoutType
      <3>3. /\ held' \in [Slots -> Blobs] /\ rank' \in [Slots -> Int]
            /\ dirtySlots' \subseteq Slots /\ orderDirty' \in BOOLEAN
        BY <1>3, <2>2, <3>1, <3>2 DEF RemoveRecord, Blobs
      <3> QED BY <2>1, <3>3 DEF Blobs
    <2>3. CASE p \notin Held
      <3>1. UNCHANGED ram
        BY <1>3, <2>3 DEF RemoveRecord
      <3> QED BY <2>1, <3>1 DEF Blobs
    <2> QED BY <2>2, <2>3
  <1>4. ASSUME NEW p \in Psks, PlayRecord(p) PROVE StoreTypeOK'
    <2>1. SlotOf(p) \in Slots
      BY <1>4 DEF PlayRecord, SlotOf, Held, Occupied
    <2>2. RankWithout({SlotOf(p)}) \in [Slots -> Int]
      BY <2>1, RankWithoutType
    <2>3. Cardinality(Occupied) \in Int
      <3>1. Occupied \in SUBSET Slots
        BY DEF Occupied
      <3> QED BY <3>1, SlotsFinite
    <2>4. rank' \in [Slots -> Int]
      BY <1>4, <2>2, <2>3 DEF PlayRecord
    <2>5. /\ mutator' = [pc |-> "request", paired |-> Free]
          /\ spent' \in [changes : Nat, faults : Nat]
      BY <1>4 DEF PlayRecord, Changed
    <2>6. orderDirty' \in BOOLEAN
      BY <1>4 DEF PlayRecord
    <2>7. UNCHANGED <<held, dirtySlots, resolving, persistOwed, notes, flush, stored,
            storedRank, lost>>
      BY <1>4 DEF PlayRecord
    <2> QED BY <2>4, <2>5, <2>6, <2>7 DEF Blobs
  <1>5. CASE RequestPersist
    <2>1. persistOwed' \in BOOLEAN
      BY <1>5 DEF RequestPersist
    <2>2. /\ mutator' \in [pc : {"ready", "request", "note"}, paired : Blobs]
          /\ mutator'.pc = "ready" => mutator'.paired = Free
          /\ mutator'.pc = "note" => mutator'.paired # Free
      BY <1>5 DEF RequestPersist
    <2> QED BY <1>5, <2>1, <2>2 DEF RequestPersist
  <1>6. CASE QueueSucceeded
    <2>1. mutator.paired \in Psks
      BY <1>6 DEF QueueSucceeded, Blobs
    <2> QED BY <1>6, <2>1 DEF QueueSucceeded, Blobs
  <1> DEFINE Flushes == [pc : {"idle", "poll", "owed", "slots", "write", "commit", "deliver"},
                         notes : SUBSET Psks, todo : SUBSET Slots, order : BOOLEAN,
                         slot : Slots, blob : Blobs, batch : SUBSET (Slots \X Blobs)]
  <1>7. CASE TakeNotes
    BY <1>7 DEF TakeNotes
  <1>8. CASE TakeRequest
    <2>1. flush' \in Flushes /\ persistOwed' \in BOOLEAN
      BY <1>8 DEF TakeRequest
    <2> QED BY <1>8, <2>1 DEF TakeRequest
  <1>9. CASE TakeOwed
    <2>1. flush' \in Flushes
      BY <1>9 DEF TakeOwed
    <2>2. orderDirty' \in BOOLEAN
      BY <1>9 DEF TakeOwed
    <2> QED BY <1>9, <2>1, <2>2 DEF TakeOwed
  <1>10. CASE EncodeSlot
    <2>1. PICK slot \in flush.todo :
              flush' = [flush EXCEPT !.pc = "write", !.todo = @ \ {slot},
                                     !.slot = slot, !.blob = held[slot]]
      BY <1>10 DEF EncodeSlot, First
    <2>2. flush' \in Flushes
      BY <2>1
    <2> QED BY <1>10, <2>2 DEF EncodeSlot
  <1>11. CASE WriteSlot
    <2>1. flush' \in Flushes
      <3>1. flush.batch \cup {<<flush.slot, flush.blob>>} \in SUBSET (Slots \X Blobs)
        OBVIOUS
      <3>2. \/ flush' = [flush EXCEPT !.pc = "slots", !.batch = @ \cup {<<flush.slot, flush.blob>>}]
            \/ flush' = [flush EXCEPT !.pc = "slots"]
        BY <1>11 DEF WriteSlot
      <3> QED BY <3>1, <3>2
    <2>2. stored' \in [Slots -> Blobs] /\ lost' \subseteq Slots
      BY <1>11 DEF WriteSlot
    <2>3. spent' \in [changes : Nat, faults : Nat]
      BY <1>11 DEF WriteSlot, Fails
    <2> QED BY <1>11, <2>1, <2>2, <2>3 DEF WriteSlot
  <1>12. CASE WriteOrder
    <2>1. flush' \in Flushes
      BY <1>12 DEF WriteOrder
    <2>2. storedRank' \in [Slots -> Int]
      BY <1>12 DEF WriteOrder
    <2>3. spent' \in [changes : Nat, faults : Nat]
      BY <1>12 DEF WriteOrder, Fails
    <2> QED BY <1>12, <2>1, <2>2, <2>3 DEF WriteOrder
  <1>13. CASE Commit
    <2> DEFINE slots == {w[1] : w \in flush.batch}
    <2>1. slots \subseteq Slots
      OBVIOUS
    <2>2. flush' \in Flushes
      BY <1>13 DEF Commit
    <2>3. \A s \in slots : (CHOOSE w \in flush.batch : w[1] = s)[2] \in Blobs
      OBVIOUS
    <2>4. stored' \in [Slots -> Blobs]
      BY <1>13, <2>3 DEF Commit
    <2>5. lost' \subseteq Slots
      BY <1>13, <2>1 DEF Commit
    <2>6. spent' \in [changes : Nat, faults : Nat]
      BY <1>13 DEF Commit, Fails
    <2> QED BY <1>13, <2>2, <2>4, <2>5, <2>6 DEF Commit
  <1>14. CASE DeliverNotes
    BY <1>14 DEF DeliverNotes
  <1>15. CASE Reboot
    <2>1. held' \in [Slots -> Blobs] /\ rank' \in [Slots -> Int] /\ dirtySlots' \subseteq Slots
      BY <1>15, LoadedType DEF Reboot, Booted
    <2>2. flush' \in Flushes
      BY <1>15, SlotsFinite DEF Reboot, IdleFlush, Blobs
    <2>3. orderDirty' \in BOOLEAN /\ persistOwed' \in BOOLEAN
      BY <1>15 DEF Reboot, Booted
    <2>4. /\ mutator' = [pc |-> "ready", paired |-> Free]
          /\ spent' \in [changes : Nat, faults : Nat]
          /\ resolving' = {} /\ notes' = {} /\ lost' = {}
          /\ UNCHANGED <<stored, storedRank>>
      BY <1>15 DEF Reboot, Fails
    <2> QED BY <2>1, <2>2, <2>3, <2>4 DEF Blobs
  <1>16. CASE UNCHANGED storeVars
    BY <1>16 DEF storeVars
  <1> QED BY <1>1, <1>2, <1>3, <1>4, <1>5, <1>6, <1>7, <1>8, <1>9, <1>10, <1>11, <1>12, <1>13,
             <1>14, <1>15, <1>16 DEF StoreNext, MutatorTask, MutatorFinishes, FlushStep

-----------------------------------------------------------------------------
(* The inductive invariant *)

Rest == OneRecordEach /\ StoredMatches /\ WritesAreCurrent /\ OwedIsRequested
        /\ SucceededAfterWrite /\ UnderwayInFlush

LEMMA TypeFacts ==
    ASSUME StoreTypeOK
    PROVE  /\ held \in [Slots -> Blobs] /\ stored \in [Slots -> Blobs]
           /\ dirtySlots \subseteq Slots /\ lost \subseteq Slots
           /\ flush.slot \in Slots /\ flush.todo \subseteq Slots
           /\ flush.batch \subseteq Slots \X Blobs
  BY DEF StoreTypeOK

\* A change to records_ that leaves owing every slot it touches disturbs no write underway.
LEMMA ChangeKeepsWrites ==
    ASSUME StoreTypeOK, StoredMatches, WritesAreCurrent, UnderwayInFlush,
           NEW touched \in SUBSET Slots, dirtySlots' = dirtySlots \cup touched,
           \A s \in Slots \ touched : held'[s] = held[s],
           UNCHANGED <<flush, provider>>
    PROVE  StoredMatches' /\ WritesAreCurrent' /\ UnderwayInFlush'
  <1> USE TypeFacts DEF provider
  <1>1. Underway' = Underway
    BY DEF Underway, AtFlush
  <1>2. StoredMatches'
    BY <1>1 DEF StoredMatches
  <1>3. WritesAreCurrent'
    <2>1. ASSUME NEW w \in flush.batch PROVE w[1] \in Slots
      OBVIOUS
    <2> QED BY <2>1 DEF WritesAreCurrent, AtFlush
  <1>4. UnderwayInFlush'
    BY DEF UnderwayInFlush
  <1> QED BY <1>2, <1>3, <1>4

LEMMA InitRest == StoreInit => Rest
  <1> SUFFICES ASSUME StoreInit PROVE Rest
    OBVIOUS
  <1>1. stored \in [Slots -> Blobs]
    BY PsksAssumption DEF StoreInit, Blobs
  <1>2. OneRecordEach
    BY <1>1, LoadedOnce DEF StoreInit, OneRecordEach, Occupied
  <1>3. \A s \in Slots \ dirtySlots : stored[s] = held[s]
    BY DEF StoreInit, Loaded
  <1>4. /\ flush.pc = "idle" /\ flush.todo = {} /\ flush.batch = {} /\ mutator.paired = Free
    BY DEF StoreInit, IdleFlush
  <1>5. StoredMatches /\ WritesAreCurrent /\ UnderwayInFlush /\ SucceededAfterWrite
    BY <1>3, <1>4 DEF StoredMatches, WritesAreCurrent, UnderwayInFlush, SucceededAfterWrite, AtFlush
  <1>6. \A s \in Occupied : s \notin dirtySlots
    BY DEF StoreInit, Occupied, Loaded
  <1>7. OwedIsRequested
    BY <1>6 DEF OwedIsRequested
  <1> QED BY <1>2, <1>5, <1>7 DEF Rest

\* Nothing of the invariant is about the connections, the order or the bounds, ...
LEMMA UnchangedRest ==
    ASSUME Rest, UNCHANGED <<held, dirtySlots, persistOwed, notes, flush, stored, lost>>,
           \/ UNCHANGED mutator
           \/ mutator.pc = "ready" /\ mutator'.paired = mutator.paired
    PROVE  Rest'
  <1>1. Occupied' = Occupied /\ Underway' = Underway
    BY DEF Occupied, Underway, AtFlush
  <1>2. OneRecordEach' /\ StoredMatches' /\ WritesAreCurrent' /\ UnderwayInFlush'
    BY <1>1 DEF Rest, OneRecordEach, StoredMatches, WritesAreCurrent, UnderwayInFlush, AtFlush
  <1>3. OwedIsRequested' /\ SucceededAfterWrite'
    BY <1>1 DEF Rest, OwedIsRequested, SucceededAfterWrite, AtFlush
  <1> QED BY <1>2, <1>3 DEF Rest

\* A pairing's record is in its slot, whatever went is out, and all of it is owed.
LEMMA StoredSlots ==
    ASSUME StoreTypeOK, OneRecordEach, NEW p \in Psks,
           NEW evicted \in Evictions(p), NEW slot \in AssignedSlot(p, evicted),
           StoreSuperseding(p, Retired(p) \cup evicted, slot)
    PROVE  /\ slot \in Slots /\ held'[slot] = p
           /\ \A s \in Slots \ {slot} :
                 held'[s] = IF s \in Retired(p) \cup evicted THEN Free ELSE held[s]
           /\ \A s \in Slots \ {slot} : held'[s] # p
           /\ dirtySlots' = dirtySlots \cup (Retired(p) \cup evicted \cup {slot})
           /\ Retired(p) \cup evicted \subseteq Occupied
  <1> USE TypeFacts, StoreChoices
  <1>1. slot \in Slots /\ held'[slot] = p
    BY DEF StoreSuperseding
  <1>2. \A s \in Slots \ {slot} :
            held'[s] = IF s \in Retired(p) \cup evicted THEN Free ELSE held[s]
    BY DEF StoreSuperseding
  <1>3. ASSUME NEW s \in Slots \ {slot} PROVE held'[s] # p
    BY <1>2, PsksAssumption DEF Occupied
  <1>4. dirtySlots' = dirtySlots \cup (Retired(p) \cup evicted \cup {slot})
    BY DEF StoreSuperseding, Touched
  <1> QED BY <1>1, <1>2, <1>3, <1>4

LEMMA StoreStep ==
    ASSUME StoreTypeOK, Rest, NEW p \in Psks, StoreRecord(p)
    PROVE  Rest'
  <1> USE DEF Rest
  <1>1. ASSUME NEW evicted \in Evictions(p), NEW slot \in AssignedSlot(p, evicted),
               StoreSuperseding(p, Retired(p) \cup evicted, slot)
        PROVE  Rest'
    <2> DEFINE gone == Retired(p) \cup evicted
    <2>1. /\ slot \in Slots /\ held'[slot] = p
          /\ \A s \in Slots \ {slot} : held'[s] = IF s \in gone THEN Free ELSE held[s]
          /\ \A s \in Slots \ {slot} : held'[s] # p
          /\ dirtySlots' = dirtySlots \cup (gone \cup {slot})
          /\ gone \subseteq Occupied
      BY <1>1, StoredSlots
    <2>2. UNCHANGED <<resolving, persistOwed, notes, flush, provider>> /\ Ready
      BY DEF StoreRecord, MayChange
    <2>3. mutator' = [pc |-> "request", paired |-> p]
      BY <1>1 DEF StoreSuperseding
    <2> HIDE DEF gone
    <2>4. OneRecordEach'
      BY <2>1 DEF OneRecordEach, Occupied
    <2>5. gone \cup {slot} \in SUBSET Slots
      BY <2>1 DEF Occupied
    <2>6. StoredMatches' /\ WritesAreCurrent' /\ UnderwayInFlush'
      <3>1. \A s \in Slots \ (gone \cup {slot}) : held'[s] = held[s]
        BY <2>1
      <3>2. UNCHANGED <<flush, provider>> /\ dirtySlots' = dirtySlots \cup (gone \cup {slot})
        BY <2>1, <2>2
      <3> QED BY <2>5, <3>1, <3>2, ChangeKeepsWrites
    <2>7. ASSUME NEW s \in Occupied', s \in dirtySlots'
          PROVE  s = slot \/ (s \in Occupied /\ s \in dirtySlots /\ held'[s] = held[s])
      BY <2>1, <2>7 DEF Occupied
    <2>8. OwedIsRequested'
      BY <2>1, <2>2, <2>3, <2>7 DEF OwedIsRequested, AtFlush, Ready
    <2>9. SucceededAfterWrite'
      <3>1. mutator.paired = Free
        BY <2>2 DEF Ready, StoreTypeOK
      <3>2. \A s \in Occupied : held[s] # mutator.paired
        BY <3>1 DEF Occupied
      <3> QED BY <2>1, <2>2, <2>3, <2>7, <3>2 DEF SucceededAfterWrite
    <2> QED BY <2>4, <2>6, <2>8, <2>9
  <1>2. CASE Changed(FALSE) /\ UNCHANGED ram
    <2>1. UNCHANGED <<held, dirtySlots, persistOwed, notes, flush, stored, lost>> /\ Ready
      BY <1>2 DEF StoreRecord, MayChange, ram, provider
    <2>2. mutator.pc = "ready" /\ mutator.paired = Free /\ mutator'.paired = Free
      BY <1>2, <2>1 DEF Changed, Ready, StoreTypeOK
    <2> QED BY <2>1, <2>2, UnchangedRest
  <1> QED BY <1>1, <1>2 DEF StoreRecord

LEMMA RemoveStep ==
    ASSUME StoreTypeOK, Rest, NEW p \in Psks, RemoveRecord(p)
    PROVE  Rest'
  <1> USE DEF Rest
  <1>1. /\ UNCHANGED <<persistOwed, notes, flush, provider>>
        /\ mutator.paired = Free /\ mutator'.paired = Free
    BY DEF RemoveRecord, MayChange, Ready, Changed, StoreTypeOK
  <1>2. CASE p \in Held
    <2> DEFINE slot == SlotOf(p)
    <2>1. slot \in Slots /\ held[slot] = p
      BY <1>2 DEF Held, Occupied, SlotOf
    <2>2. held' = [held EXCEPT ![slot] = Free] /\ dirtySlots' = dirtySlots \cup {slot}
      BY <1>2 DEF RemoveRecord
    <2>3. mutator.pc = "ready" /\ mutator'.pc = "request"
      BY <1>2 DEF RemoveRecord, MayChange, Ready, Changed
    <2> HIDE DEF slot
    <2>4. held'[slot] = Free /\ \A s \in Slots \ {slot} : held'[s] = held[s]
      BY <2>1, <2>2, TypeFacts
    <2>5. Occupied' \subseteq Occupied /\ \A s \in Occupied' : s # slot /\ held'[s] = held[s]
      BY <2>4 DEF Occupied
    <2>6. OneRecordEach'
      BY <2>5 DEF OneRecordEach
    <2>7. StoredMatches' /\ WritesAreCurrent' /\ UnderwayInFlush'
      BY <1>1, <2>1, <2>2, <2>4, ChangeKeepsWrites
    <2>8. OwedIsRequested'
      BY <1>1, <2>2, <2>3, <2>5 DEF OwedIsRequested, AtFlush
    <2>9. SucceededAfterWrite'
      BY <1>1, <2>2, <2>5 DEF SucceededAfterWrite
    <2> QED BY <2>6, <2>7, <2>8, <2>9
  <1>3. CASE p \notin Held
    <2>1. /\ UNCHANGED <<held, dirtySlots, persistOwed, notes, flush, stored, lost>>
          /\ mutator.pc = "ready"
      BY <1>3 DEF RemoveRecord, MayChange, Ready, ram, provider
    <2> QED BY <1>1, <2>1, UnchangedRest
  <1> QED BY <1>2, <1>3

\* The steps of the protocol task that leave the slots alone.
LEMMA ProtocolStep ==
    ASSUME StoreTypeOK, Rest,
           \/ \E p \in Psks : OpenConnection(p) \/ CloseConnection(p) \/ PlayRecord(p)
           \/ MutatorFinishes
    PROVE  Rest'
  <1>1. ASSUME NEW p \in Psks, OpenConnection(p) \/ CloseConnection(p) PROVE Rest'
    BY <1>1, UnchangedRest DEF OpenConnection, CloseConnection, ram, provider
  <1>2. ASSUME NEW p \in Psks, PlayRecord(p) PROVE Rest'
    <2>1. /\ UNCHANGED <<held, dirtySlots, persistOwed, notes, flush, stored, lost>>
          /\ mutator.pc = "ready" /\ mutator'.paired = Free
      BY <1>2 DEF PlayRecord, MayChange, Ready, Changed, provider
    <2> QED BY <2>1, UnchangedRest DEF StoreTypeOK
  <1>3. CASE RequestPersist
    <2>1. UNCHANGED <<held, dirtySlots, notes, flush, stored, lost>> /\ persistOwed'
          /\ mutator'.paired = mutator.paired
      BY <1>3 DEF RequestPersist, Requested, ram, provider, StoreTypeOK
    <2>2. Occupied' = Occupied /\ Underway' = Underway
      BY <2>1 DEF Occupied, Underway, AtFlush
    <2>3. OneRecordEach' /\ StoredMatches' /\ WritesAreCurrent' /\ UnderwayInFlush'
      BY <2>1, <2>2
         DEF Rest, OneRecordEach, StoredMatches, WritesAreCurrent, UnderwayInFlush, AtFlush
    <2>4. OwedIsRequested' /\ SucceededAfterWrite'
      BY <2>1, <2>2 DEF Rest, OwedIsRequested, SucceededAfterWrite
    <2> QED BY <2>3, <2>4 DEF Rest
  <1>4. CASE QueueSucceeded
    <2>1. /\ UNCHANGED <<held, dirtySlots, persistOwed, flush, stored, lost>>
          /\ notes' = notes \cup {mutator.paired} /\ mutator.pc = "note"
      BY <1>4 DEF QueueSucceeded, ram, provider
    <2>2. Occupied' = Occupied /\ Underway' = Underway
      BY <2>1 DEF Occupied, Underway, AtFlush
    <2>3. OneRecordEach' /\ StoredMatches' /\ WritesAreCurrent' /\ UnderwayInFlush'
      BY <2>1, <2>2
         DEF Rest, OneRecordEach, StoredMatches, WritesAreCurrent, UnderwayInFlush, AtFlush
    <2>4. OwedIsRequested' /\ SucceededAfterWrite'
      BY <2>1, <2>2 DEF Rest, OwedIsRequested, SucceededAfterWrite, AtFlush
    <2> QED BY <2>3, <2>4 DEF Rest
  <1> QED BY <1>1, <1>2, <1>3, <1>4 DEF MutatorFinishes

\* The main loop's steps change neither records_ nor the protocol task's place.
LEMMA FlushKeepsRecords ==
    ASSUME FlushStep
    PROVE  UNCHANGED <<held, mutator>>
  BY DEF FlushStep, TakeNotes, TakeRequest, TakeOwed, EncodeSlot, WriteSlot, WriteOrder, Commit,
         DeliverNotes, ram, client

LEMMA FlushRest ==
    ASSUME StoreTypeOK, Rest, FlushStep
    PROVE  Rest'
  <1> USE TypeFacts
  <1>1. UNCHANGED <<held, mutator>> /\ Occupied' = Occupied
    BY FlushKeepsRecords DEF Occupied
  <1>2. OneRecordEach'
    BY <1>1 DEF Rest, OneRecordEach
  <1>3. CASE TakeNotes
    <2>1. /\ UNCHANGED <<dirtySlots, persistOwed, stored, lost>>
          /\ flush' = [flush EXCEPT !.pc = "poll", !.notes = notes] /\ flush.pc = "idle"
      BY <1>3 DEF TakeNotes, AtFlush, ram, provider
    <2>2. /\ flush'.pc = "poll"
          /\ UNCHANGED <<flush.todo, flush.batch, flush.slot, flush.blob>>
      BY <2>1 DEF StoreTypeOK
    <2>3. Underway' = Underway
      BY <2>1, <2>2 DEF Underway, AtFlush
    <2> QED BY <1>1, <1>2, <2>1, <2>2, <2>3
            DEF Rest, StoredMatches, WritesAreCurrent, OwedIsRequested, SucceededAfterWrite,
                UnderwayInFlush, AtFlush
  <1>4. CASE TakeRequest
    <2>1. /\ UNCHANGED <<dirtySlots, notes, stored, lost>> /\ flush.pc = "poll"
          /\ flush' = [flush EXCEPT !.pc = IF persistOwed THEN "owed" ELSE "deliver"]
      BY <1>4 DEF TakeRequest, AtFlush, ram, provider
    <2>2. /\ flush'.pc = IF persistOwed THEN "owed" ELSE "deliver"
          /\ UNCHANGED <<flush.todo, flush.batch, flush.slot, flush.blob, flush.notes>>
      BY <2>1 DEF StoreTypeOK
    <2>3. Underway' = Underway
      BY <2>1, <2>2 DEF Underway, AtFlush
    <2>4. StoredMatches' /\ WritesAreCurrent' /\ UnderwayInFlush'
      BY <1>1, <2>1, <2>2, <2>3 DEF Rest, StoredMatches, WritesAreCurrent, UnderwayInFlush, AtFlush
    <2>5. OwedIsRequested' /\ SucceededAfterWrite'
      BY <1>1, <2>1, <2>2 DEF Rest, OwedIsRequested, SucceededAfterWrite, AtFlush
    <2> QED BY <1>2, <2>4, <2>5 DEF Rest
  <1>5. CASE TakeOwed
    <2>1. /\ flush' = [flush EXCEPT !.pc = "slots", !.todo = dirtySlots, !.order = orderDirty]
          /\ dirtySlots' = {} /\ flush.pc = "owed" /\ UNCHANGED <<stored, lost>>
      BY <1>5 DEF TakeOwed, AtFlush, provider
    <2>2. flush'.pc = "slots" /\ flush'.todo = dirtySlots /\ UNCHANGED flush.batch
      BY <2>1 DEF StoreTypeOK
    <2>3. flush.batch = {} /\ flush'.batch = {}
      BY <2>1, <2>2 DEF Rest, UnderwayInFlush
    <2>4. Underway = {} /\ Underway' = dirtySlots
      BY <2>1, <2>2, <2>3 DEF Rest, UnderwayInFlush, Underway, AtFlush
    <2> QED BY <1>1, <1>2, <2>1, <2>2, <2>3, <2>4
            DEF Rest, StoredMatches, WritesAreCurrent, OwedIsRequested, SucceededAfterWrite,
                UnderwayInFlush, AtFlush
  <1>6. CASE EncodeSlot
    <2>1. PICK slot \in flush.todo :
              flush' = [flush EXCEPT !.pc = "write", !.todo = @ \ {slot},
                                     !.slot = slot, !.blob = held[slot]]
      BY <1>6 DEF EncodeSlot, First
    <2>2. /\ flush'.pc = "write" /\ flush'.todo = flush.todo \ {slot}
          /\ flush'.slot = slot /\ flush'.blob = held[slot]
          /\ UNCHANGED <<flush.batch, flush.notes>>
      BY <2>1 DEF StoreTypeOK
    <2>3. UNCHANGED <<dirtySlots, persistOwed, notes, stored, lost>> /\ flush.pc = "slots"
      BY <1>6 DEF EncodeSlot, AtFlush, ram, client, provider
    <2>4. Underway' = Underway
      BY <2>2, <2>3 DEF Underway, AtFlush
    <2> QED BY <1>1, <1>2, <2>2, <2>3, <2>4
            DEF Rest, StoredMatches, WritesAreCurrent, OwedIsRequested, SucceededAfterWrite,
                UnderwayInFlush, AtFlush
  <1>7. CASE WriteOrder
    <2>1. /\ flush' = [flush EXCEPT !.pc = IF flush.batch = {} THEN "deliver" ELSE "commit"]
          /\ UNCHANGED <<dirtySlots, persistOwed, notes, stored, lost>> /\ flush.pc = "slots"
          /\ flush.todo = {}
      BY <1>7 DEF WriteOrder, AtFlush, ram, client
    <2>2. /\ flush'.pc = IF flush.batch = {} THEN "deliver" ELSE "commit"
          /\ UNCHANGED <<flush.todo, flush.batch, flush.slot, flush.blob, flush.notes>>
      BY <2>1 DEF StoreTypeOK
    <2>3. Underway' = Underway
      BY <2>1, <2>2 DEF Underway, AtFlush
    <2> QED BY <1>1, <1>2, <2>1, <2>2, <2>3
            DEF Rest, StoredMatches, WritesAreCurrent, OwedIsRequested, SucceededAfterWrite,
                UnderwayInFlush, AtFlush
  <1>8. CASE DeliverNotes
    <2>1. /\ flush' = [flush EXCEPT !.pc = "idle", !.notes = {}]
          /\ UNCHANGED <<dirtySlots, persistOwed, notes, stored, lost>> /\ flush.pc = "deliver"
      BY <1>8 DEF DeliverNotes, AtFlush, ram, client, provider
    <2>2. /\ flush'.pc = "idle"
          /\ UNCHANGED <<flush.todo, flush.batch, flush.slot, flush.blob>>
      BY <2>1 DEF StoreTypeOK
    <2>3. Underway' = Underway
      BY <2>1, <2>2 DEF Underway, AtFlush
    <2> QED BY <1>1, <1>2, <2>1, <2>2, <2>3
            DEF Rest, StoredMatches, WritesAreCurrent, OwedIsRequested, SucceededAfterWrite,
                UnderwayInFlush, AtFlush
  <1>9. CASE WriteSlot
    <2>1. UNCHANGED <<dirtySlots, persistOwed, notes>> /\ flush.pc = "write"
      BY <1>9 DEF WriteSlot, AtFlush, ram, client
    <2>2. \/ /\ flush' = [flush EXCEPT !.pc = "slots",
                                       !.batch = @ \cup {<<flush.slot, flush.blob>>}]
             /\ stored' = [stored EXCEPT ![flush.slot] = flush.blob] \/ UNCHANGED stored
             /\ UNCHANGED lost
          \/ /\ flush' = [flush EXCEPT !.pc = "slots"]
             /\ lost' = lost \cup {flush.slot} /\ UNCHANGED stored
      BY <1>9 DEF WriteSlot
    <2>3. /\ flush'.pc = "slots" /\ UNCHANGED <<flush.todo, flush.notes, flush.slot, flush.blob>>
          /\ \/ /\ flush'.batch = flush.batch \cup {<<flush.slot, flush.blob>>}
                /\ UNCHANGED lost
             \/ flush'.batch = flush.batch /\ lost' = lost \cup {flush.slot}
      BY <2>2 DEF StoreTypeOK
    <2>4. \A s \in Slots \ {flush.slot} : stored'[s] = stored[s]
      BY <2>2
    <2>5. Underway \cup lost \subseteq Underway' \cup lost' /\ flush.slot \in Underway' \cup lost'
      <3>1. Underway = flush.todo \cup {w[1] : w \in flush.batch} \cup {flush.slot}
        BY <2>1 DEF Underway, AtFlush
      <3>2. Underway' = flush.todo \cup {w[1] : w \in flush'.batch}
        BY <2>1, <2>3 DEF Underway, AtFlush
      <3>3. <<flush.slot, flush.blob>>[1] = flush.slot
        OBVIOUS
      <3>4. CASE flush'.batch = flush.batch \cup {<<flush.slot, flush.blob>>} /\ UNCHANGED lost
        <4>1. flush.slot \in {w[1] : w \in flush'.batch}
          BY <3>3, <3>4
        <4>2. {w[1] : w \in flush.batch} \subseteq {w[1] : w \in flush'.batch}
          BY <3>4
        <4> QED BY <3>1, <3>2, <3>4, <4>1, <4>2
      <3>5. CASE flush'.batch = flush.batch /\ lost' = lost \cup {flush.slot}
        BY <3>1, <3>2, <3>5
      <3> QED BY <2>3, <3>4, <3>5
    <2>6. StoredMatches'
      BY <1>1, <2>1, <2>4, <2>5 DEF Rest, StoredMatches
    <2>7. WritesAreCurrent'
      <3>1. \A w \in flush'.batch : w \in flush.batch \/ w = <<flush.slot, flush.blob>>
        BY <2>3
      <3> QED BY <1>1, <2>1, <2>3, <3>1 DEF Rest, WritesAreCurrent, AtFlush
    <2>8. OwedIsRequested' /\ SucceededAfterWrite'
      BY <1>1, <2>1, <2>3 DEF Rest, OwedIsRequested, SucceededAfterWrite, AtFlush
    <2>9. UnderwayInFlush'
      BY <2>1, <2>3 DEF Rest, UnderwayInFlush
    <2> QED BY <1>2, <2>6, <2>7, <2>8, <2>9 DEF Rest
  <1>10. CASE Commit
    <2> DEFINE slots == {w[1] : w \in flush.batch}
    <2>1. /\ UNCHANGED <<dirtySlots, persistOwed, notes>> /\ flush.pc = "commit"
          /\ flush' = [flush EXCEPT !.pc = "deliver", !.batch = {}]
      BY <1>10 DEF Commit, AtFlush, ram, client
    <2>2. /\ flush'.pc = "deliver" /\ flush'.batch = {}
          /\ UNCHANGED <<flush.todo, flush.notes, flush.slot, flush.blob>>
      BY <2>1 DEF StoreTypeOK
    <2>3. \/ /\ stored' = [s \in Slots |->
                              IF s \in slots THEN (CHOOSE w \in flush.batch : w[1] = s)[2]
                              ELSE stored[s]]
             /\ lost' = lost \ slots
          \/ lost' = lost \cup slots /\ UNCHANGED stored
      BY <1>10 DEF Commit
    <2>4. Underway = slots /\ Underway' = {}
      BY <2>1, <2>2 DEF Rest, UnderwayInFlush, Underway, AtFlush
    <2>5. ASSUME NEW s \in slots, s \notin dirtySlots
          PROVE  (CHOOSE w \in flush.batch : w[1] = s)[2] = held[s]
      <3>1. PICK w \in flush.batch : w[1] = s
        OBVIOUS
      <3>2. (CHOOSE w_1 \in flush.batch : w_1[1] = s) \in {w_1 \in flush.batch : w_1[1] = s}
        BY <3>1
      <3> QED BY <2>5, <3>2 DEF Rest, WritesAreCurrent
    <2> HIDE DEF slots
    <2>6. StoredMatches'
      <3> SUFFICES ASSUME NEW s \in Slots, s \notin dirtySlots, s \notin lost'
                   PROVE  stored'[s] = held[s]
        BY <1>1, <2>1, <2>4 DEF StoredMatches
      <3>1. CASE s \in slots
        BY <2>3, <2>5, <3>1
      <3>2. CASE s \notin slots
        BY <2>3, <2>4, <3>2 DEF Rest, StoredMatches
      <3> QED BY <3>1, <3>2
    <2>7. WritesAreCurrent' /\ UnderwayInFlush'
      BY <2>1, <2>2 DEF Rest, WritesAreCurrent, UnderwayInFlush, AtFlush
    <2>8. OwedIsRequested' /\ SucceededAfterWrite'
      BY <1>1, <2>1, <2>2 DEF Rest, OwedIsRequested, SucceededAfterWrite, AtFlush
    <2> QED BY <1>2, <2>6, <2>7, <2>8 DEF Rest
  <1> QED BY <1>3, <1>4, <1>5, <1>6, <1>7, <1>8, <1>9, <1>10 DEF FlushStep

\* A boot starts from what it reads.
LEMMA RebootRest ==
    ASSUME StoreTypeOK, Reboot
    PROVE  Rest'
  <1> USE TypeFacts
  <1>1. /\ held' = Loaded(stored) /\ dirtySlots' = DuplicateSlots(stored)
        /\ UNCHANGED stored /\ flush' = IdleFlush
    BY DEF Reboot, Booted
  <1>2. OneRecordEach'
    BY <1>1, LoadedOnce DEF OneRecordEach, Occupied
  <1>3. \A s \in Slots \ dirtySlots' : stored'[s] = held'[s]
    BY <1>1 DEF Loaded
  <1>4. /\ flush'.pc = "idle" /\ flush'.todo = {} /\ flush'.batch = {}
    BY <1>1 DEF IdleFlush
  <1>5. StoredMatches' /\ WritesAreCurrent' /\ UnderwayInFlush' /\ SucceededAfterWrite'
    BY <1>3, <1>4 DEF StoredMatches, WritesAreCurrent, UnderwayInFlush, SucceededAfterWrite, AtFlush
  <1>6. \A s \in Occupied' : s \notin dirtySlots'
    BY <1>1 DEF Occupied, Loaded
  <1>7. OwedIsRequested'
    BY <1>6 DEF OwedIsRequested
  <1> QED BY <1>2, <1>5, <1>7 DEF Rest

-----------------------------------------------------------------------------
(* The store's invariant, for any number of slots, records and faults: no PSK resolves to two
   records, what a boot would read from a slot that owes nothing and lost nothing is what the
   store holds there, and whoever is told of a pairing is told after its record was handed over. *)
THEOREM StoreInvHolds == StoreSpec => []StoreInv
  <1>1. StoreInit => StoreInv
    BY InitType, InitRest DEF StoreInv, Rest
  <1>2. StoreInv /\ [StoreNext]_storeVars => StoreInv'
    <2> SUFFICES ASSUME StoreInv, [StoreNext]_storeVars PROVE StoreInv'
      OBVIOUS
    <2>1. StoreTypeOK /\ Rest
      BY DEF StoreInv, Rest
    <2>2. StoreTypeOK'
      BY <2>1, StepType DEF Rest
    <2>3. Rest'
      <3>1. ASSUME NEW p \in Psks,
                   \/ OpenConnection(p) \/ CloseConnection(p) \/ StoreRecord(p)
                   \/ RemoveRecord(p) \/ PlayRecord(p)
            PROVE  Rest'
        BY <2>1, <3>1, StoreStep, RemoveStep, ProtocolStep
      <3>2. CASE MutatorFinishes
        BY <2>1, <3>2, ProtocolStep
      <3>3. CASE FlushStep
        BY <2>1, <3>3, FlushRest
      <3>4. CASE Reboot
        BY <2>1, <3>4, RebootRest
      <3>5. CASE UNCHANGED storeVars
        BY <2>1, <3>5, UnchangedRest DEF storeVars, ram, client, provider
      <3> QED BY <3>1, <3>2, <3>3, <3>4, <3>5 DEF StoreNext, MutatorTask
    <2> QED BY <2>2, <2>3 DEF StoreInv, Rest
  <1> QED BY <1>1, <1>2, PTL DEF StoreSpec

-----------------------------------------------------------------------------
(* The book of pairings *)

\* A store in which every slot holds a record of its own holds as many PSKs as records.
LEMMA AsManyAsSlots ==
    ASSUME OneRecordEach
    PROVE  IsFiniteSet(Held) /\ Cardinality(Held) = Cardinality(Occupied)
  <1> DEFINE f == [s \in Occupied |-> held[s]]
  <1>1. Occupied \in SUBSET Slots /\ IsFiniteSet(Occupied)
    BY SlotsFinite DEF Occupied
  <1>2. f \in Injection(Occupied, Held)
    BY DEF Held, OneRecordEach, Injection, IsInjective
  <1>3. f \in Surjection(Occupied, Held)
    BY <1>2 DEF Held, Injection, Surjection
  <1> QED BY <1>1, <1>2, <1>3, FS_Surjection

LEMMA PairStep ==
    ASSUME StoreTypeOK, Rest, NEW p \in Psks, StoreRecord(p)
    PROVE  Book!Pair(p) \/ UNCHANGED Book!bookVars
  <1> USE DEF Rest
  <1>1. ASSUME NEW evicted \in Evictions(p), NEW slot \in AssignedSlot(p, evicted),
               StoreSuperseding(p, Retired(p) \cup evicted, slot)
        PROVE  Book!Pair(p)
    <2> DEFINE psks == {held[s] : s \in evicted}
    <2>1. /\ slot \in Slots /\ held'[slot] = p
          /\ \A s \in Slots \ {slot} :
                held'[s] = IF s \in Retired(p) \cup evicted THEN Free ELSE held[s]
          /\ dirtySlots' = dirtySlots \cup (Retired(p) \cup evicted \cup {slot})
          /\ Retired(p) \cup evicted \subseteq Occupied
      BY <1>1, StoredSlots, ZenonT(40)
    <2>2. psks \in SUBSET (Held \ resolving)
      BY DEF Evictions, Victim, Held
    <2>3. ASSUME psks # {}
          PROVE  /\ Cardinality(psks) = 1 /\ Cardinality(Held) = MaxRecords
                 /\ p \notin Held /\ Siblings(p) \cap Held = {}
      <3>1. MakesRoom(p) /\ evicted \in {{s} : s \in Victim(resolving)}
        BY <2>3 DEF Evictions
      <3>2. PICK s \in Victim(resolving) : evicted = {s}
        BY <3>1
      <3>3. Cardinality(psks) = 1
        <4>1. psks = {held[s]}
          BY <3>2
        <4> QED BY <4>1, FS_Singleton
      <3>4. Cardinality(Held) = MaxRecords
        <4>1. Occupied \in SUBSET Slots /\ Cardinality(Occupied) \in Nat
          BY SlotsFinite DEF Occupied
        <4>2. Cardinality(Occupied) <= MaxRecords
          BY <4>1, SlotsFinite, FS_Subset
        <4>3. ~(Cardinality(Occupied) < MaxRecords)
          BY <3>1 DEF MakesRoom, HasCapacity
        <4> QED BY <4>1, <4>2, <4>3, AsManyAsSlots, RecordsAssumption
      <3>5. p \notin Held /\ Retired(p) = {}
        BY <3>1 DEF MakesRoom
      <3>6. Siblings(p) \cap Held = {}
        BY <3>5 DEF Retired, Held
      <3> QED BY <3>3, <3>4, <3>5, <3>6
    <2>4. Held' = (Held \ (Siblings(p) \cup psks)) \cup {p}
      <3>1. p \in Held'
        BY <2>1, PsksAssumption DEF Held, Occupied
      <3>2. ASSUME NEW q \in Held' PROVE q \in (Held \ (Siblings(p) \cup psks)) \cup {p}
        <4>1. PICK s \in Slots : held'[s] = q /\ q # Free
          BY DEF Held, Occupied
        <4>2. CASE s # slot
          <5>1. s \notin Retired(p) \cup evicted /\ held[s] = q /\ s \in Occupied
            BY <2>1, <4>1, <4>2 DEF Occupied
          <5>2. q \in Held /\ q \notin Siblings(p)
            BY <5>1 DEF Held, Retired
          <5>3. q \notin psks
            BY <2>1, <5>1 DEF OneRecordEach
          <5> QED BY <5>2, <5>3
        <4> QED BY <2>1, <4>1, <4>2
      <3>3. ASSUME NEW q \in Held \ (Siblings(p) \cup psks), q # p PROVE q \in Held'
        <4>1. PICK s \in Occupied : held[s] = q
          BY DEF Held
        <4>2. s \notin Retired(p) \cup evicted
          BY <3>3, <4>1 DEF Retired
        <4>3. s # slot
          BY <2>1, <3>3, <4>1, <4>2, StoreChoices DEF Occupied
        <4>4. held'[s] = q /\ q # Free
          BY <2>1, <4>1, <4>2, <4>3 DEF Occupied
        <4> QED BY <4>1, <4>4 DEF Held, Occupied
      <3> QED BY <3>1, <3>2, <3>3
    <2>5. Safe' = FALSE
      BY <2>1 DEF Safe
    <2>6. UNCHANGED resolving
      BY DEF StoreRecord
    <2> HIDE DEF psks
    <2>7. Book!Siblings(p) = Siblings(p)
      BY DEF Book!Siblings, Siblings
    <2>8. \E gone \in SUBSET (Held \ resolving) :
            /\ gone # {} =>
                  /\ Cardinality(gone) = 1 /\ Cardinality(Held) = MaxRecords
                  /\ p \notin Held /\ Book!Siblings(p) \cap Held = {}
            /\ Held' = (Held \ (Book!Siblings(p) \cup gone)) \cup {p}
      BY <2>2, <2>3, <2>4, <2>7
    <2> QED BY <2>5, <2>6, <2>8 DEF Book!Pair
  <1>2. CASE Changed(FALSE) /\ UNCHANGED ram
    BY <1>2 DEF StoreRecord, ram, provider, Book!bookVars, Safe, Held, Occupied, Underway, AtFlush
  <1> QED BY <1>1, <1>2 DEF StoreRecord

LEMMA RevokeStep ==
    ASSUME StoreTypeOK, Rest, NEW p \in Psks, RemoveRecord(p)
    PROVE  Book!Revoke(p)
  <1> USE TypeFacts DEF Rest
  <1>1. resolving' = resolving \ {p} /\ UNCHANGED <<flush, provider>>
    BY DEF RemoveRecord
  <1>2. CASE p \in Held
    <2> DEFINE slot == SlotOf(p)
    <2>1. slot \in Slots /\ held[slot] = p /\ slot \in Occupied
      BY <1>2, PsksAssumption DEF Held, Occupied, SlotOf
    <2>2. held' = [held EXCEPT ![slot] = Free] /\ dirtySlots' = dirtySlots \cup {slot}
      BY <1>2 DEF RemoveRecord
    <2> HIDE DEF slot
    <2>3. held'[slot] = Free /\ \A s \in Slots \ {slot} : held'[s] = held[s]
      BY <2>1, <2>2
    <2>4. Held' = Held \ {p}
      BY <2>1, <2>3 DEF Held, Occupied, OneRecordEach
    <2>5. Safe' = FALSE
      BY <2>2 DEF Safe
    <2> QED BY <1>1, <1>2, <2>4, <2>5 DEF Book!Revoke
  <1>3. CASE p \notin Held
    <2>1. UNCHANGED <<held, dirtySlots>>
      BY <1>3 DEF RemoveRecord, ram
    <2>2. Held' = Held /\ Safe' = Safe
      BY <1>1, <2>1 DEF Held, Occupied, Safe, Underway, AtFlush, provider
    <2>3. Safe \in BOOLEAN
      BY DEF Safe
    <2> QED BY <1>1, <1>3, <2>2, <2>3 DEF Book!Revoke
  <1> QED BY <1>2, <1>3

LEMMA RestartStep ==
    ASSUME StoreTypeOK, Rest, Reboot
    PROVE  Book!Restart
  <1> USE TypeFacts DEF Rest
  <1>1. /\ held' = Loaded(stored) /\ dirtySlots' = DuplicateSlots(stored)
        /\ flush' = IdleFlush /\ lost' = {} /\ resolving' = {}
    BY DEF Reboot, Booted
  <1>2. held' \in [Slots -> Blobs]
    BY <1>1, LoadedType
  <1>3. Held' \subseteq Psks
    BY <1>2 DEF Held, Occupied, Blobs
  <1>4. Underway' = {}
    BY <1>1 DEF Underway, IdleFlush, AtFlush
  <1>5. ASSUME Safe PROVE Held' = Held /\ Safe'
    <2>1. \A s \in Slots : stored[s] = held[s]
      BY <1>5 DEF Safe, StoredMatches
    <2>2. DuplicateSlots(stored) = {}
      BY <2>1, RecordsAssumption DEF DuplicateSlots, OneRecordEach, Occupied, Slots
    <2>3. \A s \in Slots : held'[s] = held[s]
      BY <1>1, <2>1, <2>2 DEF Loaded
    <2>4. Held' = Held
      BY <2>3 DEF Held, Occupied
    <2>5. Safe'
      BY <1>1, <1>4, <2>2 DEF Safe
    <2> QED BY <2>4, <2>5
  <1>6. Safe' \in BOOLEAN
    BY DEF Safe
  <1> QED BY <1>1, <1>3, <1>5, <1>6 DEF Book!Restart

(* The store keeps the book of pairings, for any number of slots, records and faults: a pairing
   supersedes its server's record and evicts no record in use, a revocation is at once, and once
   every write has landed a restart brings back exactly the records held. *)
THEOREM StoreKeepsBook == StoreSpec => KeepsBook
  <1>1. StoreInit => Book!BookInit
    <2> SUFFICES ASSUME StoreInit PROVE Book!BookInit
      OBVIOUS
    <2>1. StoreTypeOK
      BY InitType
    <2>2. Held \subseteq Psks /\ resolving = {} /\ Safe \in BOOLEAN
      BY <2>1 DEF StoreInit, StoreTypeOK, Held, Occupied, Blobs, Safe
    <2> QED BY <2>2 DEF Book!BookInit
  <1>2. StoreInv /\ [StoreNext]_storeVars => [Book!BookNext]_Book!bookVars
    <2> SUFFICES ASSUME StoreInv, [StoreNext]_storeVars
                 PROVE  Book!BookNext \/ UNCHANGED Book!bookVars
      OBVIOUS
    <2>1. StoreTypeOK /\ Rest
      BY DEF StoreInv, Rest
    <2>2. ASSUME NEW p \in Psks, StoreRecord(p) \/ RemoveRecord(p)
          PROVE  Book!BookNext \/ UNCHANGED Book!bookVars
      BY <2>1, <2>2, PairStep, RevokeStep DEF Book!BookNext
    <2>3. ASSUME NEW p \in Psks, OpenConnection(p) \/ CloseConnection(p)
          PROVE  Book!Open(p) \/ Book!Close(p)
      BY <2>3 DEF OpenConnection, CloseConnection, Book!Open, Book!Close, Held, Occupied, Safe,
                  Underway, AtFlush, ram, provider
    <2>4. ASSUME NEW p \in Psks, PlayRecord(p) PROVE UNCHANGED Book!bookVars
      BY <2>4 DEF PlayRecord, Book!bookVars, Held, Occupied, Safe, Underway, AtFlush, provider
    <2>5. CASE MutatorFinishes
      BY <2>5 DEF MutatorFinishes, RequestPersist, QueueSucceeded, Book!bookVars, Held, Occupied,
                  Safe, Underway, AtFlush, ram, provider
    <2>6. CASE FlushStep
      <3>1. UNCHANGED <<held, resolving>>
        BY <2>6 DEF FlushStep, TakeNotes, TakeRequest, TakeOwed, EncodeSlot, WriteSlot, WriteOrder,
                    Commit, DeliverNotes, ram, client
      <3>2. Held' = Held /\ Safe' \in BOOLEAN
        BY <3>1 DEF Held, Occupied, Safe
      <3> QED BY <3>1, <3>2 DEF Book!BookNext, Book!Settle
    <2>7. CASE Reboot
      BY <2>1, <2>7, RestartStep DEF Book!BookNext
    <2>8. CASE UNCHANGED storeVars
      BY <2>8 DEF storeVars, ram, client, provider, Book!bookVars, Held, Occupied, Safe, Underway,
                  AtFlush
    <2> QED BY <2>2, <2>3, <2>4, <2>5, <2>6, <2>7, <2>8
            DEF StoreNext, MutatorTask, Book!BookNext
  <1> QED BY <1>1, <1>2, StoreInvHolds, PTL DEF StoreSpec, KeepsBook, Book!BookSpec

================================================================================
