----------------------------- MODULE MCAdmission -----------------------------
(***************************************************************************)
(* Two connections servers open, one of which never gets past its          *)
(* transport, and one connect_to() opens. Two of them may authenticate     *)
(* with the same record; one of these also without, or to be paired.       *)
(***************************************************************************)
EXTENDS Admission

MCConns    == {"first", "mute", "outbound"}
MCServerOf == [c \in MCConns |-> IF c = "outbound" THEN "s2" ELSE "s1"]
MCOffers   == [c \in MCConns |-> CASE c = "first"    -> {"r1", "sentinel", "pairing"}
                                   [] c = "outbound" -> {"r1"}
                                   [] c = "mute"     -> {}]
=============================================================================
