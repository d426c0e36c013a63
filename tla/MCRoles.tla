-------------------------------- MODULE MCRoles --------------------------------
(***************************************************************************)
(* The roles that show something, one at a time: the artwork's images and  *)
(* the visualizer's frames. `part` is chosen at the start.                 *)
(***************************************************************************)
EXTENDS ArtworkGate, VisualizerBoundary

VARIABLE part

roleVars == <<artworkVars, visualizerVars, part>>

\* The threads of what is not looked at wait for what no one hands them.
RolesInit ==
    /\ part \in {"artwork", "visualizer"}
    /\ ArtworkInit /\ VisualizerInit

RolesNext ==
    \/ part = "artwork" /\ ArtworkNext /\ UNCHANGED <<visualizerVars, part>>
    \/ part = "visualizer" /\ VisualizerNext /\ UNCHANGED <<artworkVars, part>>

RolesSpec == RolesInit /\ [][RolesNext]_roleVars /\ ArtworkFairness /\ VisualizerFairness

\* What holds in every state: an image is shown whole, of its transfer, never behind its stream's
\* end (ArtworkGate), and no frame is delivered across a boundary told (VisualizerBoundary).
RolesSafe == ArtworkSafe /\ VisualizerSafe

\* No gate stays shut behind an image nobody decodes (ArtworkGate), and no frame of an earlier
\* stream keeps its room (VisualizerBoundary).
NothingStays == GatesReopen /\ StaleIsReturned
=============================================================================
