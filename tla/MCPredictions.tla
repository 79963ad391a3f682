----------------------------- MODULE MCPredictions -----------------------------
(***************************************************************************)
(* Predictions with two requests of one user, who is one classified scan   *)
(* short of the next status; the service answers with a known type and     *)
(* two types that have no name.                                            *)
(***************************************************************************)
EXTENDS Predictions

CONSTANTS a1, a2, ann, scan1, scan2

OwnerOf == [r \in Requests |-> ann]
OwnScan == [r \in Requests |-> IF r = a1 THEN scan1 ELSE scan2]
Ratings == [u \in Users |-> 90]
KnownAndNameless == {{0, 6, 7}}

TxFaults == {"startLost", "commit", "commitLost", "fallback"}

\* The steps of the ladder as the comments of models/stats.go give them.
ASSUME LadderSteps ==
    /\ StatusOf(0) = "newbie" /\ StatusOf(99) = "newbie"
    /\ StatusOf(100) = "eco_scout" /\ StatusOf(299) = "eco_scout"
    /\ StatusOf(9999) = "planet_guardian" /\ StatusOf(10000) = "eco_legend"
=============================================================================
