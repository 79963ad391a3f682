------------------------------ MODULE MCPredictor ------------------------------
(***************************************************************************)
(* Predictor on small instances.  a1 and a2 belong to the same user and    *)
(* meet in the row of stats; b1 carries the scan of a1, so it meets a1 in  *)
(* scansInProcessing and in the UNIQUE index.                              *)
(***************************************************************************)
EXTENDS Predictor

CONSTANTS a1, a2, b1, ann, bob, scan1, scan2

TwoOwners == [r \in Requests |-> IF r = b1 THEN bob ELSE ann]
OneOwner == [r \in Requests |-> ann]
SharedScan == [r \in Requests |-> IF r = a2 THEN scan2 ELSE scan1]

AllFaults == {"start", "startLost", "begin", "complete", "getUser",
              "updateStats", "commit", "commitLost", "fallback"}
\* The fallback always reaches the database.
FallbackWorks == AllFaults \ {"fallback"}
=============================================================================
