--------------------------- MODULE PredictionLedger ---------------------------
(***************************************************************************)
(* What the predictions API promises about one request to classify a scan: *)
(* the abstract specification that Predictor implements.                   *)
(*                                                                         *)
(* A request owns at most one row of the predictions table.  The row is    *)
(* written once, for a scan no other row has; it is resolved at most once, *)
(* and resolving it credits the scan to the statistics of its owner in the *)
(* same step; after that it can only be withdrawn, that is marked failed.  *)
(* A request whose row could not be resolved may be abandoned: marked      *)
(* failed with no credit.                                                  *)
(***************************************************************************)
CONSTANTS Requests,   \* the requests of the run
          ScanOf      \* the scan URL of a request

VARIABLES row,        \* the status of the request's row, "none" before it exists
          committed   \* the requests whose resolution was credited

ledgerVars == <<row, committed>>

Final == {"completed", "failed"}
RowStatus == {"none", "processing"} \cup Final

Init == /\ row = [r \in Requests |-> "none"]
        /\ committed = {}

\* The scan of request r has no row yet.
ScanIsNew(r) ==
    \A s \in Requests : ScanOf[s] = ScanOf[r] => row[s] = "none"

Accept(r) == /\ ScanIsNew(r)
             /\ row' = [row EXCEPT ![r] = "processing"]
             /\ UNCHANGED committed

Resolve(r, status) == /\ row[r] = "processing"
                      /\ r \notin committed
                      /\ row' = [row EXCEPT ![r] = status]
                      /\ committed' = committed \cup {r}

\* Abandoned before it was resolved, or withdrawn after.
Withdraw(r) == /\ row[r] # "none"
               /\ row' = [row EXCEPT ![r] = "failed"]
               /\ UNCHANGED committed

Next == \E r \in Requests :
            \/ Accept(r)
            \/ \E status \in Final : Resolve(r, status)
            \/ Withdraw(r)

Spec == Init /\ [][Next]_ledgerVars

-----------------------------------------------------------------------------
\* Two rows never carry the same scan URL (trash_scan is UNIQUE).
OneRowPerScan ==
    \A r, s \in Requests :
        /\ row[r] # "none"
        /\ row[s] # "none"
        /\ ScanOf[r] = ScanOf[s]
        => r = s

\* A row that reads "completed" was credited to its owner, and nothing is
\* credited that is still processing.
CreditMatchesRow == /\ \A r \in Requests : row[r] = "completed" => r \in committed
                    /\ \A r \in committed : row[r] \in Final
=============================================================================
