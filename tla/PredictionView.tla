----------------------------- MODULE PredictionView -----------------------------
(***************************************************************************)
(* What a client that asks for its prediction again and again may see of   *)
(* it: the abstract specification of GET /predictions/{id}.                *)
(*                                                                         *)
(* The status a client has seen never goes back, and a final status is     *)
(* seen for ever, except that a prediction may be withdrawn: what was seen *)
(* as completed is then seen as failed.                                    *)
(***************************************************************************)
CONSTANT Requests     \* the requests whose predictions are asked for

VARIABLES view,       \* the status last seen, "none" before the first
          withdrawn   \* the predictions that may be withdrawn

viewVars == <<view, withdrawn>>

Init == /\ view = [r \in Requests |-> "none"]
        /\ withdrawn = {}

\* What may be seen after what.
Later(r) == CASE view[r] = "none" -> {"processing", "completed", "failed"}
              [] view[r] = "processing" -> {"processing", "completed", "failed"}
              [] view[r] = "completed" -> IF r \in withdrawn
                                          THEN {"completed", "failed"}
                                          ELSE {"completed"}
              [] view[r] = "failed" -> {"failed"}

See(r) == /\ \E status \in Later(r) : view' = [view EXCEPT ![r] = status]
          /\ UNCHANGED withdrawn

Withdraw(r) == /\ withdrawn' = withdrawn \cup {r}
               /\ UNCHANGED view

Next == \E r \in Requests : See(r) \/ Withdraw(r)

Spec == Init /\ [][Next]_viewVars
=============================================================================
