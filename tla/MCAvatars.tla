------------------------------- MODULE MCAvatars -------------------------------
(***************************************************************************)
(* Avatars with one file name that every request may use and one name of   *)
(* its own for each.                                                       *)
(***************************************************************************)
EXTENDS Avatars, TLC

CONSTANTS r1, r2, r3, r4, k1, k2, k3, k4, shared

OwnKey == r1 :> k1 @@ r2 :> k2 @@ r3 :> k3 @@ r4 :> k4
MixedKeys == [r \in Requests |-> {shared, OwnKey[r]}]

\* Requests are interchangeable together with the names of their own.
Symmetry ==
    {[x \in DOMAIN p \cup {OwnKey[r] : r \in Requests} |->
          IF x \in Requests THEN p[x]
          ELSE OwnKey[p[CHOOSE r \in Requests : OwnKey[r] = x]]] :
        p \in Permutations(Requests)}
=============================================================================
