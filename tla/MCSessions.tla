------------------------------- MODULE MCSessions -------------------------------
(***************************************************************************)
(* Sessions and Access with three requests about one user and one about    *)
(* another: one to be given a pair and two to compete with it or to use    *)
(* it.  A client calls the routes with the tokens; an access token lives   *)
(* for one tick and a refresh token for two.                               *)
(***************************************************************************)
EXTENDS Access, TLC

CONSTANTS a1, a2, a3, b1, ann, bob

MCUserOf == [r \in Requests |-> IF r = b1 THEN bob ELSE ann]
MCRoleOf == [u \in Users |-> IF u = bob THEN "admin" ELSE "user"]

\* The requests of ann are interchangeable.
Symmetry == Permutations({a1, a2, a3})
=============================================================================
