------------------------------- MODULE MCAccounts -------------------------------
(***************************************************************************)
(* Accounts with four requests, three for one login and one for another;   *)
(* any of them may register or act on an account that exists.              *)
(***************************************************************************)
EXTENDS Accounts, TLC

CONSTANTS a1, a2, a3, b1, ann, bob, short1, short2, long

MCLoginOf == [r \in Requests |-> IF r = b1 THEN bob ELSE ann]

\* The requests for ann are interchangeable, and so are the short passwords.
Symmetry == Permutations({a1, a2, a3}) \cup Permutations({short1, short2})
=============================================================================
