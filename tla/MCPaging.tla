------------------------------- MODULE MCPaging --------------------------------
(***************************************************************************)
(* Paging with four rows in pages of two: two full pages, or one and a     *)
(* part, and time for each row to be written and one more write.           *)
(***************************************************************************)
EXTENDS Paging, TLC

CONSTANTS w1, w2, w3, w4

\* Rows are interchangeable.
Symmetry == Permutations(Rows)
=============================================================================
