------------------------------ MODULE MCLifecycle ------------------------------
(***************************************************************************)
(* Lifecycle with two requests for each of two processes, two signals for  *)
(* each and one failure.                                                   *)
(***************************************************************************)
EXTENDS Lifecycle

CONSTANTS r1, r2
=============================================================================
