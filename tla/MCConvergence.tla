--------------------------- MODULE MCConvergence ----------------------------
(***************************************************************************)
(* Instances of Convergence: regions named by their ranks.                 *)
(***************************************************************************)
EXTENDS Convergence

Priority == [r \in Regions |-> r]
=============================================================================
