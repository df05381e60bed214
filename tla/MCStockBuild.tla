---------------------------- MODULE MCStockBuild ----------------------------
(***************************************************************************)
(* Instance of StockBuild for model checking: two requirement rows of one  *)
(* Build compete for the same pieces, which also come and go through the   *)
(* inventory.                                                              *)
(***************************************************************************)
EXTENDS StockBuild, TLC

CONSTANT TheBuild

MCBuildOf == [r \in Reqs |-> TheBuild]

MCSymmetry == Permutations(Reqs) \cup Permutations(Parts) \cup Permutations(Places)
=============================================================================
