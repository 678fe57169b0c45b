---------------------------- MODULE MCRegistry ----------------------------
EXTENDS Registry, TLC

(* The deploys of one kind are interchangeable, and so are the deletes.    *)
(* Sound for the safety properties only, and used for those only.          *)
Symmetry ==
  Permutations(Deploys \ ImageDeploys) \cup Permutations(Deletes)
=============================================================================
