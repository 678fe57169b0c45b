---------------------------- MODULE MCReconciler ----------------------------
(* Small instances of Reconciler for TLC. The calls of register() are      *)
(* interchangeable: sound for safety, and used for that only.              *)
EXTENDS Reconciler, TLC

Symmetry == Permutations(Registers)
=============================================================================
