--------------------------- MODULE MCInstancePool ---------------------------
(* Small instances of InstancePool for TLC.                                *)
EXTENDS InstancePool, TLC

CONSTANTS SmallPool, MaxSmall, MaxLarge

MCMaxInstances == [p \in Pools |-> IF p = SmallPool THEN MaxSmall ELSE MaxLarge]

Symmetry == Permutations(Requests) \cup Permutations(Instances)
=============================================================================
