---------------------------- MODULE InstanceBudget ----------------------------
(***************************************************************************)
(* What the pools promise together, with every await, flag, permit and     *)
(* critical section left out: an admission desk for instances.             *)
(*                                                                         *)
(* An instance takes its place before it is started and keeps it until the *)
(* pool forgets it. Testing both limits and taking the place is one step,  *)
(* a pool opens one instance at a time, and no place is given back twice   *)
(* or kept by nobody.                                                      *)
(***************************************************************************)
EXTENDS Integers, FiniteSets

CONSTANTS
  Pools,
  Instances,
  PoolLimit,    \* max_instances of each pool
  TotalLimit    \* runtime.max_total_instances

VARIABLES
  occupied,     \* the instances that have a place
  opening,      \* those of them that are still being started
  home          \* the pool each instance was admitted for

vars == <<occupied, opening, home>>

PlacesOf(p) == {i \in occupied : home[i] = p}

Init ==
  /\ occupied = {} /\ opening = {}
  /\ home \in [Instances -> Pools]

Admit(p, i) ==
  /\ i \notin occupied
  /\ Cardinality(occupied) < TotalLimit
  /\ Cardinality(PlacesOf(p)) < PoolLimit[p]
  /\ PlacesOf(p) \cap opening = {}
  /\ occupied' = occupied \cup {i}
  /\ opening' = opening \cup {i}
  /\ home' = [home EXCEPT ![i] = p]

(* The instance is ready; it may take over the address, and with it the    *)
(* entry, of others of its pool, which lose their places.                  *)
Open(i, replaced) ==
  /\ i \in opening
  /\ replaced \subseteq PlacesOf(home[i]) \ opening
  /\ occupied' = occupied \ replaced
  /\ opening' = opening \ {i}
  /\ UNCHANGED home

GiveUp(i) ==
  /\ i \in opening
  /\ occupied' = occupied \ {i}
  /\ opening' = opening \ {i}
  /\ UNCHANGED home

Release(R) ==
  /\ R \subseteq occupied \ opening
  /\ occupied' = occupied \ R
  /\ UNCHANGED <<opening, home>>

Next ==
  \/ \E p \in Pools, i \in Instances : Admit(p, i)
  \/ \E i \in opening : GiveUp(i) \/ \E R \in SUBSET occupied : Open(i, R)
  \/ \E R \in SUBSET occupied : Release(R)

Spec == Init /\ [][Next]_vars
=============================================================================
