----------------------------- MODULE GateGraph -----------------------------
(***************************************************************************)
(* Dependencies between the gates of a plan: requires[g] is the set of     *)
(* gates that must be completed before g, {} for a gate without an entry   *)
(* in plan.dependencies (an entry never has an empty list).                *)
(***************************************************************************)
CONSTANTS Gates   \* every gate name a plan may use

Requirements == [Gates -> SUBSET Gates]

\* normalizeDependency: both ends are gates of the plan, and differ.
DependenciesAmong(gates, requires) ==
  \A gate \in Gates : requires[gate] # {} =>
    gate \in gates /\ requires[gate] \subseteq gates \ {gate}

\* Among any gates there is one that can go first: it requires none of them.
Acyclic(requires) ==
  \A S \in SUBSET Gates : S # {} => \E gate \in S : requires[gate] \cap S = {}
=============================================================================
