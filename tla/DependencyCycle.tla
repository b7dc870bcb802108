-------------------------- MODULE DependencyCycle --------------------------
(***************************************************************************)
(* detectCycle (authoritative-plan.mjs): a depth-first search of the gate  *)
(* dependencies, one call of visit at a time. It throws at the first gate  *)
(* it meets on its own path. The order of the dependencies and of each     *)
(* requires list is part of the input; here it is any order.               *)
(***************************************************************************)
EXTENDS GateGraph, Integers, Sequences

VARIABLES
  requires,  \* the input
  roots,     \* entries the outer loop has still to visit
  state,     \* what the search knows of a gate
  todo,      \* requirements the loop inside visit(gate) has still to visit
  path,      \* gates of the calls of visit in progress, outermost first
  cycle      \* the gates the error names, <<>> while none was thrown

vars == <<requires, roots, state, todo, path, cycle>>

Searching == cycle = <<>> /\ (path # <<>> \/ roots # {})
Accepted == cycle = <<>> /\ path = <<>> /\ roots = {}

Current == path[Len(path)]

\* Mutant: a loop that does not move on.
RestKept(iteration, gate) == iteration

\* What a loop has still to visit after gate.
Rest(iteration, gate) == iteration \ {gate}

\* Mutant: the whole path is reported.
CycleStartAtRoot(gate) == 1

\* path.indexOf(gate)
CycleStart(gate) == CHOOSE i \in DOMAIN path : path[i] = gate

-----------------------------------------------------------------------------
\* Mutant: one mark, "seen", instead of two.
VisitMarkingDone(gate) ==
  /\ state' = [state EXCEPT ![gate] = "done"]
  /\ path' = IF state[gate] = "new" THEN Append(path, gate) ELSE path
  /\ UNCHANGED cycle

Visit(gate) ==
  \/ /\ state[gate] = "done"
     /\ UNCHANGED <<state, path, cycle>>
  \/ /\ state[gate] = "visiting"
     /\ cycle' = Append(SubSeq(path, CycleStart(gate), Len(path)), gate)
     /\ UNCHANGED <<state, path>>
  \/ /\ state[gate] = "new"
     /\ state' = [state EXCEPT ![gate] = "visiting"]
     /\ path' = Append(path, gate)
     /\ UNCHANGED cycle

VisitRoot(gate) ==
  /\ Searching
  /\ path = <<>>
  /\ gate \in roots
  /\ roots' = Rest(roots, gate)
  /\ Visit(gate)
  /\ UNCHANGED <<requires, todo>>

VisitRequired(gate) ==
  /\ Searching
  /\ path # <<>>
  /\ gate \in todo[Current]
  /\ todo' = [todo EXCEPT ![Current] = Rest(@, gate)]
  /\ Visit(gate)
  /\ UNCHANGED <<requires, roots>>

\* visit(Current) returns.
Finish ==
  /\ Searching
  /\ path # <<>>
  /\ todo[Current] = {}
  /\ state' = [state EXCEPT ![Current] = "done"]
  /\ path' = SubSeq(path, 1, Len(path) - 1)
  /\ UNCHANGED <<requires, roots, todo, cycle>>

Init ==
  /\ requires \in {r \in Requirements : DependenciesAmong(Gates, r)}
  /\ roots = {gate \in Gates : requires[gate] # {}}
  /\ state = [gate \in Gates |-> "new"]
  /\ todo = requires
  /\ path = <<>>
  /\ cycle = <<>>

Next ==
  \/ \E gate \in Gates : VisitRoot(gate) \/ VisitRequired(gate)
  \/ Finish

Spec == Init /\ [][Next]_vars /\ WF_vars(Next)

-----------------------------------------------------------------------------
\* Every variable holds what detectCycle keeps in it.
TypeOK ==
  /\ requires \in Requirements
  /\ roots \in SUBSET Gates
  /\ state \in [Gates -> {"new", "visiting", "done"}]
  /\ todo \in Requirements
  /\ path \in Seq(Gates)
  /\ cycle \in Seq(Gates)

(***************************************************************************)
(* A dependency list that detectCycle lets through has no cycle: the marks *)
(* "visiting" and "done" and the skipping of gates seen before lose none.  *)
(***************************************************************************)
AcceptedIsAcyclic == Accepted => Acyclic(requires)

(***************************************************************************)
(* The gates the error lists are a cycle: each requires the next, and the  *)
(* last is the first. A list that is acyclic is never refused.             *)
(***************************************************************************)
ReportedCycleIsReal ==
  cycle # <<>> =>
    /\ Len(cycle) > 1
    /\ cycle[1] = cycle[Len(cycle)]
    /\ \A i \in 1 .. Len(cycle) - 1 : cycle[i + 1] \in requires[cycle[i]]

(***************************************************************************)
(* The search ends on every list, with or without cycles. Fairness only    *)
(* says that the function keeps running.                                   *)
(***************************************************************************)
SearchEnds == <>[](~ Searching)

=============================================================================
