-------------------------- MODULE ArtifactRegister --------------------------
(***************************************************************************)
(* What the delivery wrapper promises: the final path is a register that   *)
(* holds whole artifacts. A delivery replaces it in one step or leaves it  *)
(* as it was, and reports nothing but what it put there.                   *)
(***************************************************************************)
EXTENDS Naturals

CONSTANTS Deliveries, Artifacts, Foreign, NoArtifact

VARIABLES
  final,     \* what is at the final path
  promoted,  \* promoted[d]: the artifact delivery d put there
  refused,   \* the deliveries that ended without a promotion
  receipts,  \* <<d, artifact>> for each receipt printed
  others     \* how often others than the deliveries acted

vars == <<final, promoted, refused, receipts, others>>

Init ==
  /\ final \in Foreign
  /\ promoted = [d \in Deliveries |-> NoArtifact]
  /\ refused = {}
  /\ receipts = {}
  /\ others = 1

Promote(d) ==
  /\ promoted[d] = NoArtifact
  /\ d \notin refused
  /\ final' \in Artifacts
  /\ promoted' = [promoted EXCEPT ![d] = final']
  /\ UNCHANGED <<refused, receipts, others>>

Refuse(d) ==
  /\ promoted[d] = NoArtifact
  /\ refused' = refused \cup {d}
  /\ UNCHANGED <<final, promoted, receipts, others>>

Report(d) ==
  /\ promoted[d] # NoArtifact
  /\ receipts' = receipts \cup {<<d, promoted[d]>>}
  /\ UNCHANGED <<final, promoted, refused, others>>

\* Somebody else acts, and may take or clear the path.
Occupy ==
  /\ others' = others + 1
  /\ final' \in Foreign \cup {final}
  /\ UNCHANGED <<promoted, refused, receipts>>

Next ==
  \/ \E d \in Deliveries :
       \/ Promote(d)
       \/ Refuse(d)
       \/ Report(d)
  \/ Occupy

Spec == Init /\ [][Next]_vars
=============================================================================
