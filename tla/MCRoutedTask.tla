---------------------------- MODULE MCRoutedTask ----------------------------
(* Instances of RoutedTask for TLC. *)
EXTENDS RoutedTask

Task(class, mode, required) ==
  [task_class |-> class, mode |-> mode, risk_class |-> None, shortcuts |-> {},
   required_capabilities |-> required, stages_requested |-> None]

Engineering == Task("general_engineering", "coding", {})
MixedExtended ==
  [Task("mixed", "coding", {}) EXCEPT !.stages_requested = <<"evidence_acquisition", "extension_capability">>]
Bounded == [Engineering EXCEPT !.shortcuts = {"bounded_mutation_scope"}]
MCSomeTasks == {Engineering, MixedExtended, Bounded}
MCSomePreferences == {None, "pi"}
MCGoodContext == {[project_contract_present |-> TRUE, task_contract_conflict |-> FALSE]}

\* The levels next to the thresholds, and windows that were not observed.
MCLimits ==
  {None} \cup [reached : BOOLEAN, primary : {None, 0, 10, 25, 60}, secondary : {None, 0, 10, 60}]

Health(claude, codex, pi) == [claude |-> claude, codex |-> codex, pi |-> pi]

Quota(primary, secondary) == [reached |-> FALSE, primary |-> primary, secondary |-> secondary]
MCSomeReadings ==
  [health : {Health("available", "available", "available"),
             Health("available", "degraded", "unavailable")},
   limits : {None, Quota(None, 0), Quota(None, 10), Quota(25, 60)}]
=============================================================================
