----------------------------- MODULE MCRecovery -----------------------------
(***************************************************************************)
(* Small instances of Recovery for TLC.                                    *)
(***************************************************************************)
EXTENDS Recovery, TLC

CONSTANTS tree, moved, main

Reports == {{"session_timeout"}, {"tool_runtime_failure"}}
OneWorkspace == {[tree |-> tree, branch |-> main]}
TwoWorkspaces == OneWorkspace \cup {[tree |-> moved, branch |-> None]}

\* No next gate, not safe to resume, and a fresh retry budget.
Continuations ==
  {[gate_id |-> None, safe_to_resume |-> TRUE, reset |-> FALSE]} \cup
  [gate_id : Gates, safe_to_resume : {FALSE}, reset : {FALSE}] \cup
  [gate_id : Gates, safe_to_resume : {TRUE}, reset : {TRUE}]

Symmetry == Permutations(Sessions) \cup Permutations(Workers) \cup Permutations(Hosts)
=============================================================================
