--------------------------- MODULE CompletionGate ---------------------------
(***************************************************************************)
(* supervisor-policy/completion-gate.mjs: what must be so before a task is *)
(* committed, and before it is closed. Evidence is a status per field.     *)
(***************************************************************************)

Pre_Commit_Required ==
  {"acceptance", "tests", "diff", "docs", "agents", "decisions", "memory"}
Final_Required == Pre_Commit_Required \cup {"commit", "push", "tree"}

Notes == [updated |-> TRUE, not_needed |-> TRUE, update_required |-> FALSE]

\* The statuses of a field, and which of them pass; tree has a rule of its own.
Passing ==
  [acceptance |-> [verified |-> TRUE, pending |-> FALSE, rejected |-> FALSE],
   tests |-> [passed |-> TRUE, not_required |-> TRUE, failed |-> FALSE, not_run |-> FALSE],
   diff |-> [inspected |-> TRUE, not_required |-> TRUE, pending |-> FALSE],
   docs |-> Notes, agents |-> Notes, decisions |-> Notes,
   memory |-> [recorded |-> TRUE, not_needed |-> TRUE, record_required |-> FALSE,
               record_failed |-> FALSE],
   commit |-> [created |-> TRUE, not_needed |-> TRUE, pending |-> FALSE],
   push |-> [pushed |-> TRUE, not_needed |-> TRUE, pending |-> FALSE]]

\* Mutant: the remote workspace's status is not known.
Tree_StatusesLocal == {"clean", "dirty", "unknown"}

Tree_Statuses == {"clean", "dirty", "unknown", "not_applicable"}

TreePasses(status, workspace_kind) ==
  status = IF workspace_kind = "remote_only" THEN "not_applicable" ELSE "clean"

Passes(field, evidence, workspace_kind) ==
  IF field = "tree" THEN TreePasses(evidence.tree, workspace_kind)
  ELSE Passing[field][evidence[field]]

\* Mutant: the final stage looks at the repository only.
EvaluateCompletionGateRepository(stage, workspace_kind, evidence) ==
  LET fields == IF stage = "pre_commit" THEN Pre_Commit_Required
                ELSE Final_Required \ Pre_Commit_Required
      blockers == {field \in fields : ~Passes(field, evidence, workspace_kind)}
  IN  [blockers |-> blockers,
       action |-> IF blockers # {} THEN "blocked"
                  ELSE IF stage = "pre_commit" THEN "ready_for_commit" ELSE "close_task"]

EvaluateCompletionGate(stage, workspace_kind, evidence) ==
  LET fields == IF stage = "pre_commit" THEN Pre_Commit_Required ELSE Final_Required
      blockers == {field \in fields : ~Passes(field, evidence, workspace_kind)}
  IN  [blockers |-> blockers,
       action |-> IF blockers # {} THEN "blocked"
                  ELSE IF stage = "pre_commit" THEN "ready_for_commit" ELSE "close_task"]
=============================================================================
