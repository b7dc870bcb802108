--------------------------- MODULE ResumePreflight ---------------------------
(***************************************************************************)
(* src/supervisor-policy/resume-preflight.mjs (ASR-4): the last check      *)
(* before a plan is executed, against the checkpoint as it is now and the  *)
(* facts the Host observed. The decision is one of pass, stale_replan,     *)
(* recovery_required, human_required and already_completed; only pass      *)
(* permits execution, and the first check that fails decides.              *)
(***************************************************************************)
EXTENDS CrossWorkerRecovery

RuntimeFacts ==
  [workspace : Workspaces,
   human_block : {"none", "human_required", "safety_block"},
   effect_kind : {"none", "read_only", "mutating", "unknown"},
   effect_status : {"none", "known_not_applied", "applied", "unknown"}]

PlanIsCurrent(c, plan) ==
  /\ plan.task_id = c.task_id
  /\ plan.checkpoint_revision = c.revision
  /\ c.status = "open"

HumanBlocks(c, facts) == ApprovalBlocks(c) \/ facts.human_block # "none"

\* A null branch in the checkpoint leaves the branch unchecked.
WorkspaceMatches(c, plan, facts) ==
  /\ facts.workspace.tree = c.workspace.tree
  /\ facts.workspace.tree = plan.workspace.tree
  /\ c.workspace.branch # None =>
       /\ facts.workspace.branch = c.workspace.branch
       /\ facts.workspace.branch = plan.workspace.branch

GateAlreadyCompleted(c, plan) == plan.gate_id \in c.completed
GateIsOpen(c, plan) == plan.gate_id \in c.open
CompletedGatesUnchanged(c, plan) == plan.completed = c.completed
RefsPresent(c, plan) == plan.refs \subseteq c.refs

\* Mutant: prior claims are not consulted.
ForgottenClaims(plan, priorClaims) == FALSE

AlreadyClaimed(plan, priorClaims) == plan.claim_key \in priorClaims

EffectAlreadyApplied(facts) ==
  facts.effect_status = "applied" /\ facts.effect_kind = "mutating"
EffectUnknown(facts) ==
  facts.effect_kind = "unknown" \/ facts.effect_status = "unknown"

EvaluateResumePreflight(c, plan, facts, priorClaims) ==
  IF ~ PlanIsCurrent(c, plan) THEN "stale_replan"
  ELSE IF ~ c.safe_to_resume THEN "recovery_required"
  ELSE IF HumanBlocks(c, facts) THEN "human_required"
  ELSE IF ~ WorkspaceMatches(c, plan, facts) THEN "recovery_required"
  ELSE IF GateAlreadyCompleted(c, plan) THEN "already_completed"
  ELSE IF ~ GateIsOpen(c, plan) \/ ~ CompletedGatesUnchanged(c, plan)
    THEN "stale_replan"
  ELSE IF ~ RefsPresent(c, plan) THEN "recovery_required"
  ELSE IF AlreadyClaimed(plan, priorClaims) THEN "already_completed"
  ELSE IF EffectUnknown(facts) THEN "recovery_required"
  ELSE IF EffectAlreadyApplied(facts) THEN "already_completed"
  ELSE "pass"
=============================================================================
