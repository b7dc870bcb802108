------------------------- MODULE SessionTermination -------------------------
(***************************************************************************)
(* src/supervisor-policy/session-termination.mjs (ASR-2): what the end of  *)
(* a native session allows. A result names neither the session nor the     *)
(* revision it was derived from, so its holder may use it late.            *)
(***************************************************************************)
EXTENDS TaskCheckpoint

TerminationSignals ==
  {"normal_completion", "interrupted", "session_timeout", "runtime_timeout",
   "context_exhausted", "transient_provider_error", "model_stall",
   "tool_runtime_failure", "safety_block", "terminal_task_failure", "unknown"}

\* result(...): the disposition, a label fixed by the other fields, is left out.
Result(classification, reason, sameWorker, reroute, automatic) ==
  [classification |-> classification, reason_code |-> reason,
   same_worker_retry_eligible |-> sameWorker,
   cross_worker_reroute_eligible |-> reroute,
   automatic_resume_eligible |-> automatic]

Ineligible(classification, reason) ==
  Result(classification, reason, FALSE, FALSE, FALSE)

SingleSignalResult(signal) ==
  CASE signal = "normal_completion" ->
         Ineligible("continue_next_phase", "normal_completion_open_task")
    [] signal = "interrupted" ->
         Result("resumable", "session_interrupted", FALSE, FALSE, TRUE)
    [] signal \in {"session_timeout", "runtime_timeout", "context_exhausted"} ->
         Result("resumable", signal, TRUE, FALSE, TRUE)
    [] signal \in {"transient_provider_error", "model_stall"} ->
         Result("retry_same_worker_candidate", signal, TRUE, FALSE, FALSE)
    [] signal = "tool_runtime_failure" ->
         Result("retry_or_reroute_candidate", signal, TRUE, TRUE, FALSE)
    [] signal = "terminal_task_failure" -> Ineligible("terminal", signal)
    [] OTHER -> Ineligible("review_required", "termination_evidence_unknown")

TaskReason(c) ==
  IF c.status = "completed" THEN "task_already_completed" ELSE "task_already_cancelled"
ApprovalReason(c) ==
  IF c.approval = "pending" THEN "approval_pending" ELSE "approval_rejected"

(***************************************************************************)
(* classifySessionTermination: the task's own state outranks the signals,  *)
(* and anything but exactly one signal needs review.                       *)
(***************************************************************************)
ClassifySessionTermination(c, signals) ==
  IF c.status \in {"completed", "cancelled"}
    THEN Ineligible("terminal", TaskReason(c))
  ELSE IF ApprovalBlocks(c)
    THEN Ineligible("human_required", ApprovalReason(c))
  ELSE IF "safety_block" \in signals
    THEN Ineligible("human_required", "safety_block")
  ELSE IF Cardinality(signals) # 1
    THEN Ineligible("review_required", "contradictory_termination_evidence")
  ELSE SingleSignalResult(CHOOSE signal \in signals : TRUE)

Classifications ==
  {"terminal", "continue_next_phase", "resumable", "retry_same_worker_candidate",
   "retry_or_reroute_candidate", "human_required", "review_required"}

Reasons ==
  {"task_already_completed", "task_already_cancelled", "approval_pending",
   "approval_rejected", "safety_block", "contradictory_termination_evidence",
   "termination_evidence_unknown", "normal_completion_open_task",
   "session_interrupted", "session_timeout", "runtime_timeout",
   "context_exhausted", "transient_provider_error", "model_stall",
   "tool_runtime_failure", "terminal_task_failure"}

TerminationResults ==
  [classification : Classifications, reason_code : Reasons,
   same_worker_retry_eligible : BOOLEAN,
   cross_worker_reroute_eligible : BOOLEAN,
   automatic_resume_eligible : BOOLEAN]
=============================================================================
