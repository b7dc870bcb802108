-------------------------- MODULE SameWorkerRespawn --------------------------
(***************************************************************************)
(* src/supervisor-policy/same-worker-respawn.mjs (ASR-3): the plan to      *)
(* replace an ended session by a new one of the same worker, and the       *)
(* acknowledgement that installs the new session in the checkpoint.        *)
(***************************************************************************)
EXTENDS SessionTermination

RespawnReasons ==
  {"session_interrupted", "session_timeout", "runtime_timeout",
   "context_exhausted", "transient_provider_error", "model_stall"}

(***************************************************************************)
(* claimKey: a digest of a tuple, modelled as the tuple itself (two claims *)
(* are equal exactly when their tuples are). A same-worker tuple has no    *)
(* target, which keeps it apart from every cross-worker tuple.             *)
(***************************************************************************)
ClaimKey(c, target, after) ==
  [task_id |-> c.task_id, revision |-> c.revision, worker_id |-> c.worker_id,
   session |-> c.native_session_id, target |-> target, retry_after |-> after]

RespawnClaimKey(c, after) == ClaimKey(c, None, after)

\* The guards of planSameWorkerRespawn: all hold exactly when it plans.
RespawnEligible(c, result, limit) ==
  /\ c.status = "open"
  /\ result.classification \in {"resumable", "retry_same_worker_candidate"}
  /\ result.reason_code \in RespawnReasons
  /\ result.automatic_resume_eligible \/ result.same_worker_retry_eligible
  /\ c.safe_to_resume
  /\ ~ ApprovalBlocks(c)
  /\ c.retry_count < limit
  /\ c.worker_id # None
  /\ c.native_session_id # None

(***************************************************************************)
(* The envelope: source identity, retry transition and a snapshot of the   *)
(* material the continuation needs. target_worker_id is the worker the     *)
(* acknowledgement installs; a same-worker plan names it only as source.   *)
(***************************************************************************)
Envelope(c, action, claim, target, limit) ==
  [action |-> action, claim_key |-> claim, task_id |-> c.task_id,
   checkpoint_revision |-> c.revision, source_worker_id |-> c.worker_id,
   source_native_session_id |-> c.native_session_id,
   target_worker_id |-> target, gate_id |-> c.gate_id,
   retry_count_before |-> c.retry_count, retry_count_after |-> c.retry_count + 1,
   retry_limit |-> limit, workspace |-> c.workspace,
   completed |-> c.completed, refs |-> c.refs]

RespawnPlan(c, limit) ==
  Envelope(c, "spawn_same_worker", RespawnClaimKey(c, c.retry_count + 1),
           c.worker_id, limit)

(***************************************************************************)
(* acknowledgeSameWorkerRespawn, as the set of checkpoints it can return:  *)
(* empty when it throws, the unchanged checkpoint for a repeated           *)
(* acknowledgement, the next revision for the first one.                   *)
(***************************************************************************)
IsRepeatedRespawnAck(c, plan, session) ==
  /\ c.revision = plan.checkpoint_revision + 1
  /\ c.native_session_id = session
  /\ c.worker_id = plan.source_worker_id
  /\ c.retry_count = plan.retry_count_after

RespawnSourceMatches(c, plan) ==
  /\ c.revision = plan.checkpoint_revision
  /\ c.task_id = plan.task_id
  /\ c.worker_id = plan.source_worker_id
  /\ c.native_session_id = plan.source_native_session_id
  /\ c.retry_count = plan.retry_count_before

RespawnTransitionValid(c, plan) ==
  /\ plan.claim_key = RespawnClaimKey(c, plan.retry_count_after)
  /\ plan.retry_count_after = plan.retry_count_before + 1
  /\ plan.retry_count_after <= plan.retry_limit

\* Mutant: the respawn is not counted.
RespawnInstalledUncounted(c, plan, session) ==
  [c EXCEPT !.native_session_id = session]

RespawnInstalled(c, plan, session) ==
  [c EXCEPT !.worker_id = plan.source_worker_id,
            !.native_session_id = session,
            !.retry_count = plan.retry_count_after]

\* Mutant: the plan is trusted, and not compared with the checkpoint.
AcknowledgeUncheckedRespawn(c, plan, session) ==
  IF plan.action # "spawn_same_worker" THEN {}
  ELSE UpdateTaskCheckpoint(c, RespawnInstalled(c, plan, session))

AcknowledgeSameWorkerRespawn(c, plan, session) ==
  IF plan.action # "spawn_same_worker" \/ session = plan.source_native_session_id
    THEN {}
  ELSE IF IsRepeatedRespawnAck(c, plan, session) THEN {c}
  ELSE IF RespawnSourceMatches(c, plan) /\ RespawnTransitionValid(c, plan)
    THEN UpdateTaskCheckpoint(c, RespawnInstalled(c, plan, session))
  ELSE {}
=============================================================================
