------------------------- MODULE CrossWorkerRecovery -------------------------
(***************************************************************************)
(* src/supervisor-policy/cross-worker-recovery.mjs (ASR-5): the plan to    *)
(* move a task to another worker, and its acknowledgement.                 *)
(***************************************************************************)
EXTENDS SameWorkerRespawn

CrossClaimKey(c, target, after) == ClaimKey(c, target, after)

\* The guards of planCrossWorkerRecovery that come before target selection.
RerouteEligible(c, result, limit) ==
  /\ c.status = "open"
  /\ ~ ApprovalBlocks(c)
  /\ result.classification = "retry_or_reroute_candidate"
  /\ result.reason_code = "tool_runtime_failure"
  /\ result.cross_worker_reroute_eligible
  /\ c.safe_to_resume
  /\ c.retry_count < limit
  /\ c.worker_id \in Workers
  /\ c.native_session_id # None

\* Mutant: the workers reported as failed are forgotten.
OtherWorkers(c, failedWorkers) == Workers \ {c.worker_id}

(***************************************************************************)
(* The workers selectWorker may return. Its ranking depends on worker      *)
(* state the caller passes in, so every supported worker that is not       *)
(* listed as failed is possible; the source is always listed.              *)
(***************************************************************************)
RerouteTargets(c, failedWorkers) == Workers \ (failedWorkers \cup {c.worker_id})

CrossWorkerPlan(c, target, limit) ==
  Envelope(c, "spawn_cross_worker",
           CrossClaimKey(c, target, c.retry_count + 1), target, limit)

(***************************************************************************)
(* acknowledgeCrossWorkerRecovery, in the form of                          *)
(* AcknowledgeSameWorkerRespawn.                                           *)
(***************************************************************************)
IsRepeatedCrossAck(c, plan, session) ==
  /\ c.revision = plan.checkpoint_revision + 1
  /\ c.worker_id = plan.target_worker_id
  /\ c.native_session_id = session
  /\ c.retry_count = plan.retry_count_after

CrossSourceMatches(c, plan) ==
  /\ c.revision = plan.checkpoint_revision
  /\ c.task_id = plan.task_id
  /\ c.worker_id = plan.source_worker_id
  /\ c.native_session_id = plan.source_native_session_id
  /\ c.retry_count = plan.retry_count_before

\* Mutant: the claim is recomputed for the source instead of the target.
CrossTransitionOfSource(c, plan) ==
  /\ plan.claim_key = CrossClaimKey(c, plan.source_worker_id, plan.retry_count_after)
  /\ plan.retry_count_after = plan.retry_count_before + 1
  /\ plan.retry_count_after <= plan.retry_limit

CrossTransitionValid(c, plan) ==
  /\ plan.claim_key = CrossClaimKey(c, plan.target_worker_id, plan.retry_count_after)
  /\ plan.retry_count_after = plan.retry_count_before + 1
  /\ plan.retry_count_after <= plan.retry_limit

CrossInstalled(c, plan, session) ==
  [c EXCEPT !.worker_id = plan.target_worker_id,
            !.native_session_id = session,
            !.retry_count = plan.retry_count_after]

AcknowledgeCrossWorkerRecovery(c, plan, session) ==
  IF \/ plan.action # "spawn_cross_worker"
     \/ plan.source_worker_id = plan.target_worker_id
     \/ plan.target_worker_id \notin Workers
     \/ session = plan.source_native_session_id
    THEN {}
  ELSE IF IsRepeatedCrossAck(c, plan, session) THEN {c}
  ELSE IF CrossSourceMatches(c, plan) /\ CrossTransitionValid(c, plan)
    THEN UpdateTaskCheckpoint(c, CrossInstalled(c, plan, session))
  ELSE {}
=============================================================================
