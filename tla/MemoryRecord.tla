---------------------------- MODULE MemoryRecord ----------------------------
(***************************************************************************)
(* supervisor-policy/memory-policy.mjs, recording: which fact may enter    *)
(* durable memory, and by whose hand.                                      *)
(***************************************************************************)

Durable_Memory_Categories ==
  {"verified_decision", "business_rule", "architecture_constraint", "verified_root_cause",
   "reusable_sop"}
Excluded_Memory_Categories ==
  {"raw_log", "transcript", "worker_self_report", "unverified_hypothesis",
   "temporary_task_state", "credential_or_secret", "raw_command_output"}

Actors == {"supervisor", "supervisor_authorized_pipeline", "worker_bridge_hook",
           "worker_model"}

\* Mutant: a verified fact needs no accepted task.
RecordReasonVerified(fact, actor, accepted) ==
  IF actor = "worker_model" THEN "worker_model_cannot_authorize_durable_memory"
  ELSE IF actor = "worker_bridge_hook" THEN "bridge_hook_transports"
  ELSE IF fact.category \in Excluded_Memory_Categories THEN "excluded_category"
  ELSE IF fact.category \notin Durable_Memory_Categories THEN "category_not_allowlisted"
  ELSE IF ~fact.verified THEN "not_verified"
  ELSE IF fact.contains_secret THEN "contains_secret"
  ELSE IF fact.ephemeral THEN "ephemeral_fact"
  ELSE "verified_durable_allowlisted_fact"

RecordReason(fact, actor, accepted) ==
  IF actor = "worker_model" THEN "worker_model_cannot_authorize_durable_memory"
  ELSE IF actor = "worker_bridge_hook" THEN "bridge_hook_transports"
  ELSE IF fact.category \in Excluded_Memory_Categories THEN "excluded_category"
  ELSE IF fact.category \notin Durable_Memory_Categories THEN "category_not_allowlisted"
  ELSE IF ~fact.verified THEN "not_verified"
  ELSE IF ~accepted THEN "task_not_accepted"
  ELSE IF fact.contains_secret THEN "contains_secret"
  ELSE IF fact.ephemeral THEN "ephemeral_fact"
  ELSE "verified_durable_allowlisted_fact"

EvaluateRecordPolicy(fact, actor, accepted) ==
  LET reason == RecordReason(fact, actor, accepted)
  IN  IF reason = "verified_durable_allowlisted_fact" THEN "record"
      ELSE IF actor = "worker_bridge_hook" THEN "candidate_episode_only"
      ELSE "do_not_record"
=============================================================================
