-------------------------- MODULE DurableAuthority --------------------------
(***************************************************************************)
(* supervisor-policy/durable-authority.mjs: the durable record of what the *)
(* owner authorized, and its evaluation for a fresh session. A scope is a  *)
(* set of tokens, a time is a number.                                      *)
(***************************************************************************)
EXTENDS Naturals, Sequences

CONSTANTS Tasks, Attempts, NoRecord, Never

\* What normalizeRecord and normalizeRequest accept, over a set of tokens.
AuthorityRecords(tokens) ==
  [task : Tasks, attempt : Attempts, epoch : Nat \ {0}, scope : (SUBSET tokens) \ {{}},
   status : {"active", "revoked", "expired"},
   expires_at : Nat \cup {Never}, revoked_at : Nat \cup {Never}]

EvaluationRequests(tokens) ==
  [task : Tasks, attempt : Attempts, required_epoch : Nat \ {0},
   requested_scope : (SUBSET tokens) \ {{}}, evaluated_at : Nat]

Reached(time, at) == time # Never /\ time <= at

\* Mutant: the status is trusted, and the times are not looked at.
ReasonByStatus(record, request) ==
  IF record = NoRecord THEN "authority_absent"
  ELSE IF record.task # request.task THEN "task_mismatch"
  ELSE IF record.attempt # request.attempt THEN "attempt_mismatch"
  ELSE IF record.epoch # request.required_epoch THEN "epoch_mismatch"
  ELSE IF record.status # "active" THEN "authority_revoked"
  ELSE IF ~(request.requested_scope \subseteq record.scope) THEN "scope_exceeded"
  ELSE "authority_valid"

Reason(record, request) ==
  IF record = NoRecord THEN "authority_absent"
  ELSE IF record.task # request.task THEN "task_mismatch"
  ELSE IF record.attempt # request.attempt THEN "attempt_mismatch"
  ELSE IF record.epoch # request.required_epoch THEN "epoch_mismatch"
  ELSE IF record.status = "revoked" \/ Reached(record.revoked_at, request.evaluated_at)
       THEN "authority_revoked"
  ELSE IF record.status = "expired" \/ Reached(record.expires_at, request.evaluated_at)
       THEN "authority_expired"
  ELSE IF ~(request.requested_scope \subseteq record.scope) THEN "scope_exceeded"
  ELSE "authority_valid"

EvaluateDurableAuthority(record, request) ==
  LET reason == Reason(record, request)
  IN  [decision |-> IF reason = "authority_valid" THEN "authorized" ELSE "human_required",
       reason |-> reason]

Decisions == {"authorized", "human_required"}
Reasons == {"authority_absent", "task_mismatch", "attempt_mismatch", "epoch_mismatch",
            "authority_revoked", "authority_expired", "scope_exceeded", "authority_valid"}

Projections(tokens) ==
  [record : AuthorityRecords(tokens) \cup {NoRecord}, request : EvaluationRequests(tokens),
   evaluation : [decision : Decisions, reason : Reasons]]

\* A copy of what was evaluated, with the result.
CreateAuthorityProjection(record, request) ==
  [record |-> record, request |-> request,
   evaluation |-> EvaluateDurableAuthority(record, request)]
=============================================================================
