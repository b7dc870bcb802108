------------------------- MODULE AcceptanceEvidence -------------------------
(***************************************************************************)
(* acceptance-evidence.mjs: what a gate must show, what a Worker submits   *)
(* for it, and the Supervisor's decision, each bound to plan, revision,    *)
(* gate and acceptance spec revision. Descriptions, evidence references,   *)
(* reasons, the two spellings of a Worker's claim and which field a        *)
(* refusal names are left out.                                             *)
(***************************************************************************)
EXTENDS PlanAdmission

CONSTANTS Criteria   \* criterion names

AcceptanceIdentities ==
  [plan_id : PlanIds, plan_revision : PositiveSafeIntegers, gate_id : Gates,
   acceptance_spec_revision : PositiveSafeIntegers]

GateAcceptanceSpecs ==
  [identity : AcceptanceIdentities, criteria : (SUBSET Criteria) \ {{}}]

Submissions == [identity : AcceptanceIdentities, evidence : SUBSET Criteria]

Decisions == [identity : AcceptanceIdentities, decision : {"accept", "reject"}]

\* Mutant: plan_revision stands for the spec's own revision.
MatchesWithoutSpecRevision(left, right) ==
  /\ left.plan_id = right.plan_id
  /\ left.plan_revision = right.plan_revision
  /\ left.gate_id = right.gate_id

\* compareIdentity returns IDENTITY_VALID.
IdentityMatches(left, right) ==
  /\ left.plan_id = right.plan_id
  /\ left.plan_revision = right.plan_revision
  /\ left.gate_id = right.gate_id
  /\ left.acceptance_spec_revision = right.acceptance_spec_revision

\* Every criterion of the spec is covered, and nothing else is.
EvidenceComplete(spec, submission) ==
  /\ submission.evidence \subseteq spec.criteria
  /\ spec.criteria \subseteq submission.evidence

\* evaluateWorkerEvidenceSubmission returns ready_for_supervisor_review.
ReadyForSupervisorReview(spec, submission, current) ==
  /\ IdentityMatches(spec.identity, current)
  /\ IdentityMatches(submission.identity, spec.identity)
  /\ EvidenceComplete(spec, submission)

\* What blocks neither decision.
BoundToCurrent(spec, submission, decision, current) ==
  /\ IdentityMatches(spec.identity, current)
  /\ IdentityMatches(submission.identity, spec.identity)
  /\ IdentityMatches(decision.identity, spec.identity)

(***************************************************************************)
(* applySupervisorAcceptanceDecision: the statuses ACCEPTED and REJECTED   *)
(* it may return, none when the decision is blocked.                       *)
(***************************************************************************)
ApplySupervisorAcceptanceDecision(spec, submission, decision, current) ==
  {status \in {"ACCEPTED", "REJECTED"} :
     /\ BoundToCurrent(spec, submission, decision, current)
     /\ \/ decision.decision = "reject" /\ status = "REJECTED"
        \/ /\ decision.decision = "accept" /\ status = "ACCEPTED"
           /\ ReadyForSupervisorReview(spec, submission, current)}
=============================================================================
