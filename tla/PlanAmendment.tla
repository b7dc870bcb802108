--------------------------- MODULE PlanAmendment ---------------------------
(***************************************************************************)
(* Amendment proposals, Supervisor reviews and history records             *)
(* (plan-amendment.mjs). A review is its decision. What a proposal says    *)
(* about gates, evidence and execution, who made it, and the reasons given *)
(* are left out: no function decides by them.                              *)
(***************************************************************************)
EXTENDS Naturals

CONSTANTS
  PlanIds,        \* plans the Supervisor keeps
  ProposalIds,    \* identities a Worker may give a proposal
  None,           \* null
  MaxSafeInteger  \* the largest integer validation accepts

ASSUME AmendmentAssumption == MaxSafeInteger \in Nat /\ None \notin Nat

PositiveSafeIntegers == 1 .. MaxSafeInteger

ReviewDecisions == {"accept", "modify", "reject"}

Proposals == [proposal_id : ProposalIds, plan_id : PlanIds,
              observed_plan_revision : PositiveSafeIntegers]

\* A record may name any revision before it is validated.
HistoryRecords == [proposal_id : ProposalIds, observed_plan_revision : Nat,
                   applied_plan_revision : Nat \cup {None},
                   decision : ReviewDecisions]

ValidHistoryRecord(r) ==
  /\ r.observed_plan_revision \in PositiveSafeIntegers
  /\ \/ r.decision = "reject" /\ r.applied_plan_revision = None
     \/ r.decision # "reject" /\ r.applied_plan_revision \in PositiveSafeIntegers
=============================================================================
