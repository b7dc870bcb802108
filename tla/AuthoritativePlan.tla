------------------------- MODULE AuthoritativePlan -------------------------
(***************************************************************************)
(* The Supervisor's plan (authoritative-plan.mjs): a revision, gates with  *)
(* dependencies and states, and the history of amendments. Lists of gates, *)
(* whose order decides nothing, are sets. A function that may throw        *)
(* returns the set of its results.                                         *)
(***************************************************************************)
EXTENDS GateGraph, PlanAmendment, Sequences

\* What a plan says of its gates. The Supervisor chooses it.
Contents == [gates : SUBSET Gates, requires : Requirements,
             authorized_gates : SUBSET Gates, completed_gates : SUBSET Gates,
             blocked_gates : SUBSET Gates]

Plans == [plan_id : PlanIds, plan_revision : Nat,
          gates : SUBSET Gates, requires : Requirements,
          authorized_gates : SUBSET Gates, completed_gates : SUBSET Gates,
          blocked_gates : SUBSET Gates, amendment_history : Seq(HistoryRecords)]

PlanWith(id, revision, content, history) ==
  [plan_id |-> id, plan_revision |-> revision,
   gates |-> content.gates, requires |-> content.requires,
   authorized_gates |-> content.authorized_gates,
   completed_gates |-> content.completed_gates,
   blocked_gates |-> content.blocked_gates, amendment_history |-> history]

\* Mutant: only a gate that requires itself is noticed.
NoSelfRequirement(requires) == \A gate \in Gates : gate \notin requires[gate]

\* detectCycle lets the dependencies through.
PassesCycleCheck(requires) == Acyclic(requires)

StatesAreDisjoint(p) ==
  /\ p.authorized_gates \cap p.completed_gates = {}
  /\ p.authorized_gates \cap p.blocked_gates = {}
  /\ p.completed_gates \cap p.blocked_gates = {}

AuthorizedAreMet(p) ==
  \A gate \in p.authorized_gates : p.requires[gate] \subseteq p.completed_gates

\* validateAuthoritativePlan, as the condition under which it does not throw.
ValidPlan(p) ==
  /\ p.plan_revision \in PositiveSafeIntegers
  /\ p.gates # {}
  /\ DependenciesAmong(p.gates, p.requires)
  /\ PassesCycleCheck(p.requires)
  /\ p.authorized_gates \cup p.completed_gates \cup p.blocked_gates \subseteq p.gates
  /\ StatesAreDisjoint(p)
  /\ AuthorizedAreMet(p)
  /\ \A i \in 1 .. Len(p.amendment_history) : ValidHistoryRecord(p.amendment_history[i])

\* createAuthoritativePlan with its defaults for revision and history.
CreateAuthoritativePlan(id, content) ==
  {p \in {PlanWith(id, 1, content, <<>>)} : ValidPlan(p)}

-----------------------------------------------------------------------------
ExpectedFinalRecord(plan, proposal, decision) ==
  [proposal_id |-> proposal.proposal_id,
   observed_plan_revision |-> plan.plan_revision,
   applied_plan_revision |-> plan.plan_revision + 1,
   decision |-> decision]

\* Mutant: a proposal made at an earlier revision is taken.
ProposalForPlan(plan, proposal) == proposal.plan_id = plan.plan_id

ProposalTargets(plan, proposal) ==
  /\ proposal.plan_id = plan.plan_id
  /\ proposal.observed_plan_revision = plan.plan_revision

\* next's history is plan's and one more record.
AppendsRecord(plan, next, record) ==
  next.amendment_history = Append(plan.amendment_history, record)

\* The next plan the Supervisor supplies follows plan by that amendment.
FollowsByAmendment(plan, next, record) ==
  /\ ValidHistoryRecord(record)
  /\ next.plan_id = plan.plan_id
  /\ next.plan_revision = plan.plan_revision + 1
  /\ AppendsRecord(plan, next, record)
  /\ ValidPlan(next)

ApplySupervisorPlanAmendment(plan, proposal, decision, next) ==
  LET record == ExpectedFinalRecord(plan, proposal, decision)
  IN  {p \in {plan, next} :
         /\ ProposalTargets(plan, proposal)
         /\ ValidPlan(plan)
         /\ \/ decision = "reject" /\ p = plan
            \/ decision # "reject" /\ p = next /\ FollowsByAmendment(plan, next, record)}

\* createWorkerPlanContext: the revision and the gate a Worker is told.
CreateWorkerPlanContext(plan, gate) ==
  {i \in {[plan_revision |-> plan.plan_revision, gate_id |-> gate]} :
     ValidPlan(plan) /\ gate \in plan.gates \cap plan.authorized_gates}
=============================================================================
