--------------------------- MODULE GateLifecycle ---------------------------
(***************************************************************************)
(* Plans, Workers and the Supervisor around the functions of               *)
(* AuthoritativePlan, PlanAdmission and AcceptanceEvidence. The functions  *)
(* keep nothing; the Supervisor keeps each plan and changes it only by     *)
(* amendment. Everything else is a message that may be used late, again    *)
(* or never: a request to run a gate, a proposal, an acceptance spec, a    *)
(* submission, a decision.                                                 *)
(***************************************************************************)
EXTENDS AcceptanceEvidence, FiniteSets

CONSTANTS
  ContentInputs,   \* what the Supervisor may make of a plan
  CriteriaInputs,  \* the criteria it may ask for
  EvidenceInputs,  \* the criteria a Worker may show evidence for
  MaxMessages      \* bound: requests, specs and submissions there may be, of each

ASSUME LifecycleAssumption ==
  /\ ContentInputs \subseteq Contents
  /\ CriteriaInputs \subseteq (SUBSET Criteria) \ {{}}
  /\ EvidenceInputs \subseteq SUBSET Criteria
  /\ MaxMessages \in Nat

VARIABLES
  plan,         \* plan[p]: the authoritative plan
  requested,    \* identities Workers were asked to run under
  admitted,     \* identities Workers run under
  proposals,    \* amendment proposals
  specs,        \* acceptance specs published
  submissions,  \* evidence submitted
  decided       \* decisions that were not blocked

vars == <<plan, requested, admitted, proposals, specs, submissions, decided>>

\* The identity under which gate may run now.
EffectiveIdentity(p, gate) ==
  [plan_id |-> p, plan_revision |-> plan[p].plan_revision, gate_id |-> gate]

AcceptanceIdentity(i, revision) ==
  [plan_id |-> i.plan_id, plan_revision |-> i.plan_revision,
   gate_id |-> i.gate_id, acceptance_spec_revision |-> revision]

\* Specs published for identity i, and the newest.
SpecsFor(i) ==
  {s \in specs : s.identity = AcceptanceIdentity(i, s.identity.acceptance_spec_revision)}

NewestSpecs(i) == {s \in SpecsFor(i) : \A o \in SpecsFor(i) :
  o.identity.acceptance_spec_revision <= s.identity.acceptance_spec_revision}

\* The acceptance identity in effect for gate, once a spec is published.
CurrentAcceptanceIdentities(p, gate) ==
  {s.identity : s \in NewestSpecs(EffectiveIdentity(p, gate))}

-----------------------------------------------------------------------------
\* The Supervisor hands a Worker its context and asks a Host to run it.
RequestGate(p, gate) == \E context \in CreateWorkerPlanContext(plan[p], gate) :
  /\ Cardinality(requested) < MaxMessages
  /\ requested' = requested \cup
       {[plan_id |-> p, plan_revision |-> context.plan_revision,
         gate_id |-> context.gate_id]}
  /\ UNCHANGED <<plan, admitted, proposals, specs, submissions, decided>>

(***************************************************************************)
(* A request is admitted against the identity in effect when it arrives,   *)
(* which the Host builds from the plan's revision for the gate it runs: no *)
(* function checks there that the gate is still authorised.                *)
(***************************************************************************)
AdmitWorker(i) == \E p \in PlanIds, gate \in Gates :
  /\ EvaluatePlanAdmission(i, EffectiveIdentity(p, gate))
  /\ admitted' = admitted \cup {i}
  /\ UNCHANGED <<plan, requested, proposals, specs, submissions, decided>>

\* A Worker proposes an amendment of the plan it knows.
Propose(i) == \E id \in ProposalIds :
  /\ proposals' = proposals \cup
       {[proposal_id |-> id, plan_id |-> i.plan_id,
         observed_plan_revision |-> i.plan_revision]}
  /\ UNCHANGED <<plan, requested, admitted, specs, submissions, decided>>

(***************************************************************************)
(* A next plan as the Supervisor drafts it: at revision base or now, of    *)
(* plan p or another, for any proposal.                                    *)
(***************************************************************************)
Draft(p, base, content, proposal, decision) ==
  PlanWith(p, base + 1, content,
    Append(SubSeq(plan[p].amendment_history, 1, base - 1),
           ExpectedFinalRecord([plan[p] EXCEPT !.plan_revision = base],
                               proposal, decision)))

Amend(p, proposal) ==
  \E decision \in ReviewDecisions, content \in ContentInputs, q \in PlanIds,
     drafted \in proposals : \E base \in 1 .. plan[q].plan_revision :
    /\ \E next \in ApplySupervisorPlanAmendment(plan[p], proposal, decision,
                     Draft(q, base, content, drafted, decision)) :
         plan' = [plan EXCEPT ![p] = next]
    /\ UNCHANGED <<requested, admitted, proposals, specs, submissions, decided>>

\* The Supervisor publishes a spec newer than the gate's others.
PublishSpec(p, gate) ==
  \E criteria \in CriteriaInputs, revision \in PositiveSafeIntegers :
    /\ Cardinality(specs) < MaxMessages
    /\ gate \in plan[p].gates
    /\ \A s \in SpecsFor(EffectiveIdentity(p, gate)) :
         s.identity.acceptance_spec_revision < revision
    /\ specs' = specs \cup
         {[identity |-> AcceptanceIdentity(EffectiveIdentity(p, gate), revision),
           criteria |-> criteria]}
    /\ UNCHANGED <<plan, requested, admitted, proposals, submissions, decided>>

\* A Worker submits evidence for a spec of the gate it runs.
Submit(i) == \E s \in SpecsFor(i), evidence \in EvidenceInputs :
  /\ Cardinality(submissions) < MaxMessages
  /\ submissions' = submissions \cup {[identity |-> s.identity, evidence |-> evidence]}
  /\ UNCHANGED <<plan, requested, admitted, proposals, specs, decided>>

\* The Supervisor decides, with whatever spec, submission and decision it holds.
Decide(p, gate) ==
  \E spec \in specs, submission \in submissions, about \in specs,
     decision \in {"accept", "reject"}, current \in CurrentAcceptanceIdentities(p, gate) :
    \E status \in ApplySupervisorAcceptanceDecision(spec, submission,
                    [identity |-> about.identity, decision |-> decision], current) :
      /\ decided' = decided \cup {[identity |-> current, status |-> status]}
      /\ UNCHANGED <<plan, requested, admitted, proposals, specs, submissions>>

-----------------------------------------------------------------------------
CreatedPlans ==
  UNION {CreateAuthoritativePlan(p, content) : p \in PlanIds, content \in ContentInputs}

Init ==
  /\ plan \in {f \in [PlanIds -> CreatedPlans] : \A p \in PlanIds : f[p].plan_id = p}
  /\ requested = {} /\ admitted = {} /\ proposals = {}
  /\ specs = {} /\ submissions = {} /\ decided = {}

Next ==
  \/ \E p \in PlanIds, gate \in Gates :
       RequestGate(p, gate) \/ PublishSpec(p, gate) \/ Decide(p, gate)
  \/ \E i \in requested : AdmitWorker(i)
  \/ \E i \in admitted : Propose(i) \/ Submit(i)
  \/ \E p \in PlanIds, proposal \in proposals : Amend(p, proposal)

Spec == Init /\ [][Next]_vars

-----------------------------------------------------------------------------
\* Every variable holds what the Supervisor, Workers and Hosts pass around.
TypeOK ==
  /\ plan \in [PlanIds -> Plans]
  /\ \A p \in PlanIds : plan[p].plan_id = p /\ ValidPlan(plan[p])
  /\ requested \subseteq AdmissionIdentities
  /\ admitted \subseteq AdmissionIdentities
  /\ proposals \subseteq Proposals
  /\ specs \subseteq GateAcceptanceSpecs
  /\ submissions \subseteq Submissions
  /\ decided \subseteq [identity : AcceptanceIdentities, status : {"ACCEPTED", "REJECTED"}]

(***************************************************************************)
(* Gates never wait for one another in a ring: whatever amendments did to  *)
(* a plan, while a gate is not completed there is one whose dependencies   *)
(* are, so that validation lets the Supervisor authorise it.               *)
(***************************************************************************)
SomeGateCanProceed == \A p \in PlanIds :
  LET open == plan[p].gates \ plan[p].completed_gates
  IN  open # {} => \E gate \in open : plan[p].requires[gate] \subseteq plan[p].completed_gates

(***************************************************************************)
(* The history of a plan accounts for every revision since the first: the  *)
(* i-th record took it from i to i + 1, for a proposal some Worker made of *)
(* this plan at revision i. No amendment is lost, applied twice or applied *)
(* to a plan its proposer had not seen.                                    *)
(***************************************************************************)
HistoryTellsAmendments == \A p \in PlanIds :
  LET history == plan[p].amendment_history
  IN  /\ Len(history) = plan[p].plan_revision - 1
      /\ \A i \in 1 .. Len(history) :
           /\ history[i].observed_plan_revision = i
           /\ history[i].applied_plan_revision = i + 1
           /\ [proposal_id |-> history[i].proposal_id, plan_id |-> p,
               observed_plan_revision |-> i] \in proposals

\* The plan authorises the gate of identity i at its revision, dependencies met.
AuthorizedNow(i) ==
  /\ i.plan_revision = plan[i.plan_id].plan_revision
  /\ i.gate_id \in plan[i.plan_id].authorized_gates
  /\ plan[i.plan_id].requires[i.gate_id] \subseteq plan[i.plan_id].completed_gates

(***************************************************************************)
(* A Worker starts on a gate only while the plan authorises it, although   *)
(* it was told so when the request was made, before amendments that may    *)
(* have overtaken it.                                                      *)
(***************************************************************************)
StartsOnlyCurrentWork == [][\A i \in admitted' \ admitted : AuthorizedNow(i)]_vars

(***************************************************************************)
(* A gate is accepted or rejected only while the plan authorises it, under *)
(* its newest spec and for evidence submitted for that spec; accepted only *)
(* if the evidence is exactly what the spec asks for. The decision looks   *)
(* at no plan: amendments and new specs between request, start, submission *)
(* and decision are fenced by the identities alone.                        *)
(***************************************************************************)
DecidesOnlyCurrentWork == [][
  \A d \in decided' \ decided :
    /\ AuthorizedNow(d.identity)
    /\ \E s \in NewestSpecs(d.identity), submission \in submissions :
         /\ s.identity = d.identity
         /\ submission.identity = d.identity
         /\ d.status = "ACCEPTED" => submission.evidence = s.criteria]_vars
=============================================================================
