------------------------ MODULE GateLifecycle_proofs ------------------------
(***************************************************************************)
(* GateLifecycle for any plans, gates, criteria and any number of          *)
(* messages. A request carries an authorisation that was true at its       *)
(* revision, and the plan at a revision never changes; so an identity that *)
(* is compared with the revision in effect needs no second look at the     *)
(* plan, and the comparison is handed on from request to start, evidence   *)
(* and decision.                                                           *)
(***************************************************************************)
EXTENDS GateLifecycle, SequenceTheorems, TLAPS

\* The admission identity within an acceptance identity.
GateIdentity(i) ==
  [plan_id |-> i.plan_id, plan_revision |-> i.plan_revision, gate_id |-> i.gate_id]

\* What a request says was so at its revision, which is not ahead of the plan.
RequestsWereAuthorized == \A i \in requested :
  /\ i.plan_revision <= plan[i.plan_id].plan_revision
  /\ i.plan_revision = plan[i.plan_id].plan_revision =>
       i.gate_id \in plan[i.plan_id].authorized_gates

AdmittedWereRequested == admitted \subseteq requested

\* Evidence comes from Workers that were admitted.
SubmittersWereAdmitted == \A s \in submissions : GateIdentity(s.identity) \in admitted

IInv ==
  /\ TypeOK
  /\ HistoryTellsAmendments
  /\ RequestsWereAuthorized
  /\ AdmittedWereRequested
  /\ SubmittersWereAdmitted

-----------------------------------------------------------------------------
\* What a valid plan authorises is met.
LEMMA AuthorizedIsNow ==
  ASSUME TypeOK, NEW i, i.plan_id \in PlanIds,
         i.plan_revision = plan[i.plan_id].plan_revision,
         i.gate_id \in plan[i.plan_id].authorized_gates
  PROVE  AuthorizedNow(i)
BY DEF TypeOK, AuthorizedNow, ValidPlan, AuthorizedAreMet

(***************************************************************************)
(* applySupervisorPlanAmendment: the plan is kept, or replaced by one that *)
(* is valid, one revision further and tells it.                            *)
(***************************************************************************)
LEMMA AmendmentOutcome ==
  ASSUME NEW now, NEW proposal, NEW decision, NEW draft,
         NEW next \in ApplySupervisorPlanAmendment(now, proposal, decision, draft)
  PROVE  \/ next = now
         \/ /\ next = draft
            /\ ProposalTargets(now, proposal)
            /\ ValidPlan(next)
            /\ next.plan_id = now.plan_id
            /\ next.plan_revision = now.plan_revision + 1
            /\ next.amendment_history = Append(now.amendment_history,
                 ExpectedFinalRecord(now, proposal, decision))
BY DEF ApplySupervisorPlanAmendment, FollowsByAmendment, AppendsRecord

\* An amendment leaves each plan a plan, and valid.
LEMMA AmendKeepsPlans ==
  ASSUME TypeOK, NEW p \in PlanIds, NEW proposal \in proposals, Amend(p, proposal)
  PROVE  TypeOK'
<1>1. PICK decision \in ReviewDecisions, content \in ContentInputs, q \in PlanIds,
           drafted \in proposals :
        \E base \in 1 .. plan[q].plan_revision :
          \E next \in ApplySupervisorPlanAmendment(plan[p], proposal, decision,
                        Draft(q, base, content, drafted, decision)) :
            plan' = [plan EXCEPT ![p] = next]
  BY DEF Amend
<1>2. PICK base \in 1 .. plan[q].plan_revision :
        \E next \in ApplySupervisorPlanAmendment(plan[p], proposal, decision,
                      Draft(q, base, content, drafted, decision)) :
          plan' = [plan EXCEPT ![p] = next]
  BY <1>1
<1> DEFINE draft == Draft(q, base, content, drafted, decision)
<1>3. PICK next \in ApplySupervisorPlanAmendment(plan[p], proposal, decision, draft) :
        plan' = [plan EXCEPT ![p] = next]
  BY <1>2
<1>4. /\ plan[p] \in Plans /\ plan[p].plan_id = p /\ ValidPlan(plan[p])
      /\ proposal \in Proposals /\ content \in Contents
  BY LifecycleAssumption DEF TypeOK
<1>5. next \in Plans /\ next.plan_id = p /\ ValidPlan(next)
  <2>1. CASE next = plan[p]
    BY <1>4, <2>1
  <2>2. CASE /\ next = draft
             /\ ValidPlan(next)
             /\ next.plan_id = plan[p].plan_id
             /\ next.plan_revision = plan[p].plan_revision + 1
             /\ next.amendment_history = Append(plan[p].amendment_history,
                  ExpectedFinalRecord(plan[p], proposal, decision))
    <3> DEFINE record == ExpectedFinalRecord(plan[p], proposal, decision)
    <3>1. plan[p].plan_revision \in Nat /\ plan[p].amendment_history \in Seq(HistoryRecords)
      BY <1>4 DEF Plans
    <3>2. record \in HistoryRecords
      BY <1>4, <3>1 DEF ExpectedFinalRecord, HistoryRecords, Proposals
    <3>3. next.amendment_history \in Seq(HistoryRecords)
      <4> HIDE DEF record
      <4>1. Append(plan[p].amendment_history, record) \in Seq(HistoryRecords)
        BY <3>1, <3>2
      <4> QED
        BY <2>2, <4>1 DEF record
    <3>4. PICK history :
            next = [plan_id |-> q, plan_revision |-> base + 1,
                    gates |-> content.gates, requires |-> content.requires,
                    authorized_gates |-> content.authorized_gates,
                    completed_gates |-> content.completed_gates,
                    blocked_gates |-> content.blocked_gates,
                    amendment_history |-> history]
      BY <2>2 DEF Draft, PlanWith
    <3> HIDE DEF draft
    <3>5. next = [plan_id |-> p, plan_revision |-> plan[p].plan_revision + 1,
                     gates |-> content.gates, requires |-> content.requires,
                     authorized_gates |-> content.authorized_gates,
                     completed_gates |-> content.completed_gates,
                     blocked_gates |-> content.blocked_gates,
                     amendment_history |-> next.amendment_history]
      <4>1. /\ q = p /\ base + 1 = plan[p].plan_revision + 1
            /\ history = next.amendment_history
        BY <1>4, <2>2, <3>4
      <4> QED
        BY <3>4, <4>1
    <3>6. next.amendment_history \in Seq(HistoryRecords) /\ plan[p].plan_revision + 1 \in Nat
      BY <3>1, <3>3
    <3>7. next \in Plans
      <4> HIDE DEF record
      <4> QED
        BY ONLY <1>4, <3>5, <3>6 DEF Plans, Contents
    <3> QED
      BY <1>4, <2>2, <3>7
  <2> QED
    BY <2>1, <2>2, AmendmentOutcome
<1>6. plan' \in [PlanIds -> Plans] /\ \A o \in PlanIds : plan'[o] = IF o = p THEN next ELSE plan[o]
  BY <1>3, <1>5 DEF TypeOK
<1>7. UNCHANGED <<requested, admitted, proposals, specs, submissions, decided>>
  BY DEF Amend
<1>8. \A o \in PlanIds : plan'[o].plan_id = o /\ ValidPlan(plan'[o])
  BY <1>5, <1>6 DEF TypeOK
<1> QED
  BY <1>6, <1>7, <1>8 DEF TypeOK

(***************************************************************************)
(* What Amend does to the plans, as far as the rest of the invariant asks: *)
(* one plan may move to the next revision, telling the proposal.           *)
(***************************************************************************)
LEMMA AmendMovesOnePlan ==
  ASSUME TypeOK, NEW p \in PlanIds, NEW proposal \in proposals, Amend(p, proposal)
  PROVE  \/ plan' = plan
         \/ /\ plan' = [plan EXCEPT ![p] = plan'[p]]
            /\ plan'[p].plan_revision = plan[p].plan_revision + 1
            /\ ProposalTargets(plan[p], proposal)
            /\ \E decision \in ReviewDecisions : plan'[p].amendment_history =
                 Append(plan[p].amendment_history,
                        ExpectedFinalRecord(plan[p], proposal, decision))
<1>1. PICK decision \in ReviewDecisions, content \in ContentInputs, q \in PlanIds,
           drafted \in proposals :
        \E base \in 1 .. plan[q].plan_revision :
          \E next \in ApplySupervisorPlanAmendment(plan[p], proposal, decision,
                        Draft(q, base, content, drafted, decision)) :
            plan' = [plan EXCEPT ![p] = next]
  BY DEF Amend
<1>2. PICK base \in 1 .. plan[q].plan_revision :
        \E next \in ApplySupervisorPlanAmendment(plan[p], proposal, decision,
                      Draft(q, base, content, drafted, decision)) :
          plan' = [plan EXCEPT ![p] = next]
  BY <1>1
<1> DEFINE draft == Draft(q, base, content, drafted, decision)
<1>3. PICK next \in ApplySupervisorPlanAmendment(plan[p], proposal, decision, draft) :
        plan' = [plan EXCEPT ![p] = next]
  BY <1>2
<1> HIDE DEF draft
<1>4. plan \in [PlanIds -> Plans]
  BY DEF TypeOK
<1>5. CASE next = plan[p]
  BY <1>3, <1>4, <1>5
<1>6. CASE /\ ProposalTargets(plan[p], proposal)
           /\ next.plan_revision = plan[p].plan_revision + 1
           /\ next.amendment_history = Append(plan[p].amendment_history,
                ExpectedFinalRecord(plan[p], proposal, decision))
  <2>1. plan'[p] = next
    BY <1>3, <1>4
  <2> QED
    BY <1>3, <1>6, <2>1
<1> QED
  BY <1>5, <1>6, AmendmentOutcome

-----------------------------------------------------------------------------
LEMMA InitInvariant == Init => IInv
<1> SUFFICES ASSUME Init PROVE IInv
  OBVIOUS
<1>1. ASSUME NEW p \in PlanIds
      PROVE  /\ plan[p] \in Plans /\ plan[p].plan_id = p /\ ValidPlan(plan[p])
             /\ plan[p].plan_revision = 1 /\ plan[p].amendment_history = <<>>
  <2>1. plan[p].plan_id = p /\ plan[p] \in CreatedPlans
    BY DEF Init
  <2>2. PICK q \in PlanIds, content \in ContentInputs :
          plan[p] \in CreateAuthoritativePlan(q, content)
    BY <2>1 DEF CreatedPlans
  <2>3. plan[p] = PlanWith(q, 1, content, <<>>) /\ ValidPlan(plan[p])
    BY <2>2 DEF CreateAuthoritativePlan
  <2>4. content \in Contents
    BY LifecycleAssumption
  <2>5. <<>> \in Seq(HistoryRecords)
    OBVIOUS
  <2>6. plan[p] \in Plans
    BY <2>3, <2>4, <2>5 DEF PlanWith, Plans, Contents
  <2> QED
    BY <2>1, <2>3, <2>6 DEF PlanWith
<1>2. plan \in [PlanIds -> Plans]
  BY <1>1 DEF Init
<1>3. TypeOK
  BY <1>1, <1>2 DEF Init, TypeOK
<1>4. HistoryTellsAmendments
  BY <1>1 DEF HistoryTellsAmendments
<1> QED
  BY <1>3, <1>4 DEF Init, IInv, RequestsWereAuthorized, AdmittedWereRequested,
                    SubmittersWereAdmitted

LEMMA TypeStep == TypeOK /\ [Next]_vars => TypeOK'
<1> SUFFICES ASSUME TypeOK, [Next]_vars PROVE TypeOK'
  OBVIOUS
<1> USE DEF TypeOK
<1>1. \A p \in PlanIds : plan[p].plan_revision \in PositiveSafeIntegers
  BY DEF ValidPlan
<1>2. ASSUME NEW p \in PlanIds, NEW gate \in Gates, RequestGate(p, gate) PROVE TypeOK'
  BY <1>1, <1>2 DEF RequestGate, CreateWorkerPlanContext, AdmissionIdentities
<1>3. ASSUME NEW p \in PlanIds, NEW gate \in Gates, PublishSpec(p, gate) PROVE TypeOK'
  <2>1. PICK criteria \in CriteriaInputs, revision \in PositiveSafeIntegers :
          /\ specs' = specs \cup
               {[identity |-> AcceptanceIdentity(EffectiveIdentity(p, gate), revision),
                 criteria |-> criteria]}
          /\ UNCHANGED <<plan, requested, admitted, proposals, submissions, decided>>
    BY <1>3 DEF PublishSpec
  <2>2. criteria \in (SUBSET Criteria) \ {{}}
    BY LifecycleAssumption
  <2>3. AcceptanceIdentity(EffectiveIdentity(p, gate), revision) \in AcceptanceIdentities
    BY <1>1 DEF AcceptanceIdentity, EffectiveIdentity, AcceptanceIdentities
  <2> QED
    BY <2>1, <2>2, <2>3 DEF GateAcceptanceSpecs
<1>4. ASSUME NEW p \in PlanIds, NEW gate \in Gates, Decide(p, gate) PROVE TypeOK'
  <2>1. PICK current \in CurrentAcceptanceIdentities(p, gate), status \in {"ACCEPTED", "REJECTED"} :
          /\ decided' = decided \cup {[identity |-> current, status |-> status]}
          /\ UNCHANGED <<plan, requested, admitted, proposals, specs, submissions>>
    BY <1>4 DEF Decide, ApplySupervisorAcceptanceDecision
  <2>2. current \in AcceptanceIdentities
    BY DEF CurrentAcceptanceIdentities, NewestSpecs, SpecsFor, GateAcceptanceSpecs
  <2> QED
    BY <2>1, <2>2
<1>5. ASSUME NEW i \in requested, AdmitWorker(i) PROVE TypeOK'
  BY <1>5 DEF AdmitWorker
<1>6. ASSUME NEW i \in admitted, Propose(i) PROVE TypeOK'
  BY <1>6 DEF Propose, Proposals, AdmissionIdentities
<1>7. ASSUME NEW i \in admitted, Submit(i) PROVE TypeOK'
  <2>1. PICK s \in specs, evidence \in EvidenceInputs :
          /\ submissions' = submissions \cup {[identity |-> s.identity, evidence |-> evidence]}
          /\ UNCHANGED <<plan, requested, admitted, proposals, specs, decided>>
    BY <1>7 DEF Submit, SpecsFor
  <2> QED
    BY <2>1, LifecycleAssumption DEF GateAcceptanceSpecs, Submissions
<1>8. ASSUME NEW p \in PlanIds, NEW proposal \in proposals, Amend(p, proposal) PROVE TypeOK'
  BY <1>8, AmendKeepsPlans
<1>9. CASE UNCHANGED vars
  BY <1>9 DEF vars
<1> QED
  BY <1>2, <1>3, <1>4, <1>5, <1>6, <1>7, <1>8, <1>9 DEF Next

-----------------------------------------------------------------------------
\* Only amendments change plans; every action keeps the messages it finds.
LEMMA OnlyAmendChangesPlans ==
  ASSUME [Next]_vars
  PROVE  \/ plan' = plan
         \/ /\ \E p \in PlanIds, proposal \in proposals : Amend(p, proposal)
            /\ UNCHANGED <<requested, admitted, proposals, specs, submissions, decided>>
BY ZenonT(60) DEF Next, vars, RequestGate, PublishSpec, Decide, AdmitWorker, Propose, Submit, Amend

LEMMA ProposalsStay == [Next]_vars => proposals \subseteq proposals'
BY DEF Next, vars, RequestGate, PublishSpec, Decide, AdmitWorker, Propose, Submit, Amend

LEMMA HistoryStep ==
  TypeOK /\ HistoryTellsAmendments /\ [Next]_vars => HistoryTellsAmendments'
<1> SUFFICES ASSUME TypeOK, HistoryTellsAmendments, [Next]_vars
             PROVE  HistoryTellsAmendments'
  OBVIOUS
<1>1. CASE plan' = plan
  BY <1>1, ProposalsStay DEF HistoryTellsAmendments
<1>2. ASSUME NEW p \in PlanIds, NEW proposal \in proposals, Amend(p, proposal), plan' # plan,
             NEW o \in PlanIds
      PROVE  LET history == plan'[o].amendment_history
             IN  /\ Len(history) = plan'[o].plan_revision - 1
                 /\ \A i \in 1 .. Len(history) :
                      /\ history[i].observed_plan_revision = i
                      /\ history[i].applied_plan_revision = i + 1
                      /\ [proposal_id |-> history[i].proposal_id, plan_id |-> o,
                          observed_plan_revision |-> i] \in proposals'
  <2>1. PICK decision \in ReviewDecisions :
          /\ plan' = [plan EXCEPT ![p] = plan'[p]]
          /\ plan'[p].plan_revision = plan[p].plan_revision + 1
          /\ ProposalTargets(plan[p], proposal)
          /\ plan'[p].amendment_history = Append(plan[p].amendment_history,
               ExpectedFinalRecord(plan[p], proposal, decision))
    BY <1>2, AmendMovesOnePlan
  <2>2. proposals' = proposals
    BY <1>2 DEF Amend
  <2>3. CASE o # p
    <3>1. plan'[o] = plan[o]
      BY <2>1, <2>3 DEF TypeOK
    <3> QED
      BY <2>2, <3>1 DEF HistoryTellsAmendments
  <2>4. CASE o = p
    <3> DEFINE old == plan[p].amendment_history
               record == ExpectedFinalRecord(plan[p], proposal, decision)
               revision == plan[p].plan_revision
    <3>1. /\ old \in Seq(HistoryRecords) /\ revision \in Nat /\ plan[p].plan_id = p
          /\ proposal \in Proposals
      BY DEF TypeOK, Plans
    <3>2. /\ Len(old) = revision - 1
          /\ \A i \in 1 .. Len(old) :
               /\ old[i].observed_plan_revision = i
               /\ old[i].applied_plan_revision = i + 1
               /\ [proposal_id |-> old[i].proposal_id, plan_id |-> p,
                   observed_plan_revision |-> i] \in proposals
      BY DEF HistoryTellsAmendments
    <3>3. /\ record.observed_plan_revision = revision
          /\ record.applied_plan_revision = revision + 1
          /\ record.proposal_id = proposal.proposal_id
      BY DEF ExpectedFinalRecord
    <3>4. proposal = [proposal_id |-> record.proposal_id, plan_id |-> p,
                      observed_plan_revision |-> revision]
      BY <2>1, <3>1, <3>3 DEF ProposalTargets, Proposals
    <3> HIDE DEF record
    <3>5. /\ Len(Append(old, record)) = Len(old) + 1
          /\ \A i \in 1 .. Len(old) : Append(old, record)[i] = old[i]
          /\ Append(old, record)[Len(old) + 1] = record
      BY <3>1
    <3>6. plan'[p].amendment_history = Append(old, record)
      BY <2>1 DEF record
    <3>7. plan'[p].plan_revision = revision + 1
      BY <2>1
    <3> HIDE DEF old, revision
    <3>8. Len(plan'[p].amendment_history) = plan'[p].plan_revision - 1
      BY <3>1, <3>2, <3>5, <3>6, <3>7
    <3>9. ASSUME NEW i \in 1 .. Len(plan'[p].amendment_history)
          PROVE  /\ plan'[p].amendment_history[i].observed_plan_revision = i
                 /\ plan'[p].amendment_history[i].applied_plan_revision = i + 1
                 /\ [proposal_id |-> plan'[p].amendment_history[i].proposal_id,
                     plan_id |-> p, observed_plan_revision |-> i] \in proposals
      <4>1. Len(old) \in Nat
        BY <3>1
      <4>2. CASE i \in 1 .. Len(old)
        BY <3>2, <3>5, <3>6, <4>2
      <4>3. CASE i = Len(old) + 1
        <5>1. i = revision
          BY <3>1, <3>2, <4>3
        <5>2. plan'[p].amendment_history[i] = record
          BY <3>5, <3>6, <4>3
        <5> QED
          BY <3>3, <3>4, <5>1, <5>2
      <4> QED
        BY <3>5, <3>6, <4>1, <4>2, <4>3
    <3> QED
      BY <2>2, <2>4, <3>8, <3>9
  <2> QED
    BY <2>3, <2>4
<1>3. CASE \E p \in PlanIds, proposal \in proposals : Amend(p, proposal) /\ plan' # plan
  BY <1>2, <1>3 DEF HistoryTellsAmendments
<1> QED
  BY <1>1, <1>3, OnlyAmendChangesPlans

(***************************************************************************)
(* An amendment moves its plan past every revision requests know; nothing  *)
(* else moves a plan, and a new request names a gate authorised then.      *)
(***************************************************************************)
LEMMA RequestStep ==
  TypeOK /\ RequestsWereAuthorized /\ [Next]_vars => RequestsWereAuthorized'
<1> SUFFICES ASSUME TypeOK, RequestsWereAuthorized, [Next]_vars
             PROVE  RequestsWereAuthorized'
  OBVIOUS
<1>1. ASSUME NEW p \in PlanIds, NEW gate \in Gates, RequestGate(p, gate)
      PROVE  RequestsWereAuthorized'
  <2>1. /\ plan' = plan
        /\ requested' = requested \cup {[plan_id |-> p, plan_revision |-> plan[p].plan_revision,
                                         gate_id |-> gate]}
        /\ gate \in plan[p].authorized_gates
    BY <1>1 DEF RequestGate, CreateWorkerPlanContext
  <2>2. plan[p].plan_revision \in Nat
    BY DEF TypeOK, Plans
  <2> QED
    BY <2>1, <2>2 DEF RequestsWereAuthorized
<1>2. ASSUME NEW p \in PlanIds, NEW proposal \in proposals, Amend(p, proposal), plan' # plan
      PROVE  RequestsWereAuthorized'
  <2>1. /\ plan' = [plan EXCEPT ![p] = plan'[p]]
        /\ plan'[p].plan_revision = plan[p].plan_revision + 1
    BY <1>2, AmendMovesOnePlan
  <2>2. requested' = requested
    BY <1>2 DEF Amend
  <2>3. ASSUME NEW i \in requested
        PROVE  /\ i.plan_revision <= plan'[i.plan_id].plan_revision
               /\ i.plan_revision = plan'[i.plan_id].plan_revision =>
                    i.gate_id \in plan'[i.plan_id].authorized_gates
    <3>1. /\ i.plan_id \in PlanIds /\ i.plan_revision \in Nat
          /\ plan[i.plan_id].plan_revision \in Nat
          /\ i.plan_revision <= plan[i.plan_id].plan_revision
      BY DEF TypeOK, Plans, AdmissionIdentities, PositiveSafeIntegers, RequestsWereAuthorized
    <3>2. CASE i.plan_id = p
      BY <2>1, <3>1, <3>2
    <3>3. CASE i.plan_id # p
      <4>1. plan'[i.plan_id] = plan[i.plan_id]
        BY <2>1, <3>1, <3>3 DEF TypeOK
      <4> QED
        BY <4>1 DEF RequestsWereAuthorized
    <3> QED
      BY <3>2, <3>3
  <2> QED
    BY <2>2, <2>3 DEF RequestsWereAuthorized
<1>3. CASE plan' = plan /\ requested' = requested
  BY <1>3 DEF RequestsWereAuthorized
<1>4. \/ plan' = plan /\ requested' = requested
      \/ \E p \in PlanIds, gate \in Gates : RequestGate(p, gate)
      \/ \E p \in PlanIds, proposal \in proposals : Amend(p, proposal) /\ plan' # plan
  BY DEF Next, vars, PublishSpec, Decide, AdmitWorker, Propose, Submit, Amend
<1> QED
  BY <1>1, <1>2, <1>3, <1>4

LEMMA AdmissionStep ==
  AdmittedWereRequested /\ [Next]_vars => AdmittedWereRequested'
<1> SUFFICES ASSUME AdmittedWereRequested, [Next]_vars PROVE AdmittedWereRequested'
  OBVIOUS
<1>1. requested \subseteq requested'
  BY DEF Next, vars, RequestGate, PublishSpec, Decide, AdmitWorker, Propose, Submit, Amend
<1>2. ASSUME NEW i \in requested, AdmitWorker(i) PROVE AdmittedWereRequested'
  BY <1>1, <1>2 DEF AdmitWorker, AdmittedWereRequested
<1>3. CASE admitted' = admitted
  BY <1>1, <1>3 DEF AdmittedWereRequested
<1>4. admitted' = admitted \/ \E i \in requested : AdmitWorker(i)
  BY DEF Next, vars, RequestGate, PublishSpec, Decide, Propose, Submit, Amend
<1> QED
  BY <1>2, <1>3, <1>4

LEMMA SubmissionStep ==
  TypeOK /\ SubmittersWereAdmitted /\ [Next]_vars => SubmittersWereAdmitted'
<1> SUFFICES ASSUME TypeOK, SubmittersWereAdmitted, [Next]_vars
             PROVE  SubmittersWereAdmitted'
  OBVIOUS
<1>1. ASSUME NEW i \in admitted, Submit(i) PROVE SubmittersWereAdmitted'
  <2>1. PICK s \in SpecsFor(i), evidence \in EvidenceInputs :
          /\ submissions' = submissions \cup {[identity |-> s.identity, evidence |-> evidence]}
          /\ admitted' = admitted
    BY <1>1 DEF Submit
  <2>2. GateIdentity(s.identity) = i
    BY DEF SpecsFor, AcceptanceIdentity, GateIdentity, TypeOK, AdmissionIdentities
  <2> QED
    BY <2>1, <2>2 DEF SubmittersWereAdmitted
<1>2. CASE submissions' = submissions /\ admitted \subseteq admitted'
  BY <1>2 DEF SubmittersWereAdmitted
<1>3. \/ submissions' = submissions /\ admitted \subseteq admitted'
      \/ \E i \in admitted : Submit(i)
  BY DEF Next, vars, RequestGate, PublishSpec, Decide, AdmitWorker, Propose, Amend
<1> QED
  BY <1>1, <1>2, <1>3

LEMMA Invariance == Spec => []IInv
<1>1. IInv /\ [Next]_vars => IInv'
  BY TypeStep, HistoryStep, RequestStep, AdmissionStep, SubmissionStep DEF IInv
<1> QED
  BY InitInvariant, <1>1, PTL DEF Spec

-----------------------------------------------------------------------------
(***************************************************************************)
(* Plans stay valid under any amendments, and every message holds what the *)
(* functions accept.                                                       *)
(***************************************************************************)
THEOREM LifecycleTypeCorrect == Spec => []TypeOK
BY Invariance, PTL DEF IInv

(***************************************************************************)
(* The history of a plan accounts for every revision: no amendment is      *)
(* lost, applied twice or taken from a proposal made of another plan or of *)
(* an earlier revision.                                                    *)
(***************************************************************************)
THEOREM HistoryAccountsForRevisions == Spec => []HistoryTellsAmendments
BY Invariance, PTL DEF IInv

(***************************************************************************)
(* Whatever the amendments, a plan that is not finished has a gate with    *)
(* every dependency completed: the cycle check is what makes it so.        *)
(***************************************************************************)
THEOREM NoRingOfGates == Spec => []SomeGateCanProceed
<1>1. TypeOK => SomeGateCanProceed
  <2> SUFFICES ASSUME TypeOK, NEW p \in PlanIds,
                      plan[p].gates \ plan[p].completed_gates # {}
               PROVE  \E gate \in plan[p].gates \ plan[p].completed_gates :
                        plan[p].requires[gate] \subseteq plan[p].completed_gates
    BY DEF SomeGateCanProceed
  <2> DEFINE open == plan[p].gates \ plan[p].completed_gates
  <2>1. /\ plan[p].gates \subseteq Gates
        /\ Acyclic(plan[p].requires)
        /\ DependenciesAmong(plan[p].gates, plan[p].requires)
    BY DEF TypeOK, Plans, ValidPlan, PassesCycleCheck
  <2>2. PICK gate \in open : plan[p].requires[gate] \cap open = {}
    BY <2>1 DEF Acyclic
  <2>3. plan[p].requires[gate] \subseteq plan[p].gates
    BY <2>1 DEF DependenciesAmong
  <2> QED
    BY <2>2, <2>3
<1> QED
  BY <1>1, Invariance, PTL DEF IInv

(***************************************************************************)
(* A Worker starts on a gate only while the plan authorises it: admission  *)
(* compares a revision, and that is enough.                                *)
(***************************************************************************)
THEOREM StartsAreCurrent == Spec => StartsOnlyCurrentWork
<1>1. ASSUME IInv, [Next]_vars, NEW i \in admitted' \ admitted
      PROVE  AuthorizedNow(i)
  <2>1. i \in requested /\ AdmitWorker(i)
    BY <1>1 DEF Next, vars, RequestGate, PublishSpec, Decide, AdmitWorker, Propose, Submit, Amend
  <2>2. i.plan_id \in PlanIds /\ i.plan_revision = plan[i.plan_id].plan_revision
    BY <2>1 DEF AdmitWorker, EvaluatePlanAdmission, EffectiveIdentity
  <2> QED
    BY <1>1, <2>1, <2>2, AuthorizedIsNow DEF IInv, RequestsWereAuthorized
<1>2. IInv /\ [Next]_vars => [\A i \in admitted' \ admitted : AuthorizedNow(i)]_vars
  BY <1>1
<1> QED
  BY <1>2, Invariance, PTL DEF Spec, StartsOnlyCurrentWork

(***************************************************************************)
(* A gate is accepted or rejected only while the plan authorises it, under *)
(* its newest spec and for evidence of that spec, complete if accepted.    *)
(***************************************************************************)
THEOREM DecisionsAreCurrent == Spec => DecidesOnlyCurrentWork
<1> DEFINE Justified(d) ==
      /\ AuthorizedNow(d.identity)
      /\ \E s \in NewestSpecs(d.identity), submission \in submissions :
           /\ s.identity = d.identity
           /\ submission.identity = d.identity
           /\ d.status = "ACCEPTED" => submission.evidence = s.criteria
<1>1. ASSUME IInv, [Next]_vars, NEW d \in decided' \ decided
      PROVE  Justified(d)
  <2>1. PICK p \in PlanIds, gate \in Gates : Decide(p, gate)
    BY <1>1 DEF Next, vars, RequestGate, PublishSpec, AdmitWorker, Propose, Submit, Amend
  <2>2. PICK spec \in specs, submission \in submissions, about \in specs,
             decision \in {"accept", "reject"}, current \in CurrentAcceptanceIdentities(p, gate) :
          \E status \in ApplySupervisorAcceptanceDecision(spec, submission,
                          [identity |-> about.identity, decision |-> decision], current) :
            decided' = decided \cup {[identity |-> current, status |-> status]}
    BY <2>1 DEF Decide
  <2>3. PICK status \in ApplySupervisorAcceptanceDecision(spec, submission,
                          [identity |-> about.identity, decision |-> decision], current) :
          decided' = decided \cup {[identity |-> current, status |-> status]}
    BY <2>2
  <2>4. d = [identity |-> current, status |-> status]
    BY <1>1, <2>3
  <2>5. /\ spec.identity \in AcceptanceIdentities
        /\ submission.identity \in AcceptanceIdentities
    BY <1>1 DEF IInv, TypeOK, GateAcceptanceSpecs, Submissions
  <2>6. PICK newest \in NewestSpecs(EffectiveIdentity(p, gate)) : current = newest.identity
    BY DEF CurrentAcceptanceIdentities
  <2>7. /\ newest \in specs
        /\ current = AcceptanceIdentity(EffectiveIdentity(p, gate), current.acceptance_spec_revision)
        /\ current \in AcceptanceIdentities
    BY <1>1, <2>6 DEF NewestSpecs, SpecsFor, IInv, TypeOK, GateAcceptanceSpecs
  <2>8. spec.identity = current /\ submission.identity = current
    BY <2>3, <2>5, <2>7 DEF ApplySupervisorAcceptanceDecision, BoundToCurrent, IdentityMatches,
                            AcceptanceIdentities
  <2>9. status = "ACCEPTED" => submission.evidence = spec.criteria
    BY <2>3 DEF ApplySupervisorAcceptanceDecision, ReadyForSupervisorReview, EvidenceComplete
  <2>10. /\ current.plan_id = p /\ current.gate_id = gate
         /\ current.plan_revision = plan[p].plan_revision
    BY <2>7 DEF AcceptanceIdentity, EffectiveIdentity
  <2>11. SpecsFor(current) = SpecsFor(EffectiveIdentity(p, gate))
    BY <2>10 DEF SpecsFor, AcceptanceIdentity, EffectiveIdentity
  <2>12. spec \in NewestSpecs(current)
    BY <2>6, <2>8, <2>11 DEF NewestSpecs, SpecsFor
  <2>13. GateIdentity(current) \in requested
    BY <1>1, <2>8 DEF IInv, SubmittersWereAdmitted, AdmittedWereRequested
  <2>14. gate \in plan[p].authorized_gates
    BY <1>1, <2>10, <2>13 DEF IInv, RequestsWereAuthorized, GateIdentity
  <2>15. AuthorizedNow(current)
    BY <1>1, <2>10, <2>14, AuthorizedIsNow DEF IInv
  <2> QED
    BY <2>4, <2>8, <2>9, <2>12, <2>15
<1>2. IInv /\ [Next]_vars => [\A d \in decided' \ decided : Justified(d)]_vars
  BY <1>1
<1> QED
  BY <1>2, Invariance, PTL DEF Spec, DecidesOnlyCurrentWork
=============================================================================
