--------------------------- MODULE PlanAdmission ---------------------------
(***************************************************************************)
(* plan-admission.mjs: the identity a Worker is asked to run under against *)
(* the one in effect. Which of the fields a refusal names is left out, and *)
(* authorized_gate_id is gate_id.                                          *)
(***************************************************************************)
EXTENDS AuthoritativePlan

AdmissionIdentities ==
  [plan_id : PlanIds, plan_revision : PositiveSafeIntegers, gate_id : Gates]

\* Mutant: the revision is not compared.
AdmitsAnyRevision(requested, effective) ==
  /\ requested.plan_id = effective.plan_id
  /\ requested.gate_id = effective.gate_id

EvaluatePlanAdmission(requested, effective) ==
  /\ requested.plan_id = effective.plan_id
  /\ requested.plan_revision = effective.plan_revision
  /\ requested.gate_id = effective.gate_id
=============================================================================
