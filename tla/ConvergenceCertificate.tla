----------------------- MODULE ConvergenceCertificate -----------------------
(***************************************************************************)
(* supervisor-policy/convergence.mjs: whether a certificate proves that    *)
(* what was found agrees with what was intended. Findings are a function   *)
(* from ids to source and status; reference lists, whose duplicates are    *)
(* rejected, are sets.                                                     *)
(***************************************************************************)
EXTENDS FiniteSets

Finding_Statuses == {"open", "resolved", "superseded"}
Certificate_Verifier_Roles == {"supervisor", "independent_verifier"}
Coverage_States == {"complete", "partial", "unknown"}
Verdicts == {"converged", "not_converged"}

OpenIds(findings) == {id \in DOMAIN findings : findings[id].status = "open"}

\* What normalizeCertificate accepts.
Certificates(ids, sources, verifiers) ==
  [intent_refs : SUBSET sources, coverage : Coverage_States, source_refs : SUBSET sources,
   finding_refs : SUBSET ids, open_finding_ids : SUBSET ids, evidence_refs : SUBSET sources,
   verifier : [role : Certificate_Verifier_Roles, id : verifiers],
   verdict : Verdicts]

\* Mutant: the findings are those that the certificate names.
BlockersNamed(certificate, findings, executor) ==
  LET open == OpenIds(findings) \cap certificate.finding_refs
      holds ==
        [verdict_not_converged |-> certificate.verdict # "converged",
         intent_refs_empty |-> certificate.intent_refs = {},
         coverage_not_complete |-> certificate.coverage # "complete",
         scope_source_refs_empty |-> certificate.source_refs = {},
         certificate_evidence_refs_empty |-> certificate.evidence_refs = {},
         open_finding_ids_mismatch |-> certificate.open_finding_ids # open,
         open_findings_present |-> open # {},
         executor_self_certification |-> certificate.verifier.id = executor]
  IN  {code \in DOMAIN holds : holds[code]}

Blockers(certificate, findings, executor) ==
  LET open == OpenIds(findings)
      holds ==
        [verdict_not_converged |-> certificate.verdict # "converged",
         intent_refs_empty |-> certificate.intent_refs = {},
         coverage_not_complete |-> certificate.coverage # "complete",
         scope_source_refs_empty |-> certificate.source_refs = {},
         certificate_evidence_refs_empty |-> certificate.evidence_refs = {},
         finding_refs_mismatch |-> certificate.finding_refs # DOMAIN findings,
         finding_source_ref_out_of_scope |->
           \E id \in DOMAIN findings : findings[id].source_ref \notin certificate.source_refs,
         open_finding_ids_mismatch |-> certificate.open_finding_ids # open,
         open_findings_present |-> open # {},
         executor_self_certification |-> certificate.verifier.id = executor]
  IN  {code \in DOMAIN holds : holds[code]}

EvaluateConvergenceCertificate(certificate, findings, executor) ==
  LET blockers == Blockers(certificate, findings, executor)
  IN  [converged |-> blockers = {}, blockers |-> blockers,
       open_finding_ids |-> OpenIds(findings)]
=============================================================================
