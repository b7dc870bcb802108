---------------------------- MODULE TaskClosure -----------------------------
(***************************************************************************)
(* From execution to close (workflow-contract.json): verifiers certify     *)
(* convergence, the Supervisor records what is durable, commits, pushes    *)
(* and closes, each when the policies let it, while the executor may edit  *)
(* and verifiers find and resolve at any time. The actors are external,    *)
(* with the duties of TRI-BRIDGE-P3-WORKFLOW-V1.md: the evidence they      *)
(* supply, and what the Supervisor judges not required, is of the present  *)
(* work.                                                                   *)
(***************************************************************************)
EXTENDS ConvergenceCertificate, CompletionGate, MemoryRecord, Naturals

CONSTANTS
  FindingIds, SourceRefs, Verifiers, Executor,
  Claims,          \* what certificates say, but for the findings they were made from
  Facts, Workspace_Kinds,
  Impacts,         \* the sets of notes an edit may leave out of date
  NoCertificate,
  MaxRevision, MaxFindings   \* bounds: edits, and openings of findings

\* What normalizeCertificate rejects is not claimed.
ASSUME ClosureAssumption ==
  /\ Claims \subseteq [intent_refs : SUBSET SourceRefs, coverage : Coverage_States,
       source_refs : SUBSET SourceRefs, evidence_refs : SUBSET SourceRefs,
       verdict : Verdicts,
       verifier : [role : Certificate_Verifier_Roles, id : Verifiers]]
  /\ Impacts \subseteq SUBSET {"docs", "agents", "decisions"}
  /\ MaxRevision \in Nat

\* What can be done or judged unnecessary, and the status that says the latter.
Waiver ==
  [tests |-> "not_required", diff |-> "not_required",
   commit |-> "not_needed", push |-> "not_needed"]

VARIABLES
  workspace_kind,
  findings, certificate,
  evidence,     \* every field but acceptance, which is evaluated when it is needed
  phase,        \* "working", "cleared" by the pre-commit gate, or "closed"
  durable,      \* the memory
  revision, committed,    \* of the work, and of what is in the repository
  as_of,        \* the revision that each of tests, diff, commit and push was settled of
  opened        \* findings opened so far

revisions == <<revision, committed, as_of>>
vars == <<workspace_kind, findings, certificate, evidence, phase, durable, revisions, opened>>

Converged ==
  certificate # NoCertificate
  /\ EvaluateConvergenceCertificate(certificate, findings, Executor).converged

Evidence ==
  [evidence EXCEPT !.acceptance = IF Converged THEN "verified" ELSE "pending"]

-----------------------------------------------------------------------------
(***************************************************************************)
(* The executor edits the work: what was found or judged of the last       *)
(* revision is not of this one, a working tree is dirty, and notes may     *)
(* have to follow.                                                         *)
(***************************************************************************)
Stale(now, due) ==
  [now EXCEPT !.tests = "not_run", !.diff = "pending", !.commit = "pending",
              !.push = "pending",
              !.docs = IF "docs" \in due THEN "update_required" ELSE @,
              !.agents = IF "agents" \in due THEN "update_required" ELSE @,
              !.decisions = IF "decisions" \in due THEN "update_required" ELSE @,
              !.tree = IF workspace_kind = "remote_only" THEN @ ELSE "dirty"]

Edit ==
  /\ phase # "closed" /\ revision < MaxRevision
  /\ revision' = revision + 1
  /\ \E due \in Impacts : evidence' = Stale(evidence, due)
  /\ UNCHANGED <<workspace_kind, findings, certificate, phase, durable,
                 committed, as_of, opened>>

\* A note that is due is brought up to date, which is an edit, or judged to do as it is.
Update(note) ==
  /\ phase # "closed" /\ evidence[note] = "update_required"
  /\ \/ /\ revision' = revision + 1
        /\ evidence' = [Stale(evidence, {}) EXCEPT ![note] = "updated"]
     \/ /\ evidence' = [evidence EXCEPT ![note] = "not_needed"]
        /\ UNCHANGED revision
  /\ UNCHANGED <<workspace_kind, findings, certificate, phase, durable,
                 committed, as_of, opened>>

RunTests ==
  /\ phase # "closed" /\ evidence.tests # "passed"
  /\ \E status \in {"passed", "failed"} : evidence' = [evidence EXCEPT !.tests = status]
  /\ as_of' = IF evidence'.tests = "passed" THEN [as_of EXCEPT !.tests = revision] ELSE as_of
  /\ UNCHANGED <<workspace_kind, findings, certificate, phase, durable, revision,
                 committed, opened>>

Inspect ==
  /\ phase # "closed" /\ evidence.diff # "inspected"
  /\ evidence' = [evidence EXCEPT !.diff = "inspected"]
  /\ as_of' = [as_of EXCEPT !.diff = revision]
  /\ UNCHANGED <<workspace_kind, findings, certificate, phase, durable, revision,
                 committed, opened>>

\* The Supervisor judges that the work as it is needs no tests or inspection or, once the
\* first gate is passed, no commit or push.
Waive(matter) ==
  /\ phase # "closed" /\ (phase = "working" => matter \in Pre_Commit_Required)
  /\ ~Passing[matter][evidence[matter]]
  /\ evidence' = [evidence EXCEPT ![matter] = Waiver[matter]]
  /\ as_of' = [as_of EXCEPT ![matter] = revision]
  /\ UNCHANGED <<workspace_kind, findings, certificate, phase, durable, revision,
                 committed, opened>>

-----------------------------------------------------------------------------
(***************************************************************************)
(* Findings are only added, and their statuses move.                       *)
(***************************************************************************)
Open(id, source) ==
  /\ phase # "closed" /\ opened < MaxFindings
  /\ id \notin OpenIds(findings)
  /\ id \in DOMAIN findings => findings[id].source_ref = source
  /\ findings' = [other \in DOMAIN findings \cup {id} |->
                    IF other = id THEN [source_ref |-> source, status |-> "open"]
                    ELSE findings[other]]
  /\ opened' = opened + 1
  /\ UNCHANGED <<workspace_kind, certificate, evidence, phase, durable, revisions>>

CloseFinding(id) ==
  /\ phase # "closed" /\ id \in OpenIds(findings)
  /\ \E status \in {"resolved", "superseded"} :
       findings' = [findings EXCEPT ![id].status = status]
  /\ UNCHANGED <<workspace_kind, certificate, evidence, phase, durable, revisions,
                 opened>>

\* A verifier certifies what it has read of the findings, perhaps not all.
Certify(claim, read) ==
  /\ phase # "closed"
  /\ certificate' =
       [intent_refs |-> claim.intent_refs, coverage |-> claim.coverage,
        source_refs |-> claim.source_refs, finding_refs |-> read,
        open_finding_ids |-> read \cap OpenIds(findings),
        evidence_refs |-> claim.evidence_refs, verifier |-> claim.verifier,
        verdict |-> claim.verdict]
  /\ UNCHANGED <<workspace_kind, findings, evidence, phase, durable, revisions,
                 opened>>

-----------------------------------------------------------------------------
(***************************************************************************)
(* A fact of the task is proposed for memory. If it may be recorded the    *)
(* memory takes it or fails to; a task whose fact may never be needs none. *)
(* A candidate for an episode changes nothing that is durable.             *)
(***************************************************************************)
Record(fact, actor) ==
  LET action == EvaluateRecordPolicy(fact, actor, Converged)
      reason == RecordReason(fact, actor, Converged)
  IN  /\ phase # "closed" /\ evidence.memory \in {"record_required", "record_failed"}
      /\ \/ /\ action = "record"
            /\ \/ /\ durable' = durable \cup
                       {[fact |-> fact, by |-> actor, open |-> OpenIds(findings)]}
                  /\ evidence' = [evidence EXCEPT !.memory = "recorded"]
               \/ UNCHANGED durable /\ evidence' = [evidence EXCEPT !.memory = "record_failed"]
         \/ /\ action = "do_not_record" /\ actor = "supervisor"
            /\ reason \in {"excluded_category", "category_not_allowlisted", "contains_secret",
                           "ephemeral_fact"}
            /\ evidence' = [evidence EXCEPT !.memory = "not_needed"]
            /\ UNCHANGED durable
  /\ UNCHANGED <<workspace_kind, findings, certificate, phase, revisions, opened>>

-----------------------------------------------------------------------------
(***************************************************************************)
(* The gates. Between the first and the commit, and between the commit and *)
(* the last, anything may have happened.                                   *)
(***************************************************************************)
PreCommitGate ==
  /\ phase = "working"
  /\ EvaluateCompletionGate("pre_commit", workspace_kind, Evidence).action = "ready_for_commit"
  /\ phase' = "cleared"
  /\ UNCHANGED <<workspace_kind, findings, certificate, evidence, durable,
                 revisions, opened>>

Commit ==
  /\ phase = "cleared" /\ evidence.commit # "created" /\ evidence.tree # "clean"
  /\ committed' = revision
  /\ evidence' = [evidence EXCEPT !.commit = "created",
                    !.tree = IF workspace_kind = "remote_only" THEN @ ELSE "clean"]
  /\ as_of' = [as_of EXCEPT !.commit = revision]
  /\ UNCHANGED <<workspace_kind, findings, certificate, phase, durable, revision,
                 opened>>

\* What is pushed is what is in the repository, so the work has to be there.
Push ==
  /\ phase = "cleared" /\ committed = revision /\ evidence.push # "pushed"
  /\ evidence' = [evidence EXCEPT !.push = "pushed"]
  /\ as_of' = [as_of EXCEPT !.push = committed]
  /\ UNCHANGED <<workspace_kind, findings, certificate, phase, durable, revision,
                 committed, opened>>

FinalGate ==
  /\ phase = "cleared"
  /\ EvaluateCompletionGate("final", workspace_kind, Evidence).action = "close_task"
  /\ phase' = "closed"
  /\ UNCHANGED <<workspace_kind, findings, certificate, evidence, durable,
                 revisions, opened>>

\* The work begins in a clean tree or in one that is dirty already.
Init ==
  /\ workspace_kind \in Workspace_Kinds
  /\ findings = <<>> /\ certificate = NoCertificate
  /\ \E memory \in {"not_needed", "record_required"},
        tree \in IF workspace_kind = "remote_only" THEN {"not_applicable"}
                ELSE {"clean", "dirty"} :
       /\ evidence = [acceptance |-> "pending", tests |-> "not_run", diff |-> "pending",
                      docs |-> "not_needed", agents |-> "not_needed",
                      decisions |-> "not_needed", memory |-> memory, commit |-> "pending",
                      push |-> "pending", tree |-> tree]
       /\ committed = IF tree = "clean" THEN 1 ELSE 0
  /\ phase = "working"
  /\ durable = {}
  /\ revision = 1 /\ as_of = [matter \in DOMAIN Waiver |-> 0]
  /\ opened = 0

Next ==
  \/ Edit \/ RunTests \/ Inspect
  \/ \E note \in {"docs", "agents", "decisions"} : Update(note)
  \/ \E matter \in DOMAIN Waiver : Waive(matter)
  \/ \E id \in FindingIds : CloseFinding(id) \/ \E source \in SourceRefs : Open(id, source)
  \/ \E claim \in Claims, read \in SUBSET DOMAIN findings : Certify(claim, read)
  \/ \E fact \in Facts, actor \in Actors : Record(fact, actor)
  \/ PreCommitGate \/ Commit \/ Push \/ FinalGate

Spec == Init /\ [][Next]_vars

-----------------------------------------------------------------------------
TypeOK ==
  /\ DOMAIN findings \subseteq FindingIds
  /\ \A id \in DOMAIN findings :
       findings[id] \in [source_ref : SourceRefs, status : Finding_Statuses]
  /\ certificate \in Certificates(FindingIds, SourceRefs, Verifiers) \cup {NoCertificate}
  /\ \A field \in DOMAIN Passing : Evidence[field] \in DOMAIN Passing[field]
  /\ evidence.tree \in Tree_Statuses
  /\ phase \in {"working", "cleared", "closed"}

(***************************************************************************)
(* A task that was closed left nothing behind, whatever changed between    *)
(* the gates: its last revision, and not an earlier one, was tested,       *)
(* inspected, committed and pushed or expressly judged to need none of     *)
(* that; nothing of it is skipped, failed or out of date; and what was     *)
(* judged to need no commit in a working tree is in the repository.        *)
(***************************************************************************)
ClosedIsWhole ==
  phase = "closed" =>
    /\ evidence.tests \in {"passed", Waiver.tests} /\ as_of.tests = revision
    /\ evidence.diff \in {"inspected", Waiver.diff} /\ as_of.diff = revision
    /\ evidence.commit \in {"created", Waiver.commit} /\ as_of.commit = revision
    /\ evidence.push \in {"pushed", Waiver.push} /\ as_of.push = revision
    /\ (workspace_kind = "working_tree" \/ evidence.commit = "created") => committed = revision
    /\ "update_required" \notin {evidence.docs, evidence.agents, evidence.decisions}
    /\ evidence.memory = "recorded" => durable # {}
    /\ evidence.memory \in {"recorded", "not_needed"}

(***************************************************************************)
(* It was closed on a certificate that somebody other than the executor    *)
(* made, of every finding there is, none open: one that was opened since,  *)
(* or never read, is not overlooked.                                       *)
(***************************************************************************)
ClosedIsConverged ==
  phase = "closed" =>
    /\ certificate # NoCertificate /\ certificate.verifier.id # Executor
    /\ OpenIds(findings) = {}
    /\ \A id \in DOMAIN findings :
         id \in certificate.finding_refs /\ findings[id].source_ref \in certificate.source_refs

(***************************************************************************)
(* What is in durable memory was put there by who may, verified, and when  *)
(* no finding of the task was open.                                        *)
(***************************************************************************)
DurableIsEarned ==
  \A entry \in durable :
    /\ entry.fact.verified /\ entry.open = {}
    /\ entry.by \in {"supervisor", "supervisor_authorized_pipeline"}
=============================================================================
