------------------------- MODULE TaskClosure_proofs -------------------------
(***************************************************************************)
(* Proofs about TaskClosure for any findings, claims, facts, actors and    *)
(* number of edits. The gates see statuses only; IInv says which revision  *)
(* of the work each status is of, because an edit takes back what it makes *)
(* out of date.                                                            *)
(***************************************************************************)
EXTENDS TaskClosure, TLAPS

EvidenceRecords ==
  [acceptance : {"pending"},
   tests : {"passed", "not_required", "failed", "not_run"},
   diff : {"inspected", "not_required", "pending"},
   docs : DOMAIN Notes, agents : DOMAIN Notes, decisions : DOMAIN Notes,
   memory : {"not_needed", "record_required", "recorded", "record_failed"},
   commit : {"created", "not_needed", "pending"}, push : {"pushed", "not_needed", "pending"},
   tree : {"clean", "dirty", "not_applicable"}]

Phases == {"working", "cleared", "closed"}

\* A status that passes is of the work as it is, and a clean tree is in the repository.
StatusesAreCurrent ==
  /\ evidence.tests \in {"passed", "not_required"} => as_of.tests = revision
  /\ evidence.diff \in {"inspected", "not_required"} => as_of.diff = revision
  /\ evidence.commit \in {"created", "not_needed"} => as_of.commit = revision
  /\ evidence.push \in {"pushed", "not_needed"} => as_of.push = revision
  /\ evidence.commit = "created" \/ evidence.tree = "clean" => committed = revision
  /\ workspace_kind = "remote_only" => evidence.tree = "not_applicable"
  /\ evidence.memory = "recorded" => durable # {}

IInv ==
  /\ evidence \in EvidenceRecords
  /\ as_of \in [DOMAIN Waiver -> Nat] /\ revision \in Nat /\ committed \in Nat
  /\ phase \in Phases
  /\ StatusesAreCurrent
  /\ ClosedIsWhole

-----------------------------------------------------------------------------
(***************************************************************************)
(* The policies.                                                           *)
(***************************************************************************)

\* A certificate without blockers is of every finding, and none is open.
LEMMA ConvergedMeans ==
  ASSUME NEW c, NEW found, NEW executor,
         EvaluateConvergenceCertificate(c, found, executor).converged
  PROVE  /\ OpenIds(found) = {}
         /\ c.finding_refs = DOMAIN found
         /\ \A id \in DOMAIN found : found[id].source_ref \in c.source_refs
         /\ c.verifier.id # executor
<1>1. Blockers(c, found, executor) = {}
  BY DEF EvaluateConvergenceCertificate
<1>2. /\ "open_findings_present" \notin Blockers(c, found, executor)
      /\ "finding_refs_mismatch" \notin Blockers(c, found, executor)
      /\ "finding_source_ref_out_of_scope" \notin Blockers(c, found, executor)
      /\ "executor_self_certification" \notin Blockers(c, found, executor)
  BY <1>1
<1>3. QED
  BY <1>2 DEF Blockers

\* A gate that is open has every field it requires passing.
LEMMA GateMeans ==
  ASSUME NEW stage, NEW kind, NEW e,
         EvaluateCompletionGate(stage, kind, e).action = "close_task"
  PROVE  \A field \in Final_Required : Passes(field, e, kind)
BY DEF EvaluateCompletionGate

\* Only the Supervisor or its pipeline records, and only what is verified and
\* of an accepted task.
LEMMA RecordMeans ==
  ASSUME NEW fact, NEW actor \in Actors, NEW accepted,
         EvaluateRecordPolicy(fact, actor, accepted) = "record"
  PROVE  /\ fact.verified /\ accepted
         /\ actor \in {"supervisor", "supervisor_authorized_pipeline"}
BY DEF EvaluateRecordPolicy, RecordReason, Actors

-----------------------------------------------------------------------------
(***************************************************************************)
(* What passes at the final gate is of the present revision.               *)
(***************************************************************************)
LEMMA FinalGateIsWhole ==
  ASSUME IInv, FinalGate
  PROVE  ClosedIsWhole' /\ Converged
<1>1. \A field \in Final_Required : Passes(field, Evidence, workspace_kind)
  BY GateMeans DEF FinalGate
<1>2. /\ Passing["acceptance"][Evidence["acceptance"]]
      /\ Passing["tests"][Evidence["tests"]] /\ Passing["diff"][Evidence["diff"]]
      /\ Passing["docs"][Evidence["docs"]] /\ Passing["agents"][Evidence["agents"]]
      /\ Passing["decisions"][Evidence["decisions"]]
      /\ Passing["memory"][Evidence["memory"]]
      /\ Passing["commit"][Evidence["commit"]] /\ Passing["push"][Evidence["push"]]
      /\ TreePasses(Evidence.tree, workspace_kind)
  BY <1>1 DEF Passes, Final_Required, Pre_Commit_Required
<1>3. /\ evidence \in EvidenceRecords
      /\ Evidence["acceptance"] = IF Converged THEN "verified" ELSE "pending"
      /\ Evidence["tests"] = evidence.tests /\ Evidence["diff"] = evidence.diff
      /\ Evidence["docs"] = evidence.docs /\ Evidence["agents"] = evidence.agents
      /\ Evidence["decisions"] = evidence.decisions
      /\ Evidence["memory"] = evidence.memory
      /\ Evidence["commit"] = evidence.commit /\ Evidence["push"] = evidence.push
      /\ Evidence.tree = evidence.tree
  BY DEF IInv, Evidence, EvidenceRecords
<1>4. Converged
  BY <1>2, <1>3 DEF Passing
<1>5. /\ evidence.tests \in {"passed", "not_required"}
      /\ evidence.diff \in {"inspected", "not_required"}
      /\ evidence.commit \in {"created", "not_needed"}
      /\ evidence.push \in {"pushed", "not_needed"}
  BY <1>2, <1>3 DEF Passing, EvidenceRecords
<1>6. /\ "update_required" \notin {evidence.docs, evidence.agents, evidence.decisions}
      /\ evidence.memory \in {"recorded", "not_needed"}
  BY <1>2, <1>3 DEF Passing, Notes, EvidenceRecords
<1>7. workspace_kind = "working_tree" => evidence.tree = "clean"
  BY <1>2, <1>3 DEF TreePasses
<1>8. ClosedIsWhole'
  BY <1>5, <1>6, <1>7 DEF IInv, StatusesAreCurrent, FinalGate, ClosedIsWhole, revisions, Waiver
<1>9. QED
  BY <1>4, <1>8

LEMMA IInvHolds == Init => IInv
BY DEF Init, IInv, EvidenceRecords, Phases, StatusesAreCurrent, ClosedIsWhole, Waiver, Notes

\* Nothing happens to a closed task.
LEMMA ClosedIsLast == phase = "closed" => ~Next
BY DEF Next, Edit, Update, RunTests, Inspect, Waive, Open, CloseFinding, Certify, Record,
       PreCommitGate, Commit, Push, FinalGate

\* An edit takes back what it makes out of date and nothing else, and may leave any
\* note to be updated.
LEMMA StaleMeans ==
  ASSUME evidence \in EvidenceRecords, NEW due
  PROVE  /\ Stale(evidence, due) \in EvidenceRecords
         /\ Stale(evidence, due).tests = "not_run" /\ Stale(evidence, due).diff = "pending"
         /\ Stale(evidence, due).commit = "pending" /\ Stale(evidence, due).push = "pending"
         /\ Stale(evidence, due).memory = evidence.memory
         /\ Stale(evidence, due).tree = IF workspace_kind = "remote_only" THEN evidence.tree
                                        ELSE "dirty"
<1> DEFINE docs == IF "docs" \in due THEN "update_required" ELSE evidence.docs
           agents == IF "agents" \in due THEN "update_required" ELSE evidence.agents
           decisions == IF "decisions" \in due THEN "update_required" ELSE evidence.decisions
           tree == IF workspace_kind = "remote_only" THEN evidence.tree ELSE "dirty"
<1>1. /\ docs \in DOMAIN Notes /\ agents \in DOMAIN Notes /\ decisions \in DOMAIN Notes
      /\ tree \in {"clean", "dirty", "not_applicable"}
  BY DEF EvidenceRecords, Notes
<1>2. Stale(evidence, due) =
        [evidence EXCEPT !.tests = "not_run", !.diff = "pending", !.commit = "pending",
                         !.push = "pending", !.docs = docs, !.agents = agents,
                         !.decisions = decisions, !.tree = tree]
  BY DEF Stale
<1> DEFINE new == Stale(evidence, due)
<1> HIDE DEF docs, agents, decisions, tree, new
<1>3. /\ new \in EvidenceRecords
      /\ new.tests = "not_run" /\ new.diff = "pending"
      /\ new.commit = "pending" /\ new.push = "pending"
      /\ new.memory = evidence.memory /\ new.tree = tree
  <2>1. new = [evidence EXCEPT !.tests = "not_run", !.diff = "pending", !.commit = "pending",
                               !.push = "pending", !.docs = docs, !.agents = agents,
                               !.decisions = decisions, !.tree = tree]
    BY <1>2 DEF new
  <2>2. QED
    BY <1>1, <2>1 DEF EvidenceRecords
<1>4. QED
  BY <1>3 DEF new, tree

LEMMA StepsKeepIInv == IInv /\ [Next]_vars => IInv'
<1> SUFFICES ASSUME IInv, [Next]_vars
             PROVE  IInv'
  OBVIOUS
<1> USE DEF IInv, EvidenceRecords, Phases, StatusesAreCurrent, ClosedIsWhole
<1>1. CASE Edit
  <2>1. PICK due \in Impacts : evidence' = Stale(evidence, due)
    BY <1>1 DEF Edit
  <2>2. QED
    BY <1>1, <2>1, StaleMeans DEF Edit
<1>2. CASE \E note \in {"docs", "agents", "decisions"} : Update(note)
  <2>1. PICK note \in {"docs", "agents", "decisions"} : Update(note)
    BY <1>2
  <2>2. CASE revision' = revision + 1 /\ evidence' = [Stale(evidence, {}) EXCEPT ![note] = "updated"]
    <3>1. /\ evidence' \in EvidenceRecords
          /\ evidence'.tests = "not_run" /\ evidence'.diff = "pending"
          /\ evidence'.commit = "pending" /\ evidence'.push = "pending"
          /\ evidence'.memory = evidence.memory
          /\ evidence'.tree = IF workspace_kind = "remote_only" THEN evidence.tree ELSE "dirty"
      BY <2>2, StaleMeans DEF Notes
    <3>2. QED
      BY <2>1, <2>2, <3>1 DEF Update
  <2>3. CASE evidence' = [evidence EXCEPT ![note] = "not_needed"] /\ UNCHANGED revision
    <3>1. /\ evidence' \in EvidenceRecords
          /\ evidence'.tests = evidence.tests /\ evidence'.diff = evidence.diff
          /\ evidence'.commit = evidence.commit /\ evidence'.push = evidence.push
          /\ evidence'.memory = evidence.memory /\ evidence'.tree = evidence.tree
      BY <2>3 DEF Notes
    <3>2. QED
      BY <2>1, <2>3, <3>1 DEF Update
  <2>4. QED
    BY <2>1, <2>2, <2>3 DEF Update
<1>3. CASE RunTests
  BY <1>3 DEF RunTests, Waiver
<1>4. CASE Inspect
  BY <1>4 DEF Inspect, Waiver
<1>5. CASE \E matter \in DOMAIN Waiver : Waive(matter)
  <2>1. PICK matter \in DOMAIN Waiver : Waive(matter)
    BY <1>5
  <2>2. CASE matter = "tests"
    BY <2>1, <2>2 DEF Waive, Waiver
  <2>3. CASE matter = "diff"
    BY <2>1, <2>3 DEF Waive, Waiver
  <2>4. CASE matter = "commit"
    BY <2>1, <2>4 DEF Waive, Waiver, Passing
  <2>5. CASE matter = "push"
    BY <2>1, <2>5 DEF Waive, Waiver
  <2>6. QED
    BY <2>2, <2>3, <2>4, <2>5 DEF Waiver
<1>6. CASE \E id \in FindingIds : CloseFinding(id) \/ \E source \in SourceRefs : Open(id, source)
  BY <1>6 DEF CloseFinding, Open, revisions
<1>7. CASE \E claim \in Claims, read \in SUBSET DOMAIN findings : Certify(claim, read)
  BY <1>7 DEF Certify, revisions
<1>8. CASE \E fact \in Facts, actor \in Actors : Record(fact, actor)
  <2>1. /\ evidence' \in {evidence, [evidence EXCEPT !.memory = "recorded"],
                          [evidence EXCEPT !.memory = "record_failed"],
                          [evidence EXCEPT !.memory = "not_needed"]}
        /\ durable \subseteq durable'
        /\ evidence' = [evidence EXCEPT !.memory = "recorded"] => durable' # {}
        /\ phase # "closed" /\ UNCHANGED <<workspace_kind, phase, revision, committed, as_of>>
    <3>1. PICK fact \in Facts, actor \in Actors : Record(fact, actor)
      BY <1>8
    <3>2. QED
      BY <3>1 DEF Record, revisions
  <2>2. /\ evidence' \in EvidenceRecords
        /\ evidence'.tests = evidence.tests /\ evidence'.diff = evidence.diff
        /\ evidence'.commit = evidence.commit /\ evidence'.push = evidence.push
        /\ evidence'.tree = evidence.tree
        /\ evidence'.memory = "recorded" => durable' # {}
    BY <2>1
  <2>3. QED
    BY <2>1, <2>2
<1>9. CASE PreCommitGate
  BY <1>9 DEF PreCommitGate, revisions
<1>10. CASE Commit
  BY <1>10 DEF Commit, Waiver
<1>11. CASE Push
  BY <1>11 DEF Push, Waiver
<1>12. CASE FinalGate
  BY <1>12, FinalGateIsWhole DEF FinalGate, revisions
<1>13. CASE UNCHANGED vars
  BY <1>13 DEF vars, revisions
<1>14. QED
  BY <1>1, <1>2, <1>3, <1>4, <1>5, <1>6, <1>7, <1>8, <1>9, <1>10, <1>11, <1>12, <1>13 DEF Next

LEMMA Invariance == Spec => []IInv
BY IInvHolds, StepsKeepIInv, PTL DEF Spec

-----------------------------------------------------------------------------
(***************************************************************************)
(* The theorems.                                                           *)
(***************************************************************************)

\* What was closed is the last revision: tested, inspected, committed and pushed, or
\* expressly judged to need none of it, and in the repository if it has a working tree.
THEOREM ClosesWhole == Spec => []ClosedIsWhole
<1>1. IInv => ClosedIsWhole
  BY DEF IInv
<1>2. QED
  BY <1>1, Invariance, PTL

\* It was closed on a certificate of somebody else that covers every finding.
THEOREM ClosesConverged == Spec => []ClosedIsConverged
<1>1. Init => ClosedIsConverged
  BY DEF Init, ClosedIsConverged
<1>2. IInv /\ ClosedIsConverged /\ [Next]_vars => ClosedIsConverged'
  <2> SUFFICES ASSUME IInv, ClosedIsConverged, [Next]_vars, phase' = "closed"
               PROVE  ClosedIsConverged'
    BY DEF ClosedIsConverged
  <2>1. CASE UNCHANGED vars
    BY <2>1 DEF vars, ClosedIsConverged, OpenIds
  <2>2. CASE FinalGate
    <3>1. Converged
      BY <2>2, FinalGateIsWhole
    <3>2. UNCHANGED <<certificate, findings>>
      BY <2>2 DEF FinalGate
    <3>3. /\ certificate # NoCertificate
          /\ EvaluateConvergenceCertificate(certificate, findings, Executor).converged
      BY <3>1 DEF Converged
    <3>4. QED
      BY <3>2, <3>3, ConvergedMeans DEF ClosedIsConverged, OpenIds
  <2>3. CASE Next /\ ~FinalGate
    <3>1. phase # "closed"
      BY <2>3, ClosedIsLast
    <3>2. phase' = phase \/ phase' = "cleared"
      BY <2>3 DEF Next, Edit, Update, RunTests, Inspect, Waive, Open, CloseFinding, Certify,
                  Record, PreCommitGate, Commit, Push
    <3>3. QED
      BY <3>1, <3>2
  <2>4. QED
    BY <2>1, <2>2, <2>3
<1>3. QED
  BY <1>1, <1>2, Invariance, PTL DEF Spec

\* Durable memory holds verified facts of accepted tasks, put there by who may.
THEOREM MemoryIsEarned == Spec => []DurableIsEarned
<1>1. Init => DurableIsEarned
  BY DEF Init, DurableIsEarned
<1>2. DurableIsEarned /\ [Next]_vars => DurableIsEarned'
  <2> SUFFICES ASSUME DurableIsEarned, [Next]_vars, NEW entry \in durable' \ durable
               PROVE  /\ entry.fact.verified /\ entry.open = {}
                      /\ entry.by \in {"supervisor", "supervisor_authorized_pipeline"}
    BY DEF DurableIsEarned
  <2>1. PICK fact \in Facts, actor \in Actors : Record(fact, actor)
    BY DEF Next, Edit, Update, RunTests, Inspect, Waive, Open, CloseFinding, Certify,
           PreCommitGate, Commit, Push, FinalGate, vars
  <2>2. /\ EvaluateRecordPolicy(fact, actor, Converged) = "record"
        /\ entry = [fact |-> fact, by |-> actor, open |-> OpenIds(findings)]
    BY <2>1 DEF Record
  <2>3. fact.verified /\ Converged /\ actor \in {"supervisor", "supervisor_authorized_pipeline"}
    BY <2>2, RecordMeans
  <2>4. OpenIds(findings) = {}
    BY <2>3, ConvergedMeans DEF Converged
  <2>5. QED
    BY <2>2, <2>3, <2>4
<1>3. QED
  BY <1>1, <1>2, PTL DEF Spec

\* Findings, certificates, statuses and phases are what the policies know.
THEOREM TypeCorrect == Spec => []TypeOK
<1> DEFINE FindingsOK ==
      /\ DOMAIN findings \subseteq FindingIds
      /\ \A id \in DOMAIN findings :
           findings[id] \in [source_ref : SourceRefs, status : Finding_Statuses]
    CertificateOK ==
      certificate \in Certificates(FindingIds, SourceRefs, Verifiers) \cup {NoCertificate}
    Stored == FindingsOK /\ CertificateOK
<1>1. Init => Stored
  BY DEF Init
<1>2. Stored /\ [Next]_vars => Stored'
  <2> SUFFICES ASSUME Stored, [Next]_vars
               PROVE  Stored'
    OBVIOUS
  <2>1. CASE UNCHANGED <<findings, certificate>>
    BY <2>1
  <2>2. CASE \E id \in FindingIds, source \in SourceRefs : Open(id, source)
    BY <2>2 DEF Open, Finding_Statuses
  <2>3. CASE \E id \in FindingIds : CloseFinding(id)
    BY <2>3 DEF CloseFinding, Finding_Statuses, OpenIds
  <2>4. CASE \E claim \in Claims, read \in SUBSET DOMAIN findings : Certify(claim, read)
    BY <2>4, ClosureAssumption DEF Certify, Certificates
  <2>5. CASE \E fact \in Facts, actor \in Actors : Record(fact, actor)
    BY <2>5 DEF Record
  <2>6. QED
    BY <2>1, <2>2, <2>3, <2>4, <2>5
       DEF Next, Edit, Update, RunTests, Inspect, Waive, PreCommitGate, Commit, Push, FinalGate, vars
<1>3. IInv /\ Stored => TypeOK
  <2>1. ASSUME IInv, NEW field \in DOMAIN Passing
        PROVE  Evidence[field] \in DOMAIN Passing[field]
    BY <2>1 DEF IInv, EvidenceRecords, Evidence, Passing, Notes
  <2>2. QED
    BY <2>1 DEF TypeOK, IInv, EvidenceRecords, Phases, Tree_Statuses
<1>4. QED
  BY <1>1, <1>2, <1>3, Invariance, PTL DEF Spec
=============================================================================
