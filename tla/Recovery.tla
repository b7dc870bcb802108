------------------------------ MODULE Recovery ------------------------------
(***************************************************************************)
(* Recovery of interrupted tasks: the ASR policy functions, applied by     *)
(* several Supervisor Hosts to one durable checkpoint per task while the   *)
(* Supervisor edits that checkpoint and native sessions end.               *)
(*                                                                         *)
(* The policy is src/supervisor-policy. The Hosts, the checkpoint store    *)
(* and the Bridges live in another repository; their actions are modelled  *)
(* from what src/worker-neutral/supervisor-runtime says they do with these *)
(* functions:                                                              *)
(*   - a write replaces the checkpoint it was computed from (checkpoint    *)
(*     lock), so every update below is one atomic step on checkpoint[t];   *)
(*   - a descriptor sidecar holds the last termination result of a task,   *)
(*     bound to a session, and a plan for another session is stale;        *)
(*   - the claim of a plan that passed preflight is durable before the     *)
(*     Bridge is called, and so is the evidence of an accepted spawn;      *)
(*   - a Bridge creates a session identity that was never used before.     *)
(* Plans live in the memory of a Host. Acknowledgements are computed from  *)
(* durable evidence, so any Host may send them late and more than once.    *)
(***************************************************************************)
EXTENDS ResumePreflight

CONSTANTS
  Hosts,           \* Host processes, including the successors of crashed ones
  SignalReports,   \* the sets of termination signals a Host may report
  StatusInputs,    \* what the Supervisor may write: task statuses,
  ApprovalInputs,  \*   approval statuses,
  WorkspaceInputs, \*   workspaces
  ContinuationInputs,  \* and continuations
  MaxRetryCount,   \* policy.max_retry_count of same-worker respawn
  MaxRerouteCount  \* policy.max_reroute_count of cross-worker recovery

ASSUME RecoveryAssumption ==
  /\ None \notin [worker : WorkerIds, session : Sessions]
  /\ SignalReports \subseteq SUBSET TerminationSignals
  /\ StatusInputs \subseteq TaskStatuses
  /\ ApprovalInputs \subseteq ApprovalStatuses
  /\ WorkspaceInputs \subseteq Workspaces
  /\ ContinuationInputs \subseteq
       [gate_id : Gates \cup {None}, safe_to_resume : BOOLEAN, reset : BOOLEAN]
  /\ MaxRetryCount \in Nat
  /\ MaxRerouteCount \in Nat

VARIABLES
  checkpoint,  \* checkpoint[t]: the durable checkpoint of task t
  descriptor,  \* descriptor[t]: the last termination result recorded for t
  plan,        \* plan[h]: the recovery plan Host h holds in memory
  spawning,    \* spawning[h]: Host h has called the Bridge for plan[h]
  claims,      \* durable claim keys
  accepted,    \* durable evidence of accepted spawns
  ended,       \* native sessions that have terminated
  lineage      \* lineage[t]: every execution ever installed in checkpoint[t]

vars == <<checkpoint, descriptor, plan, spawning, claims, accepted, ended, lineage>>

UsedSessions ==
  {e.session : e \in accepted} \cup
  UNION {{x.session : x \in lineage[t]} : t \in Tasks}

PastWorkers(t) == {x.worker : x \in lineage[t]}

\* The execution c carries, as an entry of the lineage installed over revision r.
Execution(c, r) ==
  [revision |-> r, worker |-> c.worker_id, session |-> c.native_session_id]

-----------------------------------------------------------------------------
(***************************************************************************)
(* The Supervisor edits a checkpoint. Any section may be patched at any    *)
(* time; only the recovery functions and Dispatch change last_execution.   *)
(***************************************************************************)
Supervise(t, patched) ==
  /\ \E next \in UpdateTaskCheckpoint(checkpoint[t], patched) :
       checkpoint' = [checkpoint EXCEPT ![t] = next]
  /\ UNCHANGED <<descriptor, plan, spawning, claims, accepted, ended, lineage>>

SetStatus(t) == \E status \in StatusInputs :
  Supervise(t, [checkpoint[t] EXCEPT !.status = status])

SetApproval(t) == \E approval \in ApprovalInputs :
  Supervise(t, [checkpoint[t] EXCEPT !.approval = approval])

\* The next gate, whether resuming is safe, and the retry count kept or reset.
SetContinuation(t) == \E input \in ContinuationInputs :
  Supervise(t, [checkpoint[t] EXCEPT
                  !.gate_id = input.gate_id,
                  !.safe_to_resume = input.safe_to_resume,
                  !.retry_count = IF input.reset THEN 0 ELSE @])

\* A gate is completed and the reference that proves it recorded.
CompleteGate(t) == \E gate \in checkpoint[t].open, ref \in Refs :
  Supervise(t, [checkpoint[t] EXCEPT !.open = @ \ {gate},
                                     !.completed = @ \cup {gate},
                                     !.refs = @ \cup {ref}])

MoveWorkspace(t) == \E workspace \in WorkspaceInputs :
  Supervise(t, [checkpoint[t] EXCEPT !.workspace = workspace])

\* The first execution of a task is assigned; recovery replaces it later.
Dispatch(t) == \E worker \in WorkerIds, session \in Sessions \ UsedSessions :
  /\ checkpoint[t].worker_id = None
  /\ \E next \in UpdateTaskCheckpoint(checkpoint[t],
                   [checkpoint[t] EXCEPT !.worker_id = worker,
                                         !.native_session_id = session]) :
       /\ checkpoint' = [checkpoint EXCEPT ![t] = next]
       /\ lineage' = [lineage EXCEPT ![t] =
                        @ \cup {Execution(next, checkpoint[t].revision)}]
  /\ UNCHANGED <<descriptor, plan, spawning, claims, accepted, ended>>

-----------------------------------------------------------------------------
(***************************************************************************)
(* The Host classifies, plans, passes preflight, spawns and acknowledges.  *)
(***************************************************************************)
SessionEnds(session) ==
  /\ session \in UsedSessions \ ended
  /\ ended' = ended \cup {session}
  /\ UNCHANGED <<checkpoint, descriptor, plan, spawning, claims, accepted, lineage>>

RecordTermination(t) ==
  /\ checkpoint[t].native_session_id \in ended
  /\ \E signals \in SignalReports :
       descriptor' = [descriptor EXCEPT ![t] =
         [session |-> checkpoint[t].native_session_id,
          result |-> ClassifySessionTermination(checkpoint[t], signals)]]
  /\ UNCHANGED <<checkpoint, plan, spawning, claims, accepted, ended, lineage>>

DescriptorApplies(t) ==
  /\ descriptor[t] # None
  /\ descriptor[t].session = checkpoint[t].native_session_id

HoldPlan(h, p) ==
  /\ plan[h] = None
  /\ plan' = [plan EXCEPT ![h] = p]
  /\ UNCHANGED <<checkpoint, descriptor, spawning, claims, accepted, ended, lineage>>

PlanSameWorkerRespawn(h, t) ==
  /\ DescriptorApplies(t)
  /\ RespawnEligible(checkpoint[t], descriptor[t].result, MaxRetryCount)
  /\ HoldPlan(h, RespawnPlan(checkpoint[t], MaxRetryCount))

\* Every worker of the task's lineage is supplied as failed.
PlanCrossWorkerRecovery(h, t) ==
  /\ DescriptorApplies(t)
  /\ RerouteEligible(checkpoint[t], descriptor[t].result, MaxRerouteCount)
  /\ \E target \in RerouteTargets(checkpoint[t], PastWorkers(t)) :
       HoldPlan(h, CrossWorkerPlan(checkpoint[t], target, MaxRerouteCount))

\* Preflight and the durable claim are one step under the checkpoint lock.
Start(h) ==
  /\ plan[h] # None
  /\ ~ spawning[h]
  /\ \E facts \in RuntimeFacts :
       EvaluateResumePreflight(checkpoint[plan[h].task_id], plan[h], facts, claims)
         = "pass"
  /\ claims' = claims \cup {plan[h].claim_key}
  /\ spawning' = [spawning EXCEPT ![h] = TRUE]
  /\ UNCHANGED <<checkpoint, descriptor, plan, accepted, ended, lineage>>

SpawnAccepted(h) == \E session \in Sessions \ UsedSessions :
  /\ spawning[h]
  /\ accepted' = accepted \cup {[plan |-> plan[h], session |-> session]}
  /\ plan' = [plan EXCEPT ![h] = None]
  /\ spawning' = [spawning EXCEPT ![h] = FALSE]
  /\ UNCHANGED <<checkpoint, descriptor, claims, ended, lineage>>

\* The Host crashes, drops a plan that failed preflight, or never learns the
\* outcome of its call. The claim stays.
Abandon(h) ==
  /\ plan[h] # None
  /\ plan' = [plan EXCEPT ![h] = None]
  /\ spawning' = [spawning EXCEPT ![h] = FALSE]
  /\ UNCHANGED <<checkpoint, descriptor, claims, accepted, ended, lineage>>

AcknowledgedCheckpoints(c, e) ==
  AcknowledgeSameWorkerRespawn(c, e.plan, e.session) \cup
  AcknowledgeCrossWorkerRecovery(c, e.plan, e.session)

\* A repeated acknowledgement returns the checkpoint it was given.
Acknowledge(t, e) ==
  /\ \E next \in AcknowledgedCheckpoints(checkpoint[t], e) :
       /\ checkpoint' = [checkpoint EXCEPT ![t] = next]
       /\ lineage' = [lineage EXCEPT ![t] =
            IF next = checkpoint[t] THEN @
            ELSE @ \cup {Execution(next, checkpoint[t].revision)}]
  /\ UNCHANGED <<descriptor, plan, spawning, claims, accepted, ended>>

-----------------------------------------------------------------------------
InitialCheckpoint(t, gate, workspace) ==
  [revision |-> 0, task_id |-> t, status |-> "open", completed |-> {},
   open |-> Gates, workspace |-> workspace, approval |-> "not_required",
   refs |-> {}, worker_id |-> None, native_session_id |-> None,
   gate_id |-> gate, retry_count |-> 0, safe_to_resume |-> TRUE]

Init ==
  /\ \E gate \in [Tasks -> Gates], workspace \in [Tasks -> WorkspaceInputs] :
       checkpoint = [t \in Tasks |-> InitialCheckpoint(t, gate[t], workspace[t])]
  /\ descriptor = [t \in Tasks |-> None]
  /\ plan = [h \in Hosts |-> None]
  /\ spawning = [h \in Hosts |-> FALSE]
  /\ claims = {}
  /\ accepted = {}
  /\ ended = {}
  /\ lineage = [t \in Tasks |-> {}]

SupervisorStep(t) ==
  \/ SetStatus(t)
  \/ SetApproval(t)
  \/ SetContinuation(t)
  \/ CompleteGate(t)
  \/ MoveWorkspace(t)
  \/ Dispatch(t)

HostStep(h) ==
  \/ \E t \in Tasks : PlanSameWorkerRespawn(h, t) \/ PlanCrossWorkerRecovery(h, t)
  \/ Start(h)
  \/ SpawnAccepted(h)
  \/ Abandon(h)

Next ==
  \/ \E t \in Tasks : SupervisorStep(t) \/ RecordTermination(t)
  \/ \E session \in Sessions : SessionEnds(session)
  \/ \E h \in Hosts : HostStep(h)
  \/ \E t \in Tasks : \E e \in accepted : Acknowledge(t, e)

Spec == Init /\ [][Next]_vars

-----------------------------------------------------------------------------
(***************************************************************************)
(* Types.                                                                  *)
(***************************************************************************)
ClaimKeys ==
  [task_id : Tasks, revision : Nat, worker_id : WorkerIds, session : Sessions,
   target : Workers \cup {None}, retry_after : Nat]

Plans ==
  [action : {"spawn_same_worker", "spawn_cross_worker"}, claim_key : ClaimKeys,
   task_id : Tasks, checkpoint_revision : Nat, source_worker_id : WorkerIds,
   source_native_session_id : Sessions, target_worker_id : WorkerIds,
   gate_id : Gates \cup {None}, retry_count_before : Nat,
   retry_count_after : Nat, retry_limit : Nat, workspace : Workspaces,
   completed : SUBSET Gates, refs : SUBSET Refs]

Evidence == [plan : Plans, session : Sessions]
Executions == [revision : Nat, worker : WorkerIds, session : Sessions]

\* Every variable holds what the code stores in it.
TypeOK ==
  /\ checkpoint \in [Tasks -> Checkpoints]
  /\ descriptor \in [Tasks -> [session : Sessions, result : TerminationResults]
                                \cup {None}]
  /\ plan \in [Hosts -> Plans \cup {None}]
  /\ spawning \in [Hosts -> BOOLEAN]
  /\ claims \subseteq ClaimKeys
  /\ accepted \subseteq Evidence
  /\ ended \subseteq Sessions
  /\ lineage \in [Tasks -> SUBSET Executions]

\* How the variables fit together; with TypeOK, what the other proofs start from.
WellFormed ==
  /\ \A t \in Tasks : checkpoint[t].task_id = t
  /\ \A t \in Tasks :
       checkpoint[t].worker_id = None <=> checkpoint[t].native_session_id = None
  /\ \A h \in Hosts : spawning[h] => plan[h] # None

-----------------------------------------------------------------------------
(***************************************************************************)
(* Safety.                                                                 *)
(***************************************************************************)
Recoverable(c) == c.status = "open" /\ c.safe_to_resume /\ ~ ApprovalBlocks(c)

\* Plans somebody may still act on, in memory or in durable evidence.
LivePlans == ({plan[h] : h \in Hosts} \ {None}) \cup {e.plan : e \in accepted}

Describes(p, c) ==
  /\ p.source_worker_id = c.worker_id
  /\ p.source_native_session_id = c.native_session_id
  /\ p.retry_count_before = c.retry_count
  /\ p.workspace = c.workspace
  /\ p.gate_id = c.gate_id
  /\ p.completed = c.completed
  /\ p.refs = c.refs

(***************************************************************************)
(* The revision is a sound version number: a plan is never ahead of its    *)
(* checkpoint, and as long as the revisions agree the checkpoint is still  *)
(* the one the plan was made from and still may be recovered. So the       *)
(* acknowledgement, which compares revisions and never looks at approval,  *)
(* status or safe_to_resume again, cannot act on a checkpoint that has     *)
(* since been blocked, and preflight's drift checks never fire.            *)
(***************************************************************************)
CurrentPlansDescribeCheckpoint == \A p \in LivePlans :
  LET c == checkpoint[p.task_id]
  IN  /\ p.checkpoint_revision <= c.revision
      /\ p.checkpoint_revision = c.revision => Recoverable(c) /\ Describes(p, c)

(***************************************************************************)
(* However many Hosts plan, spawn and acknowledge at the same revision, at *)
(* most one execution is ever installed over that revision, no session     *)
(* serves two tasks or is installed twice, and the checkpoint holds the    *)
(* last execution that was installed.                                      *)
(***************************************************************************)
LineageIsLinear ==
  /\ \A t \in Tasks : \A x, y \in lineage[t] : x.revision = y.revision => x = y
  /\ \A t, u \in Tasks : \A x \in lineage[t], y \in lineage[u] :
       x.session = y.session => t = u /\ x = y
  /\ \A t \in Tasks : \A x \in lineage[t] :
       (\A y \in lineage[t] : y.revision <= x.revision)
         => /\ x.worker = checkpoint[t].worker_id
            /\ x.session = checkpoint[t].native_session_id

(***************************************************************************)
(* A worker a task was moved away from never gets the task back.           *)
(***************************************************************************)
NoReturnToLeftWorker == \A t \in Tasks : \A x, y, z \in lineage[t] :
  x.revision < y.revision /\ y.revision < z.revision /\ x.worker = z.worker
    => y.worker = x.worker

(***************************************************************************)
(* A claim is spawned at most once, although the plan may be computed      *)
(* again by another Host, or by a Host that restarted after its call.      *)
(***************************************************************************)
OneSpawnPerClaim ==
  /\ \A d, e \in accepted : d.plan.claim_key = e.plan.claim_key => d = e
  /\ \A g, h \in Hosts :
       spawning[g] /\ spawning[h] /\ plan[g].claim_key = plan[h].claim_key => g = h
  /\ \A h \in Hosts, e \in accepted :
       spawning[h] => plan[h].claim_key # e.plan.claim_key

Replaced(t) ==
  /\ checkpoint[t].native_session_id # None
  /\ checkpoint'[t].native_session_id # checkpoint[t].native_session_id

(***************************************************************************)
(* A session is replaced only on a task that is open, safe to resume and   *)
(* not held by an approval at that very moment.                            *)
(***************************************************************************)
ReplacesOnlyRecoverable ==
  [][\A t \in Tasks : Replaced(t) => Recoverable(checkpoint[t])]_vars

(***************************************************************************)
(* A session that may still be running is never replaced: planning does    *)
(* not look at the session's status, and a termination result names no     *)
(* session, so this rests on the chain from descriptor to acknowledgement. *)
(***************************************************************************)
ReplacesOnlyEnded ==
  [][\A t \in Tasks : Replaced(t) => checkpoint[t].native_session_id \in ended]_vars
-----------------------------------------------------------------------------
(***************************************************************************)
(* The recovery path implements TaskLineage.                               *)
(***************************************************************************)
MaterialOf(c) ==
  [status |-> c.status, completed |-> c.completed, open |-> c.open,
   workspace |-> c.workspace, approval |-> c.approval, refs |-> c.refs,
   gate_id |-> c.gate_id, safe_to_resume |-> c.safe_to_resume]

TaskMaterials ==
  [status : TaskStatuses, completed : SUBSET Gates, open : SUBSET Gates,
   workspace : Workspaces, approval : ApprovalStatuses, refs : SUBSET Refs,
   gate_id : Gates \cup {None}, safe_to_resume : BOOLEAN]

Owner(c) ==
  IF c.native_session_id = None THEN None
  ELSE [worker |-> c.worker_id, session |-> c.native_session_id]

Lineage == INSTANCE TaskLineage WITH
  Workers <- WorkerIds,
  Materials <- TaskMaterials,
  Resumable <- {m \in TaskMaterials : Recoverable(m)},
  Budget <- IF MaxRetryCount > MaxRerouteCount THEN MaxRetryCount
            ELSE MaxRerouteCount,
  owner <- [t \in Tasks |-> Owner(checkpoint[t])],
  past <- [t \in Tasks |->
             {[worker |-> x.worker, session |-> x.session] : x \in lineage[t]}],
  spent <- [t \in Tasks |-> checkpoint[t].retry_count],
  material <- [t \in Tasks |-> MaterialOf(checkpoint[t])]

(***************************************************************************)
(* Every step of classifying, planning, spawning, crashing and repeating   *)
(* is invisible but one, the first acknowledgement, which is an atomic     *)
(* recovery: new session, right worker, one unit of budget, nothing lost.  *)
(***************************************************************************)
RecoveryIsAtomic == Lineage!Spec

-----------------------------------------------------------------------------
(***************************************************************************)
(* Liveness. After a restart a Host completes the acknowledgement of every *)
(* accepted spawn it finds, so acknowledging durable evidence is fair.     *)
(***************************************************************************)
AcknowledgeSession(t, session) ==
  \E e \in accepted : e.session = session /\ Acknowledge(t, e)

FairSpec ==
  /\ Spec
  /\ \A t \in Tasks, session \in Sessions : WF_vars(AcknowledgeSession(t, session))

\* The evidence of session's spawn is current: nothing was installed since.
AwaitsAcknowledgement(t, session) == \E e \in accepted :
  /\ e.session = session
  /\ e.plan.task_id = t
  /\ e.plan.checkpoint_revision = checkpoint[t].revision
  /\ checkpoint[t].revision < MaxSafeInteger

(***************************************************************************)
(* An accepted spawn is not left hanging: it is installed, or another      *)
(* update of the checkpoint overtakes it.                                  *)
(***************************************************************************)
AcceptedSpawnSettles == \A t \in Tasks, session \in Sessions :
  AwaitsAcknowledgement(t, session) ~> ~ AwaitsAcknowledgement(t, session)
=============================================================================
