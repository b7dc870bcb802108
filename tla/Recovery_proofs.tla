--------------------------- MODULE Recovery_proofs ---------------------------
(***************************************************************************)
(* Proofs about Recovery, for every number of tasks, Hosts, workers,       *)
(* sessions and gates, every revision bound and every pair of limits.      *)
(***************************************************************************)
EXTENDS Recovery, TLAPS

-----------------------------------------------------------------------------
(***************************************************************************)
(* The operators: what an update, a classification and a plan return.      *)
(***************************************************************************)

\* An update is the patched checkpoint at the next revision.
LEMMA UpdateIsNextRevision ==
  ASSUME NEW c \in Checkpoints, NEW patched \in Checkpoints,
         NEW next \in UpdateTaskCheckpoint(c, patched)
  PROVE  /\ next \in Checkpoints
         /\ next.revision = c.revision + 1
         /\ next = [patched EXCEPT !.revision = c.revision + 1]
BY DEF UpdateTaskCheckpoint, Checkpoints

\* Classification always returns a termination result.
LEMMA ClassificationType ==
  ASSUME NEW c \in Checkpoints, NEW signals
  PROVE  ClassifySessionTermination(c, signals) \in TerminationResults
<1>1. ASSUME NEW signal PROVE SingleSignalResult(signal) \in TerminationResults
  BY DEF SingleSignalResult, Ineligible, Result, TerminationResults,
         Classifications, Reasons
<1>2. ASSUME NEW classification \in Classifications, NEW reason \in Reasons
      PROVE  Ineligible(classification, reason) \in TerminationResults
  BY DEF Ineligible, Result, TerminationResults
<1>3. TaskReason(c) \in Reasons /\ ApprovalReason(c) \in Reasons
  BY DEF TaskReason, ApprovalReason, Reasons
<1>4. QED
  BY <1>1, <1>2, <1>3 DEF ClassifySessionTermination, Classifications, Reasons

\* A plan for a checkpoint with an execution is a well-typed envelope.
LEMMA EnvelopeType ==
  ASSUME NEW c \in Checkpoints, c.worker_id # None, c.native_session_id # None,
         NEW action \in {"spawn_same_worker", "spawn_cross_worker"},
         NEW claimTarget \in Workers \cup {None}, NEW target \in WorkerIds,
         NEW limit \in Nat
  PROVE  Envelope(c, action, ClaimKey(c, claimTarget, c.retry_count + 1),
                  target, limit) \in Plans
<1>1. c.worker_id \in WorkerIds /\ c.native_session_id \in Sessions
  BY DEF Checkpoints
<1>2. ClaimKey(c, claimTarget, c.retry_count + 1) \in ClaimKeys
  BY <1>1 DEF ClaimKey, ClaimKeys, Checkpoints
<1>3. QED
  BY <1>1, <1>2 DEF Envelope, Plans, Checkpoints

(***************************************************************************)
(* An acknowledgement returns the checkpoint unchanged, or installs its    *)
(* session over exactly the revision the plan was made from.               *)
(***************************************************************************)
InstallsOver(c, e, next) ==
  /\ e.plan.checkpoint_revision = c.revision
  /\ e.plan.task_id = c.task_id
  /\ e.plan.source_native_session_id = c.native_session_id
  /\ e.plan.source_worker_id = c.worker_id
  /\ e.session # c.native_session_id
  /\ next.revision = c.revision + 1
  /\ next.task_id = c.task_id
  /\ next.native_session_id = e.session
  /\ next.retry_count = c.retry_count + 1
  /\ MaterialOf(next) = MaterialOf(c)
  /\ c.retry_count + 1 <= e.plan.retry_limit
  /\ next.worker_id = c.worker_id \/ next.worker_id = e.plan.target_worker_id

LEMMA AcknowledgeInstalls ==
  ASSUME NEW c \in Checkpoints, NEW e \in Evidence,
         NEW next \in AcknowledgedCheckpoints(c, e)
  PROVE  /\ next \in Checkpoints
         /\ next = c \/ InstallsOver(c, e, next)
<1>1. CASE next \in AcknowledgeSameWorkerRespawn(c, e.plan, e.session) /\ next # c
  <2>1. /\ RespawnSourceMatches(c, e.plan)
        /\ RespawnTransitionValid(c, e.plan)
        /\ e.session # e.plan.source_native_session_id
        /\ next \in UpdateTaskCheckpoint(c, RespawnInstalled(c, e.plan, e.session))
    BY <1>1 DEF AcknowledgeSameWorkerRespawn
  <2>2. RespawnInstalled(c, e.plan, e.session) \in Checkpoints
    BY DEF RespawnInstalled, Checkpoints, Evidence, Plans
  <2>3. /\ next \in Checkpoints
        /\ next = [RespawnInstalled(c, e.plan, e.session)
                    EXCEPT !.revision = c.revision + 1]
    BY <2>1, <2>2, UpdateIsNextRevision
  <2>4. /\ next.revision = c.revision + 1
        /\ next.task_id = c.task_id
        /\ next.native_session_id = e.session
        /\ next.worker_id = e.plan.source_worker_id
        /\ next.retry_count = e.plan.retry_count_after
        /\ MaterialOf(next) = MaterialOf(c)
    BY <2>3 DEF RespawnInstalled, Checkpoints, MaterialOf
  <2>5. QED
    BY <2>1, <2>3, <2>4
    DEF RespawnSourceMatches, RespawnTransitionValid, InstallsOver
<1>2. CASE next \in AcknowledgeCrossWorkerRecovery(c, e.plan, e.session) /\ next # c
  <2>1. /\ CrossSourceMatches(c, e.plan)
        /\ CrossTransitionValid(c, e.plan)
        /\ e.session # e.plan.source_native_session_id
        /\ next \in UpdateTaskCheckpoint(c, CrossInstalled(c, e.plan, e.session))
    BY <1>2 DEF AcknowledgeCrossWorkerRecovery
  <2>2. CrossInstalled(c, e.plan, e.session) \in Checkpoints
    BY DEF CrossInstalled, Checkpoints, Evidence, Plans
  <2>3. /\ next \in Checkpoints
        /\ next = [CrossInstalled(c, e.plan, e.session)
                    EXCEPT !.revision = c.revision + 1]
    BY <2>1, <2>2, UpdateIsNextRevision
  <2>4. /\ next.revision = c.revision + 1
        /\ next.task_id = c.task_id
        /\ next.native_session_id = e.session
        /\ next.worker_id = e.plan.target_worker_id
        /\ next.retry_count = e.plan.retry_count_after
        /\ MaterialOf(next) = MaterialOf(c)
    BY <2>3 DEF CrossInstalled, Checkpoints, MaterialOf
  <2>5. QED
    BY <2>1, <2>3, <2>4
    DEF CrossSourceMatches, CrossTransitionValid, InstallsOver
<1>3. QED
  BY <1>1, <1>2 DEF AcknowledgedCheckpoints

-----------------------------------------------------------------------------
(***************************************************************************)
(* Type correctness. WellFormed is needed with TypeOK: a spawn is recorded *)
(* with the plan its Host holds, which exists because it is spawning.      *)
(***************************************************************************)
TypeInv == TypeOK /\ WellFormed

LEMMA SuperviseKeepsTypes ==
  ASSUME TypeInv, NEW t \in Tasks, NEW patched \in Checkpoints,
         patched.task_id = t,
         patched.worker_id = checkpoint[t].worker_id,
         patched.native_session_id = checkpoint[t].native_session_id,
         Supervise(t, patched)
  PROVE  TypeInv'
<1>1. PICK next \in UpdateTaskCheckpoint(checkpoint[t], patched) :
        checkpoint' = [checkpoint EXCEPT ![t] = next]
  BY DEF Supervise
<1>2. checkpoint[t] \in Checkpoints
  BY DEF TypeInv, TypeOK
<1>3. /\ next \in Checkpoints
      /\ next = [patched EXCEPT !.revision = checkpoint[t].revision + 1]
  BY <1>1, <1>2, UpdateIsNextRevision
<1>4. /\ next.task_id = t
      /\ next.worker_id = checkpoint[t].worker_id
      /\ next.native_session_id = checkpoint[t].native_session_id
  BY <1>3 DEF Checkpoints
<1>5. QED
  BY <1>1, <1>3, <1>4 DEF Supervise, TypeInv, TypeOK, WellFormed

\* What the Supervisor patches is a checkpoint of the same execution.
LEMMA SupervisorPatches ==
  ASSUME TypeInv, NEW t \in Tasks,
         SetStatus(t) \/ SetApproval(t) \/ SetContinuation(t)
           \/ CompleteGate(t) \/ MoveWorkspace(t)
  PROVE  \E patched \in Checkpoints :
           /\ patched.task_id = t
           /\ patched.worker_id = checkpoint[t].worker_id
           /\ patched.native_session_id = checkpoint[t].native_session_id
           /\ patched.retry_count \in {0, checkpoint[t].retry_count}
           /\ Supervise(t, patched)
<1>. USE RecoveryAssumption
<1>1. checkpoint[t] \in Checkpoints /\ checkpoint[t].task_id = t
  BY DEF TypeInv, TypeOK, WellFormed
<1>2. CASE SetStatus(t)
  BY <1>1, <1>2 DEF SetStatus, Checkpoints
<1>3. CASE SetApproval(t)
  BY <1>1, <1>3 DEF SetApproval, Checkpoints
<1>4. CASE SetContinuation(t)
  BY <1>1, <1>4 DEF SetContinuation, Checkpoints
<1>5. CASE CompleteGate(t)
  BY <1>1, <1>5 DEF CompleteGate, Checkpoints
<1>6. CASE MoveWorkspace(t)
  BY <1>1, <1>6 DEF MoveWorkspace, Checkpoints
<1>7. QED
  BY <1>2, <1>3, <1>4, <1>5, <1>6

LEMMA DispatchKeepsTypes ==
  ASSUME TypeInv, NEW t \in Tasks, Dispatch(t)
  PROVE  TypeInv'
<1>1. PICK worker \in WorkerIds, session \in Sessions :
        \E next \in UpdateTaskCheckpoint(checkpoint[t],
              [checkpoint[t] EXCEPT !.worker_id = worker,
                                    !.native_session_id = session]) :
          /\ checkpoint' = [checkpoint EXCEPT ![t] = next]
          /\ lineage' = [lineage EXCEPT ![t] =
                           @ \cup {Execution(next, checkpoint[t].revision)}]
  BY DEF Dispatch
<1>. DEFINE patched == [checkpoint[t] EXCEPT !.worker_id = worker,
                                            !.native_session_id = session]
<1>2. PICK next \in UpdateTaskCheckpoint(checkpoint[t], patched) :
        /\ checkpoint' = [checkpoint EXCEPT ![t] = next]
        /\ lineage' = [lineage EXCEPT ![t] =
                         @ \cup {Execution(next, checkpoint[t].revision)}]
  BY <1>1
<1>3. checkpoint[t] \in Checkpoints /\ patched \in Checkpoints
  <2>1. checkpoint[t] \in Checkpoints
    BY DEF TypeInv, TypeOK
  <2>2. QED
    BY <2>1 DEF Checkpoints
<1>4. /\ next \in Checkpoints
      /\ next = [patched EXCEPT !.revision = checkpoint[t].revision + 1]
  BY <1>2, <1>3, UpdateIsNextRevision
<1>5. /\ next.task_id = t
      /\ next.worker_id = worker
      /\ next.native_session_id = session
  BY <1>3, <1>4 DEF TypeInv, WellFormed, Checkpoints
<1>6. Execution(next, checkpoint[t].revision) \in Executions
  BY <1>3, <1>5 DEF Execution, Executions, Checkpoints
<1>7. checkpoint' \in [Tasks -> Checkpoints] /\ lineage' \in [Tasks -> SUBSET Executions]
  BY <1>2, <1>4, <1>6 DEF TypeInv, TypeOK
<1>8. worker # None /\ session # None
  BY CheckpointAssumption
<1>9. QED
  BY <1>2, <1>5, <1>7, <1>8 DEF Dispatch, TypeInv, TypeOK, WellFormed

LEMMA AcknowledgeKeepsTypes ==
  ASSUME TypeInv, NEW t \in Tasks, NEW e \in accepted, Acknowledge(t, e)
  PROVE  TypeInv'
<1>1. PICK next \in AcknowledgedCheckpoints(checkpoint[t], e) :
        /\ checkpoint' = [checkpoint EXCEPT ![t] = next]
        /\ lineage' = [lineage EXCEPT ![t] =
             IF next = checkpoint[t] THEN @
             ELSE @ \cup {Execution(next, checkpoint[t].revision)}]
  BY DEF Acknowledge
<1>2. checkpoint[t] \in Checkpoints /\ e \in Evidence
  BY DEF TypeInv, TypeOK
<1>3. /\ next \in Checkpoints
      /\ next = checkpoint[t] \/ InstallsOver(checkpoint[t], e, next)
  BY <1>1, <1>2, AcknowledgeInstalls
<1>4. CASE next = checkpoint[t]
  BY <1>1, <1>4 DEF Acknowledge, TypeInv, TypeOK, WellFormed
<1>5. CASE next # checkpoint[t]
  <2>1. InstallsOver(checkpoint[t], e, next)
    BY <1>3, <1>5
  <2>2. /\ e.plan.source_worker_id \in WorkerIds
        /\ e.plan.target_worker_id \in WorkerIds
        /\ e.session \in Sessions
    BY <1>2 DEF Evidence, Plans
  <2>3. /\ next.task_id = t
        /\ next.worker_id \in WorkerIds
        /\ next.native_session_id \in Sessions
    BY <2>1, <2>2 DEF InstallsOver, TypeInv, WellFormed
  <2>4. Execution(next, checkpoint[t].revision) \in Executions
    BY <1>2, <2>3 DEF Execution, Executions, Checkpoints
  <2>5. /\ checkpoint' \in [Tasks -> Checkpoints]
        /\ lineage' \in [Tasks -> SUBSET Executions]
    BY <1>1, <1>3, <2>4 DEF TypeInv, TypeOK
  <2>6. next.worker_id # None /\ next.native_session_id # None
    BY <2>3, CheckpointAssumption
  <2>7. QED
    BY <1>1, <2>3, <2>5, <2>6 DEF Acknowledge, TypeInv, TypeOK, WellFormed
<1>6. QED
  BY <1>4, <1>5

\* The target of p is the worker that has the task, or one that never had it.
TargetAllowed(p) ==
  \/ p.target_worker_id = checkpoint[p.task_id].worker_id
  \/ p.target_worker_id \notin PastWorkers(p.task_id)

\* A Host plans for the checkpoint of t: the plan is typed and names t.
LEMMA PlansAreTyped ==
  ASSUME TypeInv, NEW h \in Hosts, NEW t \in Tasks,
         PlanSameWorkerRespawn(h, t) \/ PlanCrossWorkerRecovery(h, t)
  PROVE  \E p \in Plans :
           /\ HoldPlan(h, p)
           /\ p.task_id = t
           /\ p.checkpoint_revision = checkpoint[t].revision
           /\ Recoverable(checkpoint[t])
           /\ Describes(p, checkpoint[t])
           /\ p.retry_limit \in {MaxRetryCount, MaxRerouteCount}
           /\ TargetAllowed(p)
<1>. USE RecoveryAssumption, CheckpointAssumption
<1>1. checkpoint[t] \in Checkpoints /\ checkpoint[t].task_id = t
  BY DEF TypeInv, TypeOK, WellFormed
<1>2. CASE PlanSameWorkerRespawn(h, t)
  <2>1. /\ checkpoint[t].worker_id # None
        /\ checkpoint[t].native_session_id # None
        /\ Recoverable(checkpoint[t])
    BY <1>2 DEF PlanSameWorkerRespawn, RespawnEligible, Recoverable
  <2>2. checkpoint[t].worker_id \in WorkerIds
    BY <1>1, <2>1 DEF Checkpoints
  <2>3. RespawnPlan(checkpoint[t], MaxRetryCount) \in Plans
    BY <1>1, <2>1, <2>2, EnvelopeType DEF RespawnPlan, RespawnClaimKey
  <2>4. QED
    BY <1>1, <1>2, <2>1, <2>3
    DEF PlanSameWorkerRespawn, RespawnPlan, Envelope, Describes, TargetAllowed
<1>3. CASE PlanCrossWorkerRecovery(h, t)
  <2>1. /\ checkpoint[t].worker_id # None
        /\ checkpoint[t].native_session_id # None
        /\ Recoverable(checkpoint[t])
    BY <1>3 DEF PlanCrossWorkerRecovery, RerouteEligible, Recoverable
  <2>2. PICK target \in RerouteTargets(checkpoint[t], PastWorkers(t)) :
          HoldPlan(h, CrossWorkerPlan(checkpoint[t], target, MaxRerouteCount))
    BY <1>3 DEF PlanCrossWorkerRecovery
  <2>3. target \in Workers /\ target \in WorkerIds
    BY DEF RerouteTargets
  <2>4. CrossWorkerPlan(checkpoint[t], target, MaxRerouteCount) \in Plans
    BY <1>1, <2>1, <2>3, EnvelopeType DEF CrossWorkerPlan, CrossClaimKey
  <2>5. TargetAllowed(CrossWorkerPlan(checkpoint[t], target, MaxRerouteCount))
    BY <1>1, <2>2 DEF RerouteTargets, CrossWorkerPlan, Envelope, TargetAllowed
  <2>6. QED
    BY <1>1, <2>1, <2>2, <2>4, <2>5 DEF CrossWorkerPlan, Envelope, Describes
<1>4. QED
  BY <1>2, <1>3

LEMMA HostStepKeepsTypes ==
  ASSUME TypeInv, NEW h \in Hosts, HostStep(h)
  PROVE  TypeInv'
<1>1. CASE \E t \in Tasks : PlanSameWorkerRespawn(h, t) \/ PlanCrossWorkerRecovery(h, t)
  <2>1. PICK p \in Plans : HoldPlan(h, p)
    BY <1>1, PlansAreTyped
  <2>2. ~ spawning[h]
    BY <2>1 DEF HoldPlan, TypeInv, WellFormed
  <2>3. QED
    BY <2>1, <2>2 DEF HoldPlan, TypeInv, TypeOK, WellFormed
<1>2. CASE Start(h)
  <2>1. plan[h] \in Plans
    BY <1>2 DEF Start, TypeInv, TypeOK
  <2>2. plan[h].claim_key \in ClaimKeys
    BY <2>1 DEF Plans
  <2>3. QED
    BY <1>2, <2>2 DEF Start, TypeInv, TypeOK, WellFormed
<1>3. CASE SpawnAccepted(h)
  <2>1. PICK session \in Sessions :
          accepted' = accepted \cup {[plan |-> plan[h], session |-> session]}
    BY <1>3 DEF SpawnAccepted
  <2>2. plan[h] \in Plans
    BY <1>3 DEF SpawnAccepted, TypeInv, TypeOK, WellFormed
  <2>3. accepted' \subseteq Evidence
    BY <2>1, <2>2 DEF Evidence, TypeInv, TypeOK
  <2>4. QED
    BY <1>3, <2>3 DEF SpawnAccepted, TypeInv, TypeOK, WellFormed
<1>4. CASE Abandon(h)
  BY <1>4 DEF Abandon, TypeInv, TypeOK, WellFormed
<1>5. QED
  BY <1>1, <1>2, <1>3, <1>4 DEF HostStep

LEMMA UsedSessionsType ==
  ASSUME TypeOK
  PROVE  UsedSessions \subseteq Sessions
BY DEF TypeOK, UsedSessions, Evidence, Executions

LEMMA RecordTerminationKeepsTypes ==
  ASSUME TypeInv, NEW t \in Tasks, RecordTermination(t)
  PROVE  TypeInv'
<1>1. PICK signals \in SignalReports :
        descriptor' = [descriptor EXCEPT ![t] =
          [session |-> checkpoint[t].native_session_id,
           result |-> ClassifySessionTermination(checkpoint[t], signals)]]
  BY DEF RecordTermination
<1>2. checkpoint[t] \in Checkpoints /\ checkpoint[t].native_session_id \in Sessions
  BY DEF RecordTermination, TypeInv, TypeOK
<1>3. ClassifySessionTermination(checkpoint[t], signals) \in TerminationResults
  BY <1>2, ClassificationType
<1>4. [session |-> checkpoint[t].native_session_id,
       result |-> ClassifySessionTermination(checkpoint[t], signals)]
        \in [session : Sessions, result : TerminationResults]
  BY <1>2, <1>3
<1>5. descriptor' \in [Tasks -> [session : Sessions, result : TerminationResults]
                                 \cup {None}]
  BY <1>1, <1>4 DEF TypeInv, TypeOK
<1>6. QED
  BY <1>5 DEF RecordTermination, TypeInv, TypeOK, WellFormed

LEMMA InitIsTyped == Init => TypeInv
<1>. SUFFICES ASSUME Init PROVE TypeInv
  OBVIOUS
<1>. USE RecoveryAssumption
<1>1. PICK gate \in [Tasks -> Gates], workspace \in [Tasks -> WorkspaceInputs] :
        checkpoint = [t \in Tasks |-> InitialCheckpoint(t, gate[t], workspace[t])]
  BY DEF Init
<1>2. ASSUME NEW t \in Tasks
      PROVE  InitialCheckpoint(t, gate[t], workspace[t]) \in Checkpoints
  <2>1. gate[t] \in Gates /\ workspace[t] \in Workspaces
    OBVIOUS
  <2>2. QED
    BY <2>1 DEF InitialCheckpoint, Checkpoints, TaskStatuses, ApprovalStatuses
<1>3. checkpoint \in [Tasks -> Checkpoints]
  BY <1>1, <1>2
<1>4. ASSUME NEW t \in Tasks
      PROVE  /\ checkpoint[t].task_id = t
             /\ checkpoint[t].worker_id = None
             /\ checkpoint[t].native_session_id = None
  BY <1>1 DEF InitialCheckpoint
<1>5. QED
  BY <1>3, <1>4 DEF Init, TypeInv, TypeOK, WellFormed

LEMMA StepsKeepTypes == TypeInv /\ [Next]_vars => TypeInv'
<1>. SUFFICES ASSUME TypeInv, [Next]_vars PROVE TypeInv'
  OBVIOUS
<1>1. ASSUME NEW t \in Tasks, SupervisorStep(t) PROVE TypeInv'
  <2>1. CASE Dispatch(t)
    BY <2>1, DispatchKeepsTypes
  <2>2. CASE ~ Dispatch(t)
    BY <1>1, <2>2, SupervisorPatches, SuperviseKeepsTypes DEF SupervisorStep
  <2>3. QED
    BY <2>1, <2>2
<1>2. ASSUME NEW t \in Tasks, RecordTermination(t) PROVE TypeInv'
  BY <1>2, RecordTerminationKeepsTypes
<1>3. ASSUME NEW session \in Sessions, SessionEnds(session) PROVE TypeInv'
  BY <1>3 DEF SessionEnds, TypeInv, TypeOK, WellFormed
<1>4. ASSUME NEW h \in Hosts, HostStep(h) PROVE TypeInv'
  BY <1>4, HostStepKeepsTypes
<1>5. ASSUME NEW t \in Tasks, NEW e \in accepted, Acknowledge(t, e) PROVE TypeInv'
  BY <1>5, AcknowledgeKeepsTypes
<1>6. CASE UNCHANGED vars
  BY <1>6 DEF vars, TypeInv, TypeOK, WellFormed
<1>7. QED
  BY <1>1, <1>2, <1>3, <1>4, <1>5, <1>6 DEF Next

\* Every variable always holds what the code stores in it.
LEMMA TypesAlways == Spec => []TypeInv
BY InitIsTyped, StepsKeepTypes, PTL DEF Spec

THEOREM TypeCorrect == Spec => []TypeOK
<1>1. TypeInv => TypeOK
  BY DEF TypeInv
<1>2. QED
  BY <1>1, TypesAlways, PTL

-----------------------------------------------------------------------------
(***************************************************************************)
(* How a step may change the checkpoints: not at all, or to the next       *)
(* revision, by an edit, a first execution or an acknowledgement.          *)
(***************************************************************************)
EditOf(t) ==
  /\ checkpoint'[t].revision = checkpoint[t].revision + 1
  /\ checkpoint'[t].worker_id = checkpoint[t].worker_id
  /\ checkpoint'[t].native_session_id = checkpoint[t].native_session_id
  /\ checkpoint'[t].retry_count \in {0, checkpoint[t].retry_count}

Installs(t, session) ==
  /\ checkpoint'[t].revision = checkpoint[t].revision + 1
  /\ checkpoint'[t].native_session_id = session
  /\ lineage' = [lineage EXCEPT ![t] =
                   @ \cup {Execution(checkpoint'[t], checkpoint[t].revision)}]

OthersUnchanged(t) == \A u \in Tasks \ {t} : checkpoint'[u] = checkpoint[u]

LEMMA SupervisorStepEffect ==
  ASSUME TypeInv, NEW t \in Tasks, SupervisorStep(t), ~ Dispatch(t)
  PROVE  /\ EditOf(t)
         /\ OthersUnchanged(t)
         /\ UNCHANGED <<descriptor, plan, spawning, claims, accepted, ended, lineage>>
<1>1. PICK patched \in Checkpoints :
        /\ patched.worker_id = checkpoint[t].worker_id
        /\ patched.native_session_id = checkpoint[t].native_session_id
        /\ patched.retry_count \in {0, checkpoint[t].retry_count}
        /\ Supervise(t, patched)
  BY SupervisorPatches DEF SupervisorStep
<1>2. PICK next \in UpdateTaskCheckpoint(checkpoint[t], patched) :
        checkpoint' = [checkpoint EXCEPT ![t] = next]
  BY <1>1 DEF Supervise
<1>3. checkpoint[t] \in Checkpoints /\ checkpoint'[t] = next
  BY <1>2 DEF TypeInv, TypeOK
<1>4. next = [patched EXCEPT !.revision = checkpoint[t].revision + 1]
  BY <1>2, <1>3, UpdateIsNextRevision
<1>5. EditOf(t)
  BY <1>1, <1>3, <1>4 DEF EditOf, Checkpoints
<1>6. OthersUnchanged(t)
  BY <1>2 DEF OthersUnchanged, TypeInv, TypeOK
<1>7. QED
  BY <1>1, <1>5, <1>6 DEF Supervise

LEMMA DispatchEffect ==
  ASSUME TypeInv, NEW t \in Tasks, Dispatch(t)
  PROVE  /\ checkpoint[t].native_session_id = None
         /\ OthersUnchanged(t)
         /\ \E session \in Sessions \ UsedSessions : Installs(t, session)
         /\ checkpoint'[t].retry_count = checkpoint[t].retry_count
         /\ MaterialOf(checkpoint'[t]) = MaterialOf(checkpoint[t])
         /\ UNCHANGED <<descriptor, plan, spawning, claims, accepted, ended>>
<1>1. PICK worker \in WorkerIds, session \in Sessions \ UsedSessions :
        \E next \in UpdateTaskCheckpoint(checkpoint[t],
              [checkpoint[t] EXCEPT !.worker_id = worker,
                                    !.native_session_id = session]) :
          /\ checkpoint' = [checkpoint EXCEPT ![t] = next]
          /\ lineage' = [lineage EXCEPT ![t] =
                           @ \cup {Execution(next, checkpoint[t].revision)}]
  BY DEF Dispatch
<1>. DEFINE patched == [checkpoint[t] EXCEPT !.worker_id = worker,
                                            !.native_session_id = session]
<1>2. PICK next \in UpdateTaskCheckpoint(checkpoint[t], patched) :
        /\ checkpoint' = [checkpoint EXCEPT ![t] = next]
        /\ lineage' = [lineage EXCEPT ![t] =
                         @ \cup {Execution(next, checkpoint[t].revision)}]
  BY <1>1
<1>3. checkpoint[t] \in Checkpoints /\ checkpoint'[t] = next
  BY <1>2 DEF TypeInv, TypeOK
<1>4. patched \in Checkpoints
  BY <1>3 DEF Checkpoints
<1>5. next = [patched EXCEPT !.revision = checkpoint[t].revision + 1]
  BY <1>2, <1>3, <1>4, UpdateIsNextRevision
<1>6. /\ next.revision = checkpoint[t].revision + 1
      /\ next.native_session_id = session
  BY <1>3, <1>5 DEF Checkpoints
<1>7. Installs(t, session)
  BY <1>2, <1>3, <1>6 DEF Installs
<1>8. OthersUnchanged(t)
  BY <1>2 DEF OthersUnchanged, TypeInv, TypeOK
<1>9. checkpoint[t].native_session_id = None
  BY DEF Dispatch, TypeInv, WellFormed
<1>10. /\ next.retry_count = checkpoint[t].retry_count
       /\ MaterialOf(next) = MaterialOf(checkpoint[t])
  BY <1>3, <1>5 DEF Checkpoints, MaterialOf
<1>11. QED
  BY <1>3, <1>7, <1>8, <1>9, <1>10 DEF Dispatch

LEMMA AcknowledgeEffect ==
  ASSUME TypeInv, NEW t \in Tasks, NEW e \in accepted, Acknowledge(t, e)
  PROVE  /\ \/ checkpoint' = checkpoint /\ lineage' = lineage
            \/ /\ InstallsOver(checkpoint[t], e, checkpoint'[t])
               /\ Installs(t, e.session)
               /\ OthersUnchanged(t)
         /\ UNCHANGED <<descriptor, plan, spawning, claims, accepted, ended>>
<1>1. PICK next \in AcknowledgedCheckpoints(checkpoint[t], e) :
        /\ checkpoint' = [checkpoint EXCEPT ![t] = next]
        /\ lineage' = [lineage EXCEPT ![t] =
             IF next = checkpoint[t] THEN @
             ELSE @ \cup {Execution(next, checkpoint[t].revision)}]
  BY DEF Acknowledge
<1>2. checkpoint[t] \in Checkpoints /\ e \in Evidence /\ checkpoint'[t] = next
  BY <1>1 DEF TypeInv, TypeOK
<1>3. next = checkpoint[t] \/ InstallsOver(checkpoint[t], e, next)
  BY <1>1, <1>2, AcknowledgeInstalls
<1>4. CASE next = checkpoint[t]
  BY <1>1, <1>4 DEF Acknowledge, TypeInv, TypeOK
<1>5. CASE next # checkpoint[t]
  <2>1. Installs(t, e.session)
    BY <1>1, <1>2, <1>3, <1>5 DEF Installs, InstallsOver
  <2>2. OthersUnchanged(t)
    BY <1>1 DEF OthersUnchanged, TypeInv, TypeOK
  <2>3. QED
    BY <1>2, <1>3, <1>5, <2>1, <2>2 DEF Acknowledge
<1>6. QED
  BY <1>4, <1>5

-----------------------------------------------------------------------------
(***************************************************************************)
(* Plans describe the checkpoint. The revision is a version number because *)
(* every change of a checkpoint advances it, so a plan that was not ahead  *)
(* before a change is behind after it.                                     *)
(***************************************************************************)
CheckpointsAdvance == \A t \in Tasks :
  \/ checkpoint'[t] = checkpoint[t]
  \/ checkpoint'[t].revision = checkpoint[t].revision + 1

LEMMA StepsAdvance ==
  ASSUME TypeInv, [Next]_vars
  PROVE  CheckpointsAdvance
<1>1. ASSUME NEW t \in Tasks, SupervisorStep(t) PROVE CheckpointsAdvance
  BY <1>1, SupervisorStepEffect, DispatchEffect
  DEF EditOf, Installs, OthersUnchanged, CheckpointsAdvance
<1>2. ASSUME NEW t \in Tasks, NEW e \in accepted, Acknowledge(t, e)
      PROVE  CheckpointsAdvance
  BY <1>2, AcknowledgeEffect DEF Installs, OthersUnchanged, CheckpointsAdvance
<1>3. ASSUME NEW h \in Hosts, HostStep(h) PROVE checkpoint' = checkpoint
  BY <1>3 DEF HostStep, PlanSameWorkerRespawn, PlanCrossWorkerRecovery, HoldPlan,
              Start, SpawnAccepted, Abandon
<1>4. ASSUME NEW t \in Tasks, RecordTermination(t) PROVE checkpoint' = checkpoint
  BY <1>4 DEF RecordTermination
<1>5. ASSUME NEW session \in Sessions, SessionEnds(session)
      PROVE  checkpoint' = checkpoint
  BY <1>5 DEF SessionEnds
<1>6. CASE UNCHANGED vars
  BY <1>6 DEF vars, CheckpointsAdvance
<1>7. QED
  BY <1>1, <1>2, <1>3, <1>4, <1>5, <1>6 DEF Next, CheckpointsAdvance

LEMMA LivePlansType ==
  ASSUME TypeInv
  PROVE  LivePlans \subseteq Plans
<1>1. \A h \in Hosts : plan[h] # None => plan[h] \in Plans
  BY DEF TypeInv, TypeOK
<1>2. \A e \in accepted : e.plan \in Plans
  BY DEF TypeInv, TypeOK, Evidence
<1>3. QED
  BY <1>1, <1>2 DEF LivePlans

\* The only step that adds a live plan makes it from the current checkpoint.
LEMMA StepsAddHonestPlans ==
  ASSUME TypeInv, [Next]_vars, NEW p \in LivePlans', p \notin LivePlans
  PROVE  /\ p \in Plans
         /\ checkpoint' = checkpoint
         /\ lineage' = lineage
         /\ descriptor' = descriptor /\ ended' = ended
         /\ p.checkpoint_revision = checkpoint[p.task_id].revision
         /\ Recoverable(checkpoint[p.task_id])
         /\ Describes(p, checkpoint[p.task_id])
         /\ DescriptorApplies(p.task_id)
         /\ p.retry_limit \in {MaxRetryCount, MaxRerouteCount}
         /\ TargetAllowed(p)
<1>. DEFINE Goal == /\ p \in Plans
                    /\ checkpoint' = checkpoint
                    /\ lineage' = lineage
                    /\ descriptor' = descriptor /\ ended' = ended
                    /\ p.checkpoint_revision = checkpoint[p.task_id].revision
                    /\ Recoverable(checkpoint[p.task_id])
                    /\ Describes(p, checkpoint[p.task_id])
                    /\ DescriptorApplies(p.task_id)
                    /\ p.retry_limit \in {MaxRetryCount, MaxRerouteCount}
                    /\ TargetAllowed(p)
<1>1. CASE UNCHANGED <<plan, accepted>>
  BY <1>1 DEF LivePlans
<1>2. ASSUME NEW h \in Hosts, HostStep(h) PROVE Goal
  <2>1. ASSUME NEW t \in Tasks,
               PlanSameWorkerRespawn(h, t) \/ PlanCrossWorkerRecovery(h, t)
        PROVE  Goal
    <3>1. PICK q \in Plans :
            /\ HoldPlan(h, q)
            /\ q.task_id = t
            /\ q.checkpoint_revision = checkpoint[t].revision
            /\ Recoverable(checkpoint[t])
            /\ Describes(q, checkpoint[t])
            /\ q.retry_limit \in {MaxRetryCount, MaxRerouteCount}
            /\ TargetAllowed(q)
      BY <2>1, PlansAreTyped
    <3>2. /\ plan' = [plan EXCEPT ![h] = q]
          /\ UNCHANGED <<checkpoint, descriptor, accepted, ended, lineage>>
      BY <3>1 DEF HoldPlan
    <3>3. p = q
      BY <3>2 DEF LivePlans, TypeInv, TypeOK
    <3>4. DescriptorApplies(t)
      BY <2>1 DEF PlanSameWorkerRespawn, PlanCrossWorkerRecovery
    <3>5. QED
      BY <3>1, <3>2, <3>3, <3>4
  <2>2. ~ Start(h)
    BY <1>1 DEF Start, LivePlans
  <2>3. CASE SpawnAccepted(h)
    <3>1. PICK session \in Sessions :
            accepted' = accepted \cup {[plan |-> plan[h], session |-> session]}
      BY <2>3 DEF SpawnAccepted
    <3>2. plan[h] \in LivePlans
      BY <2>3 DEF SpawnAccepted, LivePlans, TypeInv, WellFormed
    <3>3. \A g \in Hosts : plan'[g] \in {plan[g], None}
      BY <2>3 DEF SpawnAccepted, TypeInv, TypeOK
    <3>4. LivePlans' \subseteq LivePlans
      BY <3>1, <3>2, <3>3 DEF LivePlans
    <3>5. QED
      BY <3>4
  <2>4. CASE Abandon(h)
    <3>1. accepted' = accepted /\ \A g \in Hosts : plan'[g] \in {plan[g], None}
      BY <2>4 DEF Abandon, TypeInv, TypeOK
    <3>2. LivePlans' \subseteq LivePlans
      BY <3>1 DEF LivePlans
    <3>3. QED
      BY <3>2
  <2>5. QED
    BY <1>2, <2>1, <2>2, <2>3, <2>4 DEF HostStep
<1>3. ASSUME NEW t \in Tasks, SupervisorStep(t) PROVE UNCHANGED <<plan, accepted>>
  BY <1>3, SupervisorStepEffect, DispatchEffect
<1>4. ASSUME NEW t \in Tasks, NEW e \in accepted, Acknowledge(t, e)
      PROVE  UNCHANGED <<plan, accepted>>
  BY <1>4 DEF Acknowledge
<1>5. ASSUME NEW t \in Tasks, RecordTermination(t) PROVE UNCHANGED <<plan, accepted>>
  BY <1>5 DEF RecordTermination
<1>6. ASSUME NEW session \in Sessions, SessionEnds(session)
      PROVE  UNCHANGED <<plan, accepted>>
  BY <1>6 DEF SessionEnds
<1>7. UNCHANGED vars => UNCHANGED <<plan, accepted>>
  BY DEF vars
<1>8. (\E h \in Hosts : HostStep(h)) \/ UNCHANGED <<plan, accepted>>
  BY <1>3, <1>4, <1>5, <1>6, <1>7 DEF Next
<1>9. QED
  BY <1>1, <1>2, <1>8

LEMMA StepsKeepPlansHonest ==
  TypeInv /\ CurrentPlansDescribeCheckpoint /\ [Next]_vars
    => CurrentPlansDescribeCheckpoint'
<1>. SUFFICES ASSUME TypeInv, CurrentPlansDescribeCheckpoint, [Next]_vars,
                     NEW p \in LivePlans'
              PROVE  LET c == checkpoint'[p.task_id]
                     IN  /\ p.checkpoint_revision <= c.revision
                         /\ p.checkpoint_revision = c.revision
                              => Recoverable(c) /\ Describes(p, c)
  BY DEF CurrentPlansDescribeCheckpoint
<1>1. CASE p \in LivePlans
  <2>1. p \in Plans
    BY <1>1, LivePlansType
  <2>2. /\ p.task_id \in Tasks
        /\ p.checkpoint_revision \in Nat
        /\ checkpoint[p.task_id].revision \in Nat
    BY <2>1 DEF Plans, TypeInv, TypeOK, Checkpoints
  <2>3. \/ checkpoint'[p.task_id] = checkpoint[p.task_id]
        \/ checkpoint'[p.task_id].revision = checkpoint[p.task_id].revision + 1
    BY <2>2, StepsAdvance DEF CheckpointsAdvance
  <2>4. /\ p.checkpoint_revision <= checkpoint[p.task_id].revision
        /\ p.checkpoint_revision = checkpoint[p.task_id].revision
             => /\ Recoverable(checkpoint[p.task_id])
                /\ Describes(p, checkpoint[p.task_id])
    BY <1>1 DEF CurrentPlansDescribeCheckpoint
  <2>5. QED
    BY <2>2, <2>3, <2>4
<1>2. CASE p \notin LivePlans
  <2>1. p.task_id \in Tasks /\ checkpoint[p.task_id].revision \in Nat
    BY <1>2, StepsAddHonestPlans DEF Plans, TypeInv, TypeOK, Checkpoints
  <2>2. QED
    BY <1>2, <2>1, StepsAddHonestPlans
<1>3. QED
  BY <1>1, <1>2

(***************************************************************************)
(* A plan is never ahead of its checkpoint, and while the revisions agree  *)
(* the checkpoint is the one planSameWorkerRespawn or                      *)
(* planCrossWorkerRecovery read and may still be recovered.                *)
(***************************************************************************)
THEOREM PlansStayHonest == Spec => []CurrentPlansDescribeCheckpoint
<1>1. Init => CurrentPlansDescribeCheckpoint
  BY DEF Init, CurrentPlansDescribeCheckpoint, LivePlans
<1>2. QED
  BY <1>1, StepsKeepPlansHonest, TypesAlways, PTL DEF Spec

-----------------------------------------------------------------------------
(***************************************************************************)
(* Replacing a session.                                                    *)
(***************************************************************************)

\* Only an acknowledgement replaces a session, over its plan's revision.
LEMMA ReplacedByAcknowledgement ==
  ASSUME TypeInv, Next, NEW t \in Tasks, Replaced(t)
  PROVE  \E e \in accepted :
           /\ e.plan \in LivePlans
           /\ InstallsOver(checkpoint[t], e, checkpoint'[t])
<1>1. ASSUME NEW u \in Tasks, SupervisorStep(u) PROVE FALSE
  BY <1>1, SupervisorStepEffect, DispatchEffect DEF EditOf, OthersUnchanged, Replaced
<1>2. ASSUME checkpoint' = checkpoint PROVE FALSE
  BY <1>2 DEF Replaced
<1>3. PICK u \in Tasks, e \in accepted : Acknowledge(u, e)
  BY <1>1, <1>2
  DEF Next, RecordTermination, SessionEnds, HostStep, PlanSameWorkerRespawn,
      PlanCrossWorkerRecovery, HoldPlan, Start, SpawnAccepted, Abandon
<1>4. u = t /\ InstallsOver(checkpoint[t], e, checkpoint'[t])
  BY <1>2, <1>3, AcknowledgeEffect DEF OthersUnchanged, Replaced
<1>5. QED
  BY <1>4 DEF LivePlans

\* A session is replaced only on a task that may be recovered at that moment.
THEOREM ReplacesRecoverable == Spec => ReplacesOnlyRecoverable
<1>1. TypeInv /\ CurrentPlansDescribeCheckpoint /\ [Next]_vars
        => [\A t \in Tasks : Replaced(t) => Recoverable(checkpoint[t])]_vars
  <2>. SUFFICES ASSUME TypeInv, CurrentPlansDescribeCheckpoint, Next,
                       NEW t \in Tasks, Replaced(t)
                PROVE  Recoverable(checkpoint[t])
    OBVIOUS
  <2>1. PICK e \in accepted :
          e.plan \in LivePlans /\ InstallsOver(checkpoint[t], e, checkpoint'[t])
    BY ReplacedByAcknowledgement
  <2>2. e.plan.task_id = t /\ e.plan.checkpoint_revision = checkpoint[t].revision
    BY <2>1 DEF InstallsOver, TypeInv, WellFormed
  <2>3. QED
    BY <2>1, <2>2 DEF CurrentPlansDescribeCheckpoint
<1>2. QED
  BY <1>1, TypesAlways, PlansStayHonest, PTL DEF Spec, ReplacesOnlyRecoverable

(***************************************************************************)
(* That a replaced session has ended is carried by the descriptor, which   *)
(* is written for an ended session, and by the plan made from it.          *)
(***************************************************************************)
EndedChain ==
  /\ \A t \in Tasks : descriptor[t] # None => descriptor[t].session \in ended
  /\ \A p \in LivePlans : p.source_native_session_id \in ended

LEMMA StepsKeepEndedChain == TypeInv /\ EndedChain /\ [Next]_vars => EndedChain'
<1>. SUFFICES ASSUME TypeInv, EndedChain, [Next]_vars PROVE EndedChain'
  OBVIOUS
<1>1. ended \subseteq ended'
  BY DEF Next, SupervisorStep, SetStatus, SetApproval, SetContinuation,
         CompleteGate, MoveWorkspace, Dispatch, Supervise, RecordTermination,
         SessionEnds, HostStep, PlanSameWorkerRespawn, PlanCrossWorkerRecovery,
         HoldPlan, Start, SpawnAccepted, Abandon, Acknowledge, vars
<1>2. ASSUME NEW t \in Tasks, descriptor'[t] # None
      PROVE  descriptor'[t].session \in ended'
  <2>1. CASE descriptor' = descriptor
    BY <1>1, <1>2, <2>1 DEF EndedChain
  <2>2. ASSUME NEW u \in Tasks, RecordTermination(u)
        PROVE  descriptor'[t].session \in ended'
    <3>1. /\ checkpoint[u].native_session_id \in ended
          /\ ended' = ended
          /\ \E signals \in SignalReports :
               descriptor' = [descriptor EXCEPT ![u] =
                 [session |-> checkpoint[u].native_session_id,
                  result |-> ClassifySessionTermination(checkpoint[u], signals)]]
      BY <2>2 DEF RecordTermination
    <3>2. QED
      BY <1>2, <3>1 DEF EndedChain, TypeInv, TypeOK
  <2>3. QED
    BY <2>1, <2>2
    DEF Next, SupervisorStep, SetStatus, SetApproval, SetContinuation,
        CompleteGate, MoveWorkspace, Dispatch, Supervise, SessionEnds, HostStep,
        PlanSameWorkerRespawn, PlanCrossWorkerRecovery, HoldPlan, Start,
        SpawnAccepted, Abandon, Acknowledge, vars
<1>3. ASSUME NEW p \in LivePlans' PROVE p.source_native_session_id \in ended'
  <2>1. CASE p \in LivePlans
    BY <1>1, <2>1 DEF EndedChain
  <2>2. CASE p \notin LivePlans
    <3>1. p.task_id \in Tasks
      BY <2>2, StepsAddHonestPlans DEF Plans
    <3>2. QED
      BY <2>2, <3>1, StepsAddHonestPlans DEF EndedChain, DescriptorApplies, Describes
  <2>3. QED
    BY <2>1, <2>2
<1>4. QED
  BY <1>2, <1>3 DEF EndedChain

\* A session that may still be running is never replaced.
THEOREM ReplacesEnded == Spec => ReplacesOnlyEnded
<1>1. Init => EndedChain
  BY DEF Init, EndedChain, LivePlans
<1>2. TypeInv /\ EndedChain /\ [Next]_vars
        => [\A t \in Tasks :
              Replaced(t) => checkpoint[t].native_session_id \in ended]_vars
  BY ReplacedByAcknowledgement DEF InstallsOver, EndedChain
<1>3. QED
  BY <1>1, <1>2, StepsKeepEndedChain, TypesAlways, PTL DEF Spec, ReplacesOnlyEnded


-----------------------------------------------------------------------------
(***************************************************************************)
(* One spawn per claim. Preflight passes a claim only when it is not       *)
(* durable, and Start makes it durable, so a claim that was spawned or is  *)
(* being spawned is durable and cannot be started again.                   *)
(***************************************************************************)
ClaimsAreDurable ==
  /\ \A e \in accepted : e.plan.claim_key \in claims
  /\ \A h \in Hosts : spawning[h] => plan[h].claim_key \in claims

LEMMA PassIsUnclaimed ==
  ASSUME NEW c, NEW p, NEW facts, NEW prior,
         EvaluateResumePreflight(c, p, facts, prior) = "pass"
  PROVE  p.claim_key \notin prior
BY DEF EvaluateResumePreflight, AlreadyClaimed

LEMMA StepsKeepClaims ==
  TypeInv /\ ClaimsAreDurable /\ OneSpawnPerClaim /\ [Next]_vars
    => ClaimsAreDurable' /\ OneSpawnPerClaim'
<1>. SUFFICES ASSUME TypeInv, ClaimsAreDurable, OneSpawnPerClaim, [Next]_vars
              PROVE  ClaimsAreDurable' /\ OneSpawnPerClaim'
  OBVIOUS
<1>1. CASE UNCHANGED <<plan, spawning, claims, accepted>>
  BY <1>1 DEF ClaimsAreDurable, OneSpawnPerClaim
<1>2. ASSUME NEW h \in Hosts, NEW p, HoldPlan(h, p)
      PROVE  ClaimsAreDurable' /\ OneSpawnPerClaim'
  <2>1. /\ ~ spawning[h]
        /\ plan' = [plan EXCEPT ![h] = p]
        /\ UNCHANGED <<spawning, claims, accepted>>
    BY <1>2 DEF HoldPlan, TypeInv, WellFormed
  <2>2. \A g \in Hosts : spawning[g] => plan'[g] = plan[g]
    BY <2>1 DEF TypeInv, TypeOK
  <2>3. QED
    BY <2>1, <2>2 DEF ClaimsAreDurable, OneSpawnPerClaim
<1>3. ASSUME NEW h \in Hosts, Start(h)
      PROVE  ClaimsAreDurable' /\ OneSpawnPerClaim'
  <2>1. /\ plan[h].claim_key \notin claims
        /\ claims' = claims \cup {plan[h].claim_key}
        /\ UNCHANGED <<plan, accepted>>
    BY <1>3, PassIsUnclaimed DEF Start
  <2>2. \A g \in Hosts : spawning'[g] <=> (g = h \/ spawning[g])
    BY <1>3 DEF Start, TypeInv, TypeOK
  <2>3. QED
    BY <2>1, <2>2 DEF ClaimsAreDurable, OneSpawnPerClaim
<1>4. ASSUME NEW h \in Hosts, SpawnAccepted(h)
      PROVE  ClaimsAreDurable' /\ OneSpawnPerClaim'
  <2>1. PICK session \in Sessions :
          accepted' = accepted \cup {[plan |-> plan[h], session |-> session]}
    BY <1>4 DEF SpawnAccepted
  <2>2. spawning[h] /\ claims' = claims
    BY <1>4 DEF SpawnAccepted
  <2>3. \A g \in Hosts : spawning'[g] => spawning[g] /\ g # h /\ plan'[g] = plan[g]
    BY <1>4 DEF SpawnAccepted, TypeInv, TypeOK
  <2>4. QED
    BY <2>1, <2>2, <2>3 DEF ClaimsAreDurable, OneSpawnPerClaim
<1>5. ASSUME NEW h \in Hosts, Abandon(h)
      PROVE  ClaimsAreDurable' /\ OneSpawnPerClaim'
  <2>1. UNCHANGED <<claims, accepted>>
    BY <1>5 DEF Abandon
  <2>2. \A g \in Hosts : spawning'[g] => spawning[g] /\ plan'[g] = plan[g]
    BY <1>5 DEF Abandon, TypeInv, TypeOK
  <2>3. QED
    BY <2>1, <2>2 DEF ClaimsAreDurable, OneSpawnPerClaim
<1>6. ASSUME NEW t \in Tasks, SupervisorStep(t)
      PROVE  UNCHANGED <<plan, spawning, claims, accepted>>
  BY <1>6, SupervisorStepEffect, DispatchEffect
<1>7. \/ UNCHANGED <<plan, spawning, claims, accepted>>
      \/ \E h \in Hosts : HostStep(h)
  BY <1>6 DEF Next, RecordTermination, SessionEnds, Acknowledge, vars
<1>8. QED
  BY <1>1, <1>2, <1>3, <1>4, <1>5, <1>7
  DEF HostStep, PlanSameWorkerRespawn, PlanCrossWorkerRecovery

\* A claim is spawned at most once, whichever Hosts plan, crash and restart.
THEOREM SpawnsOncePerClaim == Spec => []OneSpawnPerClaim
<1>1. Init => ClaimsAreDurable /\ OneSpawnPerClaim
  BY DEF Init, ClaimsAreDurable, OneSpawnPerClaim
<1>2. QED
  BY <1>1, StepsKeepClaims, TypesAlways, PTL DEF Spec

-----------------------------------------------------------------------------
(***************************************************************************)
(* The lineage. A session is handed out once, so an installed session      *)
(* tells which evidence installed it and over which revision; that         *)
(* revision is in the past of the checkpoint.                              *)
(***************************************************************************)
LineageInv ==
  /\ \A t \in Tasks : \A x \in lineage[t] : x.revision < checkpoint[t].revision
  /\ \A d, e \in accepted : d.session = e.session => d = e
  /\ \A t \in Tasks : \A x \in lineage[t], e \in accepted : x.session = e.session
       => e.plan.task_id = t /\ e.plan.checkpoint_revision = x.revision

InstalledOnce ==
  /\ \A t \in Tasks : \A x, y \in lineage[t] : x.revision = y.revision => x = y
  /\ \A t, u \in Tasks : \A x \in lineage[t], y \in lineage[u] :
       x.session = y.session => t = u /\ x = y

HoldsLastInstalled == \A t \in Tasks : \A x \in lineage[t] :
  (\A y \in lineage[t] : y.revision <= x.revision)
    => x.worker = checkpoint[t].worker_id /\ x.session = checkpoint[t].native_session_id

LEMMA LineageTypes ==
  ASSUME TypeInv, NEW t \in Tasks
  PROVE  /\ lineage[t] \subseteq Executions
         /\ checkpoint[t].revision \in Nat
         /\ \A x \in lineage[t] : x.revision \in Nat
BY DEF TypeInv, TypeOK, Checkpoints, Executions

(***************************************************************************)
(* Installing a session that no lineage holds yet keeps the lineage linear.*)
(***************************************************************************)
LEMMA InstallKeepsLine ==
  ASSUME TypeInv, LineageInv, InstalledOnce, HoldsLastInstalled,
         NEW t \in Tasks, NEW session \in Sessions,
         Installs(t, session), OthersUnchanged(t),
         \A u \in Tasks : \A x \in lineage[u] : x.session # session
  PROVE  /\ \A u \in Tasks : \A x \in lineage'[u] : x.revision < checkpoint'[u].revision
         /\ InstalledOnce'
         /\ HoldsLastInstalled'
<1>. DEFINE new == Execution(checkpoint'[t], checkpoint[t].revision)
<1>1. /\ lineage'[t] = lineage[t] \cup {new}
      /\ \A u \in Tasks \ {t} : lineage'[u] = lineage[u]
  BY DEF Installs, TypeInv, TypeOK
<1>2. /\ new.revision = checkpoint[t].revision
      /\ new.session = session
      /\ new.session = checkpoint'[t].native_session_id
      /\ new.worker = checkpoint'[t].worker_id
      /\ checkpoint'[t].revision = checkpoint[t].revision + 1
  BY DEF Installs, Execution
<1>. HIDE DEF new
<1>3. \A u \in Tasks : \A x \in lineage[u] :
        x.revision \in Nat /\ checkpoint[u].revision \in Nat
                           /\ x.revision < checkpoint[u].revision
  BY LineageTypes DEF LineageInv
<1>4. checkpoint[t].revision \in Nat
  BY LineageTypes
<1>5. \A u \in Tasks : \A x \in lineage'[u] : x.revision < checkpoint'[u].revision
  BY <1>1, <1>2, <1>3, <1>4 DEF OthersUnchanged
<1>6. \A u \in Tasks : \A x, y \in lineage'[u] : x.revision = y.revision => x = y
  BY <1>1, <1>2, <1>3, <1>4 DEF InstalledOnce
<1>7. \A u, v \in Tasks : \A x \in lineage'[u], y \in lineage'[v] :
        x.session = y.session => u = v /\ x = y
  BY <1>1, <1>2 DEF InstalledOnce
<1>8. HoldsLastInstalled'
  <2>. SUFFICES ASSUME NEW u \in Tasks, NEW x \in lineage'[u],
                       \A y \in lineage'[u] : y.revision <= x.revision
                PROVE  /\ x.worker = checkpoint'[u].worker_id
                       /\ x.session = checkpoint'[u].native_session_id
    BY DEF HoldsLastInstalled
  <2>1. CASE u = t
    <3>1. new \in lineage'[t]
      BY <1>1
    <3>2. x = new
      BY <1>1, <1>2, <1>3, <1>4, <2>1, <3>1
    <3>3. QED
      BY <1>2, <2>1, <3>2
  <2>2. CASE u # t
    BY <1>1, <2>2 DEF HoldsLastInstalled, OthersUnchanged
  <2>3. QED
    BY <2>1, <2>2
<1>9. QED
  BY <1>5, <1>6, <1>7, <1>8 DEF InstalledOnce

LEMMA StepsKeepLine ==
  TypeInv /\ LineageInv /\ InstalledOnce /\ HoldsLastInstalled /\ [Next]_vars
    => LineageInv' /\ InstalledOnce' /\ HoldsLastInstalled'
<1>. SUFFICES ASSUME TypeInv, LineageInv, InstalledOnce, HoldsLastInstalled,
                     [Next]_vars
              PROVE  LineageInv' /\ InstalledOnce' /\ HoldsLastInstalled'
  OBVIOUS
<1>1. CASE UNCHANGED <<checkpoint, lineage, accepted>>
  BY <1>1 DEF LineageInv, InstalledOnce, HoldsLastInstalled
<1>2. ASSUME NEW t \in Tasks, SupervisorStep(t), ~ Dispatch(t)
      PROVE  LineageInv' /\ InstalledOnce' /\ HoldsLastInstalled'
  <2>1. EditOf(t) /\ OthersUnchanged(t) /\ UNCHANGED <<accepted, lineage>>
    BY <1>2, SupervisorStepEffect
  <2>2. \A u \in Tasks : /\ checkpoint'[u].worker_id = checkpoint[u].worker_id
                         /\ checkpoint'[u].native_session_id
                              = checkpoint[u].native_session_id
    BY <2>1 DEF EditOf, OthersUnchanged
  <2>3. \A u \in Tasks : \A x \in lineage[u] : x.revision < checkpoint'[u].revision
    BY <2>1, LineageTypes DEF LineageInv, EditOf, OthersUnchanged
  <2>4. QED
    BY <2>1, <2>2, <2>3 DEF LineageInv, InstalledOnce, HoldsLastInstalled
<1>3. ASSUME NEW t \in Tasks, Dispatch(t)
      PROVE  LineageInv' /\ InstalledOnce' /\ HoldsLastInstalled'
  <2>1. PICK session \in Sessions \ UsedSessions : Installs(t, session)
    BY <1>3, DispatchEffect
  <2>2. OthersUnchanged(t) /\ accepted' = accepted
    BY <1>3, DispatchEffect
  <2>3. /\ \A u \in Tasks : \A x \in lineage[u] : x.session # session
        /\ \A e \in accepted : e.session # session
    BY <2>1 DEF UsedSessions
  <2>4. \A u \in Tasks : \A x \in lineage'[u] :
          x \in lineage[u] \/ x.session = session
    BY <2>1 DEF Installs, Execution, TypeInv, TypeOK
  <2>5. QED
    BY <2>1, <2>2, <2>3, <2>4, InstallKeepsLine DEF LineageInv
<1>4. ASSUME NEW t \in Tasks, NEW e \in accepted, Acknowledge(t, e)
      PROVE  LineageInv' /\ InstalledOnce' /\ HoldsLastInstalled'
  <2>1. accepted' = accepted
    BY <1>4, AcknowledgeEffect
  <2>2. CASE checkpoint' = checkpoint /\ lineage' = lineage
    BY <1>1, <2>1, <2>2
  <2>3. CASE /\ InstallsOver(checkpoint[t], e, checkpoint'[t])
             /\ Installs(t, e.session)
             /\ OthersUnchanged(t)
    <3>1. /\ e.plan.task_id = t
          /\ e.plan.checkpoint_revision = checkpoint[t].revision
      BY <2>3 DEF InstallsOver, TypeInv, WellFormed
    <3>2. \A u \in Tasks : \A x \in lineage[u] : x.session # e.session
      BY <3>1, LineageTypes DEF LineageInv
    <3>3. e.session \in Sessions
      BY DEF TypeInv, TypeOK, Evidence
    <3>4. \A u \in Tasks : \A x \in lineage'[u] :
            \/ x \in lineage[u]
            \/ /\ u = t
               /\ x.session = e.session
               /\ x.revision = checkpoint[t].revision
      BY <2>3 DEF Installs, Execution, TypeInv, TypeOK
    <3>5. \A u \in Tasks : \A x \in lineage'[u] : x.revision < checkpoint'[u].revision
      BY <2>3, <3>2, <3>3, InstallKeepsLine
    <3>6. \A u \in Tasks : \A x \in lineage'[u], d \in accepted : x.session = d.session
            => d.plan.task_id = u /\ d.plan.checkpoint_revision = x.revision
      BY <3>1, <3>4 DEF LineageInv
    <3>7. QED
      BY <2>1, <2>3, <3>2, <3>3, <3>5, <3>6, InstallKeepsLine DEF LineageInv
  <2>4. QED
    BY <1>4, <2>2, <2>3, AcknowledgeEffect
<1>5. ASSUME NEW h \in Hosts, SpawnAccepted(h)
      PROVE  LineageInv' /\ InstalledOnce' /\ HoldsLastInstalled'
  <2>1. PICK session \in Sessions \ UsedSessions :
          accepted' = accepted \cup {[plan |-> plan[h], session |-> session]}
    BY <1>5 DEF SpawnAccepted
  <2>2. UNCHANGED <<checkpoint, lineage>>
    BY <1>5 DEF SpawnAccepted
  <2>3. /\ \A u \in Tasks : \A x \in lineage[u] : x.session # session
        /\ \A e \in accepted : e.session # session
    BY DEF UsedSessions
  <2>4. QED
    BY <2>1, <2>2, <2>3 DEF LineageInv, InstalledOnce, HoldsLastInstalled
<1>6. QED
  BY <1>1, <1>2, <1>3, <1>4, <1>5
  DEF Next, HostStep, PlanSameWorkerRespawn, PlanCrossWorkerRecovery, HoldPlan,
      Start, Abandon, RecordTermination, SessionEnds, vars

(***************************************************************************)
(* At most one execution is installed over a revision, no session serves   *)
(* twice, and the checkpoint holds the last execution installed, however   *)
(* many Hosts plan, spawn and acknowledge at once.                         *)
(***************************************************************************)
THEOREM OneLineOfExecutions == Spec => []LineageIsLinear
<1>1. Init => LineageInv /\ InstalledOnce /\ HoldsLastInstalled
  BY DEF Init, LineageInv, InstalledOnce, HoldsLastInstalled
<1>2. InstalledOnce /\ HoldsLastInstalled => LineageIsLinear
  BY DEF InstalledOnce, HoldsLastInstalled, LineageIsLinear
<1>3. QED
  BY <1>1, <1>2, StepsKeepLine, TypesAlways, PTL DEF Spec

-----------------------------------------------------------------------------
(***************************************************************************)
(* No return. A live plan whose revision is current targets the present    *)
(* worker or one the task never had; when the plan was made this was so by *)
(* the guards of routing, and a lineage changes only with its revision.    *)
(***************************************************************************)
TargetsAllowed == \A p \in LivePlans :
  p.checkpoint_revision = checkpoint[p.task_id].revision => TargetAllowed(p)

Last(t, m) == m \in lineage[t] /\ \A y \in lineage[t] : y.revision <= m.revision

HasLast == \A t \in Tasks : lineage[t] # {} => \E m \in lineage[t] : Last(t, m)

LEMMA LineageFollowsRevision ==
  ASSUME TypeInv, [Next]_vars, NEW t \in Tasks,
         checkpoint'[t].revision = checkpoint[t].revision
  PROVE  checkpoint'[t] = checkpoint[t] /\ lineage'[t] = lineage[t]
<1>1. checkpoint[t].revision \in Nat
  BY LineageTypes
<1>2. checkpoint'[t] = checkpoint[t]
  BY <1>1, StepsAdvance DEF CheckpointsAdvance
<1>3. ASSUME NEW u \in Tasks, Dispatch(u) PROVE lineage'[t] = lineage[t]
  BY <1>1, <1>3, DispatchEffect DEF Installs, TypeInv, TypeOK
<1>4. ASSUME NEW u \in Tasks, NEW e \in accepted, Acknowledge(u, e)
      PROVE  lineage'[t] = lineage[t]
  BY <1>1, <1>4, AcknowledgeEffect DEF Installs, TypeInv, TypeOK
<1>5. ASSUME NEW u \in Tasks, SupervisorStep(u), ~ Dispatch(u)
      PROVE  lineage' = lineage
  BY <1>5, SupervisorStepEffect
<1>6. QED
  BY <1>2, <1>3, <1>4, <1>5
  DEF Next, HostStep, PlanSameWorkerRespawn, PlanCrossWorkerRecovery, HoldPlan,
      Start, SpawnAccepted, Abandon, RecordTermination, SessionEnds, vars

LEMMA StepsKeepTargets ==
  TypeInv /\ CurrentPlansDescribeCheckpoint /\ TargetsAllowed /\ [Next]_vars
    => TargetsAllowed'
<1>. SUFFICES ASSUME TypeInv, CurrentPlansDescribeCheckpoint, TargetsAllowed,
                     [Next]_vars, NEW p \in LivePlans',
                     p.checkpoint_revision = checkpoint'[p.task_id].revision
              PROVE  TargetAllowed(p)'
  BY DEF TargetsAllowed
<1>1. CASE p \in LivePlans
  <2>1. /\ p.task_id \in Tasks
        /\ p.checkpoint_revision \in Nat
        /\ p.checkpoint_revision <= checkpoint[p.task_id].revision
        /\ checkpoint[p.task_id].revision \in Nat
    BY <1>1, LivePlansType, LineageTypes DEF Plans, CurrentPlansDescribeCheckpoint
  <2>2. checkpoint'[p.task_id].revision = checkpoint[p.task_id].revision
    BY <2>1, StepsAdvance DEF CheckpointsAdvance
  <2>3. /\ checkpoint'[p.task_id] = checkpoint[p.task_id]
        /\ lineage'[p.task_id] = lineage[p.task_id]
    BY <2>1, <2>2, LineageFollowsRevision
  <2>4. QED
    BY <1>1, <2>3 DEF TargetsAllowed, TargetAllowed, PastWorkers
<1>2. CASE p \notin LivePlans
  BY <1>2, StepsAddHonestPlans DEF TargetAllowed, PastWorkers
<1>3. QED
  BY <1>1, <1>2

\* What an installation adds to a lineage: the last execution, by an allowed worker.
LEMMA InstallsAllowed ==
  ASSUME TypeInv, LineageInv, HoldsLastInstalled, HasLast, TargetsAllowed,
         NEW t \in Tasks, Next, lineage'[t] # lineage[t]
  PROVE  \E z : /\ lineage'[t] = lineage[t] \cup {z}
                /\ \A x \in lineage[t] : x.revision < z.revision
                /\ z.revision \in Nat
                /\ lineage[t] # {} =>
                     \/ z.worker = checkpoint[t].worker_id
                     \/ \A x \in lineage[t] : x.worker # z.worker
<1>. DEFINE new == Execution(checkpoint'[t], checkpoint[t].revision)
<1>1. /\ \A x \in lineage[t] : x.revision < new.revision
      /\ new.revision \in Nat
      /\ new.worker = checkpoint'[t].worker_id
  BY LineageTypes DEF Execution, LineageInv
<1>2. ASSUME NEW u \in Tasks, NEW session, Installs(u, session)
      PROVE  u = t /\ lineage'[t] = lineage[t] \cup {new}
  BY <1>2 DEF Installs, TypeInv, TypeOK
<1>. HIDE DEF new
<1>3. ASSUME NEW u \in Tasks, Dispatch(u)
      PROVE  lineage[t] = {} /\ lineage'[t] = lineage[t] \cup {new}
  <2>1. /\ u = t
        /\ lineage'[t] = lineage[t] \cup {new}
        /\ checkpoint[t].native_session_id = None
    BY <1>2, <1>3, DispatchEffect
  <2>2. ASSUME NEW m \in lineage[t], Last(t, m) PROVE FALSE
    <3>1. m.session = None
      BY <2>1, <2>2 DEF Last, HoldsLastInstalled
    <3>2. m.session \in Sessions
      BY LineageTypes DEF Executions
    <3>3. QED
      BY <3>1, <3>2, CheckpointAssumption
  <2>3. QED
    BY <2>1, <2>2 DEF HasLast
<1>4. ASSUME NEW u \in Tasks, NEW e \in accepted, Acknowledge(u, e)
      PROVE  /\ lineage'[t] = lineage[t] \cup {new}
             /\ \/ new.worker = checkpoint[t].worker_id
                \/ \A x \in lineage[t] : x.worker # new.worker
  <2>1. /\ u = t
        /\ lineage'[t] = lineage[t] \cup {new}
        /\ InstallsOver(checkpoint[t], e, checkpoint'[t])
    BY <1>2, <1>4, AcknowledgeEffect
  <2>2. /\ e.plan \in LivePlans
        /\ e.plan.task_id = t
        /\ e.plan.checkpoint_revision = checkpoint[t].revision
    BY <2>1 DEF LivePlans, InstallsOver, TypeInv, WellFormed
  <2>3. TargetAllowed(e.plan)
    BY <2>2 DEF TargetsAllowed
  <2>4. QED
    BY <1>1, <2>1, <2>2, <2>3 DEF InstallsOver, TargetAllowed, PastWorkers
<1>5. ASSUME NEW u \in Tasks, SupervisorStep(u), ~ Dispatch(u)
      PROVE  lineage' = lineage
  BY <1>5, SupervisorStepEffect
<1>6. \/ \E u \in Tasks : Dispatch(u)
      \/ \E u \in Tasks : \E e \in accepted : Acknowledge(u, e)
  BY <1>5
  DEF Next, HostStep, PlanSameWorkerRespawn, PlanCrossWorkerRecovery, HoldPlan,
      Start, SpawnAccepted, Abandon, RecordTermination, SessionEnds
<1>7. CASE \E u \in Tasks : Dispatch(u)
  BY <1>1, <1>3, <1>7
<1>8. CASE \E u \in Tasks : \E e \in accepted : Acknowledge(u, e)
  BY <1>1, <1>4, <1>8
<1>9. QED
  BY <1>6, <1>7, <1>8

\* HasLast and NoReturnToLeftWorker of one lineage.
LastIn(executions) ==
  executions # {} =>
    \E m \in executions : \A y \in executions : y.revision <= m.revision

NoReturnIn(executions) == \A x, y, z \in executions :
  x.revision < y.revision /\ y.revision < z.revision /\ x.worker = z.worker
    => y.worker = x.worker

LEMMA StepsNeverReturn ==
  TypeInv /\ LineageInv /\ InstalledOnce /\ HoldsLastInstalled /\ TargetsAllowed
    /\ HasLast /\ NoReturnToLeftWorker /\ [Next]_vars
    => HasLast' /\ NoReturnToLeftWorker'
<1>. SUFFICES ASSUME TypeInv, LineageInv, InstalledOnce, HoldsLastInstalled,
                     TargetsAllowed, HasLast, NoReturnToLeftWorker, [Next]_vars,
                     NEW t \in Tasks
              PROVE  LastIn(lineage'[t]) /\ NoReturnIn(lineage'[t])
  BY DEF HasLast, Last, NoReturnToLeftWorker, LastIn, NoReturnIn
<1>1. LastIn(lineage[t]) /\ NoReturnIn(lineage[t])
  BY DEF HasLast, Last, NoReturnToLeftWorker, LastIn, NoReturnIn
<1>2. CASE lineage'[t] # lineage[t]
  <2>1. PICK new : /\ lineage'[t] = lineage[t] \cup {new}
                   /\ \A x \in lineage[t] : x.revision < new.revision
                   /\ new.revision \in Nat
                   /\ lineage[t] # {} =>
                        \/ new.worker = checkpoint[t].worker_id
                        \/ \A x \in lineage[t] : x.worker # new.worker
    BY <1>2, InstallsAllowed DEF vars
  <2>2. \A x \in lineage[t] : x.revision \in Nat
    BY LineageTypes
  <2>3. \A y \in lineage'[t] : y.revision <= new.revision
    BY <2>1, <2>2
  <2>4. ASSUME NEW x \in lineage'[t], NEW y \in lineage'[t], NEW z \in lineage'[t],
               x.revision < y.revision, y.revision < z.revision,
               x.worker = z.worker
        PROVE  y.worker = x.worker
    <3>1. x \in lineage[t] /\ y \in lineage[t]
      BY <2>1, <2>2, <2>4
    <3>2. CASE z \in lineage[t]
      BY <1>1, <2>4, <3>1, <3>2 DEF NoReturnIn
    <3>3. CASE z = new
      <4>1. new.worker = checkpoint[t].worker_id
        BY <2>1, <2>4, <3>1, <3>3
      <4>2. PICK m \in lineage[t] : Last(t, m)
        BY <3>1 DEF HasLast
      <4>3. m.worker = new.worker
        BY <4>1, <4>2 DEF Last, HoldsLastInstalled
      <4>4. y = m \/ y.revision < m.revision
        BY <2>2, <3>1, <4>2 DEF Last, InstalledOnce
      <4>5. QED
        BY <1>1, <2>4, <3>1, <3>3, <4>2, <4>3, <4>4 DEF NoReturnIn
    <3>4. QED
      BY <2>1, <3>2, <3>3
  <2>5. LastIn(lineage'[t])
    BY <2>1, <2>3 DEF LastIn
  <2>6. NoReturnIn(lineage'[t])
    BY <2>4 DEF NoReturnIn
  <2>7. QED
    BY <2>5, <2>6
<1>3. QED
  BY <1>1, <1>2

(***************************************************************************)
(* However many recoveries a task goes through, a worker it was moved away *)
(* from never gets it back.                                                *)
(***************************************************************************)
THEOREM NeverReturns == Spec => []NoReturnToLeftWorker
<1>1. Init => /\ LineageInv /\ InstalledOnce /\ HoldsLastInstalled
              /\ TargetsAllowed /\ HasLast /\ NoReturnToLeftWorker
  BY DEF Init, LineageInv, InstalledOnce, HoldsLastInstalled, TargetsAllowed,
         LivePlans, HasLast, NoReturnToLeftWorker
<1>2. QED
  BY <1>1, StepsKeepLine, StepsKeepTargets, StepsNeverReturn, TypesAlways,
     PlansStayHonest, PTL DEF Spec

-----------------------------------------------------------------------------
(***************************************************************************)
(* Live plans carry one of the two limits the policy was given.            *)
(***************************************************************************)
LimitsGiven == \A p \in LivePlans : p.retry_limit \in {MaxRetryCount, MaxRerouteCount}

LEMMA StepsKeepLimits == TypeInv /\ LimitsGiven /\ [Next]_vars => LimitsGiven'
BY StepsAddHonestPlans DEF LimitsGiven

\* The material of a typed checkpoint, and what is recoverable about it.
LEMMA MaterialType ==
  ASSUME NEW c \in Checkpoints
  PROVE  /\ MaterialOf(c) \in TaskMaterials
         /\ Recoverable(MaterialOf(c)) <=> Recoverable(c)
BY DEF Checkpoints, MaterialOf, TaskMaterials, Recoverable, ApprovalBlocks

-----------------------------------------------------------------------------
(***************************************************************************)
(* The steps of the abstract specification.                                *)
(***************************************************************************)
LEMMA EditRefines ==
  ASSUME TypeInv, TypeInv', NEW t \in Tasks,
         EditOf(t), OthersUnchanged(t), lineage' = lineage
  PROVE  Lineage!Edit(t)
<1>1. MaterialOf(checkpoint'[t]) \in TaskMaterials
  BY MaterialType DEF TypeInv, TypeOK
<1>2. \A u \in Tasks : Owner(checkpoint'[u]) = Owner(checkpoint[u])
  BY DEF EditOf, OthersUnchanged, Owner
<1>3. \A u \in Tasks \ {t} :
        /\ MaterialOf(checkpoint'[u]) = MaterialOf(checkpoint[u])
        /\ checkpoint'[u].retry_count = checkpoint[u].retry_count
  BY DEF OthersUnchanged
<1>4. checkpoint'[t].retry_count \in {0, checkpoint[t].retry_count}
  BY DEF EditOf
<1>5. [u \in Tasks |-> checkpoint'[u].retry_count]
        \in {[u \in Tasks |-> checkpoint[u].retry_count],
             [[u \in Tasks |-> checkpoint[u].retry_count] EXCEPT ![t] = 0]}
  BY <1>3, <1>4
<1>6. [u \in Tasks |-> MaterialOf(checkpoint'[u])]
        = [[u \in Tasks |-> MaterialOf(checkpoint[u])]
             EXCEPT ![t] = MaterialOf(checkpoint'[t])]
  BY <1>3
<1>7. QED
  BY <1>1, <1>2, <1>5, <1>6 DEF Lineage!Edit

(***************************************************************************)
(* Installing a session that no lineage holds is an abstract Install.      *)
(***************************************************************************)
Entry(x) == [worker |-> x.worker, session |-> x.session]

PastOf(executions) == {[worker |-> x.worker, session |-> x.session] : x \in executions}

LEMMA InstallRefines ==
  ASSUME TypeInv, NEW t \in Tasks, NEW x \in Lineage!Executions,
         x.worker = checkpoint'[t].worker_id, x.session \in Sessions,
         Installs(t, x.session), OthersUnchanged(t),
         \A u \in Tasks : \A y \in lineage[u] : y.session # x.session,
         MaterialOf(checkpoint'[t]) = MaterialOf(checkpoint[t])
  PROVE  Lineage!Install(t, x)
<1>. DEFINE new == Execution(checkpoint'[t], checkpoint[t].revision)
<1>1. x = [worker |-> checkpoint'[t].worker_id, session |-> x.session]
  BY DEF Lineage!Executions
<1>2. /\ lineage'[t] = lineage[t] \cup {new}
      /\ \A u \in Tasks \ {t} : lineage'[u] = lineage[u]
  BY DEF Installs, TypeInv, TypeOK
<1>3. Entry(new) = x
  BY <1>1 DEF Installs, Execution, Entry
<1>. HIDE DEF new
<1>4. /\ PastOf(lineage'[t]) = PastOf(lineage[t]) \cup {x}
      /\ \A u \in Tasks \ {t} : PastOf(lineage'[u]) = PastOf(lineage[u])
  BY <1>2, <1>3 DEF PastOf, Entry
<1>5. [u \in Tasks |-> PastOf(lineage'[u])]
        = [[u \in Tasks |-> PastOf(lineage[u])] EXCEPT ![t] = @ \cup {x}]
  BY <1>4
<1>6. Owner(checkpoint'[t]) = x
  BY <1>1, CheckpointAssumption DEF Installs, Owner
<1>7. \A u \in Tasks \ {t} : Owner(checkpoint'[u]) = Owner(checkpoint[u])
  BY DEF OthersUnchanged
<1>8. [u \in Tasks |-> Owner(checkpoint'[u])]
        = [[u \in Tasks |-> Owner(checkpoint[u])] EXCEPT ![t] = x]
  BY <1>6, <1>7
<1>9. [u \in Tasks |-> MaterialOf(checkpoint'[u])]
        = [u \in Tasks |-> MaterialOf(checkpoint[u])]
  BY DEF OthersUnchanged
<1>10. Lineage!Fresh(x.session)
  BY DEF Lineage!Fresh
<1>11. QED
  BY <1>5, <1>8, <1>9, <1>10 DEF Lineage!Install, PastOf

LEMMA DispatchRefines ==
  ASSUME TypeInv, TypeInv', NEW t \in Tasks, Dispatch(t)
  PROVE  \E x \in Lineage!Executions : Lineage!Begin(t, x)
<1>1. PICK session \in Sessions \ UsedSessions : Installs(t, session)
  BY DispatchEffect
<1>2. /\ checkpoint[t].native_session_id = None
      /\ OthersUnchanged(t)
      /\ checkpoint'[t].retry_count = checkpoint[t].retry_count
      /\ MaterialOf(checkpoint'[t]) = MaterialOf(checkpoint[t])
  BY DispatchEffect
<1>3. \A u \in Tasks : \A y \in lineage[u] : y.session # session
  BY <1>1 DEF UsedSessions
<1>4. checkpoint'[t].worker_id \in WorkerIds
  <2>1. checkpoint'[t].native_session_id # None
    BY <1>1, CheckpointAssumption DEF Installs
  <2>2. checkpoint'[t] \in Checkpoints /\ checkpoint'[t].worker_id # None
    BY <2>1 DEF TypeInv, TypeOK, WellFormed
  <2>3. QED
    BY <2>2 DEF Checkpoints
<1>5. PICK x \in Lineage!Executions :
        x = [worker |-> checkpoint'[t].worker_id, session |-> session]
  BY <1>4 DEF Lineage!Executions
<1>6. Lineage!Install(t, x)
  <2>1. /\ x.session = session
        /\ x.worker = checkpoint'[t].worker_id
    BY <1>5
  <2>2. QED
    BY <1>1, <1>2, <1>3, <2>1, InstallRefines
<1>7. [u \in Tasks |-> checkpoint'[u].retry_count]
        = [u \in Tasks |-> checkpoint[u].retry_count]
  BY <1>2 DEF OthersUnchanged
<1>8. Owner(checkpoint[t]) = None
  BY <1>2 DEF Owner
<1>9. Lineage!Begin(t, x)
  BY <1>6, <1>7, <1>8 DEF Lineage!Begin
<1>10. QED
  BY <1>9

LEMMA AcknowledgeRefines ==
  ASSUME TypeInv, TypeInv', LineageInv, CurrentPlansDescribeCheckpoint,
         TargetsAllowed, LimitsGiven, NEW t \in Tasks, NEW e \in accepted,
         InstallsOver(checkpoint[t], e, checkpoint'[t]),
         Installs(t, e.session), OthersUnchanged(t)
  PROVE  \E x \in Lineage!Executions : Lineage!Recover(t, x)
<1>. DEFINE c == checkpoint[t]
<1>1. /\ e.plan \in LivePlans
      /\ e.plan.task_id = t
      /\ e.plan.checkpoint_revision = c.revision
  BY DEF LivePlans, InstallsOver, TypeInv, WellFormed
<1>2. /\ Recoverable(c)
      /\ TargetAllowed(e.plan)
      /\ e.plan.retry_limit \in {MaxRetryCount, MaxRerouteCount}
  BY <1>1 DEF CurrentPlansDescribeCheckpoint, TargetsAllowed, LimitsGiven
<1>3. /\ e.session \in Sessions
      /\ c.native_session_id \in Sessions
      /\ checkpoint'[t].worker_id \in WorkerIds
  <2>1. e \in Evidence /\ e.plan \in Plans
    BY DEF TypeInv, TypeOK, Evidence
  <2>2. /\ e.session \in Sessions
        /\ e.plan.source_native_session_id \in Sessions
        /\ e.plan.source_worker_id \in WorkerIds
        /\ e.plan.target_worker_id \in WorkerIds
    BY <2>1 DEF Evidence, Plans
  <2>3. QED
    BY <2>2 DEF InstallsOver
<1>4. \A u \in Tasks : \A y \in lineage[u] : y.session # e.session
  BY <1>1, LineageTypes DEF LineageInv
<1>5. /\ MaterialOf(checkpoint'[t]) = MaterialOf(c)
      /\ checkpoint'[t].retry_count = c.retry_count + 1
      /\ c.retry_count + 1 <= e.plan.retry_limit
      /\ \/ checkpoint'[t].worker_id = c.worker_id
         \/ checkpoint'[t].worker_id = e.plan.target_worker_id
  BY DEF InstallsOver
<1>6. Owner(c) = [worker |-> c.worker_id, session |-> c.native_session_id]
  BY <1>3, CheckpointAssumption DEF Owner
<1>7. Owner(c) # None
  <2>1. c \in Checkpoints /\ c.worker_id \in WorkerIds
    BY <1>3, CheckpointAssumption DEF TypeInv, TypeOK, WellFormed, Checkpoints
  <2>2. Owner(c) \in [worker : WorkerIds, session : Sessions]
    BY <1>3, <1>6, <2>1
  <2>3. QED
    BY <2>2, RecoveryAssumption
<1>8. PICK x \in Lineage!Executions :
        x = [worker |-> checkpoint'[t].worker_id, session |-> e.session]
  BY <1>3 DEF Lineage!Executions
<1>. /\ x.session = e.session
     /\ x.worker = checkpoint'[t].worker_id
  BY <1>8
<1>9. Lineage!Install(t, x)
  <2>1. /\ Installs(t, x.session)
        /\ \A u \in Tasks : \A y \in lineage[u] : y.session # x.session
    BY <1>4
  <2>2. x.session \in Sessions
    BY <1>3
  <2>3. MaterialOf(checkpoint'[t]) = MaterialOf(checkpoint[t])
    BY <1>5
  <2>4. QED
    BY <2>1, <2>2, <2>3, InstallRefines
<1>10. MaterialOf(c) \in {m \in TaskMaterials : Recoverable(m)}
  BY <1>2, MaterialType DEF TypeInv, TypeOK
<1>11. c.retry_count < (IF MaxRetryCount > MaxRerouteCount THEN MaxRetryCount
                        ELSE MaxRerouteCount)
  <2>1. c.retry_count \in Nat
    BY DEF TypeInv, TypeOK, Checkpoints
  <2>2. QED
    BY <1>2, <1>5, <2>1, RecoveryAssumption
<1>12. \/ x.worker = Owner(c).worker
       \/ \A y \in PastOf(lineage[t]) : y.worker # x.worker
  BY <1>1, <1>2, <1>5, <1>6 DEF TargetAllowed, PastWorkers, PastOf
<1>13. [u \in Tasks |-> checkpoint'[u].retry_count]
         = [[u \in Tasks |-> checkpoint[u].retry_count] EXCEPT ![t] = @ + 1]
  BY <1>5 DEF OthersUnchanged
<1>14. Lineage!Recover(t, x)
  BY <1>7, <1>9, <1>10, <1>11, <1>12, <1>13 DEF Lineage!Recover, PastOf
<1>15. QED
  BY <1>8, <1>14

-----------------------------------------------------------------------------
(***************************************************************************)
(* Initial states and steps.                                               *)
(***************************************************************************)
LEMMA InitRefines == Init => Lineage!Init
<1>. SUFFICES ASSUME Init PROVE Lineage!Init
  OBVIOUS
<1>1. TypeInv
  BY InitIsTyped
<1>2. \A t \in Tasks : /\ checkpoint[t].native_session_id = None
                      /\ checkpoint[t].retry_count = 0
                      /\ lineage[t] = {}
  BY DEF Init, InitialCheckpoint
<1>3. \A t \in Tasks : MaterialOf(checkpoint[t]) \in TaskMaterials
  BY <1>1, MaterialType DEF TypeInv, TypeOK
<1>4. QED
  BY <1>2, <1>3 DEF Lineage!Init, Owner

StepInv ==
  /\ TypeInv
  /\ LineageInv
  /\ CurrentPlansDescribeCheckpoint
  /\ TargetsAllowed
  /\ LimitsGiven

LEMMA StepsRefine ==
  StepInv /\ TypeInv' /\ [Next]_vars => [Lineage!Next]_(Lineage!vars)
<1>. SUFFICES ASSUME StepInv, TypeInv', [Next]_vars
              PROVE  [Lineage!Next]_(Lineage!vars)
  OBVIOUS
<1>. USE DEF StepInv
<1>1. CASE UNCHANGED <<checkpoint, lineage>>
  BY <1>1 DEF Lineage!vars
<1>2. ASSUME NEW t \in Tasks, SupervisorStep(t), ~ Dispatch(t) PROVE Lineage!Next
  BY <1>2, SupervisorStepEffect, EditRefines DEF Lineage!Next
<1>3. ASSUME NEW t \in Tasks, Dispatch(t) PROVE Lineage!Next
  BY <1>3, DispatchRefines DEF Lineage!Next
<1>4. ASSUME NEW t \in Tasks, NEW e \in accepted, Acknowledge(t, e)
      PROVE  UNCHANGED <<checkpoint, lineage>> \/ Lineage!Next
  BY <1>4, AcknowledgeEffect, AcknowledgeRefines DEF Lineage!Next
<1>5. UNCHANGED <<checkpoint, lineage>> \/ Lineage!Next
  BY <1>2, <1>3, <1>4
  DEF Next, HostStep, PlanSameWorkerRespawn, PlanCrossWorkerRecovery, HoldPlan,
      Start, SpawnAccepted, Abandon, RecordTermination, SessionEnds, vars
<1>6. QED
  BY <1>1, <1>5

(***************************************************************************)
(* Classifying, planning, claiming, spawning, crashing and acknowledging   *)
(* late or twice amount to recoveries that each happen in one step.        *)
(***************************************************************************)
THEOREM RefinesLineage == Spec => RecoveryIsAtomic
<1>1. Init => /\ LineageInv /\ InstalledOnce /\ HoldsLastInstalled
              /\ TargetsAllowed /\ LimitsGiven
  BY DEF Init, LineageInv, InstalledOnce, HoldsLastInstalled, TargetsAllowed,
         LimitsGiven, LivePlans
<1>2. TypeInv /\ LineageInv /\ CurrentPlansDescribeCheckpoint /\ TargetsAllowed
        /\ LimitsGiven => StepInv
  BY DEF StepInv
<1>3. QED
  BY <1>1, <1>2, InitRefines, StepsRefine, StepsKeepLine, StepsKeepTargets,
     StepsKeepLimits, TypesAlways, PlansStayHonest, PTL
  DEF Spec, RecoveryIsAtomic, Lineage!Spec
=============================================================================
