---------------------------- MODULE WorkerPolicy ----------------------------
(***************************************************************************)
(* supervisor-policy/policy.mjs and execution-plan.mjs: which worker a     *)
(* task may go to, given what the Supervisor has observed. Pure functions  *)
(* of their arguments. None stands for a field that is left out.           *)
(***************************************************************************)
EXTENDS SequencesExt, Integers

CONSTANT None

Workers == {"claude", "codex", "pi"}
QuotaWindowIds == {"primary", "secondary"}

Capabilities ==
  LET common == {"coding", "approval_hitl", "web_research"}
      measured == {"post_run_cost", "post_run_usage"}
      native == {"enforced_read_only", "model_override"}
  IN  [claude |-> common \cup measured \cup {"health_probe"},
       codex |-> common \cup native \cup {"quota_probe", "native_persistent_thread_inventory"},
       pi |-> common \cup measured \cup native
                \cup {"bounded_mutation_scope", "provider_override", "extension_capability"}]

StageTaskClass ==
  [evidence_acquisition |-> "evidence_gathering", expert_review |-> "expert_review",
   extension_capability |-> "extension_capability",
   engineering_execution |-> "general_engineering"]

TaskClassStagePurpose ==
  [evidence_gathering |-> "evidence_acquisition", expert_review |-> "expert_review",
   extension_capability |-> "extension_capability",
   general_engineering |-> "engineering_execution", mixed |-> "engineering_execution"]

TaskClassOrder ==
  LET engineering == <<"codex", "claude", "pi">>
  IN  [evidence_gathering |-> engineering, general_engineering |-> engineering,
       mixed |-> engineering, expert_review |-> <<"claude", "codex", "pi">>,
       extension_capability |-> <<"pi", "codex", "claude">>]

AvailabilityRank == [available |-> 0, unknown |-> 1, degraded |-> 2, unavailable |-> 99]
PressureRank == [normal |-> 0, unknown |-> 1, caution |-> 2, critical |-> 3, exhausted |-> 99]

-----------------------------------------------------------------------------
(***************************************************************************)
(* A task has a class, a mode, perhaps a risk class, perhaps the stages of *)
(* a mixed one, and the capabilities it names: by the older flags          *)
(* (shortcuts, here the capability each maps to) or in a list.             *)
(***************************************************************************)
RiskClass(task) ==
  IF task.risk_class # None THEN task.risk_class
  ELSE IF "bounded_mutation_scope" \in task.shortcuts THEN "bounded_mutation"
  ELSE IF task.mode = "read" THEN "read_only" ELSE "broad_mutation"

StagesRequested(task) ==
  IF task.stages_requested = None THEN <<"evidence_acquisition", "expert_review">>
  ELSE FoldLeft(LAMBDA seen, stage : IF Contains(seen, stage) THEN seen ELSE Append(seen, stage),
                <<>>, task.stages_requested)

CapabilityReasons(worker, task) ==
  LET required ==
        task.shortcuts \cup task.required_capabilities
        \cup {capability \in {"coding"} : task.mode = "coding"}
        \cup {capability \in {"extension_capability"} : task.task_class = capability}
        \cup {capability \in {"bounded_mutation_scope"} : RiskClass(task) = "bounded_mutation"}
  IN  required \ Capabilities[worker]

-----------------------------------------------------------------------------
(***************************************************************************)
(* Quota. Two windows are classified independently; the worst decides.     *)
(***************************************************************************)
\* Mutant: a window that was not observed leaves the pressure unknown.
WorstPressureKnown(states) ==
  IF "unknown" \in states THEN "unknown"
  ELSE CHOOSE worst \in states \cup {"normal"} :
         \A other \in states : PressureRank[other] <= PressureRank[worst]

WorstPressure(states) ==
  CHOOSE worst \in states \cup {"normal"} :
    \A other \in states : PressureRank[other] <= PressureRank[worst]

BudgetPressure(raw) ==
  IF DOMAIN raw.quota_windows # {} THEN WorstPressure(Range(raw.quota_windows))
  ELSE IF raw.budget_pressure = None THEN "unknown" ELSE raw.budget_pressure

\* A window is None or the percentage that remains, which may be out of range.
ClassifyWindow(remaining) ==
  IF remaining = None THEN "unknown"
  ELSE IF remaining <= 0 THEN "exhausted"
  ELSE IF remaining <= 10 THEN "critical"
  ELSE IF remaining <= 25 THEN "caution" ELSE "normal"

ClassifyCodexQuota(limits) ==
  IF limits = None THEN [id \in QuotaWindowIds |-> "unknown"]
  ELSE IF limits.reached THEN [id \in QuotaWindowIds |-> "exhausted"]
  ELSE [id \in QuotaWindowIds |-> ClassifyWindow(limits[id])]

-----------------------------------------------------------------------------
(***************************************************************************)
(* Selection. state has, per worker, its availability and quota, and what  *)
(* is known of the run in progress; policy is the preferred worker.        *)
(***************************************************************************)
\* Mutant: a failed attempt does not exclude its worker.
RejectionForgetful(worker, task, state) ==
  IF CapabilityReasons(worker, task) # {} THEN "capability_mismatch"
  ELSE IF state.workers[worker].availability = "unavailable" THEN "unavailable"
  ELSE IF BudgetPressure(state.workers[worker]) = "exhausted" THEN "budget_exhausted"
  ELSE "none"

Rejection(worker, task, state) ==
  IF CapabilityReasons(worker, task) # {} THEN "capability_mismatch"
  ELSE IF worker \in state.failed_workers THEN "previous_attempt_failed"
  ELSE IF state.workers[worker].availability = "unavailable" THEN "unavailable"
  ELSE IF BudgetPressure(state.workers[worker]) = "exhausted" THEN "budget_exhausted"
  ELSE "none"

\* Mutant: who has failed before moves what is left to the other end.
RankReversed(worker, task, state, policy) ==
  LET place == CHOOSE k \in 1..3 : TaskClassOrder[task.task_class][k] = worker
  IN  <<IF worker = policy THEN 0 ELSE 1,
        AvailabilityRank[state.workers[worker].availability],
        PressureRank[BudgetPressure(state.workers[worker])],
        IF state.failed_workers = {} THEN place ELSE 3 - place>>

\* What a worker is sorted by, the most significant first.
Rank(worker, task, state, policy) ==
  <<IF worker = policy THEN 0 ELSE 1,
    AvailabilityRank[state.workers[worker].availability],
    PressureRank[BudgetPressure(state.workers[worker])],
    CHOOSE k \in 1..3 : TaskClassOrder[task.task_class][k] = worker>>

Before(a, b, task, state, policy) ==
  LET left == Rank(a, task, state, policy)
      right == Rank(b, task, state, policy)
  IN  \E k \in 1..4 : left[k] < right[k] /\ \A j \in 1..(k - 1) : left[j] = right[j]

CompatibleWorkers(task, state) ==
  {worker \in Workers : Rejection(worker, task, state) = "none"}

OrderedCandidates(task, state, policy) ==
  CHOOSE order \in SetToSeqs(CompatibleWorkers(task, state)) :
    IsSorted(order, LAMBDA a, b : Before(a, b, task, state, policy))

\* Whether a run has ended is taken for granted when it is not said.
ActiveTerminal(state) == state.active_terminal \in {TRUE, None}

Selection(action, worker, chain, reason) ==
  [action |-> action, worker |-> worker, fallback_chain |-> chain, reason |-> reason]

\* Mutant: a run is active once its start is acknowledged.
SelectWorkerAccepted(task, state, policy) ==
  LET active == state.active_worker # None /\ ~ActiveTerminal(state)
      compatible == OrderedCandidates(task, state, policy)
  IN  IF active /\ state.mutation_ack = "accepted"
      THEN Selection("hold", state.active_worker, <<>>,
                     IF state.pending_hitl THEN "pending_hitl" ELSE "active_run")
      ELSE IF compatible = <<>> THEN Selection("no_worker", None, <<>>, "no_viable_worker")
      ELSE Selection("select", Head(compatible), Tail(compatible),
                     IF policy = Head(compatible) THEN "explicit_preference" ELSE "policy")

SelectWorker(task, state, policy) ==
  LET active == state.active_worker # None /\ ~ActiveTerminal(state)
      compatible == OrderedCandidates(task, state, policy)
  IN  IF active THEN
        IF state.mutation_ack = "unknown"
        THEN Selection("reconcile", state.active_worker, <<>>, "mutation_ack_unknown")
        ELSE Selection("hold", state.active_worker, <<>>,
                       IF state.pending_hitl THEN "pending_hitl" ELSE "active_run")
      ELSE IF compatible = <<>> THEN Selection("no_worker", None, <<>>, "no_viable_worker")
      ELSE Selection("select", Head(compatible), Tail(compatible),
                     IF policy = Head(compatible) THEN "explicit_preference" ELSE "policy")

\* The stages of a task; the first that is blocked decides for all.
Stages(task) ==
  IF task.task_class = "mixed" THEN StagesRequested(task)
  ELSE <<TaskClassStagePurpose[task.task_class]>>

StageTask(task, purpose) == [task EXCEPT !.task_class = StageTaskClass[purpose]]

\* Mutant: the first stage decides.
RouteTaskFirst(task, state, policy) ==
  LET first == SelectWorker(StageTask(task, Head(Stages(task))), state, policy)
  IN  IF first.action # "select" THEN first.action
      ELSE IF task.task_class = "mixed" THEN "decompose" ELSE "route"

RouteTask(task, state, policy) ==
  LET selections == [k \in DOMAIN Stages(task) |->
                       SelectWorker(StageTask(task, Stages(task)[k]), state, policy)]
      blocked == {k \in DOMAIN selections : selections[k].action # "select"}
  IN  IF blocked # {} THEN selections[Min(blocked)].action
      ELSE IF task.task_class = "mixed" THEN "decompose" ELSE "route"

-----------------------------------------------------------------------------
(***************************************************************************)
(* The plan to execute a task: allowed only for a worker that may start    *)
(* now, with the project's contract at hand and in no conflict.            *)
(***************************************************************************)
BuildExecutionPlan(task, state, policy, context) ==
  LET selection == SelectWorker(task, state, policy)
      blocked == ~context.project_contract_present \/ context.task_contract_conflict
  IN  IF selection.action # "select" THEN selection
      ELSE [selection EXCEPT !.action = IF blocked THEN "blocked" ELSE "ready"]
=============================================================================
