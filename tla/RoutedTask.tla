----------------------------- MODULE RoutedTask -----------------------------
(***************************************************************************)
(* The Supervisor's loop around WorkerPolicy: a task is routed, each of    *)
(* its stages planned and started on a worker, and the run observed to its *)
(* end, through lost acknowledgements, questions to the human and failed   *)
(* attempts. Whatever the Supervisor does next is what the policy says.    *)
(* The Bridges and the loop are external: they do what                     *)
(* TRI-BRIDGE-P2-POLICY-V1.md (P2-3) has them do.                          *)
(***************************************************************************)
EXTENDS WorkerPolicy

CONSTANTS
  Tasks, Preferences, Contexts,
  Readings,        \* what a probe may observe: [health, limits]
  Limits,          \* every answer to the quota probe
  MaxProbes, MaxAsks, MaxLost   \* bounds: probes, questions, calls that are lost

\* A task has a stage, and none twice: normalizeTask drops repeated ones.
ASSUME RoutingAssumption ==
  /\ \A routable \in Tasks :
       /\ "task_class" \in DOMAIN routable
       /\ Stages(routable) \in Seq(DOMAIN StageTaskClass) \ {<<>>}
       /\ \A j, k \in DOMAIN Stages(routable) :
            Stages(routable)[j] = Stages(routable)[k] => j = k
  /\ \A read \in Readings :
       /\ DOMAIN read = {"health", "limits"}
       /\ \A worker \in Workers : read.health[worker] \in DOMAIN AvailabilityRank
       /\ read.limits \in Limits
  /\ \A limits \in Limits \ {None} :
       /\ limits.reached \in BOOLEAN
       /\ \A id \in QuotaWindowIds : limits[id] \in Int \cup {None}
  /\ None \notin Workers /\ None \notin BOOLEAN /\ None \notin Int

VARIABLES
  task, policy, context,   \* the arguments
  reading,    \* the last probe
  view,       \* the run as the Supervisor knows it
  failed,     \* failed_workers
  todo,       \* the purposes of the stages that are left
  plan,       \* the plan being acted on
  phase,
  native,     \* native[w]: the last run of w, as it really is
  accomplished,  \* purposes whose run succeeded
  chosen,     \* history: what the last start was decided on
  routed,     \* history: the reading the task was routed with
  probes, asks, lost

arguments == <<task, policy, context>>
world == <<native, accomplished, asks>>
vars == <<arguments, reading, view, failed, todo, plan, phase, world, chosen, routed,
          probes, lost>>

\* The Supervisor maps the windows of the probe into the state of codex.
WorkerState(worker, read) ==
  [availability |-> read.health[worker],
   quota_windows |-> IF worker = "codex" THEN ClassifyCodexQuota(read.limits) ELSE <<>>,
   budget_pressure |-> None]

State(read) ==
  [workers |-> [worker \in Workers |-> WorkerState(worker, read)],
   active_worker |-> view.worker,
   active_terminal |-> view.terminal,
   pending_hitl |-> view.hitl, mutation_ack |-> view.ack, failed_workers |-> failed]

PlanWith(read) ==
  BuildExecutionPlan(StageTask(task, Head(todo)), State(read), policy, context)

-----------------------------------------------------------------------------
Probe ==
  /\ phase \in {"routing", "planning"}
  /\ probes < MaxProbes
  /\ reading' \in Readings
  /\ probes' = probes + 1
  /\ UNCHANGED <<arguments, view, failed, todo, plan, phase, world, chosen, routed, lost>>

Route ==
  /\ phase = "routing"
  /\ routed' = reading
  /\ IF RouteTask(task, State(reading), policy) \in {"route", "decompose"}
     THEN phase' = "planning" /\ todo' = Stages(task)
     ELSE phase' = "settled" /\ UNCHANGED todo
  /\ UNCHANGED <<arguments, reading, view, failed, plan, world, chosen, probes, lost>>

Plan ==
  /\ phase = "planning"
  /\ plan' = PlanWith(reading)
  /\ phase' = IF plan'.action \in {"no_worker", "blocked"} THEN "settled" ELSE "acting"
  /\ UNCHANGED <<arguments, reading, view, failed, todo, world, chosen, routed, probes, lost>>

\* The start is acknowledged, rejected, or its acknowledgement is lost.
Start ==
  /\ phase = "acting" /\ plan.action = "ready"
  /\ phase' = "planning"
  /\ chosen' = [worker |-> plan.worker, chain |-> plan.fallback_chain, reading |-> reading,
                todo |-> todo, failed |-> failed]
  /\ \E ack \in {"accepted", "rejected", "unknown"}, delivered \in BOOLEAN :
       /\ ack = "accepted" => delivered
       /\ ack = "rejected" => ~delivered
       /\ lost' = IF ack = "unknown" /\ ~delivered THEN lost + 1 ELSE lost
       /\ lost' <= MaxLost
       /\ view' = [worker |-> plan.worker, terminal |-> ack = "rejected", hitl |-> FALSE,
                   ack |-> ack]
       /\ native' = [native EXCEPT ![plan.worker] = IF delivered THEN "running" ELSE "none"]
       /\ failed' = IF ack = "rejected" THEN failed \cup {plan.worker} ELSE failed
  /\ UNCHANGED <<arguments, reading, todo, plan, accomplished, asks, routed, probes>>

\* To hold or to reconcile is to look at the native run. One that is not there
\* was never started; the stage of one that succeeded is done.
Observe ==
  /\ phase = "acting"
  /\ plan.action = "reconcile" \/ plan.reason = "active_run"
  /\ LET run == native[plan.worker]
     IN  /\ view' = [view EXCEPT !.terminal = run \notin {"running", "waiting"},
                                 !.hitl = run = "waiting",
                                 !.ack = IF run = "none" THEN "rejected" ELSE "accepted"]
         /\ failed' = IF run = "failed" THEN failed \cup {plan.worker} ELSE failed
         /\ todo' = IF run = "succeeded" THEN Tail(todo) ELSE todo
         /\ phase' = IF todo' = <<>> THEN "settled" ELSE "planning"
  /\ UNCHANGED <<arguments, reading, plan, world, chosen, routed, probes, lost>>

\* The human's answer is passed on; its acknowledgement may be lost too.
Respond ==
  /\ phase = "acting" /\ plan.reason = "pending_hitl"
  /\ phase' = "planning"
  /\ \E ack \in {"accepted", "unknown"}, delivered \in BOOLEAN :
       /\ ack = "accepted" => delivered
       /\ lost' = IF delivered THEN lost ELSE lost + 1
       /\ lost' <= MaxLost
       /\ view' = [view EXCEPT !.hitl = FALSE, !.ack = ack]
       /\ native' = IF delivered THEN [native EXCEPT ![plan.worker] = "running"] ELSE native
  /\ UNCHANGED <<arguments, reading, failed, todo, plan, accomplished, asks, chosen, routed,
                 probes>>

RunEnds(worker) ==
  /\ native[worker] = "running"
  /\ \/ /\ native' = [native EXCEPT ![worker] = "succeeded"]
        /\ accomplished' = accomplished \cup {Head(todo)}
     \/ /\ native' = [native EXCEPT ![worker] = "failed"]
        /\ UNCHANGED accomplished
  /\ UNCHANGED <<arguments, reading, view, failed, todo, plan, phase, asks, chosen, routed,
                 probes, lost>>

RunAsks(worker) ==
  /\ native[worker] = "running"
  /\ asks < MaxAsks
  /\ native' = [native EXCEPT ![worker] = "waiting"]
  /\ asks' = asks + 1
  /\ UNCHANGED <<arguments, reading, view, failed, todo, plan, phase, accomplished, chosen,
                 routed, probes, lost>>

Settled == phase = "settled" /\ UNCHANGED vars

Init ==
  /\ task \in Tasks /\ policy \in Preferences /\ context \in Contexts
  /\ reading \in Readings
  /\ view = [worker |-> None, terminal |-> TRUE, hitl |-> FALSE, ack |-> None]
  /\ failed = {} /\ todo = <<>> /\ phase = "routing"
  /\ plan = Selection("none", None, <<>>, "none")
  /\ native = [worker \in Workers |-> "none"]
  /\ accomplished = {}
  /\ chosen = None /\ routed = None
  /\ probes = 0 /\ asks = 0 /\ lost = 0

Supervise == Route \/ Plan \/ Start \/ Observe \/ Respond

Next ==
  \/ Supervise
  \/ Probe
  \/ \E worker \in Workers : RunEnds(worker) \/ RunAsks(worker)
  \/ Settled

\* The Supervisor goes on, and a native run that is not waiting comes to an end.
Spec == Init /\ [][Next]_vars
FairSpec ==
  /\ Spec
  /\ WF_vars(Supervise)
  /\ \A worker \in Workers : WF_vars(RunEnds(worker))

-----------------------------------------------------------------------------
Live == {worker \in Workers : native[worker] \in {"running", "waiting"}}
Acting == phase = "acting"

TypeOK ==
  /\ reading \in Readings
  /\ view \in [worker : Workers \cup {None}, terminal : BOOLEAN, hitl : BOOLEAN,
               ack : {None, "accepted", "rejected", "unknown"}]
  /\ failed \subseteq Workers
  /\ Range(todo) \subseteq DOMAIN StageTaskClass
  /\ plan.worker \in Workers \cup {None}
  /\ Range(plan.fallback_chain) \subseteq Workers \ failed
  /\ phase \in {"routing", "planning", "acting", "settled"}
  /\ native \in [Workers -> {"none", "running", "waiting", "succeeded", "failed"}]

(***************************************************************************)
(* A run is started only when no run is live, whatever was lost on the way,*)
(* and never for a stage that has been accomplished already.               *)
(***************************************************************************)
StartsAreSafe ==
  [][\A worker \in Workers :
       (native[worker] \notin {"running", "waiting"} /\ native'[worker] = "running")
       => Live = {} /\ Head(todo) \notin accomplished]_vars

(***************************************************************************)
(* The fallback chain is a promise: when the attempt fails and nothing     *)
(* else has changed, the next plan takes the head of the chain, and there  *)
(* is no worker only when the chain was empty.                             *)
(***************************************************************************)
FallbackFollowsChain ==
  /\ chosen # None
  /\ chosen.reading = reading /\ chosen.todo = todo
  /\ failed = chosen.failed \cup {chosen.worker}
  => /\ Acting /\ plan.action = "ready" =>
          chosen.chain # <<>> /\ plan.worker = Head(chosen.chain)
     /\ plan.action = "no_worker" => chosen.chain = <<>>

(***************************************************************************)
(* Once every stage of a task was routed, a stage is left without a worker *)
(* only if an attempt failed or another probe saw something else.          *)
(***************************************************************************)
RoutedStagesCanRun ==
  plan.action = "no_worker" => failed # {} \/ reading # routed

(***************************************************************************)
(* No window of codex hides another: it is chosen only if the probe saw    *)
(* none that is spent, the other window observed or not, and where it is   *)
(* chosen it would be chosen with more left in any window.                 *)
(***************************************************************************)
AtLeast(more, less) == more = less \/ (more # None /\ less # None /\ more >= less)

Fuller(more, less) ==
  more # None /\ less # None /\ (more.reached => less.reached)
  /\ \A id \in QuotaWindowIds : AtLeast(more[id], less[id])

EveryWindowCounts ==
  Acting /\ plan.action = "ready" /\ plan.worker = "codex" =>
    /\ reading.limits # None =>
         ~reading.limits.reached /\ \A id \in QuotaWindowIds : reading.limits[id] # 0
    /\ \A limits \in Limits : Fuller(limits, reading.limits) =>
         PlanWith([reading EXCEPT !.limits = limits]).worker = "codex"

(***************************************************************************)
(* The loop ends: it does not bounce between workers that fail.            *)
(***************************************************************************)
Settles == <>(phase = "settled")
=============================================================================
