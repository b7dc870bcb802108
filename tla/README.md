# Worker-Neutral Supervisor: TLA+ models, checks and proofs

The repository is a library of policy functions in JavaScript. A Supervisor
plans work and owns the durable state of a task, Hosts execute it through
Bridges to native workers (claude, codex, pi), and every function here is a
pure decision over state that its callers keep: what may be resumed, replaced,
amended, accepted, authorised or delivered. The functions are short; what is
hard is that their callers run concurrently, crash, and apply results late.
So the models run the functions inside the environment that calls them.

## Inventory

| Component | Source (`src/supervisor-policy/` unless given) | State it reads or makes | Operations | Hard behaviour | What makes it correct |
|---|---|---|---|---|---|
| Task checkpoint | `task-continuation.mjs` | the durable task record with a revision | validate, serialize, restore, update | writers that start from one stored version, revision at its bound | every change is a new revision |
| Session termination | `session-termination.mjs` | checkpoint, signals | classify | a result that names no session and is used late | task state outranks signals |
| Same-worker respawn | `same-worker-respawn.mjs` | checkpoint, termination result, plan | plan, acknowledge | edits between plan and acknowledgement, repeated or late acknowledgements | only an ended session of a recoverable task is replaced, once |
| Cross-worker recovery | `cross-worker-recovery.mjs` | the same and the failed workers | plan, acknowledge | the same, and moves that come back | one line of executions, no return to a worker that was left |
| Resume preflight | `resume-preflight.mjs` | checkpoint, plan, runtime facts, claims | evaluate | claims after a crash, drift since planning | a claim is executed once |
| Host and Bridges | another repository, described in `src/worker-neutral/supervisor-runtime/` | claims, spawn receipts, descriptors, locks | plan, claim, spawn, acknowledge, reconcile | crash between any two steps, unknown outcomes | an accepted spawn is settled |
| Authoritative plan | `authoritative-plan.mjs` | gates, dependencies, gate states, history, revision | validate, create, amend, worker context | proposals observed at an older revision, whole-plan replacement | authorised gates have completed dependencies, one record per amendment |
| Plan amendment | `plan-amendment.mjs` | proposals, reviews, records | validate, review | reviews of stale proposals | a stale proposal changes nothing |
| Plan admission | `plan-admission.mjs` | requested and effective identity | evaluate | plan amended after admission | only the effective gate and revision run |
| Acceptance evidence | `acceptance-evidence.mjs` | spec, submission, decision, identity | evaluate, decide | four inputs of different age | accepted only with full evidence of the current spec |
| Durable authority | `durable-authority.mjs` | authority record, request | evaluate, project | expiry, revocation or a new epoch between evaluation and use | authorised only inside scope, epoch and time |
| Authorized host effect | `authorized-host-effect.mjs` | request, receipt, result | scope, receipt, result | unknown outcomes and retries with one effect id | a receipt proves one request |
| Archify delivery | `src/scripts/archify-safe.mjs` | candidate and final file, receipt | doctor, deliver | concurrent deliveries, kills before promotion, a specification or runtime that changes meanwhile | the final path never shows a part, the receipt describes what was promoted |
| Worker routing and quota | `policy.mjs`, `execution-plan.mjs` | worker state, quota windows, task | select, route, classify quota, plan | lost acknowledgements, failures one after another, unobserved windows | one run at a time, the fallback chain is kept, the loop ends |
| Completion gate | `completion-gate.mjs` | evidence statuses | evaluate for commit, evaluate for closing | edits between the two gates | the work that is closed is the work that was tested and pushed, or judged to need neither |
| Convergence | `convergence.mjs` | findings, certificates | evaluate, work item of a finding | certificates older than findings | nothing converges while a finding is open or unread |
| Context policy | `context-policy.mjs` | skill catalog, sources of context | select skills, plan, resolve conflicts | greedy choice, overlapping skills | what can be covered is covered, authority stands |
| Memory policy | `memory-policy.mjs` | a fact, its proposer, acceptance | recall, record | acceptance that is lost again | durable memory is earned |
| Reasoning watchdog, web research | `reasoning-watchdog.mjs`, `web-research-policy.mjs` | semantic progress, thresholds, conditions | evaluate | a measure that is lost and comes back, thresholds that are met together | not modelled, see below |
| Contract watch | `contract-watch.mjs` | what is observed of a native CLI's seams | assess | observations of an earlier version | a broken seam is never accepted, and the loop settles |
| Telemetry, registry, conformance | `telemetry.mjs`, `registry-admission.mjs`, `tri-worker-conformance.mjs` | none that is kept | normalise, aggregate, compare | none beyond single calls | tables and reports |

Interaction: respawn, recovery, termination and preflight all validate a
checkpoint and read it; recovery asks routing for a target; acknowledgements go
through the checkpoint update. Plan, amendment, admission and acceptance share
the identity (plan, revision, gate). Authority is evaluated for the scope that
a host effect derives from its request. Context policy calls the memory policy
and the execution plan calls both it and routing. The completion gate asks
whether acceptance is verified, which a convergence certificate says, and the
same acceptance decides what may be recorded in memory. The web research
policy is given the watchdog's verdict as one of its conditions.

## Plan

Built, in this order:

1. **Recovery**: the part where two actors, a crash and a late message meet.
2. **Plan lifecycle**: `AuthoritativePlan`, `PlanAmendment`, `PlanAdmission`,
   `AcceptanceEvidence` composed as `GateLifecycle`, and `DependencyCycle`.
3. **Effects**: `DurableAuthority` inside `HostEffect`, with time, revocation,
   epochs, unknown outcomes and retries, and the abstract `EffectRegister` it
   implements.
4. **Delivery**: `ArchifyDelivery` with several deliveries to one file, kills
   between any two steps, and the abstract `ArtifactRegister` it implements.
5. **Routing**: `WorkerPolicy` inside the Supervisor's loop `RoutedTask`.
6. **Closing a task**: `ConvergenceCertificate`, `CompletionGate` and
   `MemoryRecord` composed as `TaskClosure`.
7. **Context and watching**: `ContextPlan`, `ContractWatch`.

Left: an abstract specification of a gate accepted for the current revision, and
`GateLifecycle` shown to implement it. Every invariant and action property that
a passing run checks is a theorem.

## Modules

| Module | Stands for |
|---|---|
| `TaskCheckpoint` | `task-continuation.mjs`: what a checkpoint holds, when it is valid, the update |
| `SessionTermination` | `session-termination.mjs` |
| `SameWorkerRespawn` | `same-worker-respawn.mjs` |
| `CrossWorkerRecovery` | `cross-worker-recovery.mjs` |
| `ResumePreflight` | `resume-preflight.mjs` |
| `Recovery` | Supervisor, Hosts, Bridges and native sessions around those functions, with all properties |
| `TaskLineage` | the abstract specification: a task has one owner, handed over in one step |
| `MCRecovery` | values of the constants for TLC |
| `Recovery_proofs` | the theorems: types, safety of a replacement, the line of executions, the refinement |
| `GateGraph` | dependencies between gates, and what it means that they have no cycle |
| `DependencyCycle` | `detectCycle` of `authoritative-plan.mjs`, one visit at a time |
| `PlanAmendment` | `plan-amendment.mjs`: proposals, reviews, history records |
| `AuthoritativePlan` | `authoritative-plan.mjs`: plans, validation, creation, amendment, Worker context |
| `PlanAdmission` | `plan-admission.mjs` |
| `AcceptanceEvidence` | `acceptance-evidence.mjs` |
| `GateLifecycle` | Supervisor, Workers and Hosts around those functions, with all properties |
| `MCDependencyCycle`, `MCGateLifecycle` | values of the constants for TLC |
| `DependencyCycle_proofs`, `GateLifecycle_proofs` | the theorems about the search and about plans, starts and decisions |
| `DurableAuthority` | `durable-authority.mjs`: records, evaluation, projection |
| `HostEffect` | `authorized-host-effect.mjs` and the Host's invocations around it |
| `EffectRegister` | the abstract specification: an identity is spent once, a request concluded once, an answer true |
| `HostEffect_proofs` | the theorems: an effect is applied once, under authority, and reported as it was; the refinement |
| `DeliveryRequest` | the checks of `archify-safe.mjs` before anything is made: runtime, request, directories |
| `ArchifyDelivery` | `archify-safe.mjs`: wrappers, the runtimes they start, and other programs |
| `ArtifactRegister` | the abstract specification: a register that changes to a whole artifact in one step |
| `ArchifyDelivery_proofs` | the theorems: types, safety of the final path and of receipts, what doctor foretells, what a refusal leaves, the refinement |
| `WorkerPolicy` | `policy.mjs` and `execution-plan.mjs` as operators over a task, a state and a preference |
| `RoutedTask` | the Supervisor's loop of probing, routing, starting and observing |
| `RoutedTask_proofs` | the theorems: no second run is started and no stage repeated; chains, routes and windows are kept to |
| `ConvergenceCertificate`, `CompletionGate`, `MemoryRecord` | `convergence.mjs`, `completion-gate.mjs`, the recording half of `memory-policy.mjs` |
| `TaskClosure` | executor, verifiers and Supervisor around those three |
| `TaskClosure_proofs` | the theorems: types, what is closed, what is remembered |
| `ContextPlan` | `context-policy.mjs` one choice at a time, with the recall half of `memory-policy.mjs` |
| `ContractWatch` | `contract-watch.mjs` in the loop of probes, tests and repairs it asks for |
| `Advice_proofs` | the theorems about `ContextPlan` and `ContractWatch` |
| `MCHostEffect`, `MCArchifyDelivery`, `MCRoutedTask`, `MCTaskClosure`, `MCContextPlan` | values of the constants for TLC |

The function modules of recovery are operators over a checkpoint record: a function
that can throw returns the set of its results, empty when it throws. `Recovery`
has the variables and one action per operation:

| Action | Code |
|---|---|
| `SetStatus`, `SetApproval`, `SetContinuation`, `CompleteGate`, `MoveWorkspace` | the Supervisor patches a section; all go through `updateTaskCheckpoint` |
| `Dispatch` | the first execution is written to `last_execution` |
| `SessionEnds`, `RecordTermination` | a session terminates; the Host classifies it and keeps the result in the task's descriptor, bound to the session |
| `PlanSameWorkerRespawn`, `PlanCrossWorkerRecovery` | the planning functions; the Host holds the plan in memory |
| `Start` | preflight passes and the claim becomes durable, under the checkpoint lock |
| `SpawnAccepted` | the Bridge accepts and names a new session; the receipt is durable |
| `Abandon` | crash, plan dropped, or outcome unknown: the claim stays |
| `Acknowledge` | either acknowledgement function, on any receipt, for any task, at any time, any number of times |

`checkpoint`, `descriptor`, `claims` and `accepted` survive a crash; `plan` and
`spawning` do not. `ended` is the world's, and `lineage` is a history of what
was installed that `PlanCrossWorkerRecovery` also reads, because the Host
supplies every previously acknowledged worker as failed.

`GateLifecycle` does the same for plans. The functions keep nothing: the plan is
the Supervisor's, and every message is a member of a set that only grows, so it
may be used late, again or never.

| Action | Code |
|---|---|
| `RequestGate` | `createWorkerPlanContext` names an authorised gate and the revision; a Host is asked to run it |
| `AdmitWorker` | `evaluatePlanAdmission` against the identity in effect when the request arrives |
| `Propose` | a Worker proposes an amendment at the revision it was given |
| `Amend` | `applySupervisorPlanAmendment` with any decision and a draft of any age, content, plan and proposal |
| `PublishSpec` | the Supervisor publishes an acceptance spec, newer than the gate's others |
| `Submit` | a Worker submits evidence, complete or not, for a spec of the gate it runs |
| `Decide` | `applySupervisorAcceptanceDecision` with any spec, submission and decision and the identity in effect |

Nothing connects a decision to the plan: an accepted gate becomes completed only
when the Supervisor amends the plan to say so, and the code lets it say so
without one. The identity in effect is supplied by the caller; the model takes
the plan's revision and, for acceptance, the newest spec of that revision.

`DependencyCycle` is the recursion of `visit` with its stack in a variable:
`path` is the stack, `todo` what each loop has left, `state` the marks. One step
is one call or return. The order of the lists is any order, a step at a time.
`AuthoritativePlan` then uses `Acyclic`, which says the same without a search;
`SearchDecidesAcyclic` is the proof that it may.

`HostEffect` has the variables of the checkpoint (`reserved`, `terminal`), of
the authority's owner (`record`, `clock`), of each invocation and of the handler
it dispatched. `ended` is a history of when each epoch ceased to be in force.

| Action | Code |
|---|---|
| `Grant`, `Withdraw`, `Tick` | the owner replaces the record under the next epoch, withdraws it now or from a time on; time passes |
| `Authorize` | `createAuthorityProjection` for the one scope token `createAuthorizedHostEffectScope` makes of the request |
| `Reject` | `validateAuthorizedHostEffectRequest` throws |
| `Refuse`, `Settle`, `GiveUp` | a result of `createAuthorizedHostEffectResult`, for a refusal, a handler that returned, and one that is not waited for |
| `Reserve` | the receipt of `createAuthorizedHostEffectReceipt` is stored before the effect is dispatched |
| `Reconcile` | its reference is stored already: the digest tells whether for the same request |
| `Dispatch`, `Crash`, `HandlerEnds` | the Host and its handler; a handler outlives its Host |

`ArchifyDelivery` gives each wrapper a record of its local variables and one
action for each stretch of code between two awaits that others can observe.

| Action | Code |
|---|---|
| `Begin` | `runDeliver` up to the digest of the specification, with every refusal |
| `ResolvePaths` | `resolveArtifactRoot` and `resolveFinalPath`: directories are made, links are refused |
| `Spawn`, `ChildExits`, `ChildSettles` | `runChild` and the runtime, which writes its candidate and may exit at any point; a child outlives its wrapper |
| `Inspect` | the exit code and the checks of the candidate, with what each failure removes, and the errors that nothing catches |
| `Promote` | the final path is checked again and the candidate renamed over it |
| `Report` | the receipt is printed |
| `Doctor` | `runDoctor` |
| `Crash`, `EditSpec`, `ReplaceRuntime`, `OccupyFinal` | a wrapper is killed; others edit the specification, replace the runtime, put a link or a directory at the final path or clear it |

`RoutedTask` calls `RouteTask` once and `BuildExecutionPlan` before each step
of a stage, on a state made of what the Supervisor last probed and observed;
`native` is what really runs. `Start` and `Respond` may lose their
acknowledgement, and `Observe` is how the code's "hold" and "reconcile" are
answered. `chosen` and `routed` are histories.

`TaskClosure` keeps statuses as the gate reads them, and beside them, as
histories, the revision of the work that each of tests, diff, commit and push was
settled of (`as_of`) and the one that is in the repository (`committed`).

| Action | What happens, by `TRI-BRIDGE-P3-WORKFLOW-V1.md` |
|---|---|
| `Edit`, `Update` | the executor edits the work, after which a document, `AGENTS.md` or the decisions may be due; one of them is updated, which is an edit, or judged not to need it |
| `RunTests`, `Inspect`, `Commit`, `Push` | what the Supervisor does; only what is in the repository is pushed, and a clean tree has nothing to commit |
| `Waive` | the Supervisor judges tests or diff `not_required`, or commit or push `not_needed`, which the gate lets pass like the deed (P3-1, items 2, 3, 8 and 9) |
| `Open`, `CloseFinding`, `Certify`, `Record` | verifiers and findings, and a fact proposed for memory |
| `PreCommitGate`, `FinalGate` | `evaluateCompletionGate` at each stage |

A judgement is of the work as it is: `Edit` takes it back with the results of that
work, a duty of the caller, since the code compares no revisions. The
Supervisor may judge wrongly. `ClosedIsWhole` says only that it did judge, of the
last revision, and that in a working tree nothing is left uncommitted whatever
was judged, because there the gate looks at the tree as well; a remote
task closes on the judgement alone. The executor is always named when a
certificate is evaluated; without it the code does not compare the two.
Acceptance is not stored: it is what `EvaluateConvergenceCertificate`
says of the last certificate and the findings at that moment, which is what
`PreCommitGate`, `FinalGate` and `Record` read.

`ContextPlan` runs the loops of `selectMinimalSkills` one skill at a time
(`Request`, then `Pick`), plans (`SelectContextPlan`), and then lets the
planned sources conflict in any order (`Conflict`).
`ContractWatch` does what `AssessContractWatch` asks for (`Probe`, `RunTests`,
`Patch`, `Accept`) while seams drift. Its environment is well behaved: every
change is announced, by a version or by an observation that is no longer
known, probes and tests tell the truth, and repairs succeed.

### What is abstracted

* Claim keys are digests of tuples and are modelled as the tuples.
* Reference lists (evidence, receipt, handoff), treated alike, are one set; gate
  lists are sets, so reordering without change of content is not an edit.
* A workspace is a tree (path and commit) and an optional branch.
* Goal, phase, constraint items, cursor, semantic progress and native status are
  left out: no function of this path decides by them.
* Worker selection is any supported worker not listed as failed; the ranking
  depends on state its caller supplies.
* Lists of gates, criteria and evidence items are sets; duplicates are refused,
  or change nothing, in the code. Reasons, descriptions, evidence references,
  reason codes and what a refusal names are left out, and a Worker's claim,
  which no function acts on.
* A plan is created at revision 1 without history, the defaults of
  `createAuthoritativePlan`; the code also accepts another revision and history
  and then does not compare the two.
* Times are numbers; an authority's identifiers and provenance are left out. The
  validators of effect requests are one verdict: operations are well formed or
  malformed. Scope tokens and digests are the requests they are made of.
* The wrapper's option parsing and its target directory are left out (the
  directory is fixed); a name is one of the forms the checks tell apart, a file
  one of the forms the checks of the candidate tell apart together with whose
  it is and of which specification, and a directory walk a sequence of two kinds
  of components and their links.
* A regular file that someone else puts at the final path is left out: to the
  wrapper it is like none, since both are replaced. Where a link leads out of the
  artifact root, the error names the root or the output name, whichever part of
  the walk it is on; the model has either.
* A candidate that is a directory, or that cannot be read, ends the wrapper with
  an error nothing catches: `rm` with `force` does not remove a directory
  (`archify-safe.mjs:484`, `:499`). It stays, and the error is `internal_error`
  whatever the child's exit code was. `NoStrayCandidate` allows only this.
* A candidate for an episode changes nothing that is durable: the code answers
  `candidate_episode_only`, and where episodes go is another repository's.
* A rejected acceptance is a pending one: the gate names another reason and
  blocks both.
* Cost and latency bands, which decide nothing but a report, and the wording of
  rejections and blockers are left out; a quota window is its remaining percentage.
* Recall depends in an execution plan on a flag the caller supplies about a
  session; the model of plans leaves recall out and `ContextPlan` has it.
* `convergence.mjs` also makes a work item of a finding, a copy that changes
  nothing, which is left out.
* The Host's lock normally admits one Host per checkpoint. The model lets
  several plan and call Bridges at once, which covers a lock that was reclaimed;
  the single atomic read-and-write of the checkpoint is all it relies on.

## Properties and runs

| Run | Question | Properties | Bounds |
|---|---|---|---|
| `recovery_race` | what do two Hosts do at one revision? | `RecoveryIsAtomic`, `LineageIsLinear`, `NoReturnToLeftWorker`, `OneSpawnPerClaim`, `ReplacesOnlyEnded` | one task, two Hosts, 3 sessions, 2 workers, 3 revisions, no edits |
| `recovery_edits` | does an edit between plan and acknowledgement go unnoticed, and does an accepted spawn settle? | `CurrentPlansDescribeCheckpoint`, `ReplacesOnlyRecoverable`, `AcceptedSpawnSettles` | one task, one Host at a time, 2 sessions, 2 supported workers and 1 that is not, 3 revisions, all kinds of edit |
| `cycle_search` | is the cycle check right, and does it end? | `AcceptedIsAcyclic`, `ReportedCycleIsReal`, `SearchEnds` | every graph over 4 gates, every order |
| `lifecycle_work` | what do stale proposals, drafts, requests, specs and evidence do? | `SomeGateCanProceed`, `HistoryTellsAmendments`, `StartsOnlyCurrentWork`, `DecidesOnlyCurrentWork` | one plan, 2 gates that are free, chained or in a ring, 3 revisions, one proposal name, 2 criteria, 2 messages of each kind |
| `delivery_race` | what do two deliveries to one file do, on every request and runtime? | `DeliversAtomically`, `FinalIsWhole`, `ReceiptsAreTrue`, `NoStrayCandidate`, `DoctorForetells`, `RefusedRequestCreatesNothing`, `DeliveryEnds` | two wrappers, 4 requests, 4 kinds of runtime, 3 directory walks, one interference, kills anywhere |
| `delivery_unverified` | is a runtime without an identity refused? | `PromotesOnlyVerified` (violated) | one wrapper, all runtimes |
| `effect_retries` | is anything applied twice, outside its authority or reported wrongly? | `AppliedOnce`, `AppliedUnderAuthority`, `ResultsAreTrue`, `EffectsAreExactlyOnce` | two invocations with one effect id, 4 requests, 2 epochs, 3 instants |
| `routing_runs` | is a Worker started beside another, or against the chain or the quota, and does the loop end? | `TypeOK`, `StartsAreSafe`, `FallbackFollowsChain`, `RoutedStagesCanRun`, `EveryWindowCounts`, `Settles` | 3 tasks, 8 readings, each compared with every pair of windows beside the thresholds, one more probe, one question, one lost message |
| `closure_gates` | is a closed task whole, and is a finding ever overlooked? | `TypeOK`, `ClosedIsWhole`, `ClosedIsConverged`, `DurableIsEarned` | one edit and an update after it, judgements at any time, one finding opened twice, 3 certificates, 3 facts, both workspaces, trees clean and dirty |
| `context_plan` | are skills found and conflicts settled right? | `ReadyIffResolvable`, `AuthorityStands` | every catalog of 2 skills and two of 3, 2 workers, 3 classes |
| `context_smallest` | is the set of skills the smallest? | `SelectsSmallest` (violated) | a catalog of 3 skills and 6 classes |
| `seams_watch` | is a broken seam accepted, and does the watch settle? | `AcceptedIsUnbroken`, `WatchSettles` | 3 domains, 4 changes, every Worker |

### Bounds

`MaxSafeInteger` is the code's own bound on a revision (the largest safe
integer, given a small value).

* Recovery. Three revisions hold a first execution and two recoveries, the
  shortest history that can come back to a worker (out, back) or offer old
  evidence after a later recovery. In `recovery_race` three sessions are one more
  than a replacement needs, so that two accepted spawns compete; in
  `recovery_edits`, which asks about one plan and the edits around it, two are
  enough. `recovery_race` has no edits and ends before its retry budget does, and
  the properties of `recovery_edits`, whose edits reset the count, do not look at
  it: that the count grows by one per installed session and stays within the
  larger limit is carried by the theorem `RefinesLineage`, for any limits and
  edits. One Host with `Abandon` stands for any sequence of Hosts that crash and
  restart; two are needed for claims and competing spawns. Evidence of one task
  offered to another is left to the theorems, which hold for any number of tasks.
* Plans. `MaxMessages` bounds the requests, specs and submissions, of each; two
  of a kind are one that is current and one that is not. Two amendments are the
  fewest between which a proposal, a draft or a record can be stale; a ring
  needs two gates. Two plans and two racing proposals are left to the theorems.
  Four gates hold a cycle that does not contain the gate where the search
  starts together with a gate that is reached twice.
* Deliveries. `MaxEdits` bounds how often others interfere; it counts from the
  specification's first version, so 2 allows one: an edit between digest and
  child, a runtime exchanged between `doctor` and `deliver`, or something put
  at the final path. The other wrapper is a second source of interference.
* Effects. Two epochs hold a grant and its successor; `MaxClock` reaches the
  instant at which a grant expires, where `<=` and `<` differ, and two
  invocations are a call and its retry.
* Routing. One lost message leaves a run nobody has acknowledged; each further
  one meets the same state. One more probe is the fewest after which a routed
  task meets other workers than those it was routed for.
* Closing. One edit after the first gate makes what was tested, judged, committed
  and pushed differ from what there is, and the update of a document after it
  is one more (`Impacts`: agents and decisions have the same statuses and rules, and
  the theorem has them all); a finding opened twice is one that is
  reopened after a certificate, and one that no certificate has read comes before.
* Four changes of three seams make one seam change again before it is accepted.

The theorems hold without these bounds. The type invariants are among them;
`closure_gates` and `routing_runs`, whose mutants break theirs, check it as well.

Permutations of sessions, supported workers and Hosts in `recovery_race`, and of
invocations in `effect_retries`, are symmetries; no run with a liveness property
has one, where it would be unsound. Deadlock is checked where the system never
stops of itself: `routing_runs`, whose settled task stutters by an action of its
own. Elsewhere it is not: a task whose revision is at its bound, or whose
workers and sessions are used up, stops, as does a finished search, a plan at its
last revision, wrappers and invocations that have ended, a closed task, a
planned context, and an accepted Bridge whose seams no longer change.

Each property has a mutant, an operator beside the code's that makes a plausible
mistake (a revision that is not advanced, an acknowledgement that trusts its
plan, failed workers forgotten, claims not consulted, a revision not compared, a
draft not validated, a candidate unlinked late, a receipt that names more than the identity,
a window that hides another, a gate that looks at less, an order of two questions
swapped); TLC finds the property violated with it.

### Disagreements

Two runs expect a violation; each checks a sentence of the repository that the
code does not keep.

* `delivery_unverified`: `artifact-production-contract.v0.json` has the runtime
  gate closed unless the identity is verified; `deliver` refuses only a mismatch,
  and promotes the artifact of a runtime whose version no `package.json` names.
* `context_smallest`: `REF-05-context-skill.md` promises the smallest set of
  skills; the greedy choice takes three where two suffice. That it never misses
  a class is `ReadyIffResolvable`.

Two more were met and have no run.

* `TRI-BRIDGE-P2-POLICY-V1.md` forbids a fallback while a mutation's
  acknowledgement is unknown. The code keeps to it when `active_terminal` is
  given, as `RoutedTask` does; left out, it defaults to true (`policy.mjs:243`),
  and a Worker is selected.
* `TRI-BRIDGE-P3-WORKFLOW-V1.md` has pass follow green tests; a seam patched
  without a version change passes with tests that were not run
  (`contract-watch.mjs:129`). That no required seam is broken all the same is
  `AcceptedIsUnbroken`.

### Fairness

In recovery only `AcknowledgeSession` is fair, and weakly: after a restart a Host looks for
accepted spawns that are not yet in the checkpoint and completes the original
acknowledgement (`supervisor-runtime/README.md`, LSH-5). Nothing is assumed of
the Supervisor, of planning or of the Bridges. `AcceptedSpawnSettles` claims
only what follows: a current receipt is installed or overtaken. When the
inspection of the session is inconclusive the real Host stops for a human; the
property is about receipts that are confirmed. `DependencyCycle` has weak
fairness of its next step: a synchronous function that is called keeps running.
`GateLifecycle`, `HostEffect`, `TaskClosure` and `ContextPlan` have none and claim
no liveness.

* `ArchifyDelivery`: a wrapper takes its next step, and the runtime it started
  exits. The second is an assumption about Archify, because `runChild` has no
  timeout; without it a delivery may wait for ever.
* `RoutedTask`: the Supervisor's loop goes on, and a native run that waits for
  nobody comes to an end, both weakly. Nothing is assumed of probes.
* `ContractWatch`: the Supervisor does what the watch asks for (weakly). `WatchSettles`
  is about the order of the questions: announcements, probes, tests and repairs
  are what the environment is assumed to get right.

## Proofs

`tlapm` checks every step. All theorems hold for every number of tasks, Hosts,
workers, sessions and gates, every revision bound and both limits, from the
named assumptions `CheckpointAssumption` and `RecoveryAssumption`, and for plans
`AmendmentAssumption` and `LifecycleAssumption` (constants are of their kinds,
null is nobody's name, execution or revision), which TLC evaluates in the runs;
the others are named below.

* `TypeCorrect`: `TypeOK` always holds. Inductive with `WellFormed` (a spawning
  Host has a plan, worker and session are null together, a checkpoint keeps its
  task), because evidence is written from the Host's plan.
* `PlansStayHonest`: `CurrentPlansDescribeCheckpoint`. Every step leaves a
  checkpoint alone or advances its revision (`StepsAdvance`), and the only new
  live plan is made from the current checkpoint (`StepsAddHonestPlans`).
* `ReplacesRecoverable`: an acknowledgement installs only over its plan's own
  revision (`AcknowledgeInstalls`); at that revision the plan still describes a
  recoverable checkpoint.
* `ReplacesEnded`: descriptors and live plans name ended sessions (`EndedChain`).
* `SpawnsOncePerClaim`: what is spawned or being spawned is durably claimed
  (`ClaimsAreDurable`), and preflight never passes a durable claim.
* `OneLineOfExecutions`: sessions in the lineage tell the evidence and revision
  that installed them, all in the checkpoint's past (`LineageInv`), so an
  installation is new in both respects (`InstallKeepsLine`).
* `NeverReturns`: `NoReturnToLeftWorker`. A live plan targets the worker of its
  source or one that never had the task (`TargetsAllowed`), and the lineage of a
  checkpoint ends with the worker it names (`HasLast`), so an installation
  either stays with the last worker or goes to a new one.
* `RefinesLineage`: `RecoveryIsAtomic`. An edit maps to `Edit`, `Dispatch` to
  `Begin`, an acknowledgement that installs to `Recover`, and everything else to
  a stutter. `Recover` asks for a task that may be resumed, budget left, an
  allowed worker and a fresh session at the instant of the handover, while the
  code looked at them when it planned; `StepInv` collects the invariants above
  that carry those facts from the plan to the acknowledgement.
* `LetsThroughAcyclic`: `AcceptedIsAcyclic`. The gates marked done always form
  an acyclic graph that is closed under requirements (`DoneIsAcyclic`,
  `DoneIsClosed`), because a gate is marked when nothing it requires is left and
  nothing done requires it yet; when the stack is empty every entry is done.
* `ReportsRealCycles`: `ReportedCycleIsReal`. The stack is a chain of
  requirements (`PathIsChain`), and the mark "visiting" is on exactly its gates.
* `SearchDecidesAcyclic`: from both, the search accepts only acyclic graphs and
  refuses only graphs with a cycle.
* `LifecycleTypeCorrect`, `HistoryAccountsForRevisions`, `NoRingOfGates`: an
  amendment keeps a plan or replaces it by a valid one that is one revision
  further and tells the proposal (`AmendmentOutcome`), and nothing else touches
  plans.
* `SearchTypeCorrect`: the search's stack, marks and lists keep their types.
* `StartsAreCurrent`, `DecisionsAreCurrent`: the inductive part is
  `RequestsWereAuthorized` (a request is never ahead of its plan, and at the
  plan's own revision its gate is authorised now), because an amendment moves
  its plan past every revision a request can name; `AdmittedWereRequested` and
  `SubmittersWereAdmitted` hand it on. A decision compares its submission with
  the identity in effect, so that fact holds of its gate at that instant.

* `HostEffect_proofs`: `IInv` is one induction for four theorems. `CallInv` says that
  an active invocation holds the evaluation the code makes for its request, not later
  than now, and that a launched one was authorised and has its receipt
  stored; `AuthorityInv` that the record tells of every way its own epoch ended.
  `Apart`: two launched invocations have receipts of different names, because a
  reservation refuses a name that is stored. `NeverAppliedTwice` follows because the
  name is the identity (`ReceiptIdentity`), `AlwaysUnderAuthority` from
  `InForce`: an epoch ends strictly later than the instant at which it was
  evaluated. `ResultsAlwaysTrue` needs that the digest determines the request
  (`ReceiptInjective`) and that a stored result has a handler that ended so
  (`TerminalInv`, `ResultInv`). The constants satisfy `EffectAssumption`.
  `RefinesRegister` is `EffectsAreExactlyOnce`: `Reserve` maps to `Spend`,
  `HandlerEnds` to `Conclude`, and every answer to `Tell` (`AnswerTells`); grants,
  evaluations, dispatches and crashes are stutters (`QuietStep`). A handler
  concludes a request that is not concluded yet because of `Apart`, and an unknown
  outcome is told only of a spent identity because a dispatched call has a handler
  (`DispatchedRuns`, proved beside `IInv`). The register says nothing of
  authority, which is `AlwaysUnderAuthority`.
* `ArchifyDelivery_proofs`: `PhaseInv` says at each phase of a wrapper what its
  candidate is and what it has digested: nothing before the child starts, of
  form "html" once it was checked, gone after it was promoted or refused, or
  stuck where an error of its own ended the wrapper.
  `FinalAlwaysWhole`, `ReceiptsAlwaysTrue` and `NeverStray` follow; the first two are part of the
  induction because a promotion and a receipt extend them. `Refinement` maps
  `Promote`, each failure, each receipt and each interference to a step of
  `ArtifactRegister` and the rest to a stutter. The assumption is
  `DeliveryAssumption`, with the code's search depth as a parameter.
  `DoctorAlwaysForetells` has an induction of its own, `ForetoldInv`: doctor's report
  and each delivery's answer are of the runtime at the edit they were made after,
  which is still the runtime as long as no edit came since. `RefusedCreatesNothing`
  uses it: past `Begin`, a delivery that did not fail has a runtime that was let
  through and a specification that was digested (`BeganInv`).
* `TaskClosure_proofs`: the gates see statuses and no revision. `StatusesAreCurrent`
  says that a status that passes, done or judged, is of the work as it is, which
  holds because an edit takes back what it makes out of date (`StaleMeans`), and that a
  clean tree is in the repository; `ClosesWhole` and `ClosesConverged`
  add what an open gate means (`GateMeans`) and what a certificate without
  blockers means (`ConvergedMeans`), and `MemoryIsEarned` what a record that
  is accepted means. The assumption is `ClosureAssumption`: claims are records
  of the certificate's fields.
* `RoutedTask_proofs`: `StartsSafely` is `StartsAreSafe`. A live run is the one the
  Supervisor knows (`KnowsTheRun`), what was accomplished is behind unless it has
  not been observed yet (`StagesAreAhead`), and a plan fits the view it was made
  of (`PlanIsOfView`), because the policy answers an unfinished run only with hold
  or reconcile (`PlanMeans`). The other theorems rest on the order of candidates.
  `Before` is shown to be a strict total order of the workers, so that the list of
  candidates exists and is the only one; `DecisionInv` adds that the plan acted on is the one to
  be made now (`PlanStands`), that whoever could take a stage when the task was routed
  is remembered (`StagesWereRouted`), and that a choice was the least of its candidates
  followed by the others in order (`ChosenFromCandidates`). `ChainIsFollowed`: to leave
  out the first of a sorted list leaves the rest sorted. `RoutedStagesAreCarried`:
  without a failure and on the same reading, the candidates of a stage are those it was
  routed with. `NoWindowIsHidden`: more left in a window never raises the worst
  pressure, hence not the rank of codex, and changes nobody else's.
  `RoutingAssumption` says that a task has a class and a stage and none twice, and that
  readings are of the kinds the validators let through (`normalizeWorkerState` knows the
  availabilities, `classifyWindow` takes a percentage or nothing). The code
  drops repeated stages in a loop, and what a loop computes for every input would
  need induction over data; TLC evaluates the assumption on the tasks of `routing_runs`.
* `Advice_proofs`: `AcceptsUnbroken` from `SeamInv`: tests that passed are of the
  seams as they are, and as long as no version has changed a broken seam is seen to be
  or not known, so `pass` and `observe_only`, which need one of the two, find none broken.
  `AuthorityAlwaysStands`: the word that stands is of a source that was met, with the
  least rank among them (`WordStands`); a source that loses ranks no better than one that wins.
  `ReadyExactlyWhenResolvable` and `ContextTypeCorrect` from `SkillsInv`: selected
  skills are compatible, no class can be covered that no candidate covers, and the search
  plans only when it has no candidate left, so a class that remains is covered by no
  compatible skill. Assumptions: `CatalogAssumption` (ids are ordered, a skill covers finitely many
  classes and at least one) and `SeamAssumption` (what is left out is not a state).

Only model-checked: `AcceptedSpawnSettles`, `SearchEnds`, `DeliveryEnds`,
`Settles` and `WatchSettles`, because liveness under fairness is out of the
prover's reach, and the two violated properties. Induction over data and recursive
operators are too; no module here uses them.

## Not modelled

Canonical serialization and key-by-key input validation (no state, covered by
unit tests). `telemetry.mjs` normalises a record of measurements that nothing
reads back; `registry-admission.mjs` is one call over the flags of a design
question; `tri-worker-conformance.mjs` compares manifests with tables for tests;
`reasoning-watchdog.mjs` compares two measures with two thresholds, and
`web-research-policy.mjs` counts boolean conditions to give its caller advice.
None keeps state or meets another actor, and no modelled function reads an answer
of theirs. Of the modelled files,
`findingToResidualWorkItem`, the observed cost of a run and option parsing are
left out. The Host is another repository's code
and is modelled only as the environment its documents promise. Ending an
orphaned session (a spawn that lost the race) is nobody's operation here, so
nothing is claimed of it. Storing plans is the caller's too: the library
compares no stored revision when an amendment is applied, and the model takes
the read and the write of the plan as one step.
