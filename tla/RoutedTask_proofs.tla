------------------------- MODULE RoutedTask_proofs --------------------------
(***************************************************************************)
(* Proofs about RoutedTask, for any tasks, preferences, readings and       *)
(* number of probes, questions and lost calls. First, what the Supervisor  *)
(* knows of the run in progress is enough for the policy to start no       *)
(* second one and to repeat no stage. Then, with what it means that        *)
(* candidates are sorted, what plans and routes promise is kept.           *)
(***************************************************************************)
EXTENDS RoutedTask, SequenceTheorems, FiniteSetTheorems, TLAPS

Purposes == DOMAIN StageTaskClass
Runs == {"none", "running", "waiting", "succeeded", "failed"}

Distinct(s) == \A j, k \in DOMAIN s : s[j] = s[k] => j = k

\* No run is known to be in progress.
Idle == view.worker = None \/ view.terminal

\* A run that is live is the one the Supervisor knows.
KnowsTheRun == \A w \in Live : view.worker = w /\ ~view.terminal

\* What is held for the human does wait.
KnowsTheQuestion == view.hitl => native[view.worker] = "waiting"

\* What was accomplished is behind, unless it has not been observed yet.
StagesAreAhead ==
  /\ \A k \in DOMAIN todo : k > 1 => todo[k] \notin accomplished
  /\ todo # <<>> /\ todo[1] \in accomplished =>
       ~view.terminal /\ view.worker \in Workers /\ native[view.worker] = "succeeded"

\* A plan fits the view that it was made of.
PlanIsOfView ==
  phase = "acting" =>
    /\ plan.action = "ready" => Idle
    /\ plan.action = "reconcile" \/ plan.reason \in {"active_run", "pending_hitl"} =>
         ~Idle /\ plan.worker = view.worker
    /\ plan.reason = "pending_hitl" => view.hitl

RunTypeOK ==
  /\ native \in [Workers -> Runs]
  /\ DOMAIN view = {"worker", "terminal", "hitl", "ack"}
  /\ view.terminal \in BOOLEAN /\ view.hitl \in BOOLEAN
  /\ task \in Tasks
  /\ todo \in Seq(Purposes) /\ Distinct(todo)
  /\ phase \in {"planning", "acting"} => todo # <<>>
  /\ phase = "routing" => accomplished = {} /\ Live = {}

IInv == RunTypeOK /\ KnowsTheRun /\ KnowsTheQuestion /\ StagesAreAhead /\ PlanIsOfView

-----------------------------------------------------------------------------
(***************************************************************************)
(* The policy: while a run is in progress it selects nobody and names its  *)
(* worker; what it says of a run is said only then.                        *)
(***************************************************************************)
LEMMA SelectionMeans ==
  ASSUME NEW t, NEW state, NEW preference,
         NEW s, s = SelectWorker(t, state, preference)
  PROVE  /\ state.active_worker # None /\ ~ActiveTerminal(state) =>
              /\ s.action \in {"reconcile", "hold"} /\ s.worker = state.active_worker
              /\ s.reason \in {"mutation_ack_unknown", "active_run", "pending_hitl"}
              /\ s.reason = "pending_hitl" => state.pending_hitl
         /\ ~(state.active_worker # None /\ ~ActiveTerminal(state)) =>
              /\ s.action \in {"no_worker", "select"}
              /\ s.reason \in {"no_viable_worker", "explicit_preference", "policy"}
BY DEF SelectWorker, Selection

LEMMA PlanMeans ==
  ASSUME NEW t, NEW state, NEW preference, NEW about,
         NEW p, p = BuildExecutionPlan(t, state, preference, about)
  PROVE  /\ state.active_worker # None /\ ~ActiveTerminal(state) =>
              /\ p.action \in {"reconcile", "hold"} /\ p.worker = state.active_worker
              /\ p.reason \in {"mutation_ack_unknown", "active_run", "pending_hitl"}
              /\ p.reason = "pending_hitl" => state.pending_hitl
         /\ ~(state.active_worker # None /\ ~ActiveTerminal(state)) =>
              /\ p.action \in {"no_worker", "blocked", "ready"}
              /\ p.reason \in {"no_viable_worker", "explicit_preference", "policy"}
<1> DEFINE selection == SelectWorker(t, state, preference)
<1>1. CASE selection.action # "select"
  BY <1>1, SelectionMeans DEF BuildExecutionPlan
<1>2. CASE selection.action = "select"
  <2>1. PICK worker, chain, reason : selection = Selection("select", worker, chain, reason)
    BY <1>2 DEF SelectWorker, Selection
  <2>2. \E action \in {"blocked", "ready"} : p = [selection EXCEPT !.action = action]
    BY <1>2 DEF BuildExecutionPlan
  <2>3. p.action \in {"blocked", "ready"} /\ p.reason = selection.reason
    BY <2>1, <2>2 DEF Selection
  <2>4. QED
    BY <1>2, <2>3, SelectionMeans
<1>3. QED
  BY <1>1, <1>2

LEMMA PlanFitsView ==
  ASSUME IInv, Plan
  PROVE  PlanIsOfView'
<1>1. ~(State(reading).active_worker # None /\ ~ActiveTerminal(State(reading))) <=> Idle
  BY RoutingAssumption DEF State, ActiveTerminal, Idle, IInv, RunTypeOK
<1>2. State(reading).active_worker = view.worker /\ State(reading).pending_hitl = view.hitl
  BY DEF State
<1>3. plan' = BuildExecutionPlan(StageTask(task, Head(todo)), State(reading), policy, context)
  BY DEF Plan, PlanWith
<1>4. UNCHANGED view
  BY DEF Plan
<1>5. QED
  BY <1>1, <1>2, <1>3, <1>4, PlanMeans DEF PlanIsOfView, Idle

-----------------------------------------------------------------------------
(***************************************************************************)
(* The stages that are left.                                               *)
(***************************************************************************)
LEMMA StagesStart ==
  ASSUME task \in Tasks
  PROVE  Stages(task) \in Seq(Purposes) /\ Distinct(Stages(task)) /\ Stages(task) # <<>>
BY RoutingAssumption DEF Purposes, Distinct

LEMMA TailOfStages ==
  ASSUME NEW s \in Seq(Purposes), Distinct(s), s # <<>>
  PROVE  /\ Tail(s) \in Seq(Purposes) /\ Distinct(Tail(s))
         /\ Len(s) \in Nat /\ DOMAIN s = 1..Len(s) /\ 1 \in DOMAIN s
         /\ DOMAIN Tail(s) = 1..(Len(s) - 1)
         /\ \A k \in DOMAIN Tail(s) : k + 1 \in DOMAIN s /\ k + 1 > 1 /\ Tail(s)[k] = s[k + 1]
         /\ Tail(s) # <<>> => 1 \in DOMAIN Tail(s)
<1>1. /\ Len(s) \in Nat /\ DOMAIN s = 1..Len(s) /\ Len(s) > 0
      /\ Tail(s) \in Seq(Purposes) /\ Len(Tail(s)) = Len(s) - 1
      /\ \A k \in 1..(Len(s) - 1) : Tail(s)[k] = s[k + 1]
  BY HeadTailProperties, EmptySeq
<1>2. DOMAIN Tail(s) = 1..(Len(s) - 1)
  BY <1>1
<1>3. Distinct(Tail(s))
  BY <1>1, <1>2 DEF Distinct
<1>4. Tail(s) # <<>> => 1 \in DOMAIN Tail(s)
  BY <1>1, <1>2, EmptySeq
<1>5. QED
  BY <1>1, <1>2, <1>3, <1>4

-----------------------------------------------------------------------------
(***************************************************************************)
(* The invariant is inductive.                                             *)
(***************************************************************************)
LEMMA InitIInv == Init => IInv
<1> SUFFICES ASSUME Init
             PROVE  IInv
  OBVIOUS
<1>1. todo \in Seq(Purposes) /\ Distinct(todo)
  BY DEF Init, Distinct
<1>2. RunTypeOK
  BY <1>1 DEF Init, RunTypeOK, Runs, Live
<1>3. KnowsTheRun /\ KnowsTheQuestion /\ StagesAreAhead /\ PlanIsOfView
  BY DEF Init, KnowsTheRun, KnowsTheQuestion, StagesAreAhead, PlanIsOfView, Live
<1>4. QED
  BY <1>2, <1>3 DEF IInv

\* When a start is acted on no run is live and its stage is still to be done.
LEMMA StartFindsIdle ==
  ASSUME IInv, phase = "acting", plan.action = "ready"
  PROVE  Live = {} /\ todo # <<>> /\ todo[1] \notin accomplished
<1>1. Idle
  BY DEF IInv, PlanIsOfView
<1>2. Live = {}
  BY <1>1, RoutingAssumption DEF IInv, KnowsTheRun, Live, Idle
<1>3. todo # <<>>
  BY DEF IInv, RunTypeOK
<1>4. QED
  BY <1>1, <1>2, <1>3, RoutingAssumption DEF IInv, StagesAreAhead, Idle

LEMMA RouteKeepsIInv == IInv /\ Route => IInv'
<1> SUFFICES ASSUME IInv, Route
             PROVE  IInv'
  OBVIOUS
<1> USE DEF IInv, RunTypeOK
<1>1. todo' \in {todo, Stages(task)} /\ phase' \in {"planning", "settled"}
  BY DEF Route
<1>2. /\ accomplished = {} /\ phase' # "acting" /\ phase' # "routing"
      /\ UNCHANGED <<task, native, view, accomplished>>
      /\ phase' = "planning" => todo' = Stages(task)
  BY DEF Route, arguments, world
<1>3. RunTypeOK'
  BY <1>1, <1>2, StagesStart
<1>4. QED
  BY <1>2, <1>3 DEF KnowsTheRun, KnowsTheQuestion, StagesAreAhead, PlanIsOfView, Live

LEMMA StartKeepsIInv == IInv /\ Start => IInv'
<1> SUFFICES ASSUME IInv, Start
             PROVE  IInv'
  OBVIOUS
<1> USE DEF IInv, RunTypeOK
<1>1. Live = {} /\ todo # <<>> /\ todo[1] \notin accomplished
  BY StartFindsIdle DEF Start
<1>2. PICK ack \in {"accepted", "rejected", "unknown"}, delivered \in BOOLEAN :
        /\ ack = "rejected" => ~delivered
        /\ view' = [worker |-> plan.worker, terminal |-> ack = "rejected", hitl |-> FALSE,
                    ack |-> ack]
        /\ native' = [native EXCEPT ![plan.worker] = IF delivered THEN "running" ELSE "none"]
  BY DEF Start
<1>3. phase' = "planning" /\ UNCHANGED <<task, todo, accomplished>>
  BY DEF Start, arguments
<1>4. native' \in [Workers -> Runs]
  BY <1>2 DEF Runs
<1>5. \A w \in Live' : w = plan.worker /\ delivered
  BY <1>1, <1>2 DEF Live
<1>6. KnowsTheRun'
  BY <1>2, <1>5 DEF KnowsTheRun
<1>7. QED
  BY <1>1, <1>2, <1>3, <1>4, <1>6 DEF KnowsTheQuestion, StagesAreAhead, PlanIsOfView

LEMMA ObserveKeepsIInv == IInv /\ Observe => IInv'
<1> SUFFICES ASSUME IInv, Observe
             PROVE  IInv'
  OBVIOUS
<1> USE DEF IInv, RunTypeOK
<1> DEFINE run == native[plan.worker]
<1>1. /\ ~Idle /\ plan.worker = view.worker /\ todo # <<>>
      /\ view' = [view EXCEPT !.terminal = run \notin {"running", "waiting"},
                              !.hitl = run = "waiting",
                              !.ack = IF run = "none" THEN "rejected" ELSE "accepted"]
      /\ todo' = IF run = "succeeded" THEN Tail(todo) ELSE todo
      /\ phase' = IF todo' = <<>> THEN "settled" ELSE "planning"
      /\ UNCHANGED <<task, native, accomplished>>
  BY DEF Observe, PlanIsOfView, arguments, world
<1>2. /\ view'.terminal = (run \notin {"running", "waiting"})
      /\ view'.hitl = (run = "waiting") /\ view'.worker = view.worker
  BY <1>1
<1>3. KnowsTheRun' /\ KnowsTheQuestion'
  BY <1>1, <1>2 DEF KnowsTheRun, KnowsTheQuestion, Live
<1>4. RunTypeOK' /\ PlanIsOfView'
  BY <1>1, <1>2, TailOfStages DEF PlanIsOfView
<1>5. StagesAreAhead'
  <2>1. CASE run = "succeeded"
    BY <2>1, <1>1, TailOfStages DEF StagesAreAhead
  <2>2. CASE run # "succeeded"
    BY <2>2, <1>1 DEF StagesAreAhead
  <2>3. QED
    BY <2>1, <2>2
<1>6. QED
  BY <1>3, <1>4, <1>5

LEMMA RespondKeepsIInv == IInv /\ Respond => IInv'
<1> SUFFICES ASSUME IInv, Respond
             PROVE  IInv'
  OBVIOUS
<1> USE DEF IInv, RunTypeOK
<1>1. /\ ~Idle /\ plan.worker = view.worker /\ native[view.worker] = "waiting"
      /\ phase' = "planning" /\ phase = "acting" /\ UNCHANGED <<task, todo, accomplished>>
  BY DEF Respond, PlanIsOfView, KnowsTheQuestion, arguments
<1>2. PICK ack \in {"accepted", "unknown"}, delivered \in BOOLEAN :
        /\ view' = [view EXCEPT !.hitl = FALSE, !.ack = ack]
        /\ native' = IF delivered THEN [native EXCEPT ![plan.worker] = "running"] ELSE native
  BY DEF Respond
<1>3. /\ view'.worker = view.worker /\ view'.terminal = view.terminal /\ view'.hitl = FALSE
      /\ DOMAIN view' = DOMAIN view
  BY <1>2
<1>4. native' \in [Workers -> Runs] /\ \A w \in Live' : w \in Live
  BY <1>1, <1>2 DEF Live, Runs
<1>5. QED
  BY <1>1, <1>3, <1>4 DEF KnowsTheRun, KnowsTheQuestion, StagesAreAhead, PlanIsOfView

LEMMA RunsKeepIInv ==
  ASSUME IInv, NEW worker \in Workers, RunEnds(worker) \/ RunAsks(worker)
  PROVE  IInv'
<1> USE DEF IInv, RunTypeOK
<1>1. /\ native[worker] = "running" /\ view.worker = worker /\ ~view.terminal
      /\ UNCHANGED <<task, view, todo, phase, plan>>
  BY DEF RunEnds, RunAsks, KnowsTheRun, Live, arguments
<1>2. PICK run \in {"succeeded", "failed", "waiting"} :
        /\ native' = [native EXCEPT ![worker] = run]
        /\ accomplished' = IF run = "succeeded" THEN accomplished \cup {Head(todo)}
                           ELSE accomplished
  BY DEF RunEnds, RunAsks
<1>3. native' \in [Workers -> Runs] /\ native'[worker] = run /\ \A w \in Live' : w \in Live
  BY <1>1, <1>2 DEF Live, Runs
<1>4. KnowsTheRun' /\ KnowsTheQuestion'
  BY <1>1, <1>2, <1>3 DEF KnowsTheRun, KnowsTheQuestion
<1>5. phase # "routing"
  BY <1>1 DEF Live
<1>6. RunTypeOK' /\ PlanIsOfView'
  BY <1>1, <1>3, <1>5 DEF PlanIsOfView, Idle
<1>7. StagesAreAhead'
  <2>1. CASE todo = <<>>
    BY <2>1, <1>1 DEF StagesAreAhead
  <2>2. CASE todo # <<>>
    <3>1. 1 \in DOMAIN todo /\ Head(todo) = todo[1]
      BY <2>2, TailOfStages, HeadTailProperties
    <3>2. \A k \in DOMAIN todo : k > 1 => todo[k] # todo[1] /\ todo[k] \notin accomplished
      BY <3>1 DEF Distinct, StagesAreAhead
    <3>3. todo[1] \notin accomplished
      BY <1>1, <2>2 DEF StagesAreAhead
    <3>4. CASE run = "succeeded"
      BY <3>1, <3>2, <3>4, <1>1, <1>2, <1>3 DEF StagesAreAhead
    <3>5. CASE run # "succeeded"
      BY <3>2, <3>3, <3>5, <1>1, <1>2 DEF StagesAreAhead
    <3>6. QED
      BY <3>4, <3>5
  <2>3. QED
    BY <2>1, <2>2
<1>8. QED
  BY <1>4, <1>6, <1>7

LEMMA NextKeepsIInv == IInv /\ [Next]_vars => IInv'
<1> SUFFICES ASSUME IInv, [Next]_vars
             PROVE  IInv'
  OBVIOUS
<1>1. CASE Plan
  <2>1. PlanIsOfView'
    BY <1>1, PlanFitsView
  <2>2. /\ phase = "planning" /\ phase' \in {"settled", "acting"}
        /\ UNCHANGED <<task, native, accomplished, view, todo>>
    BY <1>1 DEF Plan, arguments, world
  <2>3. QED
    BY <2>1, <2>2 DEF IInv, RunTypeOK, KnowsTheRun, KnowsTheQuestion, StagesAreAhead, Live
<1>2. CASE Probe \/ Settled \/ UNCHANGED vars
  <2>1. UNCHANGED <<task, native, accomplished, view, todo, plan, phase>>
    BY <1>2 DEF Probe, Settled, vars, arguments, world
  <2>2. QED
    BY <2>1 DEF IInv, RunTypeOK, KnowsTheRun, KnowsTheQuestion, StagesAreAhead, PlanIsOfView,
                Live, Idle
<1>3. CASE Route \/ Start \/ Observe \/ Respond
  BY <1>3, RouteKeepsIInv, StartKeepsIInv, ObserveKeepsIInv, RespondKeepsIInv
<1>4. CASE \E worker \in Workers : RunEnds(worker) \/ RunAsks(worker)
  BY <1>4, RunsKeepIInv
<1>5. QED
  BY <1>1, <1>2, <1>3, <1>4 DEF Next, Supervise

LEMMA Invariance == Spec => []IInv
BY InitIInv, NextKeepsIInv, PTL DEF Spec

-----------------------------------------------------------------------------
\* A run that was not live is started by Start and by nothing else: an answer
\* goes to a run that waits.
LEMMA OnlyStartStarts ==
  ASSUME IInv, Next, NEW worker \in Workers,
         native[worker] \notin {"running", "waiting"}, native'[worker] = "running"
  PROVE  Start
<1> USE DEF IInv, RunTypeOK
<1>1. CASE Respond
  <2>1. plan.worker = view.worker /\ native[view.worker] = "waiting"
    BY <1>1 DEF Respond, PlanIsOfView, KnowsTheQuestion
  <2>2. native' \in {native, [native EXCEPT ![plan.worker] = "running"]}
    BY <1>1 DEF Respond
  <2>3. QED
    BY <2>1, <2>2
<1>2. CASE \E w \in Workers : RunEnds(w) \/ RunAsks(w)
  BY <1>2 DEF RunEnds, RunAsks
<1>3. CASE Route \/ Plan \/ Observe \/ Probe \/ Settled
  BY <1>3 DEF Route, Plan, Observe, Probe, Settled, vars, world
<1>4. QED
  BY <1>1, <1>2, <1>3 DEF Next, Supervise

(***************************************************************************)
(* The Supervisor starts a run only when no run is live, and only for a    *)
(* stage that has not been accomplished, whichever acknowledgements, calls *)
(* and answers were lost: a lost call is reconciled by looking, not by     *)
(* asking again.                                                           *)
(***************************************************************************)
THEOREM StartsSafely == Spec => StartsAreSafe
<1>1. IInv /\ [Next]_vars =>
        [\A worker \in Workers :
           (native[worker] \notin {"running", "waiting"} /\ native'[worker] = "running")
           => Live = {} /\ Head(todo) \notin accomplished]_vars
  <2> SUFFICES ASSUME IInv, Next, NEW worker \in Workers,
                      native[worker] \notin {"running", "waiting"},
                      native'[worker] = "running"
               PROVE  Live = {} /\ Head(todo) \notin accomplished
    OBVIOUS
  <2>1. phase = "acting" /\ plan.action = "ready"
    BY OnlyStartStarts DEF Start
  <2>2. Live = {} /\ todo # <<>> /\ todo[1] \notin accomplished
    BY <2>1, StartFindsIdle
  <2>3. Head(todo) = todo[1]
    BY <2>2, HeadTailProperties DEF IInv, RunTypeOK
  <2>4. QED
    BY <2>2, <2>3
<1>2. QED
  BY <1>1, Invariance, PTL DEF StartsAreSafe, Spec

-----------------------------------------------------------------------------
(***************************************************************************)
(* Sorting. Three workers can be put in any strict order, and with them    *)
(* any of their sets.                                                      *)
(***************************************************************************)
StrictOrder(R, S) ==
  /\ \A a \in S : <<a, a>> \notin R
  /\ \A a, b \in S : a = b \/ <<a, b>> \in R \/ <<b, a>> \in R
  /\ \A a, b, c \in S : <<a, b>> \in R /\ <<b, c>> \in R => <<a, c>> \in R

SortedBy(R, s) == \A i, j \in 1..Len(s) : i < j => <<s[i], s[j]>> \in R

LEMMA WorkersInOrder ==
  ASSUME NEW R, StrictOrder(R, Workers)
  PROVE  \E a, b, c \in Workers :
           /\ a # b /\ b # c /\ a # c /\ Workers = {a, b, c}
           /\ <<a, b>> \in R /\ <<b, c>> \in R /\ <<a, c>> \in R
BY DEF StrictOrder, Workers

LEMMA SortedOfTwo ==
  ASSUME NEW R, NEW a, NEW b, a # b, <<a, b>> \in R
  PROVE  /\ IsFiniteSet({a, b}) /\ Cardinality({a, b}) = 2
         /\ <<a, b>> \in SetToSeqs({a, b}) /\ SortedBy(R, <<a, b>>)
<1>1. IsFiniteSet({a}) /\ Cardinality({a}) = 1
  BY FS_Singleton
<1>2. {a, b} = {a} \cup {b}
  OBVIOUS
<1>3. IsFiniteSet({a, b}) /\ Cardinality({a, b}) = 2
  BY <1>1, <1>2, FS_AddElement
<1>4. QED
  BY <1>3 DEF SetToSeqs, SortedBy

LEMMA SortedOfOne ==
  ASSUME NEW R, NEW a
  PROVE  <<a>> \in SetToSeqs({a}) /\ SortedBy(R, <<a>>)
<1>1. Cardinality({a}) = 1
  BY FS_Singleton
<1>2. QED
  BY <1>1 DEF SetToSeqs, SortedBy

LEMMA SortedOfNone ==
  ASSUME NEW R
  PROVE  <<>> \in SetToSeqs({}) /\ SortedBy(R, <<>>)
<1>1. Cardinality({}) = 0
  BY FS_EmptySet
<1>2. QED
  BY <1>1 DEF SetToSeqs, SortedBy

LEMMA SortedOfThree ==
  ASSUME NEW R, NEW a, NEW b, NEW c, a # b, b # c, a # c,
         <<a, b>> \in R, <<b, c>> \in R, <<a, c>> \in R
  PROVE  <<a, b, c>> \in SetToSeqs({a, b, c}) /\ SortedBy(R, <<a, b, c>>)
<1>1. Cardinality({a, b, c}) = 3
  <2>1. IsFiniteSet({a, b}) /\ Cardinality({a, b}) = 2
    BY SortedOfTwo
  <2>2. {a, b, c} = {a, b} \cup {c} /\ c \notin {a, b}
    OBVIOUS
  <2>3. Cardinality({a, b} \cup {c}) = Cardinality({a, b}) + 1
    BY <2>1, <2>2, FS_AddElement, Zenon
  <2>4. QED
    BY <2>1, <2>2, <2>3
<1>2. QED
  BY <1>1 DEF SetToSeqs, SortedBy

LEMMA WorkersCanBeSorted ==
  ASSUME NEW R, StrictOrder(R, Workers), NEW C \in SUBSET Workers
  PROVE  \E order \in SetToSeqs(C) : SortedBy(R, order)
<1>1. PICK a \in Workers, b \in Workers, c \in Workers :
        /\ a # b /\ b # c /\ a # c /\ Workers = {a, b, c}
        /\ <<a, b>> \in R /\ <<b, c>> \in R /\ <<a, c>> \in R
  BY WorkersInOrder
<1>2. \/ C = {a, b, c} \/ C = {a, b} \/ C = {b, c} \/ C = {a, c}
      \/ C = {a} \/ C = {b} \/ C = {c} \/ C = {}
  BY <1>1
<1>3. CASE C = {a, b, c}
  BY <1>1, <1>3, SortedOfThree
<1>4. CASE C \in {{a, b}, {b, c}, {a, c}}
  BY <1>1, <1>4, SortedOfTwo
<1>5. CASE C \in {{a}, {b}, {c}}
  BY <1>5, SortedOfOne
<1>6. CASE C = {}
  BY <1>6, SortedOfNone
<1>7. QED
  BY <1>2, <1>3, <1>4, <1>5, <1>6

\* A sequence of a set holds all of it, and nothing twice.
LEMMA SequenceOfSet ==
  ASSUME NEW C \in SUBSET Workers, NEW order \in SetToSeqs(C)
  PROVE  /\ order \in Seq(C) /\ order \in Seq(Workers)
         /\ \A x \in C : \E k \in 1..Len(order) : order[k] = x
         /\ \A j, k \in 1..Len(order) : order[j] = order[k] => j = k
<1>1. IsFiniteSet(Workers)
  <2>1. IsFiniteSet({"claude", "codex"})
    <3>1. IsFiniteSet({"claude"})
      BY FS_Singleton
    <3>2. {"claude", "codex"} = {"claude"} \cup {"codex"}
      OBVIOUS
    <3>3. QED
      BY <3>1, <3>2, FS_AddElement
  <2>2. Workers = {"claude", "codex"} \cup {"pi"}
    BY DEF Workers
  <2>3. QED
    BY <2>1, <2>2, FS_AddElement
<1>2. IsFiniteSet(C) /\ Cardinality(C) \in Nat
  BY <1>1, FS_Subset, FS_CardinalityType
<1> DEFINE n == Cardinality(C)
<1>3. /\ order \in [1..n -> C]
      /\ \A i, j \in 1..n : i # j => order[i] # order[j]
  BY DEF SetToSeqs
<1>4. order \in Injection(1..n, C)
  BY <1>3 DEF Injection, IsInjective
<1>5. IsFiniteSet(1..n) /\ Cardinality(1..n) = n
  BY <1>2, FS_Interval
<1>6. order \in Surjection(1..n, C)
  BY <1>2, <1>4, <1>5, FS_Injection
<1>7. order \in Seq(C) /\ Len(order) = n
  BY <1>2, <1>3
<1>8. order \in Seq(Workers)
  BY <1>7, SeqMonotonic
<1>9. QED
  BY <1>3, <1>6, <1>7, <1>8 DEF Surjection

IsLeast(worker, C, R) == worker \in C /\ \A other \in C \ {worker} : <<worker, other>> \in R

\* The first of C is chosen, and the chain goes on with the others.
Chooses(worker, chain, C, R) ==
  /\ IsLeast(worker, C, R)
  /\ Range(chain) = C \ {worker}
  /\ chain = <<>> <=> C = {worker}
  /\ chain # <<>> => IsLeast(Head(chain), C \ {worker}, R)

\* In a sorted sequence the least comes first, and then the least of the others.
LEMMA SortedMeans ==
  ASSUME NEW R, NEW C \in SUBSET Workers, NEW order \in SetToSeqs(C), SortedBy(R, order)
  PROVE  /\ order = <<>> <=> C = {}
         /\ C # {} => Chooses(Head(order), Tail(order), C, R)
<1>1. /\ order \in Seq(C) /\ order \in Seq(Workers)
      /\ \A x \in C : \E k \in 1..Len(order) : order[k] = x
      /\ \A j, k \in 1..Len(order) : order[j] = order[k] => j = k
  BY SequenceOfSet
<1>2. /\ Len(order) \in Nat /\ DOMAIN order = 1..Len(order)
      /\ \A k \in 1..Len(order) : order[k] \in C
  BY <1>1, LenProperties, ElementOfSeq
<1>3. order = <<>> <=> C = {}
  <2>1. order = <<>> <=> Len(order) = 0
    BY <1>1, EmptySeq
  <2>2. Len(order) = 0 <=> C = {}
    BY <1>1, <1>2
  <2>3. QED
    BY <2>1, <2>2
<1> SUFFICES ASSUME C # {}
             PROVE  /\ Head(order) \in C
                    /\ \A other \in C \ {Head(order)} : <<Head(order), other>> \in R
                    /\ Range(Tail(order)) = C \ {Head(order)}
                    /\ Tail(order) = <<>> <=> C = {Head(order)}
                    /\ Tail(order) # <<>> =>
                         /\ Head(Tail(order)) \in C \ {Head(order)}
                         /\ \A other \in C \ {Head(order), Head(Tail(order))} :
                              <<Head(Tail(order)), other>> \in R
  BY <1>3 DEF Chooses, IsLeast
<1>4. /\ Head(order) = order[1] /\ 1 \in 1..Len(order)
      /\ Tail(order) \in Seq(Workers) /\ Len(Tail(order)) = Len(order) - 1
      /\ \A k \in 1..Len(Tail(order)) : Tail(order)[k] = order[k + 1]
  BY <1>1, <1>2, <1>3, HeadTailProperties, EmptySeq
<1>5. /\ Head(order) \in C
      /\ \A other \in C \ {Head(order)} : <<Head(order), other>> \in R
  <2>1. ASSUME NEW other \in C \ {Head(order)}
        PROVE  <<Head(order), other>> \in R
    <3>1. PICK k \in 1..Len(order) : order[k] = other
      BY <1>1
    <3>2. 1 < k
      BY <1>2, <1>4, <3>1
    <3>3. QED
      BY <1>4, <3>1, <3>2 DEF SortedBy
  <2>2. QED
    BY <2>1, <1>2, <1>4
<1>6. \A x : x \in C \ {Head(order)} <=> \E k \in 1..Len(Tail(order)) : Tail(order)[k] = x
  <2>1. ASSUME NEW x \in C \ {Head(order)}
        PROVE  \E k \in 1..Len(Tail(order)) : Tail(order)[k] = x
    <3>1. PICK k \in 1..Len(order) : order[k] = x
      BY <1>1
    <3>2. k - 1 \in 1..Len(Tail(order)) /\ Tail(order)[k - 1] = x
      BY <1>2, <1>4, <3>1
    <3>3. QED
      BY <3>2
  <2>2. ASSUME NEW k \in 1..Len(Tail(order))
        PROVE  Tail(order)[k] \in C \ {Head(order)}
    <3>1. k + 1 \in 1..Len(order) /\ k + 1 # 1 /\ Tail(order)[k] = order[k + 1]
      BY <1>2, <1>4
    <3>2. QED
      BY <1>1, <1>2, <1>4, <3>1
  <2>3. QED
    BY <2>1, <2>2
<1>7. /\ DOMAIN Tail(order) = 1..Len(Tail(order))
      /\ Tail(order) = <<>> <=> Len(Tail(order)) = 0
  BY <1>4, LenProperties, EmptySeq
<1>8. Range(Tail(order)) = C \ {Head(order)}
  BY <1>6, <1>7 DEF Range
<1>9. Tail(order) = <<>> <=> C = {Head(order)}
  <2>1. Len(Tail(order)) = 0 <=> C \ {Head(order)} = {}
    BY <1>2, <1>4, <1>6
  <2>2. QED
    BY <1>5, <1>7, <2>1
<1>10. ASSUME Tail(order) # <<>>
       PROVE  /\ Head(Tail(order)) \in C \ {Head(order)}
              /\ \A other \in C \ {Head(order), Head(Tail(order))} :
                   <<Head(Tail(order)), other>> \in R
  <2>1. /\ 1 \in 1..Len(Tail(order)) /\ Head(Tail(order)) = Tail(order)[1]
        /\ Head(Tail(order)) = order[2] /\ 2 \in 1..Len(order)
    BY <1>10, <1>2, <1>4, <1>7, HeadTailProperties
  <2>2. Head(Tail(order)) \in C \ {Head(order)}
    BY <1>6, <2>1
  <2>3. ASSUME NEW other \in C \ {Head(order), Head(Tail(order))}
        PROVE  <<Head(Tail(order)), other>> \in R
    <3>1. PICK k \in 1..Len(order) : order[k] = other
      BY <1>1
    <3>2. 2 < k
      BY <1>2, <1>4, <2>1, <3>1
    <3>3. QED
      BY <2>1, <3>1, <3>2 DEF SortedBy
  <2>4. QED
    BY <2>2, <2>3
<1>11. QED
  BY <1>4, <1>5, <1>8, <1>9, <1>10

-----------------------------------------------------------------------------
(***************************************************************************)
(* Ranks are four numbers, the last of which tells workers apart, so       *)
(* Before is a strict order of the workers.                                *)
(***************************************************************************)
Pressures == DOMAIN PressureRank

GoodReading(read) ==
  /\ DOMAIN read = {"health", "limits"}
  /\ \A worker \in Workers : read.health[worker] \in DOMAIN AvailabilityRank
  /\ read.limits \in Limits

LEMMA ReadingsAreGood == \A read \in Readings : GoodReading(read)
BY RoutingAssumption DEF GoodReading

LEMMA WorstIsWorst ==
  ASSUME NEW a \in Pressures, NEW b \in Pressures
  PROVE  /\ WorstPressure({a, b}) \in {a, b, "normal"}
         /\ PressureRank[a] <= PressureRank[WorstPressure({a, b})]
         /\ PressureRank[b] <= PressureRank[WorstPressure({a, b})]
<1>1. /\ PressureRank[a] \in Nat /\ PressureRank[b] \in Nat
  BY DEF Pressures, PressureRank
<1>2. \E worst \in {a, b} \cup {"normal"} :
        \A other \in {a, b} : PressureRank[other] <= PressureRank[worst]
  BY <1>1
<1>3. QED
  BY <1>2, Zenon DEF WorstPressure

LEMMA WindowPressure ==
  ASSUME NEW limits \in Limits, NEW id \in QuotaWindowIds
  PROVE  ClassifyCodexQuota(limits)[id] \in Pressures
BY DEF ClassifyCodexQuota, ClassifyWindow, Pressures, PressureRank

\* What a worker is ranked by, of those that are ranked by windows and the others.
LEMMA PressureOfWorker ==
  ASSUME NEW read, GoodReading(read), NEW worker \in Workers
  PROVE  /\ worker # "codex" => BudgetPressure(WorkerState(worker, read)) = "unknown"
         /\ worker = "codex" =>
              BudgetPressure(WorkerState(worker, read)) =
                WorstPressure({ClassifyCodexQuota(read.limits)["primary"],
                               ClassifyCodexQuota(read.limits)["secondary"]})
         /\ BudgetPressure(WorkerState(worker, read)) \in Pressures
<1> DEFINE quota == ClassifyCodexQuota(read.limits)
<1>1. CASE worker # "codex"
  BY <1>1 DEF BudgetPressure, WorkerState, Pressures, PressureRank
<1>2. CASE worker = "codex"
  <2>1. DOMAIN quota = {"primary", "secondary"}
    BY DEF ClassifyCodexQuota, QuotaWindowIds
  <2>2. Range(quota) = {quota["primary"], quota["secondary"]}
    BY <2>1 DEF Range
  <2>3. BudgetPressure(WorkerState(worker, read)) = WorstPressure(Range(quota))
    BY <1>2, <2>1 DEF BudgetPressure, WorkerState
  <2>4. quota["primary"] \in Pressures /\ quota["secondary"] \in Pressures
    BY WindowPressure DEF QuotaWindowIds, GoodReading
  <2>5. WorstPressure({quota["primary"], quota["secondary"]}) \in Pressures
    BY <2>4, WorstIsWorst DEF Pressures, PressureRank
  <2>6. QED
    BY <1>2, <2>2, <2>3, <2>5
<1>3. QED
  BY <1>1, <1>2

\* A purpose's class has an order of workers, each in one place.
Place(worker, purpose) ==
  CHOOSE k \in 1..3 : TaskClassOrder[StageTaskClass[purpose]][k] = worker

LEMMA PlacesDiffer ==
  ASSUME NEW purpose \in Purposes, NEW a \in Workers, NEW b \in Workers
  PROVE  /\ Place(a, purpose) \in 1..3
         /\ Place(a, purpose) = Place(b, purpose) => a = b
<1> DEFINE order == TaskClassOrder[StageTaskClass[purpose]]
<1>1. order \in {<<"codex", "claude", "pi">>, <<"claude", "codex", "pi">>,
                 <<"pi", "codex", "claude">>}
  BY DEF Purposes, StageTaskClass, TaskClassOrder
<1>2. \A worker \in Workers : \E k \in 1..3 : order[k] = worker
  BY <1>1 DEF Workers
<1>3. \A worker \in Workers :
        Place(worker, purpose) \in 1..3 /\ order[Place(worker, purpose)] = worker
  BY <1>2, Zenon DEF Place
<1>4. QED
  BY <1>3

Preferred(worker, preference) == IF worker = preference THEN 0 ELSE 1
Availability(worker, read) == AvailabilityRank[read.health[worker]]
Pressure(worker, read) == PressureRank[BudgetPressure(WorkerState(worker, read))]

Earlier(a, b, purpose, read, preference) ==
  \/ Preferred(a, preference) < Preferred(b, preference)
  \/ /\ Preferred(a, preference) = Preferred(b, preference)
     /\ \/ Availability(a, read) < Availability(b, read)
        \/ /\ Availability(a, read) = Availability(b, read)
           /\ \/ Pressure(a, read) < Pressure(b, read)
              \/ /\ Pressure(a, read) = Pressure(b, read)
                 /\ Place(a, purpose) < Place(b, purpose)

EarlierPairs(purpose, read, preference) ==
  {pair \in Workers \X Workers : Earlier(pair[1], pair[2], purpose, read, preference)}

LEMMA RanksAreNumbers ==
  ASSUME NEW read, GoodReading(read), NEW preference, NEW worker \in Workers
  PROVE  /\ Preferred(worker, preference) \in Nat
         /\ Availability(worker, read) \in Nat
         /\ Pressure(worker, read) \in Nat
<1>1. AvailabilityRank[read.health[worker]] \in Nat
  BY DEF AvailabilityRank, GoodReading
<1>2. \A pressure \in Pressures : PressureRank[pressure] \in Nat
  BY DEF Pressures, PressureRank
<1>3. QED
  BY <1>1, <1>2, PressureOfWorker DEF Preferred, Availability, Pressure

LEMMA EarlierIsOrder ==
  ASSUME NEW read, GoodReading(read), NEW purpose \in Purposes, NEW preference
  PROVE  StrictOrder(EarlierPairs(purpose, read, preference), Workers)
<1>1. \A worker \in Workers :
        /\ Preferred(worker, preference) \in Nat /\ Availability(worker, read) \in Nat
        /\ Pressure(worker, read) \in Nat /\ Place(worker, purpose) \in 1..3
  BY RanksAreNumbers, PlacesDiffer
<1>2. \A a, b \in Workers :
        <<a, b>> \in EarlierPairs(purpose, read, preference)
          <=> Earlier(a, b, purpose, read, preference)
  BY DEF EarlierPairs
<1>3. \A a \in Workers : ~Earlier(a, a, purpose, read, preference)
  BY <1>1 DEF Earlier
<1>4. ASSUME NEW a \in Workers, NEW b \in Workers, a # b
      PROVE  \/ Earlier(a, b, purpose, read, preference)
             \/ Earlier(b, a, purpose, read, preference)
  <2>1. Place(a, purpose) # Place(b, purpose)
    BY <1>4, PlacesDiffer
  <2>2. QED
    BY <1>1, <2>1 DEF Earlier
<1>5. \A a, b, c \in Workers :
        Earlier(a, b, purpose, read, preference) /\ Earlier(b, c, purpose, read, preference)
          => Earlier(a, c, purpose, read, preference)
  BY <1>1 DEF Earlier
<1>6. QED
  BY <1>2, <1>3, <1>4, <1>5 DEF StrictOrder

LEMMA BeforeIsEarlier ==
  ASSUME NEW read, GoodReading(read), NEW purpose \in Purposes, NEW preference,
         NEW t, t.task_class = StageTaskClass[purpose],
         NEW state, state.workers = [worker \in Workers |-> WorkerState(worker, read)],
         NEW a \in Workers, NEW b \in Workers
  PROVE  Before(a, b, t, state, preference) <=> Earlier(a, b, purpose, read, preference)
<1> DEFINE left == Rank(a, t, state, preference)
           right == Rank(b, t, state, preference)
<1>1. ASSUME NEW worker \in Workers
      PROVE  Rank(worker, t, state, preference) =
               <<Preferred(worker, preference), Availability(worker, read),
                 Pressure(worker, read), Place(worker, purpose)>>
  <2>1. state.workers[worker] = WorkerState(worker, read)
    OBVIOUS
  <2>2. state.workers[worker].availability = read.health[worker]
    BY <2>1 DEF WorkerState
  <2>3. QED
    BY <2>1, <2>2 DEF Rank, Preferred, Availability, Pressure, Place
<1>2. /\ left[1] = Preferred(a, preference) /\ right[1] = Preferred(b, preference)
      /\ left[2] = Availability(a, read) /\ right[2] = Availability(b, read)
      /\ left[3] = Pressure(a, read) /\ right[3] = Pressure(b, read)
      /\ left[4] = Place(a, purpose) /\ right[4] = Place(b, purpose)
  BY <1>1
<1> HIDE DEF left, right
<1>3. \A k \in 1..4 :
        (left[k] < right[k] /\ \A j \in 1..(k - 1) : left[j] = right[j]) <=>
          \/ k = 1 /\ left[1] < right[1]
          \/ k = 2 /\ left[2] < right[2] /\ left[1] = right[1]
          \/ k = 3 /\ left[3] < right[3] /\ left[1] = right[1] /\ left[2] = right[2]
          \/ /\ k = 4 /\ left[4] < right[4]
             /\ left[1] = right[1] /\ left[2] = right[2] /\ left[3] = right[3]
  OBVIOUS
<1>4. Before(a, b, t, state, preference) <=>
        \E k \in 1..4 : left[k] < right[k] /\ \A j \in 1..(k - 1) : left[j] = right[j]
  BY DEF Before, left, right
<1>5. QED
  BY <1>2, <1>3, <1>4 DEF Earlier

\* The candidates are in order.
LEMMA OrderedMeans ==
  ASSUME NEW read, GoodReading(read), NEW purpose \in Purposes, NEW preference,
         NEW t, t.task_class = StageTaskClass[purpose],
         NEW state, state.workers = [worker \in Workers |-> WorkerState(worker, read)]
  PROVE  /\ OrderedCandidates(t, state, preference) \in SetToSeqs(CompatibleWorkers(t, state))
         /\ SortedBy(EarlierPairs(purpose, read, preference),
                     OrderedCandidates(t, state, preference))
<1> DEFINE C == CompatibleWorkers(t, state)
           R == EarlierPairs(purpose, read, preference)
<1>1. C \in SUBSET Workers
  BY DEF CompatibleWorkers
<1>2. ASSUME NEW order \in SetToSeqs(C)
      PROVE  IsSorted(order, LAMBDA a, b : Before(a, b, t, state, preference))
               <=> SortedBy(R, order)
  <2>1. \A i \in 1..Len(order) : order[i] \in Workers
    BY <1>1, SequenceOfSet, ElementOfSeq
  <2>2. \A a, b \in Workers : Before(a, b, t, state, preference) <=> <<a, b>> \in R
    BY BeforeIsEarlier DEF EarlierPairs
  <2>3. IsSorted(order, LAMBDA a, b : Before(a, b, t, state, preference)) <=>
          \A i, j \in 1..Len(order) : i < j => Before(order[i], order[j], t, state, preference)
    BY DEF IsSorted
  <2>4. QED
    BY <2>1, <2>2, <2>3 DEF SortedBy
<1>3. \E order \in SetToSeqs(C) : SortedBy(R, order)
  BY <1>1, EarlierIsOrder, WorkersCanBeSorted
<1>4. \E order \in SetToSeqs(C) :
        IsSorted(order, LAMBDA a, b : Before(a, b, t, state, preference))
  BY <1>2, <1>3
<1>5. /\ OrderedCandidates(t, state, preference) \in SetToSeqs(C)
      /\ IsSorted(OrderedCandidates(t, state, preference),
                  LAMBDA a, b : Before(a, b, t, state, preference))
  BY <1>4 DEF OrderedCandidates
<1>6. QED
  BY <1>2, <1>5

-----------------------------------------------------------------------------
(***************************************************************************)
(* Selection: who can take a stage, and who of them does.                  *)
(***************************************************************************)
CanTake(routable, purpose, read, excluded) ==
  {worker \in Workers :
     /\ CapabilityReasons(worker, StageTask(routable, purpose)) = {}
     /\ worker \notin excluded
     /\ read.health[worker] # "unavailable"
     /\ BudgetPressure(WorkerState(worker, read)) # "exhausted"}

LEMMA LeastIsUnique ==
  ASSUME NEW R, StrictOrder(R, Workers), NEW C \in SUBSET Workers,
         NEW v, NEW w, IsLeast(v, C, R), IsLeast(w, C, R)
  PROVE  v = w
<1> SUFFICES ASSUME v # w
             PROVE  FALSE
  OBVIOUS
<1>1. v \in Workers /\ w \in Workers /\ <<v, w>> \in R /\ <<w, v>> \in R
  BY DEF IsLeast
<1>2. QED
  BY <1>1 DEF StrictOrder

\* The state a plan is made in, as far as the policy looks at it.
Observed(state, read, excluded) ==
  /\ state.workers = [worker \in Workers |-> WorkerState(worker, read)]
  /\ state.failed_workers = excluded

LEMMA CompatibleCanTake ==
  ASSUME NEW routable, NEW purpose, NEW read, NEW excluded,
         NEW state, Observed(state, read, excluded)
  PROVE  CompatibleWorkers(StageTask(routable, purpose), state)
           = CanTake(routable, purpose, read, excluded)
<1>1. \A worker \in Workers :
        /\ state.workers[worker] = WorkerState(worker, read)
        /\ state.workers[worker].availability = read.health[worker]
  BY DEF Observed, WorkerState
<1>2. \A worker \in Workers :
        Rejection(worker, StageTask(routable, purpose), state) = "none"
          <=> worker \in CanTake(routable, purpose, read, excluded)
  BY <1>1 DEF Rejection, CanTake, Observed
<1>3. QED
  BY <1>2 DEF CompatibleWorkers, CanTake

LEMMA SelectionChooses ==
  ASSUME NEW read, GoodReading(read), NEW purpose \in Purposes, NEW preference,
         NEW routable \in Tasks, NEW excluded, NEW state, Observed(state, read, excluded),
         ~(state.active_worker # None /\ ~ActiveTerminal(state)),
         NEW C, C = CanTake(routable, purpose, read, excluded),
         NEW R, R = EarlierPairs(purpose, read, preference),
         NEW s, s = SelectWorker(StageTask(routable, purpose), state, preference)
  PROVE  /\ C = {} => s.action = "no_worker" /\ s.worker = None /\ s.fallback_chain = <<>>
         /\ C # {} => s.action = "select" /\ Chooses(s.worker, s.fallback_chain, C, R)
<1> DEFINE t == StageTask(routable, purpose)
           candidates == OrderedCandidates(t, state, preference)
<1>1. t.task_class = StageTaskClass[purpose]
  BY RoutingAssumption DEF StageTask
<1>2. CompatibleWorkers(t, state) = C /\ C \in SUBSET Workers
  BY CompatibleCanTake DEF CanTake
<1>3. candidates \in SetToSeqs(C) /\ SortedBy(R, candidates)
  <2>1. state.workers = [worker \in Workers |-> WorkerState(worker, read)]
    BY DEF Observed
  <2>2. QED
    BY <1>1, <1>2, <2>1, OrderedMeans
<1>4. PICK order \in SetToSeqs(C) :
        /\ SortedBy(R, order)
        /\ s = IF order = <<>> THEN Selection("no_worker", None, <<>>, "no_viable_worker")
              ELSE Selection("select", Head(order), Tail(order),
                             IF preference = Head(order) THEN "explicit_preference" ELSE "policy")
  BY <1>3 DEF SelectWorker
<1> HIDE DEF candidates, t
<1>5. CASE C = {}
  <2>1. order = <<>>
    BY <1>2, <1>4, <1>5, SortedMeans
  <2>2. QED
    BY <1>4, <1>5, <2>1 DEF Selection
<1>6. CASE C # {}
  <2>1. order # <<>> /\ Chooses(Head(order), Tail(order), C, R)
    BY <1>2, <1>4, <1>6, SortedMeans
  <2>2. s.action = "select" /\ s.worker = Head(order) /\ s.fallback_chain = Tail(order)
    BY <1>4, <2>1 DEF Selection
  <2>3. QED
    BY <1>6, <2>1, <2>2
<1>7. QED
  BY <1>5, <1>6

\* A plan is made of the selection, and keeps its worker and its chain.
LEMMA PlanKeepsSelection ==
  ASSUME NEW t, NEW state, NEW preference, NEW about,
         NEW s, s = SelectWorker(t, state, preference),
         NEW p, p = BuildExecutionPlan(t, state, preference, about)
  PROVE  /\ p.worker = s.worker /\ p.fallback_chain = s.fallback_chain
         /\ p.action = IF s.action # "select" THEN s.action
                       ELSE IF ~about.project_contract_present \/ about.task_contract_conflict
                            THEN "blocked" ELSE "ready"
<1>1. PICK action, worker, chain, reason : s = Selection(action, worker, chain, reason)
  BY DEF SelectWorker
<1>2. p = IF s.action # "select" THEN s
          ELSE [s EXCEPT !.action =
                  IF ~about.project_contract_present \/ about.task_contract_conflict
                  THEN "blocked" ELSE "ready"]
  BY DEF BuildExecutionPlan
<1>3. QED
  BY <1>1, <1>2 DEF Selection

\* What a plan is: it stays with the run in progress, or goes to the first of C.
Planned(p, active, worker, C, R) ==
  /\ active => /\ p.worker = worker /\ p.fallback_chain = <<>>
               /\ p.action \in {"reconcile", "hold"}
  /\ ~active /\ C = {} => p.action = "no_worker" /\ p.worker = None /\ p.fallback_chain = <<>>
  /\ ~active /\ C # {} =>
       p.action \in {"blocked", "ready"} /\ Chooses(p.worker, p.fallback_chain, C, R)

LEMMA PlanChooses ==
  ASSUME NEW read, GoodReading(read), NEW purpose \in Purposes, NEW preference, NEW about,
         NEW routable \in Tasks, NEW excluded, NEW state, Observed(state, read, excluded),
         NEW C, C = CanTake(routable, purpose, read, excluded),
         NEW R, R = EarlierPairs(purpose, read, preference)
  PROVE  Planned(BuildExecutionPlan(StageTask(routable, purpose), state, preference, about),
                 state.active_worker # None /\ ~ActiveTerminal(state), state.active_worker, C, R)
<1> DEFINE active == state.active_worker # None /\ ~ActiveTerminal(state)
           s == SelectWorker(StageTask(routable, purpose), state, preference)
           p == BuildExecutionPlan(StageTask(routable, purpose), state, preference, about)
<1>1. /\ p.worker = s.worker /\ p.fallback_chain = s.fallback_chain
      /\ s.action # "select" => p.action = s.action
      /\ s.action = "select" => p.action \in {"blocked", "ready"}
  BY PlanKeepsSelection
<1>2. active => /\ s.action \in {"reconcile", "hold"} /\ s.worker = state.active_worker
                /\ s.fallback_chain = <<>>
  BY DEF SelectWorker, Selection
<1>3. ~active =>
        /\ C = {} => s.action = "no_worker" /\ s.worker = None /\ s.fallback_chain = <<>>
        /\ C # {} => s.action = "select" /\ Chooses(s.worker, s.fallback_chain, C, R)
  BY SelectionChooses
<1> HIDE DEF s, p, active
<1>4. Planned(p, active, state.active_worker, C, R)
  BY <1>1, <1>2, <1>3 DEF Planned
<1>5. QED
  BY <1>4 DEF p, active

-----------------------------------------------------------------------------
(***************************************************************************)
(* The second invariant: what a decision was made on still holds when it   *)
(* is acted on, and is remembered by what was chosen.                      *)
(***************************************************************************)
DecisionTypeOK ==
  /\ reading \in Readings
  /\ view \in [worker : Workers \cup {None}, terminal : BOOLEAN, hitl : BOOLEAN,
               ack : {None, "accepted", "rejected", "unknown"}]
  /\ failed \subseteq Workers
  /\ plan.worker \in Workers \cup {None}
  /\ Range(plan.fallback_chain) \subseteq Workers \ failed
  /\ phase \in {"routing", "planning", "acting", "settled"}

\* A plan that is acted on, or that ended the loop, is the one to be made now.
PlanStands ==
  /\ phase = "acting" \/ plan.action = "no_worker" => plan = PlanWith(reading)
  /\ plan.action = "no_worker" => phase = "settled" /\ todo # <<>>

\* Whoever could take a stage when the task was routed.
StagesWereRouted ==
  /\ phase = "routing" => failed = {} /\ view.worker = None /\ todo = <<>>
  /\ \A k \in DOMAIN todo : CanTake(task, todo[k], routed, {}) # {}

ChosenFromCandidates ==
  chosen # None =>
    /\ chosen.reading \in Readings
    /\ chosen.todo \in Seq(Purposes) /\ chosen.todo # <<>>
    /\ Chooses(chosen.worker, chosen.chain,
               CanTake(task, Head(chosen.todo), chosen.reading, chosen.failed),
               EarlierPairs(Head(chosen.todo), chosen.reading, policy))

DecisionInv == DecisionTypeOK /\ PlanStands /\ StagesWereRouted /\ ChosenFromCandidates

\* What a plan is, made with any reading.
LEMMA PlanWithChooses ==
  ASSUME IInv, todo # <<>>, NEW read, GoodReading(read),
         NEW C, C = CanTake(task, Head(todo), read, failed),
         NEW R, R = EarlierPairs(Head(todo), read, policy)
  PROVE  Head(todo) \in Purposes /\ Planned(PlanWith(read), ~Idle, view.worker, C, R)
<1>1. Head(todo) \in Purposes /\ task \in Tasks
  BY HeadTailProperties DEF IInv, RunTypeOK
<1> DEFINE state == State(read)
           active == state.active_worker # None /\ ~ActiveTerminal(state)
<1>2. Observed(state, read, failed)
  BY DEF Observed, State
<1>3. state.active_worker = view.worker /\ (active <=> ~Idle)
  BY RoutingAssumption DEF State, ActiveTerminal, Idle, IInv, RunTypeOK
<1>4. Planned(PlanWith(read), active, state.active_worker, C, R)
  BY <1>1, <1>2, PlanChooses DEF PlanWith
<1> HIDE DEF active, state
<1>5. QED
  BY <1>1, <1>3, <1>4 DEF Planned

\* A plan names workers, and none that has failed to fall back on.
LEMMA PlanNamesWorkers ==
  ASSUME IInv, DecisionTypeOK, todo # <<>>, NEW p, p = PlanWith(reading)
  PROVE  /\ p.worker \in Workers \cup {None}
         /\ Range(p.fallback_chain) \subseteq Workers \ failed
         /\ p.action \in {"blocked", "ready"} =>
              /\ p.worker \in Workers /\ p.worker \notin Range(p.fallback_chain)
         /\ p.action \notin {"blocked", "ready"} => p.fallback_chain = <<>>
<1>1. GoodReading(reading)
  BY ReadingsAreGood DEF DecisionTypeOK
<1>2. PICK C, R : /\ Planned(p, ~Idle, view.worker, C, R)
                  /\ C = CanTake(task, Head(todo), reading, failed)
  BY <1>1, PlanWithChooses
<1>3. C \subseteq Workers \ failed
  BY <1>2 DEF CanTake
<1>4. Range(<<>>) = {}
  BY DEF Range
<1>5. Chooses(p.worker, p.fallback_chain, C, R) =>
        p.worker \in C /\ Range(p.fallback_chain) = C \ {p.worker}
  BY DEF Chooses, IsLeast
<1>6. view.worker \in Workers \cup {None}
  BY DEF DecisionTypeOK
<1>7. QED
  BY <1>2, <1>3, <1>4, <1>5, <1>6 DEF Planned

LEMMA InitDecisionInv == Init => DecisionInv
<1> SUFFICES ASSUME Init
             PROVE  DecisionInv
  OBVIOUS
<1>1. plan.worker = None /\ plan.fallback_chain = <<>> /\ plan.action = "none"
  BY DEF Init, Selection
<1>2. Range(<<>>) = {}
  BY DEF Range
<1>3. DecisionTypeOK
  BY <1>1, <1>2 DEF Init, DecisionTypeOK
<1>4. PlanStands /\ StagesWereRouted /\ ChosenFromCandidates
  BY <1>1 DEF Init, PlanStands, StagesWereRouted, ChosenFromCandidates
<1>5. QED
  BY <1>3, <1>4 DEF DecisionInv

\* The first of the blocked stages is blocked.
LEMMA LeastOfNumbers ==
  ASSUME NEW S \in SUBSET Nat, S # {}
  PROVE  Min(S) \in S
<1> DEFINE Less == {pair \in Nat \X Nat : pair[1] < pair[2]}
<1>1. IsWellFoundedOn(Less, Nat)
  BY NatLessThanWellFounded, Zenon DEF OpToRel
<1>2. \A R : IsWellFoundedOn(R, Nat) => \E x \in S : \A y \in S : <<y, x>> \notin R
  BY WFMin
<1>3. PICK x \in S : \A y \in S : <<y, x>> \notin Less
  BY <1>1, <1>2
<1>4. ASSUME NEW y \in S
      PROVE  x <= y
  <2>1. <<y, x>> \notin Less /\ y \in Nat /\ x \in Nat
    BY <1>3
  <2>2. <<y, x>> \in Nat \X Nat /\ <<y, x>>[1] = y /\ <<y, x>>[2] = x
    BY <2>1
  <2>3. ~(y < x)
    BY <2>1, <2>2
  <2>4. QED
    BY <2>1, <2>3
<1>5. QED
  BY <1>4 DEF Min

LEMMA RoutedMeans ==
  ASSUME IInv, DecisionInv, phase = "routing",
         RouteTask(task, State(reading), policy) \in {"route", "decompose"}
  PROVE  \A k \in DOMAIN Stages(task) : CanTake(task, Stages(task)[k], reading, {}) # {}
<1> DEFINE selections == [k \in DOMAIN Stages(task) |->
              SelectWorker(StageTask(task, Stages(task)[k]), State(reading), policy)]
           blocked == {k \in DOMAIN selections : selections[k].action # "select"}
<1>1. /\ Observed(State(reading), reading, {}) /\ GoodReading(reading)
      /\ ~(State(reading).active_worker # None /\ ~ActiveTerminal(State(reading)))
  BY ReadingsAreGood
     DEF Observed, State, DecisionInv, DecisionTypeOK, StagesWereRouted
<1>2. Stages(task) \in Seq(Purposes) /\ task \in Tasks
  BY StagesStart DEF IInv, RunTypeOK
<1>3. /\ DOMAIN Stages(task) \in SUBSET Nat
      /\ \A k \in DOMAIN Stages(task) : Stages(task)[k] \in Purposes
  BY <1>2
<1>4. ASSUME NEW k \in DOMAIN Stages(task)
      PROVE  /\ selections[k].action \in {"select", "no_worker"}
             /\ selections[k].action = "select" =>
                  CanTake(task, Stages(task)[k], reading, {}) # {}
  <2>1. PICK purpose \in Purposes : purpose = Stages(task)[k]
    BY <1>3
  <2>2. PICK C, R : /\ C = CanTake(task, purpose, reading, {})
                    /\ R = EarlierPairs(purpose, reading, policy)
    OBVIOUS
  <2>3. PICK s : s = SelectWorker(StageTask(task, purpose), State(reading), policy)
    OBVIOUS
  <2>4. /\ C = {} => s.action = "no_worker" /\ s.worker = None /\ s.fallback_chain = <<>>
        /\ C # {} => s.action = "select" /\ Chooses(s.worker, s.fallback_chain, C, R)
    BY <1>1, <1>2, <2>2, <2>3, SelectionChooses
  <2>5. selections[k] = s
    BY <2>1, <2>3
  <2>6. QED
    BY <2>1, <2>2, <2>4, <2>5
<1>5. blocked = {}
  <2>1. RouteTask(task, State(reading), policy) =
          IF blocked # {} THEN selections[Min(blocked)].action
          ELSE IF task.task_class = "mixed" THEN "decompose" ELSE "route"
    BY DEF RouteTask
  <2>2. ASSUME blocked # {}
        PROVE  Min(blocked) \in DOMAIN Stages(task)
    BY <2>2, <1>3, LeastOfNumbers
  <2>3. QED
    BY <2>1, <2>2, <1>4
<1>6. QED
  BY <1>4, <1>5

LEMMA RouteKeepsDecisionInv == IInv /\ DecisionInv /\ Route => DecisionInv'
<1> SUFFICES ASSUME IInv, DecisionInv, Route
             PROVE  DecisionInv'
  OBVIOUS
<1>1. /\ phase = "routing" /\ phase' \in {"planning", "settled"} /\ todo = <<>>
      /\ routed' = reading
      /\ UNCHANGED <<task, policy, context, reading, view, failed, plan, chosen>>
  BY DEF Route, arguments, DecisionInv, StagesWereRouted
<1>2. plan.action # "no_worker"
  BY <1>1 DEF DecisionInv, PlanStands
<1>3. StagesWereRouted'
  <2>1. CASE RouteTask(task, State(reading), policy) \in {"route", "decompose"}
    BY <1>1, <2>1, RoutedMeans DEF Route, StagesWereRouted
  <2>2. CASE RouteTask(task, State(reading), policy) \notin {"route", "decompose"}
    <3>1. todo' = <<>> /\ phase' = "settled"
      BY <1>1, <2>2 DEF Route
    <3>2. DOMAIN todo' = {}
      BY <3>1
    <3>3. QED
      BY <3>1, <3>2 DEF StagesWereRouted
  <2>3. QED
    BY <2>1, <2>2
<1>4. QED
  BY <1>1, <1>2, <1>3
     DEF DecisionInv, DecisionTypeOK, PlanStands, ChosenFromCandidates

LEMMA PlanKeepsDecisionInv == IInv /\ DecisionInv /\ Plan => DecisionInv'
<1> SUFFICES ASSUME IInv, DecisionInv, Plan
             PROVE  DecisionInv'
  OBVIOUS
<1>1. /\ phase = "planning" /\ todo # <<>> /\ plan' = PlanWith(reading)
      /\ phase' = IF plan'.action \in {"no_worker", "blocked"} THEN "settled" ELSE "acting"
      /\ UNCHANGED <<task, policy, context, reading, view, failed, todo, chosen, routed>>
  BY DEF Plan, arguments, IInv, RunTypeOK
<1>2. PlanWith(reading)' = PlanWith(reading)
  BY <1>1 DEF PlanWith, State
<1>3. plan'.worker \in Workers \cup {None} /\ Range(plan'.fallback_chain) \subseteq Workers \ failed
  BY <1>1, PlanNamesWorkers DEF DecisionInv
<1>4. PlanStands'
  BY <1>1, <1>2 DEF PlanStands
<1>5. QED
  BY <1>1, <1>3, <1>4
     DEF DecisionInv, DecisionTypeOK, StagesWereRouted, ChosenFromCandidates

LEMMA StartKeepsDecisionInv == IInv /\ DecisionInv /\ Start => DecisionInv'
<1> SUFFICES ASSUME IInv, DecisionInv, Start
             PROVE  DecisionInv'
  OBVIOUS
<1>1. /\ phase = "acting" /\ phase' = "planning" /\ plan.action = "ready" /\ todo # <<>>
      /\ plan = PlanWith(reading)
      /\ chosen' = [worker |-> plan.worker, chain |-> plan.fallback_chain, reading |-> reading,
                    todo |-> todo, failed |-> failed]
      /\ UNCHANGED <<task, policy, context, reading, todo, plan, routed>>
  BY DEF Start, arguments, IInv, RunTypeOK, DecisionInv, PlanStands
<1>2. /\ plan.worker \in Workers /\ plan.worker \notin Range(plan.fallback_chain)
      /\ Range(plan.fallback_chain) \subseteq Workers \ failed
  BY <1>1, PlanNamesWorkers DEF DecisionInv
<1>3. PICK ack \in {"accepted", "rejected", "unknown"} :
        /\ view' = [worker |-> plan.worker, terminal |-> ack = "rejected", hitl |-> FALSE,
                    ack |-> ack]
        /\ failed' \in {failed, failed \cup {plan.worker}}
  BY DEF Start
<1>4. DecisionTypeOK'
  BY <1>1, <1>2, <1>3 DEF DecisionInv, DecisionTypeOK
<1>5. ChosenFromCandidates'
  <2>1. GoodReading(reading) /\ reading \in Readings /\ todo \in Seq(Purposes)
    BY ReadingsAreGood DEF DecisionInv, DecisionTypeOK, IInv, RunTypeOK
  <2>2. Planned(plan, ~Idle, view.worker, CanTake(task, Head(todo), reading, failed),
                EarlierPairs(Head(todo), reading, policy))
    BY <1>1, <2>1, PlanWithChooses
  <2>3. Chooses(plan.worker, plan.fallback_chain, CanTake(task, Head(todo), reading, failed),
                EarlierPairs(Head(todo), reading, policy))
    BY <1>1, <2>2 DEF Planned
  <2>4. /\ chosen'.worker = plan.worker /\ chosen'.chain = plan.fallback_chain
        /\ chosen'.reading = reading /\ chosen'.todo = todo /\ chosen'.failed = failed
    BY <1>1
  <2>5. QED
    BY <1>1, <2>1, <2>3, <2>4 DEF ChosenFromCandidates
<1>6. QED
  BY <1>1, <1>4, <1>5 DEF DecisionInv, PlanStands, StagesWereRouted

\* To look at a run, or to answer it, falls back on nothing.
LEMMA HeldHasNoChain ==
  ASSUME IInv, DecisionInv, phase = "acting",
         plan.action = "reconcile" \/ plan.reason \in {"active_run", "pending_hitl"}
  PROVE  /\ plan.fallback_chain = <<>> /\ plan.worker = view.worker
         /\ view.worker \in Workers /\ plan.action # "no_worker" /\ todo # <<>>
<1>1. ~Idle /\ plan = PlanWith(reading) /\ todo # <<>>
  BY DEF IInv, PlanIsOfView, DecisionInv, PlanStands, RunTypeOK
<1>2. GoodReading(reading) /\ view.worker \in Workers
  BY <1>1, ReadingsAreGood DEF DecisionInv, DecisionTypeOK, Idle
<1>3. Planned(plan, ~Idle, view.worker, CanTake(task, Head(todo), reading, failed),
              EarlierPairs(Head(todo), reading, policy))
  BY <1>1, <1>2, PlanWithChooses
<1>4. QED
  BY <1>1, <1>2, <1>3 DEF Planned

LEMMA ObserveKeepsDecisionInv == IInv /\ DecisionInv /\ Observe => DecisionInv'
<1> SUFFICES ASSUME IInv, DecisionInv, Observe
             PROVE  DecisionInv'
  OBVIOUS
<1>1. /\ plan.fallback_chain = <<>> /\ plan.worker = view.worker
      /\ view.worker \in Workers /\ plan.action # "no_worker" /\ todo # <<>>
  BY HeldHasNoChain DEF Observe
<1> DEFINE run == native[plan.worker]
<1>2. /\ view' = [view EXCEPT !.terminal = run \notin {"running", "waiting"},
                              !.hitl = run = "waiting",
                              !.ack = IF run = "none" THEN "rejected" ELSE "accepted"]
      /\ failed' \in {failed, failed \cup {plan.worker}}
      /\ todo' \in {todo, Tail(todo)}
      /\ phase' \in {"settled", "planning"}
      /\ UNCHANGED <<task, policy, context, reading, plan, chosen, routed>>
  BY DEF Observe, arguments
<1>3. Range(<<>>) = {}
  BY DEF Range
<1>4. DecisionTypeOK'
  BY <1>1, <1>2, <1>3 DEF DecisionInv, DecisionTypeOK
<1>5. StagesWereRouted'
  <2>1. todo \in Seq(Purposes) /\ Distinct(todo)
    BY DEF IInv, RunTypeOK
  <2>2. \A k \in DOMAIN Tail(todo) : k + 1 \in DOMAIN todo /\ Tail(todo)[k] = todo[k + 1]
    BY <1>1, <2>1, TailOfStages
  <2>3. \A k \in DOMAIN todo' : \E j \in DOMAIN todo : todo'[k] = todo[j]
    BY <1>2, <2>2
  <2>4. QED
    BY <1>2, <2>3 DEF DecisionInv, StagesWereRouted
<1>6. QED
  BY <1>1, <1>2, <1>4, <1>5 DEF DecisionInv, PlanStands, ChosenFromCandidates

LEMMA RespondKeepsDecisionInv == IInv /\ DecisionInv /\ Respond => DecisionInv'
<1> SUFFICES ASSUME IInv, DecisionInv, Respond
             PROVE  DecisionInv'
  OBVIOUS
<1>1. plan.action # "no_worker"
  BY HeldHasNoChain DEF Respond
<1>2. PICK ack \in {"accepted", "unknown"} : view' = [view EXCEPT !.hitl = FALSE, !.ack = ack]
  BY DEF Respond
<1>3. /\ phase' = "planning"
      /\ UNCHANGED <<task, policy, context, reading, failed, todo, plan, chosen, routed>>
  BY DEF Respond, arguments
<1>4. DecisionTypeOK'
  BY <1>2, <1>3 DEF DecisionInv, DecisionTypeOK
<1>5. QED
  BY <1>1, <1>3, <1>4
     DEF DecisionInv, PlanStands, StagesWereRouted, ChosenFromCandidates

LEMMA NextKeepsDecisionInv == IInv /\ DecisionInv /\ [Next]_vars => DecisionInv'
<1> SUFFICES ASSUME IInv, DecisionInv, [Next]_vars
             PROVE  DecisionInv'
  OBVIOUS
<1>1. CASE Supervise
  BY <1>1, RouteKeepsDecisionInv, PlanKeepsDecisionInv, StartKeepsDecisionInv,
     ObserveKeepsDecisionInv, RespondKeepsDecisionInv DEF Supervise
<1>2. CASE Probe
  <2>1. /\ phase \in {"routing", "planning"} /\ reading' \in Readings
        /\ UNCHANGED <<task, policy, context, view, failed, todo, plan, phase, chosen, routed>>
    BY <1>2 DEF Probe, arguments
  <2>2. QED
    BY <2>1 DEF DecisionInv, DecisionTypeOK, PlanStands, StagesWereRouted, ChosenFromCandidates
<1>3. CASE (\E worker \in Workers : RunEnds(worker) \/ RunAsks(worker)) \/ Settled \/ UNCHANGED vars
  <2>1. UNCHANGED <<task, policy, context, reading, view, failed, todo, plan, phase, chosen,
                    routed>>
    BY <1>3 DEF RunEnds, RunAsks, Settled, vars, arguments
  <2>2. PlanWith(reading)' = PlanWith(reading)
    BY <2>1 DEF PlanWith, State
  <2>3. QED
    BY <2>1, <2>2
       DEF DecisionInv, DecisionTypeOK, PlanStands, StagesWereRouted, ChosenFromCandidates
<1>4. QED
  BY <1>1, <1>2, <1>3 DEF Next

LEMMA DecisionInvariance == Spec => [](IInv /\ DecisionInv)
BY InitIInv, NextKeepsIInv, InitDecisionInv, NextKeepsDecisionInv, PTL DEF Spec

-----------------------------------------------------------------------------
(***************************************************************************)
(* The Supervisor's state has the types of the loop; what a plan falls     *)
(* back on are workers that have not failed.                               *)
(***************************************************************************)
THEOREM RoutedTypeCorrect == Spec => []TypeOK
<1>1. ASSUME IInv, DecisionInv
      PROVE  TypeOK
  <2>1. Range(todo) \subseteq DOMAIN StageTaskClass
    BY <1>1 DEF IInv, RunTypeOK, Range, Purposes
  <2>2. native \in [Workers -> {"none", "running", "waiting", "succeeded", "failed"}]
    BY <1>1 DEF IInv, RunTypeOK, Runs
  <2>3. QED
    BY <1>1, <2>1, <2>2 DEF TypeOK, DecisionInv, DecisionTypeOK
<1>2. QED
  BY <1>1, DecisionInvariance, PTL

(***************************************************************************)
(* The fallback chain is kept: once the worker chosen has failed, the plan *)
(* made of the same reading goes to the head of the chain, and finds no    *)
(* worker only if the chain was empty. To leave out the first of those who *)
(* could take a stage changes nothing for the others.                      *)
(***************************************************************************)
THEOREM ChainIsFollowed == Spec => []FallbackFollowsChain
<1>1. ASSUME IInv, DecisionInv
      PROVE  FallbackFollowsChain
  <2> SUFFICES ASSUME chosen # None, chosen.reading = reading, chosen.todo = todo,
                      failed = chosen.failed \cup {chosen.worker}
               PROVE  /\ Acting /\ plan.action = "ready" =>
                           chosen.chain # <<>> /\ plan.worker = Head(chosen.chain)
                      /\ plan.action = "no_worker" => chosen.chain = <<>>
    BY DEF FallbackFollowsChain
  <2> DEFINE before == CanTake(task, Head(todo), reading, chosen.failed)
             now == CanTake(task, Head(todo), reading, failed)
             R == EarlierPairs(Head(todo), reading, policy)
  <2>1. /\ todo # <<>> /\ Chooses(chosen.worker, chosen.chain, before, R)
        /\ GoodReading(reading)
    BY <1>1, ReadingsAreGood DEF DecisionInv, ChosenFromCandidates
  <2>2. now = before \ {chosen.worker} /\ now \in SUBSET Workers
    BY DEF CanTake
  <2>3. Head(todo) \in Purposes /\ Planned(PlanWith(reading), ~Idle, view.worker, now, R)
    BY <1>1, <2>1, PlanWithChooses
  <2>4. StrictOrder(R, Workers)
    BY <2>1, <2>3, EarlierIsOrder
  <2> HIDE DEF before, now, R
  <2>5. /\ chosen.chain = <<>> <=> before = {chosen.worker}
        /\ chosen.chain # <<>> => IsLeast(Head(chosen.chain), now, R)
        /\ chosen.worker \in before
    BY <2>1, <2>2 DEF Chooses, IsLeast
  <2>6. ASSUME Acting, plan.action = "ready"
        PROVE  chosen.chain # <<>> /\ plan.worker = Head(chosen.chain)
    <3>1. plan = PlanWith(reading)
      BY <1>1, <2>6 DEF DecisionInv, PlanStands, Acting
    <3>2. now # {} /\ IsLeast(plan.worker, now, R)
      BY <2>3, <2>6, <3>1 DEF Planned, Chooses
    <3>3. chosen.chain # <<>>
      BY <2>2, <2>5, <3>2
    <3>4. QED
      BY <2>2, <2>4, <2>5, <3>2, <3>3, LeastIsUnique
  <2>7. ASSUME plan.action = "no_worker"
        PROVE  chosen.chain = <<>>
    <3>1. plan = PlanWith(reading)
      BY <1>1, <2>7 DEF DecisionInv, PlanStands
    <3>2. now = {}
      BY <2>3, <2>7, <3>1 DEF Planned
    <3>3. QED
      BY <2>2, <2>5, <3>2
  <2>8. QED
    BY <2>6, <2>7
<1>2. QED
  BY <1>1, DecisionInvariance, PTL

(***************************************************************************)
(* A routed stage is left without a worker only if an attempt has failed   *)
(* or another probe has seen something else: every stage was given a       *)
(* worker when the task was routed, the later ones too.                    *)
(***************************************************************************)
THEOREM RoutedStagesAreCarried == Spec => []RoutedStagesCanRun
<1>1. ASSUME IInv, DecisionInv
      PROVE  RoutedStagesCanRun
  <2> SUFFICES ASSUME plan.action = "no_worker", failed = {}, reading = routed
               PROVE  FALSE
    BY DEF RoutedStagesCanRun
  <2>1. /\ todo # <<>> /\ plan = PlanWith(reading) /\ GoodReading(reading)
        /\ \A k \in DOMAIN todo : CanTake(task, todo[k], routed, {}) # {}
    BY <1>1, ReadingsAreGood
       DEF DecisionInv, DecisionTypeOK, PlanStands, StagesWereRouted
  <2>2. 1 \in DOMAIN todo /\ Head(todo) = todo[1]
    BY <1>1, <2>1, TailOfStages, HeadTailProperties DEF IInv, RunTypeOK
  <2>3. PICK C, R : /\ C = CanTake(task, Head(todo), reading, failed)
                    /\ R = EarlierPairs(Head(todo), reading, policy)
    OBVIOUS
  <2>4. C # {}
    BY <2>1, <2>2, <2>3
  <2>5. Planned(plan, ~Idle, view.worker, C, R)
    BY <1>1, <2>1, <2>3, PlanWithChooses
  <2>6. QED
    BY <2>4, <2>5 DEF Planned
<1>2. QED
  BY <1>1, DecisionInvariance, PTL

-----------------------------------------------------------------------------
(***************************************************************************)
(* Quota: a window that is spent spends its worker, and more left in a     *)
(* window never makes the pressure worse.                                  *)
(***************************************************************************)
LEMMA SpentWindowSpends ==
  ASSUME NEW a \in Pressures, NEW b \in Pressures, a = "exhausted" \/ b = "exhausted"
  PROVE  WorstPressure({a, b}) = "exhausted"
<1>1. /\ WorstPressure({a, b}) \in Pressures
      /\ PressureRank[WorstPressure({a, b})] >= 99
  BY WorstIsWorst DEF Pressures, PressureRank
<1>2. \A pressure \in Pressures : PressureRank[pressure] >= 99 => pressure = "exhausted"
  BY DEF Pressures, PressureRank
<1>3. QED
  BY <1>1, <1>2

LEMMA WorstIsMonotone ==
  ASSUME NEW a \in Pressures, NEW b \in Pressures, NEW c \in Pressures, NEW d \in Pressures,
         PressureRank[a] <= PressureRank[c], PressureRank[b] <= PressureRank[d]
  PROVE  PressureRank[WorstPressure({a, b})] <= PressureRank[WorstPressure({c, d})]
<1>1. \A pressure \in Pressures : PressureRank[pressure] \in Nat /\ PressureRank["normal"] = 0
  BY DEF Pressures, PressureRank
<1>2. /\ WorstPressure({a, b}) \in {a, b, "normal"}
      /\ WorstPressure({c, d}) \in Pressures
      /\ PressureRank[c] <= PressureRank[WorstPressure({c, d})]
      /\ PressureRank[d] <= PressureRank[WorstPressure({c, d})]
  BY WorstIsWorst DEF Pressures, PressureRank
<1>3. QED
  BY <1>1, <1>2

LEMMA WindowIsMonotone ==
  ASSUME NEW more \in Limits, NEW less \in Limits, Fuller(more, less), NEW id \in QuotaWindowIds
  PROVE  PressureRank[ClassifyCodexQuota(more)[id]] <= PressureRank[ClassifyCodexQuota(less)[id]]
<1>1. /\ more # None /\ less # None /\ (more.reached => less.reached)
      /\ AtLeast(more[id], less[id])
      /\ more[id] \in Int \cup {None} /\ less[id] \in Int \cup {None} /\ None \notin Int
  BY RoutingAssumption DEF Fuller
<1>2. \A limits : limits # None =>
        ClassifyCodexQuota(limits)[id] =
          IF limits.reached THEN "exhausted" ELSE ClassifyWindow(limits[id])
  BY DEF ClassifyCodexQuota
<1>3. PressureRank[ClassifyWindow(more[id])] <= PressureRank[ClassifyWindow(less[id])]
  BY <1>1 DEF AtLeast, ClassifyWindow, PressureRank
<1>4. PressureRank[ClassifyWindow(more[id])] <= PressureRank["exhausted"]
  BY DEF ClassifyWindow, PressureRank
<1>5. PressureRank["exhausted"] <= PressureRank["exhausted"]
  BY DEF PressureRank
<1>6. QED
  BY <1>1, <1>2, <1>3, <1>4, <1>5

\* The same probe with more left: codex is ranked no worse, the others as before.
LEMMA FullerRanksBetter ==
  ASSUME NEW read, GoodReading(read), NEW limits \in Limits, Fuller(limits, read.limits),
         NEW fuller, fuller = [read EXCEPT !.limits = limits]
  PROVE  /\ GoodReading(fuller)
         /\ \A worker \in Workers :
              /\ Availability(worker, fuller) = Availability(worker, read)
              /\ Pressure(worker, fuller) <= Pressure(worker, read)
              /\ worker # "codex" =>
                   BudgetPressure(WorkerState(worker, fuller))
                     = BudgetPressure(WorkerState(worker, read))
<1>1. GoodReading(fuller) /\ fuller.health = read.health /\ fuller.limits = limits
  BY DEF GoodReading
<1>2. \A worker \in Workers : Availability(worker, fuller) = Availability(worker, read)
  BY <1>1 DEF Availability
<1>3. \A worker \in Workers : worker # "codex" =>
        BudgetPressure(WorkerState(worker, fuller)) = BudgetPressure(WorkerState(worker, read))
  BY <1>1, PressureOfWorker
<1>4. Pressure("codex", fuller) <= Pressure("codex", read)
  <2> DEFINE new == ClassifyCodexQuota(limits)
             old == ClassifyCodexQuota(read.limits)
  <2>1. "primary" \in QuotaWindowIds /\ "secondary" \in QuotaWindowIds /\ "codex" \in Workers
    BY DEF QuotaWindowIds, Workers
  <2>2. /\ new["primary"] \in Pressures /\ new["secondary"] \in Pressures
        /\ old["primary"] \in Pressures /\ old["secondary"] \in Pressures
        /\ PressureRank[new["primary"]] <= PressureRank[old["primary"]]
        /\ PressureRank[new["secondary"]] <= PressureRank[old["secondary"]]
    BY <2>1, WindowPressure, WindowIsMonotone DEF GoodReading
  <2>3. /\ BudgetPressure(WorkerState("codex", fuller))
             = WorstPressure({new["primary"], new["secondary"]})
        /\ BudgetPressure(WorkerState("codex", read))
             = WorstPressure({old["primary"], old["secondary"]})
    BY <1>1, <2>1, PressureOfWorker
  <2> HIDE DEF new, old
  <2>4. QED
    BY <2>2, <2>3, WorstIsMonotone DEF Pressure
<1>5. \A worker \in Workers : Pressure(worker, fuller) <= Pressure(worker, read)
  BY <1>1, <1>3, <1>4, RanksAreNumbers DEF Pressure
<1>6. QED
  BY <1>1, <1>2, <1>3, <1>5

\* So codex is still among those who can take a stage, and still the first if it was.
LEMMA FullerKeepsCodexFirst ==
  ASSUME NEW read, GoodReading(read), NEW limits \in Limits, Fuller(limits, read.limits),
         NEW fuller, fuller = [read EXCEPT !.limits = limits],
         NEW routable, NEW purpose \in Purposes, NEW preference, NEW excluded,
         IsLeast("codex", CanTake(routable, purpose, read, excluded),
                 EarlierPairs(purpose, read, preference))
  PROVE  IsLeast("codex", CanTake(routable, purpose, fuller, excluded),
                 EarlierPairs(purpose, fuller, preference))
<1>1. /\ GoodReading(fuller)
      /\ \A worker \in Workers :
           /\ Availability(worker, fuller) = Availability(worker, read)
           /\ Pressure(worker, fuller) <= Pressure(worker, read)
           /\ worker # "codex" =>
                BudgetPressure(WorkerState(worker, fuller))
                  = BudgetPressure(WorkerState(worker, read))
  BY FullerRanksBetter
<1>2. fuller.health = read.health
  BY DEF GoodReading
<1>3. "codex" \in CanTake(routable, purpose, read, excluded) /\ "codex" \in Workers
  BY DEF IsLeast, Workers
<1>4. BudgetPressure(WorkerState("codex", fuller)) # "exhausted"
  <2>1. /\ BudgetPressure(WorkerState("codex", read)) \in Pressures \ {"exhausted"}
        /\ BudgetPressure(WorkerState("codex", fuller)) \in Pressures
    BY <1>1, <1>3, PressureOfWorker DEF CanTake
  <2>2. \A pressure \in Pressures :
          PressureRank[pressure] \in Nat /\ (PressureRank[pressure] < 99 <=> pressure # "exhausted")
    BY DEF Pressures, PressureRank
  <2>3. Pressure("codex", fuller) <= Pressure("codex", read)
    BY <1>1, <1>3
  <2>4. QED
    BY <2>1, <2>2, <2>3 DEF Pressure
<1>5. CanTake(routable, purpose, fuller, excluded) = CanTake(routable, purpose, read, excluded)
  BY <1>1, <1>2, <1>3, <1>4 DEF CanTake
<1>6. ASSUME NEW other \in CanTake(routable, purpose, read, excluded) \ {"codex"}
      PROVE  <<"codex", other>> \in EarlierPairs(purpose, fuller, preference)
  <2>1. other \in Workers /\ other # "codex"
    BY <1>6 DEF CanTake
  <2>2. Earlier("codex", other, purpose, read, preference)
    BY <1>6 DEF IsLeast, EarlierPairs
  <2>3. Pressure(other, fuller) = Pressure(other, read)
    BY <1>1, <2>1 DEF Pressure
  <2>4. /\ Pressure("codex", fuller) <= Pressure("codex", read)
        /\ Availability("codex", fuller) = Availability("codex", read)
        /\ Availability(other, fuller) = Availability(other, read)
    BY <1>1, <1>3, <2>1
  <2>5. /\ Pressure("codex", fuller) \in Nat /\ Pressure("codex", read) \in Nat
        /\ Pressure(other, read) \in Nat
    BY <1>1, <1>3, <2>1, RanksAreNumbers
  <2>6. Earlier("codex", other, purpose, fuller, preference)
    BY <2>2, <2>3, <2>4, <2>5 DEF Earlier
  <2>7. QED
    BY <1>3, <2>1, <2>6 DEF EarlierPairs
<1>7. QED
  BY <1>3, <1>5, <1>6 DEF IsLeast

(***************************************************************************)
(* No window of codex hides another: codex is chosen only with something   *)
(* left in every window the probe saw, and where it is chosen it would be  *)
(* chosen with more left in any of them, observed or not the other one.    *)
(***************************************************************************)
THEOREM NoWindowIsHidden == Spec => []EveryWindowCounts
<1>1. ASSUME IInv, DecisionInv
      PROVE  EveryWindowCounts
  <2> SUFFICES ASSUME Acting, plan.action = "ready", plan.worker = "codex"
               PROVE  /\ reading.limits # None =>
                           /\ ~reading.limits.reached
                           /\ \A id \in QuotaWindowIds : reading.limits[id] # 0
                      /\ \A limits \in Limits : Fuller(limits, reading.limits) =>
                           PlanWith([reading EXCEPT !.limits = limits]).worker = "codex"
    BY DEF EveryWindowCounts
  <2> DEFINE Able(read) == CanTake(task, Head(todo), read, failed)
             Pairs(read) == EarlierPairs(Head(todo), read, policy)
  <2>1. /\ todo # <<>> /\ plan = PlanWith(reading) /\ GoodReading(reading)
    BY <1>1, ReadingsAreGood
       DEF Acting, IInv, RunTypeOK, DecisionInv, DecisionTypeOK, PlanStands
  <2>2. ASSUME NEW read, GoodReading(read)
        PROVE  /\ Head(todo) \in Purposes
               /\ Planned(PlanWith(read), ~Idle, view.worker, Able(read), Pairs(read))
    BY <1>1, <2>1, <2>2, PlanWithChooses
  <2>3. Idle /\ IsLeast("codex", Able(reading), Pairs(reading))
    <3> HIDE DEF Able, Pairs
    <3>1. QED
      BY <2>1, <2>2 DEF Planned, Chooses
  <2>4. ASSUME reading.limits # None
        PROVE  /\ ~reading.limits.reached
               /\ \A id \in QuotaWindowIds : reading.limits[id] # 0
    <3> DEFINE quota == ClassifyCodexQuota(reading.limits)
    <3>1. /\ "codex" \in Workers
          /\ BudgetPressure(WorkerState("codex", reading)) # "exhausted"
      BY <2>3 DEF IsLeast, CanTake
    <3>2. /\ quota["primary"] \in Pressures /\ quota["secondary"] \in Pressures
          /\ WorstPressure({quota["primary"], quota["secondary"]}) # "exhausted"
      BY <2>1, <3>1, PressureOfWorker, WindowPressure DEF QuotaWindowIds, GoodReading
    <3>3. \A id \in QuotaWindowIds : quota[id] # "exhausted"
      BY <3>2, SpentWindowSpends DEF QuotaWindowIds
    <3>4. \A id \in QuotaWindowIds :
            quota[id] = IF reading.limits.reached THEN "exhausted"
                        ELSE ClassifyWindow(reading.limits[id])
      BY <2>4 DEF ClassifyCodexQuota
    <3>5. ~reading.limits.reached
      BY <3>3, <3>4 DEF QuotaWindowIds
    <3>6. ClassifyWindow(0) = "exhausted"
      BY RoutingAssumption DEF ClassifyWindow
    <3>7. QED
      BY <3>3, <3>4, <3>5, <3>6
  <2>5. ASSUME NEW limits \in Limits, Fuller(limits, reading.limits)
        PROVE  PlanWith([reading EXCEPT !.limits = limits]).worker = "codex"
    <3>1. PICK fuller : fuller = [reading EXCEPT !.limits = limits]
      OBVIOUS
    <3>2. GoodReading(fuller)
      BY <2>1, <2>5, <3>1, FullerRanksBetter
    <3>3. Head(todo) \in Purposes
      BY <2>1, <2>2
    <3>4. IsLeast("codex", Able(fuller), Pairs(fuller))
      BY <2>1, <2>3, <2>5, <3>1, <3>3, FullerKeepsCodexFirst
    <3>5. StrictOrder(Pairs(fuller), Workers) /\ Able(fuller) \in SUBSET Workers
      BY <3>2, <3>3, EarlierIsOrder DEF CanTake
    <3>6. Planned(PlanWith(fuller), ~Idle, view.worker, Able(fuller), Pairs(fuller))
      BY <2>2, <3>2
    <3> HIDE DEF Able, Pairs
    <3>7. IsLeast(PlanWith(fuller).worker, Able(fuller), Pairs(fuller))
      BY <2>3, <3>4, <3>6 DEF Planned, Chooses, IsLeast
    <3>8. PlanWith(fuller).worker = "codex"
      BY <3>4, <3>5, <3>7, LeastIsUnique
    <3>9. QED
      BY <3>1, <3>8
  <2>6. QED
    BY <2>4, <2>5
<1>2. QED
  BY <1>1, DecisionInvariance, PTL
=============================================================================
