---------------------------- MODULE ContextPlan -----------------------------
(***************************************************************************)
(* supervisor-policy/context-policy.mjs, with the recall half of           *)
(* memory-policy.mjs: the skills a task takes along are found greedily,    *)
(* one at a time, and conflicts between sources of context are resolved    *)
(* two at a time, in whatever order they come up.                          *)
(***************************************************************************)
EXTENDS SequencesExt, FiniteSets, Integers

CONSTANTS
  Workers, Catalogs,      \* each a function from skill ids to skills
  RequiredClasses,        \* each a set of classes to cover
  Requests,               \* each a sequence of skill ids, some of them unknown
  RecallInputs

ASSUME CatalogAssumption ==
  \A catalog \in Catalogs :
    /\ DOMAIN catalog \subseteq Nat      \* ids, in the order that breaks ties
    /\ \A id \in DOMAIN catalog :
         /\ catalog[id].covers # {} /\ IsFiniteSet(catalog[id].covers)
         /\ catalog[id].workers \subseteq Workers

VARIABLES
  worker, catalog, required, recall, contract_present,   \* the arguments
  requested,      \* ids still to be looked up
  selected,       \* ids, in the order they were taken
  unresolved,     \* requested ids that are not to be had
  phase,
  plan,
  seen, winner    \* the sources in conflict so far, and whose word stands

arguments == <<worker, catalog, required, recall, contract_present>>
vars == <<arguments, requested, selected, unresolved, phase, plan, seen, winner>>

ContextAuthority ==
  <<"security_hard_runtime", "task_and_project_contract", "verified_current_evidence",
    "skill_procedure", "advisory_memory", "historical_raw_context">>

Compatible(id) == worker \in catalog[id].workers
Covered(ids) == UNION {catalog[id].covers : id \in ids}
Remaining == required \ Covered(Range(selected))
Overlap(id) == Cardinality(catalog[id].covers \cap Remaining)

-----------------------------------------------------------------------------
Request ==
  /\ phase = "request" /\ requested # <<>>
  /\ LET id == Head(requested)
     IN  IF id \in DOMAIN catalog /\ Compatible(id)
         THEN /\ selected' = IF Contains(selected, id) THEN selected ELSE Append(selected, id)
              /\ UNCHANGED unresolved
         ELSE unresolved' = unresolved \cup {id} /\ UNCHANGED selected
  /\ requested' = Tail(requested)
  /\ UNCHANGED <<arguments, phase, plan, seen, winner>>

Requested ==
  /\ phase = "request" /\ requested = <<>>
  /\ phase' = "cover"
  /\ UNCHANGED <<arguments, requested, selected, unresolved, plan, seen, winner>>

\* Mutant: a skill is taken whichever worker it is for.
CandidatesAny ==
  {id \in DOMAIN catalog : ~Contains(selected, id) /\ Overlap(id) > 0}

Candidates ==
  {id \in DOMAIN catalog : ~Contains(selected, id) /\ Compatible(id) /\ Overlap(id) > 0}

\* The most of what remains, then the highest priority, then the first id.
Better(a, b) ==
  \/ Overlap(a) > Overlap(b)
  \/ /\ Overlap(a) = Overlap(b)
     /\ \/ catalog[a].priority > catalog[b].priority
        \/ catalog[a].priority = catalog[b].priority /\ a < b

Pick ==
  /\ phase = "cover" /\ Candidates # {}
  /\ \E best \in Candidates :
       /\ \A other \in Candidates \ {best} : Better(best, other)
       /\ selected' = Append(selected, best)
  /\ UNCHANGED <<arguments, requested, unresolved, phase, plan, seen, winner>>

-----------------------------------------------------------------------------
\* Memory is recalled for a fresh run of a project task that calls for it.
EvaluateRecallPolicy ==
  IF recall.project_scoped /\ recall.fresh_run /\ recall.reasons # {}
  THEN "recall" ELSE "skip_recall"

SelectContextPlan ==
  /\ phase = "cover" /\ Candidates = {}
  /\ phase' = "planned"
  /\ LET skills == IF unresolved = {} /\ Remaining = {} THEN "ready"
                   ELSE "needs_skill_resolution"
     IN  plan' = [action |-> IF contract_present /\ skills = "ready" THEN "ready"
                             ELSE "blocked",
                  skills |-> skills, memory |-> EvaluateRecallPolicy]
  /\ UNCHANGED <<arguments, requested, selected, unresolved, seen, winner>>

AuthorityRank(source) == CHOOSE k \in DOMAIN ContextAuthority : ContextAuthority[k] = source

\* Mutant: the contract's special case comes before the security's.
ResolveContextConflictContract(left, right) ==
  IF left = right THEN left
  ELSE IF "task_and_project_contract" \in {left, right} THEN "task_and_project_contract"
  ELSE IF AuthorityRank(left) < AuthorityRank(right) THEN left ELSE right

ResolveContextConflict(left, right) ==
  IF left = right THEN left
  ELSE IF {left, right} = {"task_and_project_contract", "security_hard_runtime"}
  THEN "security_hard_runtime"
  ELSE IF AuthorityRank(left) < AuthorityRank(right) THEN left ELSE right

\* What is planned meets another source: memory only if it was recalled.
Conflict(source) ==
  /\ phase = "planned" /\ plan.action = "ready" /\ source \notin seen
  /\ source = "advisory_memory" => plan.memory = "recall"
  /\ source = "skill_procedure" => selected # <<>>
  /\ seen' = seen \cup {source}
  /\ winner' = IF seen = {} THEN source ELSE ResolveContextConflict(winner, source)
  /\ UNCHANGED <<arguments, requested, selected, unresolved, phase, plan>>

Init ==
  /\ worker \in Workers /\ catalog \in Catalogs /\ required \in RequiredClasses
  /\ recall \in RecallInputs /\ contract_present \in BOOLEAN
  /\ requested \in Requests
  /\ selected = <<>> /\ unresolved = {}
  /\ phase = "request"
  /\ plan = [action |-> "none", skills |-> "none", memory |-> "none"]
  /\ seen = {} /\ winner = "none"

Next ==
  \/ Request \/ Requested \/ Pick \/ SelectContextPlan
  \/ \E source \in Range(ContextAuthority) : Conflict(source)

Spec == Init /\ [][Next]_vars

-----------------------------------------------------------------------------
TypeOK ==
  /\ Range(selected) \subseteq {id \in DOMAIN catalog : Compatible(id)}
  /\ Len(selected) = Cardinality(Range(selected))
  /\ phase \in {"request", "cover", "planned"}
  /\ plan.memory \in {"none", "recall", "skip_recall"}
  /\ winner \in Range(ContextAuthority) \cup {"none"}

(***************************************************************************)
(* Greed does not miss: the skills are ready exactly when what was asked   *)
(* for is to be had and some compatible skills cover what is required.     *)
(***************************************************************************)
ReadyIffResolvable ==
  phase = "planned" =>
    (plan.skills = "ready") <=>
       /\ unresolved = {}
       /\ \A class \in required :
            \E id \in DOMAIN catalog : Compatible(id) /\ class \in catalog[id].covers

(***************************************************************************)
(* In whatever order sources conflict, the word that stands is that of the *)
(* highest authority: no memory or skill overrides the contract, by way of *)
(* a third source either.                                                  *)
(***************************************************************************)
AuthorityStands ==
  \A source \in seen : AuthorityRank(winner) <= AuthorityRank(source)

(***************************************************************************)
(* REF-05-context-skill.md: the smallest compatible set of skills covers   *)
(* the required classes.                                                   *)
(***************************************************************************)
SelectsSmallest ==
  phase = "planned" /\ plan.skills = "ready" =>
    \A ids \in SUBSET {id \in DOMAIN catalog : Compatible(id)} :
      required \subseteq Covered(ids) => Cardinality(ids) >= Len(selected)
=============================================================================
