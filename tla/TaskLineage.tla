---------------------------- MODULE TaskLineage ----------------------------
(***************************************************************************)
(* What recovery promises, with no plans, claims, revisions or Hosts: a    *)
(* task is owned by one execution at a time. Recovery hands it, in one     *)
(* step, to a session that was never used before, of the same worker or    *)
(* of one that never had the task, only while the task may be resumed and  *)
(* the retry budget lasts, and touches nothing else of the task.           *)
(***************************************************************************)
EXTENDS Naturals

CONSTANTS
  Tasks, Workers, Sessions, None,
  Materials,   \* the durable state of a task other than who executes it
  Resumable,   \* the materials a task may be recovered with
  Budget       \* recoveries between two resets of the retry count

VARIABLES
  owner,       \* owner[t]: the execution that has task t, or None
  past,        \* past[t]: every execution that ever had task t
  spent,       \* spent[t]: retry count
  material     \* material[t]: durable task material

vars == <<owner, past, spent, material>>

Executions == [worker : Workers, session : Sessions]

Fresh(session) == \A t \in Tasks : \A x \in past[t] : x.session # session

Install(t, x) ==
  /\ Fresh(x.session)
  /\ owner' = [owner EXCEPT ![t] = x]
  /\ past' = [past EXCEPT ![t] = @ \cup {x}]
  /\ UNCHANGED material

Begin(t, x) ==
  /\ owner[t] = None
  /\ Install(t, x)
  /\ UNCHANGED spent

Recover(t, x) ==
  /\ owner[t] # None
  /\ material[t] \in Resumable
  /\ spent[t] < Budget
  /\ x.worker = owner[t].worker \/ \A y \in past[t] : y.worker # x.worker
  /\ Install(t, x)
  /\ spent' = [spent EXCEPT ![t] = @ + 1]

\* The Supervisor changes the material and may reset the retry count.
Edit(t) ==
  /\ material'[t] \in Materials
  /\ material' = [material EXCEPT ![t] = material'[t]]
  /\ spent' \in {spent, [spent EXCEPT ![t] = 0]}
  /\ UNCHANGED <<owner, past>>

Init ==
  /\ owner = [t \in Tasks |-> None]
  /\ past = [t \in Tasks |-> {}]
  /\ spent = [t \in Tasks |-> 0]
  /\ material \in [Tasks -> Materials]

Next == \E t \in Tasks :
  \/ \E x \in Executions : Begin(t, x) \/ Recover(t, x)
  \/ Edit(t)

Spec == Init /\ [][Next]_vars
=============================================================================
