--------------------------- MODULE TaskCheckpoint ---------------------------
(***************************************************************************)
(* The durable task checkpoint of src/supervisor-policy/                   *)
(* task-continuation.mjs: the record the Supervisor owns, the validation   *)
(* that every reader and writer applies to it and the whole-section update *)
(* that makes the next revision.                                           *)
(*                                                                         *)
(* Nested sections are flattened (last_execution.worker_id is worker_id).  *)
(* The three reference lists, which the code treats alike, are one set.    *)
(* Fields that no operation of the recovery path reads (goal, phase,       *)
(* constraint items, cursor, semantic progress, native status) are left    *)
(* out. A workspace is a tree (path and commit) and an optional branch.    *)
(***************************************************************************)
EXTENDS Naturals, FiniteSets

CONSTANTS
  Tasks,          \* task identities
  WorkerIds,      \* every worker name a checkpoint may hold
  Workers,        \* the worker names routing supports: WORKERS in policy.mjs
  Sessions,       \* native session identities the Bridges may hand out
  Gates,          \* gates of a task
  Refs,           \* evidence, receipt and handoff references
  Trees,          \* workspace path and commit
  Branches,       \* workspace branches
  None,           \* null
  MaxSafeInteger  \* the largest integer validation accepts

ASSUME CheckpointAssumption ==
  /\ Workers \subseteq WorkerIds
  /\ None \notin WorkerIds \cup Sessions \cup Gates \cup Branches
  /\ MaxSafeInteger \in Nat

TaskStatuses == {"open", "blocked", "awaiting_approval", "completed", "cancelled"}
ApprovalStatuses == {"not_required", "pending", "approved", "rejected"}
Workspaces == [tree : Trees, branch : Branches \cup {None}]

(***************************************************************************)
(* What the fields of a checkpoint may hold, before validation relates     *)
(* them to one another.                                                    *)
(***************************************************************************)
Checkpoints ==
  [revision : Nat, task_id : Tasks, status : TaskStatuses,
   completed : SUBSET Gates, open : SUBSET Gates,
   workspace : Workspaces, approval : ApprovalStatuses, refs : SUBSET Refs,
   worker_id : WorkerIds \cup {None}, native_session_id : Sessions \cup {None},
   gate_id : Gates \cup {None}, retry_count : Nat, safe_to_resume : BOOLEAN]

(***************************************************************************)
(* validateTaskCheckpoint, as the condition under which it does not throw. *)
(***************************************************************************)
ValidTaskCheckpoint(c) ==
  /\ c.revision <= MaxSafeInteger
  /\ c.retry_count <= MaxSafeInteger
  /\ c.completed \cap c.open = {}

\* Mutant: only a change of the execution makes a new revision.
UpdateKeepingRevision(previous, patched) ==
  LET changed == patched.native_session_id # previous.native_session_id
      next == [patched EXCEPT !.revision =
                 previous.revision + (IF changed THEN 1 ELSE 0)]
  IN  {c \in {next} : ValidTaskCheckpoint(c)}

(***************************************************************************)
(* updateTaskCheckpoint(previous, changes): patched is previous with the   *)
(* sections of the patch replaced, and the revision always advances. The   *)
(* result is a set, empty when the final validation throws.                *)
(***************************************************************************)
UpdateTaskCheckpoint(previous, patched) ==
  LET next == [patched EXCEPT !.revision = previous.revision + 1]
  IN  {c \in {next} : ValidTaskCheckpoint(c)}

ApprovalBlocks(c) == c.approval \in {"pending", "rejected"}
=============================================================================
