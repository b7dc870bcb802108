--------------------------- MODULE ArchifyDelivery ---------------------------
(***************************************************************************)
(* scripts/archify-safe.mjs: wrapper processes that deliver to one final   *)
(* path at the same time, the Archify runtime each of them spawns, and a   *)
(* world that edits the specification, replaces the runtime and takes the  *)
(* final path. A wrapper stops at every await, and may crash there.        *)
(* Candidate names hold the process id and 72 random bits: each delivery   *)
(* has a candidate path of its own.                                        *)
(***************************************************************************)
EXTENDS DeliveryRequest

CONSTANTS
  Deliveries,  \* the wrapper processes
  Nobody,      \* who made a file that is not an artifact
  Requests,    \* the requests they are started with
  Runtimes,    \* what the owner installs at the runtime path
  Walks,       \* the directories the run may start with
  MaxEdits     \* bound on what the world changes

ASSUME DeliveryAssumption ==
  /\ Nobody \notin Deliveries
  /\ Requests \subseteq Request
  /\ Runtimes \subseteq Runtime
  /\ \A walk \in Walks : walk \in Seq(Component) /\ IsWalk(walk)
  /\ MaxEdits \in Nat \ {0}

VARIABLES
  spec,       \* version of the specification file, 0 when there is none
  runtime,    \* what is at the runtime path
  walk,       \* the directories above the final path
  final,      \* what is at the final path
  candidate,  \* candidate[d]: what is at the candidate path of d
  run,        \* run[d]: the local variables of runDeliver
  receipts,   \* receipts printed
  doctor,     \* the last doctor report
  edits       \* changes by the world so far, the versions of spec

vars == <<spec, runtime, walk, final, candidate, run, receipts, doctor, edits>>

(***************************************************************************)
(* A file: its form, the delivery whose runtime wrote it and the version   *)
(* of the specification it was made from. "html" passes the basic check;   *)
(* "partial" is a candidate the runtime has not finished. A candidate that *)
(* is Stuck makes the wrapper throw where nothing catches: one that cannot *)
(* be read, and a directory, which rm does not remove.                     *)
(***************************************************************************)
Stuck == {"unreadable", "directory"}
BadForms == {"absent", "text", "empty", "link"} \cup Stuck
Forms == BadForms \cup {"html", "partial"}
Files == [form : Forms, by : Deliveries \cup {Nobody}, spec : Nat]
NoFile == [form |-> "absent", by |-> Nobody, spec |-> 0]
Foreign == {[NoFile EXCEPT !.form = form] : form \in {"absent", "directory", "link"}}
Artifacts == {file \in Files : file.form = "html" /\ file.by # Nobody}

Phases == {"idle", "validated", "ready", "rendering", "exited", "checked",
           "promoted", "done", "failed", "crashed", "lost"}
Codes == {"", "runtime_unavailable", "runtime_version_mismatch", "type_invalid",
          "output_name_invalid", "spec_invalid", "artifact_root_invalid",
          "final_not_replaceable", "child_spawn_failed", "child_failed",
          "candidate_missing", "candidate_invalid", "candidate_not_html",
          "promotion_failed", "internal_error"}

Run == [phase : Phases, code : Codes, identity : {"unknown", "verified", "unverified", "mismatch"},
        spec : Nat, exit : {0, 1}, digest : Files, at : Nat]
NewRun == [phase |-> "idle", code |-> "", identity |-> "unknown",
           spec |-> 0, exit |-> 0, digest |-> NoFile, at |-> 0]

Receipt == [by : Deliveries, identity : {"verified", "unverified"}, spec : Nat, artifact : Files]

Refused == {d \in Deliveries : run[d].phase \in {"failed", "crashed"}}
Ended == {d \in Deliveries : run[d].phase \in {"done", "failed", "crashed", "lost"}}

Failed(d, code) == run' = [run EXCEPT ![d].phase = "failed", ![d].code = code]
Removed(d) == candidate' = [candidate EXCEPT ![d] = NoFile]

-----------------------------------------------------------------------------
\* Mutant: the directories are made first.
BeginMakingParents(d, request) ==
  /\ run[d].phase = "idle"
  /\ walk' = ParentsMade(walk)
  /\ LET error == RequestError(runtime, request, spec)
     IN  run' = [run EXCEPT ![d].phase = IF error = "" THEN "validated" ELSE "failed",
                            ![d].code = error]
  /\ UNCHANGED <<spec, runtime, final, candidate, receipts, doctor, edits>>

\* The checks of the request, and the digest of the specification.
Begin(d, request) ==
  /\ run[d].phase = "idle"
  /\ LET error == RequestError(runtime, request, spec)
     IN  run' = [run EXCEPT
           ![d].phase = IF error = "" THEN "validated" ELSE "failed",
           ![d].code = error,
           ![d].at = edits,
           ![d].identity = IF error = "" THEN RuntimeIdentity(runtime) ELSE @,
           ![d].spec = IF error = "" THEN spec ELSE @]
  /\ UNCHANGED <<spec, runtime, walk, final, candidate, receipts, doctor, edits>>

\* resolveArtifactRoot, resolveFinalPath and assertFinalReplaceable. The link that leaves
\* the root may be on the way to it or on the way from it to the file.
ResolvePaths(d) ==
  /\ run[d].phase = "validated"
  /\ \/ /\ LeavesRoot(walk)
        /\ \E code \in {"artifact_root_invalid", "output_name_invalid"} : Failed(d, code)
        /\ UNCHANGED walk
     \/ /\ ~LeavesRoot(walk)
        /\ ~CanMakeParents(walk)
        /\ Failed(d, "internal_error")
        /\ UNCHANGED walk
     \/ /\ ~LeavesRoot(walk)
        /\ CanMakeParents(walk)
        /\ walk' = ParentsMade(walk)
        /\ IF final.form \in {"link", "directory"}
           THEN Failed(d, "final_not_replaceable")
           ELSE run' = [run EXCEPT ![d].phase = "ready"]
  /\ UNCHANGED <<spec, runtime, final, candidate, receipts, doctor, edits>>

\* runChild: the runtime starts on the specification as it is now.
Spawn(d) ==
  /\ run[d].phase = "ready"
  /\ \/ /\ ~RuntimeAvailable(runtime)
        /\ Failed(d, "child_spawn_failed")
        /\ Removed(d)
     \/ /\ RuntimeAvailable(runtime)
        /\ run' = [run EXCEPT ![d].phase = "rendering"]
        /\ candidate' = [candidate EXCEPT ![d] =
                           [form |-> "partial", by |-> d, spec |-> spec]]
  /\ UNCHANGED <<spec, runtime, walk, final, receipts, doctor, edits>>

\* The runtime, for which nothing is taken for granted: it may exit 0 over a
\* bad candidate and exit 1 over a good one.
ChildExits(d, exit, form) ==
  /\ run[d].phase = "rendering"
  /\ (candidate[d].spec = 0) => exit = 1
  /\ run' = [run EXCEPT ![d].phase = "exited", ![d].exit = exit]
  /\ candidate' = [candidate EXCEPT ![d] =
                     IF form = "absent" THEN NoFile ELSE [@ EXCEPT !.form = form]]
  /\ UNCHANGED <<spec, runtime, walk, final, receipts, doctor, edits>>

\* Mutant: the exit code alone decides.
InspectExit(d) ==
  /\ run[d].phase = "exited"
  /\ IF run[d].exit # 0
     THEN Failed(d, "child_failed") /\ Removed(d)
     ELSE /\ run' = [run EXCEPT ![d].phase = "checked", ![d].digest = candidate[d]]
          /\ UNCHANGED candidate
  /\ UNCHANGED <<spec, runtime, walk, final, receipts, doctor, edits>>

\* Mutant: a candidate that is not HTML is left behind.
InspectLeaving(d) ==
  /\ run[d].phase = "exited"
  /\ \/ /\ run[d].exit = 0 /\ candidate[d].form = "html"
        /\ run' = [run EXCEPT ![d].phase = "checked", ![d].digest = candidate[d]]
     \/ /\ ~(run[d].exit = 0 /\ candidate[d].form = "html")
        /\ Failed(d, "candidate_not_html")
  /\ UNCHANGED <<spec, runtime, walk, final, candidate, receipts, doctor, edits>>

\* Mutant: a runtime that exits 0 without a candidate is waited for.
InspectWaiting(d) ==
  /\ run[d].phase = "exited"
  /\ candidate[d].form # "absent"
  /\ InspectLeaving(d)

\* The exit code, the candidate's kind and size, its digest and the check of
\* its content. The error of a directory's removal, whatever the exit code, and
\* of a candidate that cannot be read end the wrapper with the candidate there.
Inspect(d) ==
  /\ run[d].phase = "exited"
  /\ \/ /\ \/ candidate[d].form = "directory"
           \/ run[d].exit = 0 /\ candidate[d].form = "unreadable"
        /\ Failed(d, "internal_error")
        /\ UNCHANGED candidate
     \/ /\ run[d].exit # 0
        /\ candidate[d].form # "directory"
        /\ Failed(d, "child_failed")
        /\ Removed(d)
     \/ /\ run[d].exit = 0
        /\ candidate[d].form = "absent"
        /\ Failed(d, "candidate_missing")
        /\ UNCHANGED candidate
     \/ /\ run[d].exit = 0
        /\ candidate[d].form \in {"link", "empty"}
        /\ Failed(d, "candidate_invalid")
        /\ Removed(d)
     \/ /\ run[d].exit = 0
        /\ candidate[d].form = "text"
        /\ Failed(d, "candidate_not_html")
        /\ Removed(d)
     \/ /\ run[d].exit = 0
        /\ candidate[d].form = "html"
        /\ run' = [run EXCEPT ![d].phase = "checked", ![d].digest = candidate[d]]
        /\ UNCHANGED candidate
  /\ UNCHANGED <<spec, runtime, walk, final, receipts, doctor, edits>>

\* Mutant: the old artifact is unlinked before the candidate is moved.
PromoteUnlinking(d) ==
  /\ run[d].phase = "checked"
  /\ IF final.form # "absent"
     THEN /\ final' = NoFile
          /\ UNCHANGED <<run, candidate>>
     ELSE /\ final' = candidate[d]
          /\ run' = [run EXCEPT ![d].phase = "promoted"]
          /\ Removed(d)
  /\ UNCHANGED <<spec, runtime, walk, receipts, doctor, edits>>

\* rename: it replaces a file or a link, and fails on a directory.
Promote(d) ==
  /\ run[d].phase = "checked"
  /\ Removed(d)
  /\ \/ /\ final.form = "directory"
        /\ Failed(d, "promotion_failed")
        /\ UNCHANGED final
     \/ /\ final.form # "directory"
        /\ final' = candidate[d]
        /\ run' = [run EXCEPT ![d].phase = "promoted"]
  /\ UNCHANGED <<spec, runtime, walk, receipts, doctor, edits>>

\* Mutant: the specification is digested for the receipt.
ReportSpecNow(d) ==
  /\ run[d].phase = "promoted"
  /\ receipts' = receipts \cup {[by |-> d, identity |-> run[d].identity,
                                 spec |-> spec, artifact |-> run[d].digest]}
  /\ run' = [run EXCEPT ![d].phase = "done"]
  /\ UNCHANGED <<spec, runtime, walk, final, candidate, doctor, edits>>

\* The receipt.
Report(d) ==
  /\ run[d].phase = "promoted"
  /\ receipts' = receipts \cup {[by |-> d, identity |-> run[d].identity,
                                 spec |-> run[d].spec, artifact |-> run[d].digest]}
  /\ run' = [run EXCEPT ![d].phase = "done"]
  /\ UNCHANGED <<spec, runtime, walk, final, candidate, doctor, edits>>

-----------------------------------------------------------------------------
\* The wrapper dies between two steps. A runtime it leaves behind goes on.
Crash(d, form) ==
  /\ run[d].phase \notin {"idle", "done", "failed", "crashed", "lost"}
  /\ run' = [run EXCEPT ![d].phase = IF @ = "promoted" THEN "lost" ELSE "crashed"]
  /\ candidate' = [candidate EXCEPT ![d] =
       IF run[d].phase = "rendering" /\ form # "absent" THEN [@ EXCEPT !.form = form] ELSE @]
  /\ UNCHANGED <<spec, runtime, walk, final, receipts, doctor, edits>>

Doctor ==
  /\ doctor' = [ok |-> DoctorOk(runtime), at |-> edits]
  /\ UNCHANGED <<spec, runtime, walk, final, candidate, run, receipts, edits>>

EditSpec(version) ==
  /\ spec' = version
  /\ UNCHANGED <<runtime, final>>

ReplaceRuntime ==
  /\ runtime' \in Runtimes
  /\ UNCHANGED <<spec, final>>

OccupyFinal ==
  /\ final' \in Foreign
  /\ UNCHANGED <<spec, runtime>>

\* The owner, editors and other programs.
World ==
  /\ edits < MaxEdits
  /\ edits' = edits + 1
  /\ EditSpec(0) \/ EditSpec(edits + 1) \/ ReplaceRuntime \/ OccupyFinal
  /\ UNCHANGED <<walk, candidate, run, receipts, doctor>>

Init ==
  /\ spec = 1
  /\ runtime \in Runtimes
  /\ walk \in Walks
  /\ final \in Foreign
  /\ candidate = [d \in Deliveries |-> NoFile]
  /\ run = [d \in Deliveries |-> NewRun]
  /\ receipts = {}
  /\ doctor = [ok |-> FALSE, at |-> 0]
  /\ edits = 1

Wrapper(d) == ResolvePaths(d) \/ Spawn(d) \/ Inspect(d) \/ Promote(d) \/ Report(d)
ChildSettles(d) == \E exit \in {0, 1}, form \in BadForms \cup {"html"} : ChildExits(d, exit, form)

Next ==
  \/ \E d \in Deliveries :
       \/ \E request \in Requests : Begin(d, request)
       \/ Wrapper(d)
       \/ ChildSettles(d)
       \/ \E form \in {"absent", "partial", "html"} : Crash(d, form)
  \/ Doctor
  \/ World

Spec == Init /\ [][Next]_vars

\* A wrapper takes its next step, and the runtime it started exits: runChild
\* has no timeout, so the second is an assumption about Archify.
Fairness ==
  \A d \in Deliveries : WF_vars(Wrapper(d)) /\ WF_vars(ChildSettles(d))

FairSpec == Spec /\ Fairness

-----------------------------------------------------------------------------
TypeOK ==
  /\ spec \in Nat
  /\ runtime \in Runtimes
  /\ walk \in Seq(Component) /\ IsWalk(walk)
  /\ final \in Files
  /\ candidate \in [Deliveries -> Files]
  /\ run \in [Deliveries -> Run]
  /\ receipts \subseteq Receipt
  /\ doctor \in [ok : BOOLEAN, at : Nat]
  /\ edits \in Nat

(***************************************************************************)
(* Whatever wrappers crash, runtimes misbehave or others write, the final  *)
(* path never shows a wrapper's unfinished or refused candidate (archify   *)
(* README "Replacement policy").                                           *)
(***************************************************************************)
FinalIsWhole == final \in Foreign \cup Artifacts

(***************************************************************************)
(* A receipt carries the artifact its own delivery put in place, made from *)
(* the specification it digests or a later one, never an earlier one: the  *)
(* digest is taken before the runtime reads the file.                      *)
(***************************************************************************)
ReceiptsAreTrue ==
  \A r \in receipts :
    /\ r.artifact \in Artifacts
    /\ r.artifact.by = r.by
    /\ r.spec <= r.artifact.spec

(***************************************************************************)
(* A wrapper that succeeded or ended by an error leaves no candidate       *)
(* beside the final path (archify-safe.test.mjs tests 9 and 10), but one   *)
(* that it could not read or could not remove, and that error it reports   *)
(* as internal.                                                            *)
(***************************************************************************)
NoStrayCandidate ==
  \A d \in Deliveries :
    run[d].phase \in {"done", "failed"} =>
      \/ candidate[d] = NoFile
      \/ run[d].code = "internal_error" /\ candidate[d].form \in Stuck

(***************************************************************************)
(* deliver and doctor read the runtime by the same rules: a delivery that  *)
(* starts while nothing changed since a doctor's report is refused for its *)
(* runtime if and only if that report was not ok.                          *)
(***************************************************************************)
DoctorForetells ==
  \A d \in Deliveries :
    run[d].phase # "idle" /\ doctor.at = run[d].at =>
      (doctor.ok <=>
         run[d].code \notin {"runtime_unavailable", "runtime_version_mismatch"})

(***************************************************************************)
(* Nothing is created before the request, the runtime and the              *)
(* specification passed (archify-safe.mjs:445, tests 2 and 11): no         *)
(* directory before those of some delivery, no candidate before its own.   *)
(***************************************************************************)
Passed(d) == run[d].identity \in {"verified", "unverified"} /\ run[d].spec > 0

RefusedRequestCreatesNothing ==
  [][/\ walk' # walk => \E d \in Deliveries : Passed(d)
     /\ \A d \in Deliveries : candidate'[d] # candidate[d] => Passed(d)]_vars

(***************************************************************************)
(* Each delivery replaces the artifact in one step or not at all, and      *)
(* reports only what it placed: the wrappers implement ArtifactRegister.   *)
(***************************************************************************)
Register == INSTANCE ArtifactRegister WITH
  NoArtifact <- NoFile,
  promoted <- [d \in Deliveries |->
                 IF run[d].phase \in {"promoted", "done", "lost"} THEN run[d].digest ELSE NoFile],
  refused <- Refused,
  receipts <- {<<r.by, r.artifact>> : r \in receipts},
  others <- edits

DeliversAtomically == Register!Spec

(***************************************************************************)
(* A delivery that began ends, with a receipt, an error or a crash.        *)
(***************************************************************************)
DeliveryEnds == \A d \in Deliveries : run[d].phase # "idle" ~> d \in Ended

(***************************************************************************)
(* artifact-production-contract.v0.json, runtimeGate.failClosedIf: a       *)
(* delivery of a runtime whose identity is not verified is refused.        *)
(***************************************************************************)
PromotesOnlyVerified ==
  \A d \in Deliveries :
    run[d].phase \in {"promoted", "done", "lost"} => run[d].identity = "verified"
=============================================================================
