------------------------ MODULE ArchifyDelivery_proofs ------------------------
(***************************************************************************)
(* Proofs about ArchifyDelivery for any number of wrappers, any requests,  *)
(* runtimes and directories. IInv adds to the type invariant what each     *)
(* wrapper knows of its candidate at each phase, and that a specification  *)
(* never gets older.                                                       *)
(***************************************************************************)
EXTENDS ArchifyDelivery, TLAPS

\* What a candidate is to the delivery that digests or promotes it.
WholeFor(d, file) ==
  /\ file \in Artifacts
  /\ file.by = d
  /\ run[d].spec <= file.spec

Rendered(d) ==
  /\ candidate[d].by = d
  /\ candidate[d].spec = 0 \/ run[d].spec <= candidate[d].spec

PhaseInv(d) ==
  /\ run[d].phase \notin {"idle", "failed", "crashed"} =>
       run[d].identity \in {"verified", "unverified"}
  /\ run[d].phase \in {"idle", "validated", "ready", "promoted", "done"} =>
       candidate[d] = NoFile
  /\ run[d].phase = "failed" =>
       \/ candidate[d] = NoFile
       \/ run[d].code = "internal_error" /\ candidate[d].form \in Stuck
  /\ run[d].phase = "rendering" => Rendered(d) /\ candidate[d].form = "partial"
  /\ run[d].phase = "exited" =>
       \/ candidate[d] = NoFile
       \/ /\ Rendered(d)
          /\ candidate[d].form # "absent"
          /\ run[d].exit = 0 => candidate[d].spec # 0
  /\ run[d].phase = "exited" => candidate[d].form \in BadForms \cup {"html"}
  /\ run[d].phase = "checked" =>
       WholeFor(d, candidate[d]) /\ run[d].digest = candidate[d]
  /\ run[d].phase \in {"promoted", "done", "lost"} => WholeFor(d, run[d].digest)
  /\ run[d].spec <= edits
  /\ spec = 0 \/ run[d].spec <= spec

IInv ==
  /\ TypeOK
  /\ spec <= edits
  /\ \A d \in Deliveries : PhaseInv(d)
  /\ FinalIsWhole
  /\ ReceiptsAreTrue

-----------------------------------------------------------------------------
(***************************************************************************)
(* The helpers of DeliveryRequest.                                         *)
(***************************************************************************)
LEMMA IdentityType ==
  ASSUME NEW r
  PROVE  RuntimeIdentity(r) \in {"verified", "unverified", "mismatch"}
BY DEF RuntimeIdentity

\* A request without an error names a specification and an accepted runtime.
LEMMA RequestErrorType ==
  ASSUME NEW r, NEW request, NEW version
  PROVE  /\ RequestError(r, request, version) \in Codes
         /\ RequestError(r, request, version) # "internal_error"
         /\ RequestError(r, request, version) = "" =>
              version # 0 /\ RuntimeIdentity(r) \in {"verified", "unverified"}
BY IdentityType DEF RequestError, Codes

\* Making the missing directories keeps a walk a walk.
LEMMA ParentsMadeType ==
  ASSUME NEW w \in Seq(Component)
  PROVE  ParentsMade(w) \in Seq(Component) /\ IsWalk(ParentsMade(w))
<1>1. \A i \in 1..Len(w) : w[i] \in Component
  OBVIOUS
<1>2. ParentsMade(w) = [i \in 1..Len(w) |-> IF w[i] = "missing" THEN "directory" ELSE w[i]]
  BY DEF ParentsMade
<1>3. ParentsMade(w) \in [1..Len(w) -> Component]
  BY <1>1, <1>2 DEF Component
<1>4. ParentsMade(w) \in Seq(Component)
  BY <1>3, Len(w) \in Nat
<1>5. \A i \in DOMAIN ParentsMade(w) : ParentsMade(w)[i] # "missing"
  BY <1>1, <1>2
<1> QED BY <1>4, <1>5 DEF IsWalk

LEMMA FilesFacts ==
  /\ NoFile \in Files
  /\ Foreign \subseteq Files
  /\ NoFile \in Foreign
  /\ NoFile \notin Artifacts
  /\ NoFile.form = "absent"
<1>1. NoFile \in Files /\ NoFile.form = "absent"
  BY DEF NoFile, Files, Forms, BadForms, Stuck
<1>2. \A form \in {"absent", "directory", "link"} : [NoFile EXCEPT !.form = form] \in Files
  BY DEF NoFile, Files, Forms, BadForms, Stuck
<1>3. [NoFile EXCEPT !.form = "absent"] = NoFile
  BY DEF NoFile
<1> QED BY <1>1, <1>2, <1>3 DEF Foreign, Artifacts

-----------------------------------------------------------------------------
(***************************************************************************)
(* Framing: what a step of one wrapper leaves alone.                       *)
(***************************************************************************)
LEMMA OtherKept ==
  ASSUME NEW e, PhaseInv(e), run'[e] = run[e], candidate'[e] = candidate[e],
         spec' = spec, edits' = edits
  PROVE  PhaseInv(e)'
BY DEF PhaseInv, Rendered, WholeFor

LEMMA FailedFacts ==
  ASSUME TypeOK, NEW d \in Deliveries, NEW code \in Codes, Failed(d, code)
  PROVE  /\ run' \in [Deliveries -> Run]
         /\ run'[d].phase = "failed" /\ run'[d].code = code
         /\ run'[d].spec = run[d].spec /\ run'[d].identity = run[d].identity
         /\ \A e \in Deliveries \ {d} : run'[e] = run[e]
<1>1. run \in [Deliveries -> Run]
  BY DEF TypeOK
<1>2. "failed" \in Phases
  BY DEF Phases
<1>3. run' = [run EXCEPT ![d] = [run[d] EXCEPT !.phase = "failed", !.code = code]]
  BY <1>1 DEF Failed
<1>4. [run[d] EXCEPT !.phase = "failed", !.code = code] \in Run
  BY <1>1, <1>2 DEF Run
<1> QED BY <1>1, <1>3, <1>4 DEF Run

LEMMA RemovedFacts ==
  ASSUME TypeOK, NEW d \in Deliveries, Removed(d)
  PROVE  /\ candidate' \in [Deliveries -> Files]
         /\ candidate'[d] = NoFile
         /\ \A e \in Deliveries \ {d} : candidate'[e] = candidate[e]
BY FilesFacts DEF TypeOK, Removed

\* A wrapper that fails with its candidate gone satisfies what it must.
LEMMA FailedInv ==
  ASSUME IInv, NEW d \in Deliveries, NEW code \in Codes, Failed(d, code),
         candidate'[d] = NoFile \/ (code = "internal_error" /\ candidate'[d].form \in Stuck),
         \A e \in Deliveries \ {d} : candidate'[e] = candidate[e],
         spec' = spec, edits' = edits
  PROVE  \A e \in Deliveries : PhaseInv(e)'
<1>1. PhaseInv(d) /\ TypeOK
  BY DEF IInv
<1>2. run'[d].phase = "failed" /\ run'[d].code = code /\ run'[d].spec = run[d].spec
  BY <1>1, FailedFacts
<1>3. PhaseInv(d)'
  BY <1>1, <1>2 DEF PhaseInv
<1>4. ASSUME NEW e \in Deliveries \ {d}
      PROVE  PhaseInv(e)'
  <2>1. run'[e] = run[e]
    BY <1>1, FailedFacts
  <2> QED BY <2>1, OtherKept DEF IInv
<1> QED BY <1>3, <1>4

-----------------------------------------------------------------------------
(***************************************************************************)
(* IInv holds initially and every action preserves it.                     *)
(***************************************************************************)
LEMMA InitInv ==
  Init => IInv
<1> SUFFICES ASSUME Init PROVE IInv
  OBVIOUS
<1>1. final \in Files /\ FinalIsWhole
  BY FilesFacts DEF Init, FinalIsWhole
<1>2. NewRun \in Run
  BY FilesFacts DEF NewRun, Run, Phases, Codes
<1>3. TypeOK
  BY <1>1, <1>2, FilesFacts, DeliveryAssumption DEF Init, TypeOK
<1>4. ASSUME NEW d \in Deliveries
      PROVE  PhaseInv(d)
  <2>1. run[d].phase = "idle" /\ run[d].spec = 0 /\ candidate[d] = NoFile
    BY DEF Init, NewRun
  <2> QED BY <2>1 DEF PhaseInv, Init
<1>5. ReceiptsAreTrue
  BY DEF Init, ReceiptsAreTrue
<1> QED BY <1>1, <1>3, <1>4, <1>5 DEF IInv, Init

LEMMA BeginInv ==
  ASSUME IInv, NEW d \in Deliveries, NEW request \in Requests, Begin(d, request)
  PROVE  IInv'
<1> DEFINE error == RequestError(runtime, request, spec)
           new == [run[d] EXCEPT !.phase = IF error = "" THEN "validated" ELSE "failed",
                                 !.code = error,
                                 !.at = edits,
                                 !.identity = IF error = "" THEN RuntimeIdentity(runtime) ELSE @,
                                 !.spec = IF error = "" THEN spec ELSE @]
<1>1. TypeOK /\ PhaseInv(d) /\ FinalIsWhole /\ ReceiptsAreTrue /\ spec <= edits
  BY DEF IInv
<1>2. /\ error \in Codes
      /\ error = "" => spec # 0 /\ RuntimeIdentity(runtime) \in {"verified", "unverified"}
  BY RequestErrorType
<1>3. run \in [Deliveries -> Run] /\ run[d] \in Run
  BY <1>1 DEF TypeOK
<1>4. run' = [run EXCEPT ![d] = new]
  BY <1>3 DEF Begin
<1> HIDE DEF error
<1>5. (IF error = "" THEN "validated" ELSE "failed") \in Phases
  BY DEF Phases
<1>6. new \in Run
  BY <1>1, <1>2, <1>3, <1>5 DEF Run, TypeOK
<1>7. TypeOK'
  <2>1. run' \in [Deliveries -> Run]
    <3> HIDE DEF new
    <3> QED BY <1>3, <1>4, <1>6
  <2> QED BY <1>1, <2>1 DEF TypeOK, Begin
<1>8. PhaseInv(d)'
  <2>1. candidate'[d] = NoFile /\ spec' = spec /\ edits' = edits
    BY <1>1 DEF Begin, PhaseInv
  <2>2. run'[d] = new
    BY <1>3, <1>4
  <2>3. CASE error = ""
    <3>1. /\ run'[d].phase = "validated" /\ run'[d].spec = spec
          /\ run'[d].identity \in {"verified", "unverified"}
      BY <1>2, <1>3, <2>2, <2>3 DEF Run
    <3> QED BY <1>1, <2>1, <3>1 DEF PhaseInv, TypeOK
  <2>4. CASE error # ""
    <3>1. run'[d].phase = "failed" /\ run'[d].spec = run[d].spec
      BY <1>3, <2>2, <2>4 DEF Run
    <3> QED BY <1>1, <2>1, <3>1 DEF PhaseInv
  <2> QED BY <2>3, <2>4
<1>9. ASSUME NEW e \in Deliveries \ {d}
      PROVE  PhaseInv(e)'
  <2>1. run'[e] = run[e] /\ candidate'[e] = candidate[e] /\ spec' = spec /\ edits' = edits
    BY <1>3, <1>4 DEF Begin
  <2> QED BY <2>1, OtherKept DEF IInv
<1>10. FinalIsWhole' /\ ReceiptsAreTrue' /\ spec' <= edits'
  BY <1>1 DEF FinalIsWhole, ReceiptsAreTrue, Begin
<1> QED BY <1>7, <1>8, <1>9, <1>10 DEF IInv

LEMMA ResolvePathsInv ==
  ASSUME IInv, NEW d \in Deliveries, ResolvePaths(d)
  PROVE  IInv'
<1>1. TypeOK /\ PhaseInv(d) /\ FinalIsWhole /\ ReceiptsAreTrue /\ spec <= edits
  BY DEF IInv
<1>2. /\ candidate' = candidate /\ candidate[d] = NoFile /\ spec' = spec /\ edits' = edits
      /\ candidate \in [Deliveries -> Files]
  BY <1>1 DEF ResolvePaths, PhaseInv, TypeOK
<1>3. FinalIsWhole' /\ ReceiptsAreTrue' /\ spec' <= edits'
  BY <1>1 DEF FinalIsWhole, ReceiptsAreTrue, ResolvePaths
<1>4. walk' \in Seq(Component) /\ IsWalk(walk')
  BY <1>1, ParentsMadeType DEF ResolvePaths, TypeOK
<1>5. CASE \E code \in Codes : Failed(d, code)
  <2>1. PICK code \in Codes : Failed(d, code)
    BY <1>5
  <2>2. run' \in [Deliveries -> Run]
    BY <1>1, <2>1, FailedFacts
  <2>3. TypeOK'
    BY <1>1, <1>4, <2>2 DEF TypeOK, ResolvePaths
  <2>4. \A e \in Deliveries : PhaseInv(e)'
    BY <1>2, <2>1, FailedInv
  <2> QED BY <1>3, <2>3, <2>4 DEF IInv
<1>6. CASE run' = [run EXCEPT ![d].phase = "ready"]
  <2>1. run \in [Deliveries -> Run] /\ run[d].phase = "validated"
    BY <1>1 DEF TypeOK, ResolvePaths
  <2>2. [run[d] EXCEPT !.phase = "ready"] \in Run
    BY <2>1 DEF Run, Phases
  <2>3. run' \in [Deliveries -> Run] /\ run'[d] = [run[d] EXCEPT !.phase = "ready"]
    BY <1>6, <2>1, <2>2
  <2>4. TypeOK'
    BY <1>1, <1>4, <2>3 DEF TypeOK, ResolvePaths
  <2>5. /\ run'[d].phase = "ready" /\ run'[d].spec = run[d].spec
        /\ run'[d].identity = run[d].identity
    BY <2>1, <2>3 DEF Run
  <2>6. PhaseInv(d)'
    BY <1>1, <1>2, <2>1, <2>5 DEF PhaseInv
  <2>7. ASSUME NEW e \in Deliveries \ {d}
        PROVE  PhaseInv(e)'
    <3>1. run'[e] = run[e]
      BY <1>6, <2>1
    <3> QED BY <1>2, <3>1, OtherKept DEF IInv
  <2> QED BY <1>3, <2>4, <2>6, <2>7 DEF IInv
<1> QED BY <1>5, <1>6 DEF ResolvePaths, Codes

\* From "ready" on a step changes the wrapper's own state, its candidate, and
\* the final path or the receipts.
LEMMA OwnStep ==
  ASSUME IInv, NEW d \in Deliveries, NEW new \in Run,
         run' = [run EXCEPT ![d] = new],
         candidate' \in [Deliveries -> Files],
         \A e \in Deliveries \ {d} : candidate'[e] = candidate[e],
         UNCHANGED <<spec, runtime, walk, doctor, edits>>,
         final' \in Files, FinalIsWhole',
         receipts' \subseteq Receipt, ReceiptsAreTrue',
         PhaseInv(d)'
  PROVE  IInv'
<1>1. TypeOK /\ run \in [Deliveries -> Run]
  BY DEF IInv, TypeOK
<1>2. run' \in [Deliveries -> Run]
  BY <1>1
<1>3. TypeOK'
  BY <1>1, <1>2 DEF TypeOK
<1>4. ASSUME NEW e \in Deliveries \ {d}
      PROVE  PhaseInv(e)'
  <2>1. run'[e] = run[e]
    BY <1>1
  <2> QED BY <2>1, OtherKept DEF IInv
<1> QED BY <1>3, <1>4 DEF IInv

\* A wrapper that fails from "ready" on.
LEMMA FailedStep ==
  ASSUME IInv, NEW d \in Deliveries, NEW code \in Codes, Failed(d, code),
         \/ Removed(d)
         \/ /\ UNCHANGED candidate
            /\ candidate[d] = NoFile \/ (code = "internal_error" /\ candidate[d].form \in Stuck),
         UNCHANGED <<spec, runtime, walk, final, receipts, doctor, edits>>
  PROVE  IInv'
<1>1. TypeOK /\ FinalIsWhole /\ ReceiptsAreTrue /\ spec <= edits
  BY DEF IInv
<1>2. /\ candidate' \in [Deliveries -> Files]
      /\ candidate'[d] = NoFile \/ (code = "internal_error" /\ candidate'[d].form \in Stuck)
      /\ \A e \in Deliveries \ {d} : candidate'[e] = candidate[e]
  BY <1>1, RemovedFacts DEF TypeOK
<1>3. run' \in [Deliveries -> Run]
  BY <1>1, FailedFacts
<1>4. TypeOK'
  BY <1>1, <1>2, <1>3 DEF TypeOK
<1>5. \A e \in Deliveries : PhaseInv(e)'
  BY <1>2, FailedInv
<1>6. FinalIsWhole' /\ ReceiptsAreTrue' /\ spec' <= edits'
  BY <1>1 DEF FinalIsWhole, ReceiptsAreTrue
<1> QED BY <1>4, <1>5, <1>6 DEF IInv

LEMMA Framed ==
  ASSUME IInv, UNCHANGED <<final, receipts>>
  PROVE  /\ final' \in Files /\ FinalIsWhole'
         /\ receipts' \subseteq Receipt /\ ReceiptsAreTrue'
BY DEF IInv, TypeOK, FinalIsWhole, ReceiptsAreTrue

LEMMA SpawnInv ==
  ASSUME IInv, NEW d \in Deliveries, Spawn(d)
  PROVE  IInv'
<1>1. TypeOK /\ PhaseInv(d) /\ run \in [Deliveries -> Run] /\ run[d] \in Run
  BY DEF IInv, TypeOK
<1>2. CASE Failed(d, "child_spawn_failed") /\ Removed(d)
  BY <1>2, FailedStep DEF Spawn, Codes
<1>3. CASE /\ run' = [run EXCEPT ![d].phase = "rendering"]
           /\ candidate' = [candidate EXCEPT ![d] = [form |-> "partial", by |-> d, spec |-> spec]]
  <2> DEFINE new == [run[d] EXCEPT !.phase = "rendering"]
             file == [form |-> "partial", by |-> d, spec |-> spec]
  <2>1. new \in Run /\ run' = [run EXCEPT ![d] = new]
    BY <1>1, <1>3 DEF Run, Phases
  <2>2. file \in Files
    BY <1>1 DEF Files, Forms, TypeOK
  <2>3. /\ candidate' \in [Deliveries -> Files]
        /\ candidate'[d] = file
        /\ \A e \in Deliveries \ {d} : candidate'[e] = candidate[e]
    <3> HIDE DEF file
    <3> QED BY <1>1, <1>3, <2>2 DEF TypeOK, file
  <2>4. /\ run'[d].phase = "rendering" /\ run'[d].spec = run[d].spec
        /\ run'[d].identity = run[d].identity /\ run[d].phase = "ready"
    BY <1>1, <1>3 DEF Run, Spawn
  <2>5. PhaseInv(d)'
    BY <1>1, <2>3, <2>4 DEF PhaseInv, Rendered, Spawn
  <2> HIDE DEF new
  <2> QED BY <2>1, <2>3, <2>5, OwnStep, Framed DEF Spawn
<1> QED BY <1>2, <1>3 DEF Spawn

LEMMA ChildExitsInv ==
  ASSUME IInv, NEW d \in Deliveries, NEW exit \in {0, 1}, NEW form \in BadForms \cup {"html"},
         ChildExits(d, exit, form)
  PROVE  IInv'
<1> DEFINE new == [run[d] EXCEPT !.phase = "exited", !.exit = exit]
           file == IF form = "absent" THEN NoFile ELSE [candidate[d] EXCEPT !.form = form]
<1>1. /\ TypeOK /\ PhaseInv(d) /\ run[d].phase = "rendering"
      /\ run \in [Deliveries -> Run] /\ run[d] \in Run
      /\ candidate \in [Deliveries -> Files] /\ candidate[d] \in Files
  BY DEF IInv, TypeOK, ChildExits
<1>2. new \in Run /\ run' = [run EXCEPT ![d] = new]
  BY <1>1 DEF Run, Phases, ChildExits
<1>3. /\ file \in Files
      /\ \/ file = NoFile
         \/ form # "absent" /\ file.by = candidate[d].by /\ file.spec = candidate[d].spec
      /\ file.form = form
  BY <1>1, FilesFacts DEF Files, Forms
<1>4. candidate' = [candidate EXCEPT ![d] = file]
  BY <1>1 DEF ChildExits
<1>5. /\ candidate' \in [Deliveries -> Files]
      /\ candidate'[d] = file
      /\ \A e \in Deliveries \ {d} : candidate'[e] = candidate[e]
  <2> HIDE DEF file
  <2> QED BY <1>1, <1>3, <1>4
<1>6. /\ run'[d].phase = "exited" /\ run'[d].exit = exit /\ run'[d].spec = run[d].spec
      /\ run'[d].identity = run[d].identity
  BY <1>1, <1>2 DEF Run
<1>7. Rendered(d) /\ (candidate[d].spec = 0 => exit = 1) /\ UNCHANGED <<spec, edits>>
  BY <1>1 DEF PhaseInv, ChildExits
<1> HIDE DEF file
<1>8. /\ run[d].identity \in {"verified", "unverified"}
      /\ run[d].spec <= edits /\ (spec = 0 \/ run[d].spec <= spec)
  BY <1>1 DEF PhaseInv
<1> HIDE DEF new
<1>9. \/ candidate'[d] = NoFile
      \/ Rendered(d)' /\ candidate'[d].form # "absent" /\ (exit = 0 => candidate'[d].spec # 0)
  BY <1>3, <1>5, <1>6, <1>7 DEF Rendered
<1>10. PhaseInv(d)'
  BY <1>3, <1>5, <1>6, <1>7, <1>8, <1>9 DEF PhaseInv
<1> QED BY <1>2, <1>5, <1>10, OwnStep, Framed DEF ChildExits

LEMMA InspectInv ==
  ASSUME IInv, NEW d \in Deliveries, Inspect(d)
  PROVE  IInv'
<1>1. /\ TypeOK /\ PhaseInv(d) /\ run[d].phase = "exited"
      /\ run \in [Deliveries -> Run] /\ run[d] \in Run
      /\ candidate \in [Deliveries -> Files] /\ candidate[d] \in Files
  BY DEF IInv, TypeOK, Inspect
<1>2. CASE run[d].exit = 0 /\ candidate[d].form = "html"
  <2> DEFINE new == [run[d] EXCEPT !.phase = "checked", !.digest = candidate[d]]
  <2>1. /\ run' = [run EXCEPT ![d] = new]
        /\ UNCHANGED <<candidate, spec, edits>>
    BY <1>1, <1>2 DEF Inspect
  <2>2. new \in Run
    BY <1>1 DEF Run, Phases
  <2>3. /\ run'[d].phase = "checked" /\ run'[d].digest = candidate[d]
        /\ run'[d].spec = run[d].spec /\ run'[d].identity = run[d].identity
    BY <1>1, <2>1 DEF Run
  <2>4. Rendered(d) /\ candidate[d].spec # 0
    BY <1>1, <1>2, FilesFacts DEF PhaseInv
  <2>5. WholeFor(d, candidate[d])
    BY <1>1, <1>2, <2>4, DeliveryAssumption DEF WholeFor, Rendered, Artifacts
  <2>6. PhaseInv(d)'
    BY <1>1, <2>1, <2>3, <2>5 DEF PhaseInv, WholeFor
  <2> HIDE DEF new
  <2> QED BY <1>1, <2>1, <2>2, <2>6, OwnStep, Framed DEF Inspect
<1>3. CASE ~(run[d].exit = 0 /\ candidate[d].form = "html")
  <2>1. candidate[d].form = "absent" => candidate[d] = NoFile
    BY <1>1 DEF PhaseInv
  <2>2. UNCHANGED <<spec, runtime, walk, final, receipts, doctor, edits>>
    BY DEF Inspect
  <2>3. CASE Failed(d, "internal_error") /\ UNCHANGED candidate /\ candidate[d].form \in Stuck
    BY <2>2, <2>3, FailedStep DEF Codes
  <2>4. CASE Failed(d, "candidate_missing") /\ UNCHANGED candidate /\ candidate[d] = NoFile
    BY <2>2, <2>4, FailedStep DEF Codes
  <2>5. CASE \E code \in Codes : Failed(d, code) /\ Removed(d)
    BY <2>2, <2>5, FailedStep
  <2> QED BY <1>3, <2>1, <2>3, <2>4, <2>5 DEF Inspect, Codes, Stuck
<1> QED BY <1>2, <1>3

LEMMA PromoteInv ==
  ASSUME IInv, NEW d \in Deliveries, Promote(d)
  PROVE  IInv'
<1>1. /\ TypeOK /\ PhaseInv(d) /\ run[d].phase = "checked"
      /\ run \in [Deliveries -> Run] /\ run[d] \in Run
      /\ candidate \in [Deliveries -> Files] /\ candidate[d] \in Files
  BY DEF IInv, TypeOK, Promote
<1>2. CASE Failed(d, "promotion_failed") /\ UNCHANGED final
  BY <1>2, FailedStep DEF Promote, Codes
<1>3. CASE final' = candidate[d] /\ run' = [run EXCEPT ![d].phase = "promoted"]
  <2> DEFINE new == [run[d] EXCEPT !.phase = "promoted"]
  <2>1. new \in Run /\ run' = [run EXCEPT ![d] = new]
    BY <1>1, <1>3 DEF Run, Phases
  <2>2. /\ run'[d].phase = "promoted" /\ run'[d].digest = candidate[d]
        /\ run'[d].spec = run[d].spec /\ run'[d].identity = run[d].identity
    BY <1>1, <1>3 DEF Run, PhaseInv
  <2>3. WholeFor(d, candidate[d])
    BY <1>1 DEF PhaseInv
  <2>4. /\ candidate' \in [Deliveries -> Files] /\ candidate'[d] = NoFile
        /\ \A e \in Deliveries \ {d} : candidate'[e] = candidate[e]
    BY <1>1, RemovedFacts DEF Promote
  <2>5. PhaseInv(d)'
    BY <1>1, <2>2, <2>3, <2>4 DEF PhaseInv, WholeFor, Promote
  <2>6. final' \in Files /\ FinalIsWhole'
    BY <1>1, <1>3, <2>3 DEF FinalIsWhole, WholeFor
  <2>7. receipts' \subseteq Receipt /\ ReceiptsAreTrue'
    BY DEF Promote, IInv, TypeOK, ReceiptsAreTrue
  <2> HIDE DEF new
  <2> QED BY <2>1, <2>4, <2>5, <2>6, <2>7, OwnStep DEF Promote
<1> QED BY <1>2, <1>3 DEF Promote

LEMMA ReportInv ==
  ASSUME IInv, NEW d \in Deliveries, Report(d)
  PROVE  IInv'
<1> DEFINE new == [run[d] EXCEPT !.phase = "done"]
           receipt == [by |-> d, identity |-> run[d].identity,
                       spec |-> run[d].spec, artifact |-> run[d].digest]
<1>1. /\ TypeOK /\ PhaseInv(d) /\ run[d].phase = "promoted"
      /\ run \in [Deliveries -> Run] /\ run[d] \in Run
      /\ candidate \in [Deliveries -> Files] /\ candidate' = candidate
  BY DEF IInv, TypeOK, Report
<1>2. new \in Run /\ run' = [run EXCEPT ![d] = new]
  BY <1>1 DEF Run, Phases, Report
<1>3. /\ run'[d].phase = "done" /\ run'[d].digest = run[d].digest
      /\ run'[d].spec = run[d].spec /\ run'[d].identity = run[d].identity
  BY <1>1, <1>2 DEF Run
<1>4. WholeFor(d, run[d].digest) /\ run[d].identity \in {"verified", "unverified"}
  BY <1>1 DEF PhaseInv
<1>5. PhaseInv(d)'
  BY <1>1, <1>3, <1>4 DEF PhaseInv, WholeFor, Report
<1>6. receipt \in Receipt
  BY <1>1, <1>4 DEF Receipt, Run, WholeFor, Artifacts
<1>7. /\ receipt.artifact \in Artifacts
      /\ receipt.artifact.by = receipt.by
      /\ receipt.spec <= receipt.artifact.spec
  BY <1>4 DEF WholeFor
<1>8. receipts' = receipts \cup {receipt}
  BY DEF Report
<1> HIDE DEF receipt
<1>9. receipts' \subseteq Receipt /\ ReceiptsAreTrue'
  BY <1>1, <1>6, <1>7, <1>8 DEF IInv, TypeOK, ReceiptsAreTrue
<1>10. final' \in Files /\ FinalIsWhole'
  BY DEF Report, IInv, TypeOK, FinalIsWhole
<1> HIDE DEF new
<1> QED BY <1>1, <1>2, <1>5, <1>9, <1>10, OwnStep DEF Report

LEMMA CrashInv ==
  ASSUME IInv, NEW d \in Deliveries, NEW form \in {"absent", "partial", "html"}, Crash(d, form)
  PROVE  IInv'
<1> DEFINE new == [run[d] EXCEPT !.phase = IF @ = "promoted" THEN "lost" ELSE "crashed"]
           file == IF run[d].phase = "rendering" /\ form # "absent"
                   THEN [candidate[d] EXCEPT !.form = form] ELSE candidate[d]
<1>1. /\ TypeOK /\ PhaseInv(d)
      /\ run \in [Deliveries -> Run] /\ run[d] \in Run
      /\ candidate \in [Deliveries -> Files] /\ candidate[d] \in Files
  BY DEF IInv, TypeOK
<1>2. (IF run[d].phase = "promoted" THEN "lost" ELSE "crashed") \in Phases
  BY DEF Phases
<1>3. new \in Run
  BY <1>1, <1>2 DEF Run
<1>4. run' = [run EXCEPT ![d] = new]
  BY <1>1 DEF Crash
<1>5. /\ run'[d].phase = (IF run[d].phase = "promoted" THEN "lost" ELSE "crashed")
      /\ run'[d].digest = run[d].digest
      /\ run'[d].spec = run[d].spec /\ run'[d].identity = run[d].identity
  BY <1>1, <1>4 DEF Run
<1>6. file \in Files
  BY <1>1 DEF Files, Forms
<1>7. candidate' = [candidate EXCEPT ![d] = file]
  BY <1>1 DEF Crash
<1> HIDE DEF file
<1>8. /\ candidate' \in [Deliveries -> Files]
      /\ \A e \in Deliveries \ {d} : candidate'[e] = candidate[e]
  BY <1>1, <1>6, <1>7
<1>9. PhaseInv(d)'
  BY <1>1, <1>5 DEF PhaseInv, WholeFor, Crash
<1> HIDE DEF new
<1> QED BY <1>3, <1>4, <1>8, <1>9, OwnStep, Framed DEF Crash

LEMMA DoctorInv ==
  ASSUME IInv, Doctor
  PROVE  IInv'
<1>1. DoctorOk(runtime) \in BOOLEAN
  BY DEF DoctorOk, RuntimeAvailable
<1>2. TypeOK'
  BY <1>1 DEF IInv, TypeOK, Doctor
<1>3. \A d \in Deliveries : PhaseInv(d)'
  BY OtherKept DEF IInv, Doctor
<1> QED BY <1>2, <1>3 DEF IInv, FinalIsWhole, ReceiptsAreTrue, Doctor

\* An edited specification is newer than every one a wrapper has digested.
LEMMA WorldInv ==
  ASSUME IInv, World
  PROVE  IInv'
<1>1. TypeOK /\ FinalIsWhole /\ ReceiptsAreTrue /\ spec <= edits
  BY DEF IInv
<1>2. /\ edits' = edits + 1
      /\ spec' \in {0, spec, edits + 1}
      /\ runtime' \in Runtimes
      /\ final' \in Foreign \cup {final}
      /\ UNCHANGED <<walk, candidate, run, receipts, doctor>>
  BY <1>1 DEF World, EditSpec, ReplaceRuntime, OccupyFinal, TypeOK
<1>3. TypeOK'
  BY <1>1, <1>2, FilesFacts DEF TypeOK
<1>4. ASSUME NEW d \in Deliveries
      PROVE  PhaseInv(d)'
  <2>1. PhaseInv(d) /\ run[d].spec \in Nat
    BY <1>1 DEF IInv, TypeOK, Run
  <2> QED BY <1>1, <1>2, <2>1 DEF PhaseInv, WholeFor, Rendered, TypeOK
<1>5. FinalIsWhole' /\ ReceiptsAreTrue'
  BY <1>1, <1>2 DEF FinalIsWhole, ReceiptsAreTrue
<1>6. spec' <= edits'
  BY <1>1, <1>2 DEF TypeOK
<1> QED BY <1>3, <1>4, <1>5, <1>6 DEF IInv

LEMMA NextInv ==
  IInv /\ [Next]_vars => IInv'
<1> SUFFICES ASSUME IInv, [Next]_vars PROVE IInv'
  OBVIOUS
<1>1. CASE UNCHANGED vars
  <2>1. \A d \in Deliveries : PhaseInv(d)'
    BY <1>1, OtherKept DEF IInv, vars
  <2> QED BY <1>1, <2>1 DEF IInv, TypeOK, FinalIsWhole, ReceiptsAreTrue, vars
<1>2. CASE \E d \in Deliveries, request \in Requests : Begin(d, request)
  BY <1>2, BeginInv
<1>3. CASE \E d \in Deliveries : Wrapper(d)
  BY <1>3, ResolvePathsInv, SpawnInv, InspectInv, PromoteInv, ReportInv DEF Wrapper
<1>4. CASE \E d \in Deliveries : ChildSettles(d)
  BY <1>4, ChildExitsInv DEF ChildSettles
<1>5. CASE \E d \in Deliveries, form \in {"absent", "partial", "html"} : Crash(d, form)
  BY <1>5, CrashInv
<1>6. CASE Doctor
  BY <1>6, DoctorInv
<1>7. CASE World
  BY <1>7, WorldInv
<1> QED BY <1>1, <1>2, <1>3, <1>4, <1>5, <1>6, <1>7 DEF Next

-----------------------------------------------------------------------------
(***************************************************************************)
(* IInv always holds: the induction the theorems below rest on.            *)
(***************************************************************************)
THEOREM Invariance == Spec => []IInv
BY InitInv, NextInv, PTL DEF Spec

(***************************************************************************)
(* The wrappers' state keeps its types, and the directories above the      *)
(* final path stay a path.                                                 *)
(***************************************************************************)
THEOREM TypeCorrect == Spec => []TypeOK
<1>1. IInv => TypeOK
  BY DEF IInv
<1> QED BY <1>1, Invariance, PTL

(***************************************************************************)
(* However many wrappers deliver, crash or are interrupted, the final path *)
(* never shows an unfinished or refused candidate.                         *)
(***************************************************************************)
THEOREM FinalAlwaysWhole == Spec => []FinalIsWhole
<1>1. IInv => FinalIsWhole
  BY DEF IInv
<1> QED BY <1>1, Invariance, PTL

(***************************************************************************)
(* Every receipt carries its own delivery's artifact and a specification   *)
(* digest that is not newer than the artifact's source.                    *)
(***************************************************************************)
THEOREM ReceiptsAlwaysTrue == Spec => []ReceiptsAreTrue
<1>1. IInv => ReceiptsAreTrue
  BY DEF IInv
<1> QED BY <1>1, Invariance, PTL

(***************************************************************************)
(* A delivery that ended by one of its own errors, or succeeded, leaves no *)
(* candidate behind.                                                       *)
(***************************************************************************)
THEOREM NeverStray == Spec => []NoStrayCandidate
<1>1. IInv => NoStrayCandidate
  BY DEF IInv, PhaseInv, NoStrayCandidate
<1> QED BY <1>1, Invariance, PTL

-----------------------------------------------------------------------------
(***************************************************************************)
(* What doctor and deliver know of the runtime. A report and a delivery's  *)
(* answer are of the runtime at the change they were made after, which is  *)
(* still the runtime as long as nothing has changed.                       *)
(***************************************************************************)
RuntimeRefused(d) == run[d].code \in {"runtime_unavailable", "runtime_version_mismatch"}

BeganInv(d) ==
  /\ run[d].phase # "idle" => run[d].at >= 1 /\ run[d].at <= edits
  /\ run[d].phase # "idle" /\ run[d].at = edits => (DoctorOk(runtime) <=> ~RuntimeRefused(d))
  /\ run[d].phase \notin {"idle", "failed"} => run[d].spec > 0 /\ ~RuntimeRefused(d)

ForetoldInv ==
  /\ edits >= 1 /\ doctor.at <= edits
  /\ doctor.at = edits => (doctor.ok <=> DoctorOk(runtime))
  /\ \A d \in Deliveries : BeganInv(d)
  /\ DoctorForetells

LEMMA InitForetold == Init => ForetoldInv
<1> SUFFICES ASSUME Init PROVE ForetoldInv
  OBVIOUS
<1>1. \A d \in Deliveries : run[d].phase = "idle"
  BY DEF Init, NewRun
<1>2. edits = 1 /\ doctor.at = 0
  BY DEF Init
<1> QED BY <1>1, <1>2 DEF ForetoldInv, BeganInv, DoctorForetells

LEMMA BeginForetold ==
  ASSUME IInv, ForetoldInv, NEW d \in Deliveries, NEW request \in Requests, Begin(d, request)
  PROVE  ForetoldInv'
<1> DEFINE error == RequestError(runtime, request, spec)
           new == [run[d] EXCEPT !.phase = IF error = "" THEN "validated" ELSE "failed",
                                 !.code = error,
                                 !.at = edits,
                                 !.identity = IF error = "" THEN RuntimeIdentity(runtime) ELSE @,
                                 !.spec = IF error = "" THEN spec ELSE @]
<1>1. TypeOK /\ run \in [Deliveries -> Run] /\ run[d] \in Run
  BY DEF IInv, TypeOK
<1>2. run' = [run EXCEPT ![d] = new]
  BY <1>1 DEF Begin
<1>3. /\ new.phase = IF error = "" THEN "validated" ELSE "failed"
      /\ new.code = error /\ new.at = edits
      /\ error = "" => new.spec = spec
  <2> HIDE DEF error
  <2> QED BY <1>1 DEF Run
<1>4. /\ run'[d].phase = IF error = "" THEN "validated" ELSE "failed"
      /\ run'[d].code = error /\ run'[d].at = edits
      /\ error = "" => run'[d].spec = spec
      /\ \A e \in Deliveries \ {d} : run'[e] = run[e]
  <2> HIDE DEF error, new
  <2> QED BY <1>1, <1>2, <1>3
<1>5. /\ DoctorOk(runtime) <=> error \notin {"runtime_unavailable", "runtime_version_mismatch"}
      /\ error = "" => spec # 0
  BY DEF DoctorOk, RequestError
<1>6. spec \in Nat /\ edits \in Nat /\ doctor.at \in Nat
  BY <1>1 DEF TypeOK
<1>7. UNCHANGED <<runtime, doctor, edits>>
  BY DEF Begin
<1> HIDE DEF error, new
<1>8. BeganInv(d)'
  <2>1. RuntimeRefused(d)' <=> error \in {"runtime_unavailable", "runtime_version_mismatch"}
    BY <1>4 DEF RuntimeRefused
  <2>2. run'[d].phase \notin {"idle", "failed"} => error = "" /\ run'[d].spec = spec
    BY <1>4
  <2>3. run'[d].at = edits /\ edits' = edits /\ edits >= 1
    BY <1>4, <1>7 DEF ForetoldInv
  <2>4. DoctorOk(runtime') <=> ~RuntimeRefused(d)'
    BY <1>5, <1>7, <2>1
  <2>5. ASSUME run'[d].phase \notin {"idle", "failed"}
        PROVE  run'[d].spec > 0 /\ ~RuntimeRefused(d)'
    <3>1. error = "" /\ run'[d].spec = spec
      BY <2>2, <2>5
    <3>2. spec # 0 /\ spec \in Nat
      BY <1>5, <1>6, <3>1
    <3>3. spec > 0
      BY <3>2
    <3>4. run'[d].spec > 0
      BY <3>1, <3>3
    <3>5. ~RuntimeRefused(d)'
      BY <2>1, <3>1
    <3> QED BY <3>4, <3>5
  <2> QED BY <1>6, <2>3, <2>4, <2>5 DEF BeganInv
<1>9. \A e \in Deliveries \ {d} : BeganInv(e)'
  BY <1>4, <1>7 DEF BeganInv, RuntimeRefused, ForetoldInv
<1>10. DoctorForetells'
  BY <1>4, <1>5, <1>7 DEF DoctorForetells, ForetoldInv
<1> QED BY <1>7, <1>8, <1>9, <1>10 DEF ForetoldInv

\* From "validated" on: the runtime is read no more, and an error is of another kind.
LEMMA LaterStep ==
  ASSUME IInv, NEW d \in Deliveries,
         \/ Wrapper(d) \/ ChildSettles(d)
         \/ \E form \in {"absent", "partial", "html"} : Crash(d, form)
  PROVE  /\ \A e \in Deliveries \ {d} : run'[e] = run[e] /\ candidate'[e] = candidate[e]
         /\ run[d].phase \notin {"idle", "failed", "crashed"} /\ run'[d].phase # "idle"
         /\ run'[d].at = run[d].at /\ run'[d].spec = run[d].spec
         /\ \/ run'[d].code = run[d].code
            \/ /\ run'[d].code \notin {"runtime_unavailable", "runtime_version_mismatch"}
               /\ run'[d].phase = "failed"
         /\ UNCHANGED <<runtime, doctor, edits>>
<1>1. run \in [Deliveries -> Run] /\ candidate \in [Deliveries -> Files]
  BY DEF IInv, TypeOK
<1>2. CASE ResolvePaths(d)
  BY <1>1, <1>2 DEF ResolvePaths, Failed, Run
<1>3. CASE Spawn(d)
  BY <1>1, <1>3 DEF Spawn, Failed, Removed, Run
<1>4. CASE ChildSettles(d)
  BY <1>1, <1>4 DEF ChildSettles, ChildExits, Run
<1>5. CASE Inspect(d)
  BY <1>1, <1>5 DEF Inspect, Failed, Removed, Run
<1>6. CASE Promote(d)
  BY <1>1, <1>6 DEF Promote, Failed, Removed, Run
<1>7. CASE Report(d)
  BY <1>1, <1>7 DEF Report, Run
<1>8. CASE \E form \in {"absent", "partial", "html"} : Crash(d, form)
  BY <1>1, <1>8 DEF Crash, Run
<1> QED BY <1>2, <1>3, <1>4, <1>5, <1>6, <1>7, <1>8 DEF Wrapper

LEMMA LaterForetold ==
  ASSUME IInv, ForetoldInv, NEW d \in Deliveries,
         \/ Wrapper(d) \/ ChildSettles(d)
         \/ \E form \in {"absent", "partial", "html"} : Crash(d, form)
  PROVE  ForetoldInv'
<1>1. /\ \A e \in Deliveries \ {d} : run'[e] = run[e]
      /\ run[d].phase \notin {"idle", "failed", "crashed"} /\ run'[d].phase # "idle"
      /\ run'[d].at = run[d].at /\ run'[d].spec = run[d].spec
      /\ \/ run'[d].code = run[d].code
         \/ /\ run'[d].code \notin {"runtime_unavailable", "runtime_version_mismatch"}
            /\ run'[d].phase = "failed"
      /\ UNCHANGED <<runtime, doctor, edits>>
  BY LaterStep
<1>2. BeganInv(d) /\ ~RuntimeRefused(d) /\ ~RuntimeRefused(d)'
  BY <1>1 DEF ForetoldInv, BeganInv, RuntimeRefused
<1>3. BeganInv(d)'
  BY <1>1, <1>2 DEF BeganInv
<1>4. \A e \in Deliveries \ {d} : BeganInv(e)'
  BY <1>1 DEF BeganInv, RuntimeRefused, ForetoldInv
<1>5. DoctorForetells'
  BY <1>1, <1>2 DEF DoctorForetells, ForetoldInv, RuntimeRefused
<1> QED BY <1>1, <1>3, <1>4, <1>5 DEF ForetoldInv

LEMMA NextForetold ==
  IInv /\ ForetoldInv /\ [Next]_vars => ForetoldInv'
<1> SUFFICES ASSUME IInv, ForetoldInv, [Next]_vars PROVE ForetoldInv'
  OBVIOUS
<1>1. /\ edits \in Nat /\ doctor.at \in Nat
      /\ \A d \in Deliveries : run[d].at \in Nat
  BY DEF IInv, TypeOK, Run
<1>2. CASE UNCHANGED vars
  BY <1>2 DEF vars, ForetoldInv, BeganInv, RuntimeRefused, DoctorForetells
<1>3. CASE \E d \in Deliveries, request \in Requests : Begin(d, request)
  BY <1>3, BeginForetold
<1>4. CASE \E d \in Deliveries :
             \/ Wrapper(d) \/ ChildSettles(d)
             \/ \E form \in {"absent", "partial", "html"} : Crash(d, form)
  BY <1>4, LaterForetold
<1>5. CASE Doctor
  <2>1. /\ doctor'.at = edits /\ (doctor'.ok <=> DoctorOk(runtime))
        /\ UNCHANGED <<run, runtime, edits>>
    BY <1>5 DEF Doctor
  <2>2. \A d \in Deliveries : BeganInv(d)'
    BY <2>1 DEF ForetoldInv, BeganInv, RuntimeRefused
  <2>3. DoctorForetells'
    BY <2>1 DEF ForetoldInv, BeganInv, RuntimeRefused, DoctorForetells
  <2> QED BY <1>1, <2>1, <2>2, <2>3 DEF ForetoldInv
<1>6. CASE World
  <2>1. edits' = edits + 1 /\ UNCHANGED <<run, doctor>>
    BY <1>6 DEF World
  <2>2. \A d \in Deliveries : BeganInv(d)'
    BY <1>1, <2>1 DEF ForetoldInv, BeganInv, RuntimeRefused
  <2> QED BY <1>1, <2>1, <2>2 DEF ForetoldInv, DoctorForetells
<1> QED BY <1>2, <1>3, <1>4, <1>5, <1>6 DEF Next

LEMMA ForetoldInvariance == Spec => [](IInv /\ ForetoldInv)
BY InitInv, NextInv, InitForetold, NextForetold, PTL DEF Spec

(***************************************************************************)
(* doctor and deliver agree on the runtime: as long as nothing has changed *)
(* between them, a delivery is refused for its runtime exactly when the    *)
(* report was not ok, whatever else is wrong with its request and however  *)
(* it ends.                                                                *)
(***************************************************************************)
THEOREM DoctorAlwaysForetells == Spec => []DoctorForetells
<1>1. ForetoldInv => DoctorForetells
  BY DEF ForetoldInv
<1> QED BY <1>1, ForetoldInvariance, PTL

(***************************************************************************)
(* A delivery whose request, runtime or specification was refused creates  *)
(* no candidate, and no directory is made before some delivery passed.     *)
(***************************************************************************)
THEOREM RefusedCreatesNothing == Spec => RefusedRequestCreatesNothing
<1>1. IInv /\ ForetoldInv /\ [Next]_vars =>
        [/\ walk' # walk => \E d \in Deliveries : Passed(d)
         /\ \A d \in Deliveries : candidate'[d] # candidate[d] => Passed(d)]_vars
  <2> SUFFICES ASSUME IInv, ForetoldInv, Next
               PROVE  /\ walk' # walk => \E d \in Deliveries : Passed(d)
                      /\ \A d \in Deliveries : candidate'[d] # candidate[d] => Passed(d)
    OBVIOUS
  <2>1. CASE \E d \in Deliveries :
               \/ Wrapper(d) \/ ChildSettles(d)
               \/ \E form \in {"absent", "partial", "html"} : Crash(d, form)
    <3>1. PICK d \in Deliveries :
               \/ Wrapper(d) \/ ChildSettles(d)
               \/ \E form \in {"absent", "partial", "html"} : Crash(d, form)
      BY <2>1
    <3>2. /\ \A e \in Deliveries \ {d} : candidate'[e] = candidate[e]
          /\ run[d].phase \notin {"idle", "failed", "crashed"}
      BY <3>1, LaterStep
    <3>3. Passed(d)
      BY <3>2 DEF Passed, IInv, PhaseInv, ForetoldInv, BeganInv
    <3> QED BY <3>2, <3>3
  <2>2. CASE \/ \E d \in Deliveries, request \in Requests : Begin(d, request)
             \/ Doctor \/ World
    <3>1. UNCHANGED <<walk, candidate>>
      BY <2>2 DEF Begin, Doctor, World
    <3> QED BY <3>1
  <2> QED BY <2>1, <2>2 DEF Next
<1> QED BY <1>1, ForetoldInvariance, PTL DEF RefusedRequestCreatesNothing, Spec

-----------------------------------------------------------------------------
(***************************************************************************)
(* Refinement. A wrapper's phase tells what the register knows of it.      *)
(***************************************************************************)
Placed == {"promoted", "done", "lost"}
InPlace == [d \in Deliveries |-> IF run[d].phase \in Placed THEN run[d].digest ELSE NoFile]
Printed == {<<r.by, r.artifact>> : r \in receipts}

LEMMA Stuttering ==
  UNCHANGED <<final, InPlace, Refused, Printed, edits>> => UNCHANGED Register!vars
BY DEF Register!vars, InPlace, Placed, Printed

LEMMA Refusing ==
  ASSUME NEW d \in Deliveries, InPlace[d] = NoFile, Refused' = Refused \cup {d},
         UNCHANGED <<final, InPlace, Printed, edits>>
  PROVE  Register!Next
BY DEF Register!Next, Register!Refuse, InPlace, Placed, Printed

\* A wrapper that has nothing in place moves on, or ends.
LEMMA UnplacedStep ==
  ASSUME TypeOK, NEW d \in Deliveries,
         run' \in [Deliveries -> Run],
         \A e \in Deliveries \ {d} : run'[e] = run[e],
         run[d].phase \notin Placed \cup {"failed", "crashed"},
         run'[d].phase \notin Placed,
         UNCHANGED <<final, receipts, edits>>
  PROVE  [Register!Next]_(Register!vars)
<1>1. InPlace' = InPlace
  <2>1. \A e \in Deliveries : (run'[e].phase \in Placed) = (run[e].phase \in Placed)
    OBVIOUS
  <2>2. \A e \in Deliveries : run[e].phase \in Placed => run'[e] = run[e]
    OBVIOUS
  <2> QED BY <2>1, <2>2 DEF InPlace
<1>2. InPlace[d] = NoFile
  BY DEF InPlace
<1>3. Refused' = Refused \/ Refused' = Refused \cup {d}
  BY DEF Refused
<1>4. Printed' = Printed
  BY DEF Printed
<1> QED BY <1>1, <1>2, <1>3, <1>4, Stuttering, Refusing

\* The wrapper's steps before its artifact is in place.
LEMMA EarlySteps ==
  ASSUME IInv, IInv', NEW d \in Deliveries,
         \/ \E request \in Requests : Begin(d, request)
         \/ ResolvePaths(d) \/ Spawn(d) \/ ChildSettles(d) \/ Inspect(d)
  PROVE  [Register!Next]_(Register!vars)
<1>1. run \in [Deliveries -> Run] /\ run' \in [Deliveries -> Run] /\ TypeOK
  BY DEF IInv, TypeOK
<1>2. /\ run[d].phase \in {"idle", "validated", "ready", "rendering", "exited"}
      /\ UNCHANGED <<final, receipts, edits>>
  BY DEF Begin, ResolvePaths, Spawn, ChildSettles, ChildExits, Inspect
<1>3. /\ \A e \in Deliveries \ {d} : run'[e] = run[e]
      /\ run'[d].phase \in {"validated", "ready", "rendering", "exited", "checked", "failed"}
  <2>1. CASE \E request \in Requests : Begin(d, request)
    <3>1. PICK request \in Requests : Begin(d, request)
      BY <2>1
    <3> DEFINE error == RequestError(runtime, request, spec)
    <3>2. /\ \A e \in Deliveries \ {d} : run'[e] = run[e]
          /\ run'[d].phase = (IF error = "" THEN "validated" ELSE "failed")
      BY <1>1, <3>1 DEF Begin, Run
    <3> QED BY <3>2
  <2>2. CASE ResolvePaths(d)
    BY <1>1, <2>2 DEF ResolvePaths, Failed, Run
  <2>3. CASE Spawn(d)
    BY <1>1, <2>3 DEF Spawn, Failed, Run
  <2>4. CASE ChildSettles(d)
    BY <1>1, <2>4 DEF ChildSettles, ChildExits, Run
  <2>5. CASE Inspect(d)
    BY <1>1, <2>5 DEF Inspect, Failed, Run
  <2> QED BY <2>1, <2>2, <2>3, <2>4, <2>5
<1> QED BY <1>1, <1>2, <1>3, UnplacedStep DEF Placed

LEMMA PromoteStep ==
  ASSUME IInv, IInv', NEW d \in Deliveries, Promote(d)
  PROVE  [Register!Next]_(Register!vars)
<1>1. /\ run \in [Deliveries -> Run] /\ run' \in [Deliveries -> Run] /\ TypeOK
      /\ run[d].phase = "checked"
  BY DEF IInv, TypeOK, Promote
<1>2. CASE Failed(d, "promotion_failed") /\ UNCHANGED final
  <2>1. (\A e \in Deliveries \ {d} : run'[e] = run[e]) /\ run'[d].phase = "failed"
    BY <1>1, <1>2 DEF Failed, Run
  <2> QED BY <1>1, <1>2, <2>1, UnplacedStep DEF Placed, Promote
<1>3. CASE final' = candidate[d] /\ run' = [run EXCEPT ![d].phase = "promoted"]
  <2>1. /\ \A e \in Deliveries \ {d} : run'[e] = run[e]
        /\ run'[d].phase = "promoted" /\ run'[d].digest = run[d].digest
    BY <1>1, <1>3 DEF Run
  <2>2. run[d].digest = candidate[d] /\ candidate[d] \in Artifacts
    BY <1>1 DEF IInv, PhaseInv, WholeFor
  <2>3. InPlace[d] = NoFile /\ d \notin Refused /\ Refused' = Refused
    BY <1>1, <2>1 DEF InPlace, Refused, Placed
  <2>4. InPlace' = [InPlace EXCEPT ![d] = final']
    BY <1>1, <1>3, <2>1, <2>2 DEF InPlace, Placed
  <2>5. Printed' = Printed /\ edits' = edits
    BY DEF Printed, Promote
  <2> QED BY <1>3, <2>2, <2>3, <2>4, <2>5
          DEF Register!Next, Register!Promote, InPlace, Placed, Printed
<1> QED BY <1>2, <1>3 DEF Promote

LEMMA ReportStep ==
  ASSUME IInv, IInv', NEW d \in Deliveries, Report(d)
  PROVE  [Register!Next]_(Register!vars)
<1> DEFINE receipt == [by |-> d, identity |-> run[d].identity,
                       spec |-> run[d].spec, artifact |-> run[d].digest]
<1>1. /\ run \in [Deliveries -> Run] /\ run[d].phase = "promoted"
      /\ final' = final /\ edits' = edits
  BY DEF IInv, TypeOK, Report
<1>2. /\ \A e \in Deliveries \ {d} : run'[e] = run[e]
      /\ run'[d].phase = "done" /\ run'[d].digest = run[d].digest
  BY <1>1 DEF Run, Report
<1>3. Refused' = Refused
  BY <1>1, <1>2 DEF Refused
<1>4. InPlace' = InPlace
  <2>1. \A e \in Deliveries : /\ (run'[e].phase \in Placed) = (run[e].phase \in Placed)
                              /\ run'[e].digest = run[e].digest
    BY <1>1, <1>2 DEF Placed
  <2> QED BY <2>1 DEF InPlace
<1>5. run[d].digest # NoFile /\ InPlace[d] = run[d].digest
  BY <1>1, FilesFacts DEF InPlace, Placed, IInv, PhaseInv, WholeFor
<1>6. receipts' = receipts \cup {receipt} /\ receipt.by = d /\ receipt.artifact = run[d].digest
  BY DEF Report
<1> HIDE DEF receipt
<1>7. Printed' = Printed \cup {<<d, InPlace[d]>>}
  BY <1>5, <1>6 DEF Printed
<1> QED BY <1>1, <1>3, <1>4, <1>5, <1>7
        DEF Register!Next, Register!Report, InPlace, Placed, Printed

LEMMA CrashStep ==
  ASSUME IInv, IInv', NEW d \in Deliveries, NEW form \in {"absent", "partial", "html"},
         Crash(d, form)
  PROVE  [Register!Next]_(Register!vars)
<1>1. /\ run \in [Deliveries -> Run] /\ run' \in [Deliveries -> Run] /\ TypeOK
      /\ UNCHANGED <<final, receipts, edits>>
      /\ run[d].phase \notin {"idle", "done", "failed", "crashed", "lost"}
  BY DEF IInv, TypeOK, Crash
<1>2. /\ \A e \in Deliveries \ {d} : run'[e] = run[e]
      /\ run'[d].phase = (IF run[d].phase = "promoted" THEN "lost" ELSE "crashed")
      /\ run'[d].digest = run[d].digest
  BY <1>1 DEF Run, Crash
<1>3. CASE run[d].phase # "promoted"
  BY <1>1, <1>2, <1>3, UnplacedStep DEF Placed
<1>4. CASE run[d].phase = "promoted"
  <2>1. Refused' = Refused /\ Printed' = Printed
    BY <1>1, <1>2, <1>4 DEF Refused, Printed
  <2>2. InPlace' = InPlace
    <3>1. \A e \in Deliveries : /\ (run'[e].phase \in Placed) = (run[e].phase \in Placed)
                                /\ run'[e].digest = run[e].digest
      BY <1>1, <1>2, <1>4 DEF Placed
    <3> QED BY <3>1 DEF InPlace
  <2> QED BY <1>1, <2>1, <2>2, Stuttering
<1> QED BY <1>3, <1>4

LEMMA NextRefines ==
  IInv /\ IInv' /\ [Next]_vars => [Register!Next]_(Register!vars)
<1> SUFFICES ASSUME IInv, IInv', [Next]_vars PROVE [Register!Next]_(Register!vars)
  OBVIOUS
<1>1. CASE UNCHANGED vars \/ Doctor
  BY <1>1, Stuttering DEF vars, Doctor, InPlace, Printed, Refused
<1>2. CASE \E d \in Deliveries : \/ \E request \in Requests : Begin(d, request)
                                \/ Wrapper(d)
                                \/ ChildSettles(d)
  BY <1>2, EarlySteps, PromoteStep, ReportStep DEF Wrapper
<1>3. CASE \E d \in Deliveries, form \in {"absent", "partial", "html"} : Crash(d, form)
  BY <1>3, CrashStep
<1>4. CASE World
  <2>1. /\ edits' = edits + 1 /\ final' \in Foreign \cup {final}
        /\ InPlace' = InPlace /\ Refused' = Refused /\ Printed' = Printed
    BY <1>4 DEF World, EditSpec, ReplaceRuntime, OccupyFinal, InPlace, Refused, Printed
  <2> QED BY <2>1 DEF Register!Next, Register!Occupy, InPlace, Placed, Printed
<1> QED BY <1>1, <1>2, <1>3, <1>4 DEF Next

(***************************************************************************)
(* The wrappers implement the register: each delivery replaces the final   *)
(* artifact in one step or not at all, and reports what it placed.         *)
(***************************************************************************)
THEOREM Refinement == Spec => DeliversAtomically
<1>1. Init => Register!Init
  <2> SUFFICES ASSUME Init PROVE Register!Init
    OBVIOUS
  <2>1. \A d \in Deliveries : run[d].phase = "idle"
    BY DEF Init, NewRun
  <2>2. Refused = {} /\ InPlace = [d \in Deliveries |-> NoFile] /\ Printed = {}
    BY <2>1 DEF Refused, InPlace, Placed, Printed, Init
  <2> QED BY <2>2 DEF Register!Init, InPlace, Placed, Printed, Init
<1>2. Spec => Register!Spec
  BY <1>1, NextRefines, Invariance, PTL DEF Spec, Register!Spec
<1> QED BY <1>2 DEF DeliversAtomically
=============================================================================
