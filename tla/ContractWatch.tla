---------------------------- MODULE ContractWatch ----------------------------
(***************************************************************************)
(* supervisor-policy/contract-watch.mjs: the seams between a worker and    *)
(* its Bridge are watched while the native worker changes underneath. The  *)
(* assessment is a function of what was observed; who observes, tests and  *)
(* repairs what it asks for is external (TRI-BRIDGE-P3-WORKFLOW-V1.md).    *)
(***************************************************************************)
EXTENDS Integers

CONSTANTS
  Domains,     \* of contract-watch-baseline.json, "rate_limits" among them
  Unobserved,  \* a domain that is left out of the request
  MaxDrifts    \* bound: native changes

\* What is left out is not a state that could be observed.
ASSUME SeamAssumption ==
  Unobserved \notin {"stable", "additive", "breaking", "unknown", "not_applicable"}

Watched_States == {"stable", "additive", "breaking"}

VARIABLES
  watched,     \* the worker whose Bridge it is
  domains, tests, native_version_changed,  \* what the Supervisor has observed
  seam,       \* the seams as they are
  accepted,   \* the Bridge is in use with the native worker as observed
  drifts

watch_vars == <<watched, domains, tests, native_version_changed, seam, accepted, drifts>>

Required == IF watched = "codex" THEN Domains ELSE Domains \ {"rate_limits"}

NormalizedDomains ==
  [domain \in Domains |->
     IF domains[domain] # Unobserved THEN domains[domain]
     ELSE IF domain \in Required THEN "unknown" ELSE "not_applicable"]

Observed(state) == {domain \in Domains : NormalizedDomains[domain] = state}
UnknownRequired == Required \cap Observed("unknown")

-----------------------------------------------------------------------------
\* Mutant: a new version is only tested if something is seen to have been added.
AssessContractWatchAdditive ==
  IF Observed("breaking") # {} THEN "patch_contract_seam"
  ELSE IF tests = "failed" \/ UnknownRequired # {} THEN "probe_contract_seam"
  ELSE IF tests # "passed" /\ Observed("additive") # {} THEN "run_conformance_tests"
  ELSE IF native_version_changed \/ Observed("additive") # {} THEN "observe_only"
  ELSE "pass"

\* Mutant: what failed is diagnosed before anything is patched.
AssessContractWatchTestsFirst ==
  IF tests = "failed" \/ UnknownRequired # {} THEN "probe_contract_seam"
  ELSE IF Observed("breaking") # {} THEN "patch_contract_seam"
  ELSE IF tests # "passed" /\ (native_version_changed \/ Observed("additive") # {})
    THEN "run_conformance_tests"
  ELSE IF native_version_changed \/ Observed("additive") # {} THEN "observe_only"
  ELSE "pass"

AssessContractWatch ==
  IF Observed("breaking") # {} THEN "patch_contract_seam"
  ELSE IF tests = "failed" \/ UnknownRequired # {} THEN "probe_contract_seam"
  ELSE IF tests # "passed" /\ (native_version_changed \/ Observed("additive") # {})
    THEN "run_conformance_tests"
  ELSE IF native_version_changed \/ Observed("additive") # {} THEN "observe_only"
  ELSE "pass"

-----------------------------------------------------------------------------
(***************************************************************************)
(* A seam changes. With a new native version the Supervisor knows that,    *)
(* and still holds what it observed of the earlier one; without, a trigger *)
(* names the domain and nothing is known of it any more.                   *)
(***************************************************************************)
Drift(domain, state) ==
  /\ drifts < MaxDrifts
  /\ drifts' = drifts + 1
  /\ seam' = [seam EXCEPT ![domain] = state]
  /\ tests' = "not_run" /\ accepted' = FALSE
  /\ \/ native_version_changed' = TRUE /\ UNCHANGED domains
     \/ /\ domains' \in {[domains EXCEPT ![domain] = unknown] : unknown \in {"unknown", Unobserved}}
        /\ UNCHANGED native_version_changed
  /\ UNCHANGED watched

\* Diagnosis: of the domains that are named, or of all when none is.
Probe ==
  /\ AssessContractWatch = "probe_contract_seam"
  /\ domains' = [domain \in Domains |->
                   IF UnknownRequired = {} \/ domain \in UnknownRequired
                   THEN seam[domain] ELSE domains[domain]]
  /\ UNCHANGED <<watched, tests, native_version_changed, seam, accepted, drifts>>

RunTests ==
  /\ AssessContractWatch = "run_conformance_tests"
  /\ tests' = IF \E domain \in Domains : seam[domain] = "breaking" THEN "failed" ELSE "passed"
  /\ UNCHANGED <<watched, domains, native_version_changed, seam, accepted, drifts>>

\* Only what is seen to be broken is repaired; the tests are of another adapter.
Patch ==
  /\ AssessContractWatch = "patch_contract_seam"
  /\ LET repaired(state) == [domain \in Domains |->
           IF domain \in Observed("breaking") THEN "stable" ELSE state[domain]]
     IN  seam' = repaired(seam) /\ domains' = repaired(domains)
  /\ tests' = "not_run"
  /\ UNCHANGED <<watched, native_version_changed, accepted, drifts>>

\* The version that was accepted is the one later changes are told from.
Accept ==
  /\ AssessContractWatch \in {"pass", "observe_only"} /\ ~accepted
  /\ accepted' = TRUE /\ native_version_changed' = FALSE
  /\ UNCHANGED <<watched, domains, tests, seam, drifts>>

WatchInit ==
  /\ watched \in {"claude", "codex", "pi"}
  /\ seam = [domain \in Domains |-> "stable"]
  /\ domains = [domain \in Domains |->
                  IF domain \in Required THEN "stable" ELSE Unobserved]
  /\ tests = "passed" /\ native_version_changed = FALSE /\ accepted = TRUE
  /\ drifts = 0

Watch == Probe \/ RunTests \/ Patch \/ Accept

WatchNext == Watch \/ \E domain \in Domains, state \in Watched_States : Drift(domain, state)

WatchSpec == WatchInit /\ [][WatchNext]_watch_vars

\* The Supervisor does what the watch asks for.
FairWatchSpec == WatchSpec /\ WF_watch_vars(Watch)

-----------------------------------------------------------------------------
(***************************************************************************)
(* A Bridge is in use only while no required seam is broken, whether the   *)
(* change came with a version or without, one upon another, and although   *)
(* observations of the earlier version are still held.                     *)
(***************************************************************************)
AcceptedIsUnbroken ==
  accepted => \A domain \in Required : seam[domain] # "breaking"

(***************************************************************************)
(* Doing what the watch asks for comes to an end: however often the seams  *)
(* changed, the Bridge is accepted again.                                  *)
(***************************************************************************)
WatchSettles == []<>accepted
=============================================================================
