--------------------------- MODULE DeliveryRequest ---------------------------
(***************************************************************************)
(* What scripts/archify-safe.mjs reads before it starts the Archify        *)
(* runtime: the request, the runtime's identity and the directories above  *)
(* the final path.                                                         *)
(***************************************************************************)
EXTENDS Naturals, Sequences, FiniteSetsExt

CONSTANT MaxPackageJsonSearchDepth

ASSUME DepthAssumption == MaxPackageJsonSearchDepth \in Nat \ {0}

\* The package.json of a directory, told apart by the version it names.
PackageJson == {"none", "malformed", "versionless", "pinned", "other"}

RuntimeFile == {"not_supplied", "not_absolute", "missing", "directory",
                "not_executable", "executable"}

\* above: the package.json files from the runtime's directory upwards.
Runtime == [file : RuntimeFile, above : Seq(PackageJson)]

RuntimeAvailable(runtime) == runtime.file = "executable"

\* The nearest package.json within the depth that names a version decides.
RuntimeIdentity(runtime) ==
  LET versioned == {i \in DOMAIN runtime.above :
                      /\ i <= MaxPackageJsonSearchDepth
                      /\ runtime.above[i] \in {"pinned", "other"}}
  IN  IF versioned = {} THEN "unverified"
      ELSE IF runtime.above[Min(versioned)] = "pinned" THEN "verified"
      ELSE "mismatch"

\* Mutant: an identity that was not established is refused by doctor alone.
DoctorTrustsVerified(runtime) ==
  RuntimeAvailable(runtime) /\ RuntimeIdentity(runtime) = "verified"

\* doctor's ok
DoctorOk(runtime) ==
  RuntimeAvailable(runtime) /\ RuntimeIdentity(runtime) # "mismatch"

-----------------------------------------------------------------------------
(***************************************************************************)
(* A request: the diagram type, the form of --name and whether --spec      *)
(* names a path. An override of the artifact root is part of the walk.     *)
(***************************************************************************)
NameForms == {"relative_html", "empty", "absolute", "dotdot", "other_extension"}
Request == [type : {"known", "unknown"}, name : NameForms, spec : BOOLEAN]

\* "" when the request passes the checks made before anything is created
RequestError(runtime, request, spec) ==
  IF ~RuntimeAvailable(runtime) THEN "runtime_unavailable"
  ELSE IF RuntimeIdentity(runtime) = "mismatch" THEN "runtime_version_mismatch"
  ELSE IF request.type # "known" THEN "type_invalid"
  ELSE IF request.name # "relative_html" THEN "output_name_invalid"
  ELSE IF ~request.spec \/ spec = 0 THEN "spec_invalid"
  ELSE ""

(***************************************************************************)
(* A walk: the kinds of the directories from the target cwd through the    *)
(* artifact root to the parent of the final path. What lies below a        *)
(* missing one is missing, so the two ancestry checks and the two mkdirs   *)
(* of a delivery are one of each.                                          *)
(***************************************************************************)
Component == {"directory", "file", "link_inside", "link_outside",
              "link_broken", "missing"}
IsWalk(walk) ==
  \A i, j \in DOMAIN walk : i < j /\ walk[i] = "missing" => walk[j] = "missing"

LeavesRoot(walk) ==
  \E i \in DOMAIN walk : walk[i] \in {"link_outside", "link_broken"}

\* mkdir recursive fails at a file in the way
CanMakeParents(walk) == \A i \in DOMAIN walk : walk[i] # "file"

ParentsMade(walk) ==
  [i \in DOMAIN walk |-> IF walk[i] = "missing" THEN "directory" ELSE walk[i]]
=============================================================================
