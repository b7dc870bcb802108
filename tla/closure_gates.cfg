SPECIFICATION Spec
CONSTANTS
  FindingIds = {"f1"}
  SourceRefs = {"s1"}
  Verifiers = {"reviewer", "worker"}
  Executor = "worker"
  Claims <- MCSomeClaims
  Facts <- MCFacts
  Workspace_Kinds = {"working_tree", "remote_only"}
  Impacts <- MCImpacts
  NoCertificate = NoCertificate
  MaxRevision = 2
  MaxFindings = 2
INVARIANTS TypeOK ClosedIsWhole DurableIsEarned ClosedIsConverged
CHECK_DEADLOCK FALSE
