SPECIFICATION FairSpec
CONSTANTS
  Tasks = {t1}
  WorkerIds = {w1, w2, other}
  Workers = {w1, w2}
  Sessions = {s1, s2}
  Gates = {g1}
  Refs = {r1}
  tree = tree
  moved = moved
  main = main
  Trees = {tree, moved}
  Branches = {main}
  None = None
  MaxSafeInteger = 3
  Hosts = {h1}
  SignalReports <- Reports
  StatusInputs = {"open", "blocked"}
  ApprovalInputs = {"pending", "approved"}
  WorkspaceInputs <- TwoWorkspaces
  ContinuationInputs <- Continuations
  MaxRetryCount = 2
  MaxRerouteCount = 1
INVARIANTS CurrentPlansDescribeCheckpoint
PROPERTIES ReplacesOnlyRecoverable AcceptedSpawnSettles
CHECK_DEADLOCK FALSE
