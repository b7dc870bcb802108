SPECIFICATION Spec
CONSTANTS
  Tasks = {t1}
  WorkerIds = {w1, w2}
  Workers = {w1, w2}
  Sessions = {s1, s2, s3}
  Gates = {g1}
  Refs = {}
  tree = tree
  moved = moved
  main = main
  Trees = {tree}
  Branches = {main}
  None = None
  MaxSafeInteger = 3
  Hosts = {h1, h2}
  SignalReports <- Reports
  StatusInputs = {}
  ApprovalInputs = {}
  WorkspaceInputs <- OneWorkspace
  ContinuationInputs = {}
  MaxRetryCount = 2
  MaxRerouteCount = 2
SYMMETRY Symmetry
INVARIANTS LineageIsLinear NoReturnToLeftWorker OneSpawnPerClaim
PROPERTIES ReplacesOnlyEnded RecoveryIsAtomic
CHECK_DEADLOCK FALSE
