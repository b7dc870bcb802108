SPECIFICATION FairSpec
CONSTANTS
  Deliveries = {d1, d2}
  Nobody = nobody
  MaxPackageJsonSearchDepth = 3
  Requests <- AllRequests
  Runtimes <- SomeRuntimes
  Walks <- SomeWalks
  MaxEdits = 2
INVARIANTS FinalIsWhole ReceiptsAreTrue NoStrayCandidate DoctorForetells
PROPERTIES RefusedRequestCreatesNothing DeliversAtomically DeliveryEnds
CHECK_DEADLOCK FALSE
