SPECIFICATION Spec
CONSTANTS
  Deliveries = {d1}
  Nobody = nobody
  MaxPackageJsonSearchDepth = 3
  Requests <- OneRequest
  Runtimes <- AllRuntimes
  Walks <- OneWalk
  MaxEdits = 2
INVARIANT PromotesOnlyVerified
CHECK_DEADLOCK FALSE
