SPECIFICATION Spec
CONSTANTS
  Workers = {"codex"}
  Catalogs <- MCGreedyCatalog
  RequiredClasses <- MCEveryClass
  Requests <- MCNoRequest
  RecallInputs <- MCOneRecall
INVARIANT SelectsSmallest
CHECK_DEADLOCK FALSE
