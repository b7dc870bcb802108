SPECIFICATION Spec
CONSTANTS
  Workers = {"codex", "pi"}
  Catalogs <- MCCatalogs
  RequiredClasses <- MCRequired
  Requests <- MCRequests
  RecallInputs <- MCRecallInputs
INVARIANTS ReadyIffResolvable AuthorityStands
CHECK_DEADLOCK FALSE
