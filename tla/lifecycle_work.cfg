SPECIFICATION Spec
CONSTANTS
  PlanIds = {p}
  ProposalIds = {q1}
  None = None
  MaxSafeInteger = 3
  g1 = g1
  g2 = g2
  c1 = c1
  c2 = c2
  Gates = {g1, g2}
  Criteria = {c1, c2}
  ContentInputs <- LeastContents
  CriteriaInputs <- OneCriterion
  EvidenceInputs <- AllEvidence
  MaxMessages = 2
PROPERTIES DecidesOnlyCurrentWork StartsOnlyCurrentWork
INVARIANTS SomeGateCanProceed HistoryTellsAmendments
CHECK_DEADLOCK FALSE
