SPECIFICATION Spec
CONSTANTS
  Gates = {a, b, c, d}

PROPERTY SearchEnds
INVARIANTS AcceptedIsAcyclic ReportedCycleIsReal
CHECK_DEADLOCK FALSE
