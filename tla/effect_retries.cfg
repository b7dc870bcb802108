SPECIFICATION Spec
CONSTANTS
  i1 = i1
  i2 = i2
  i3 = i3
  Invocations = {i1, i2}
  Effects = {"e1"}
  Tasks = {"t1"}
  Attempts = {"a1", "a2"}
  Operations = {"write", "other"}
  Malformed = {"huge"}
  Requests <- SomeRequests
  Grants <- MCGrants
  NoReceipt = NoReceipt
  NoRecord = NoRecord
  Never = Never
  MaxClock = 2
  MaxEpoch = 2
SYMMETRY InvocationSymmetry
INVARIANTS AppliedUnderAuthority AppliedOnce ResultsAreTrue
PROPERTY EffectsAreExactlyOnce
CHECK_DEADLOCK FALSE
