SPECIFICATION Spec
CONSTANTS
  a = a
  b = b
  none = none
  Ops = {a, b}
  NoOp = none
  MaxRun = 3
  MaxRev = 2
  MaxSession = 1
  MaxCalls = 2
SYMMETRY OpSymmetry
INVARIANTS
  DispatchIsDurable
CHECK_DEADLOCK FALSE
