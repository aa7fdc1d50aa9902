SPECIFICATION Spec
CONSTANTS
  a = a
  b = b
  none = none
  Ops = {a, b}
  NoOp = none
  MaxRun = 3
  MaxRev = 2
  MaxSession = 2
  MaxCalls = 2
SYMMETRY OpSymmetry
INVARIANTS
  PersistedIsStored
  NeverForgotten
PROPERTIES
  StoreMonotonic
  LedgerKept
CHECK_DEADLOCK FALSE
