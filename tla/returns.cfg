SPECIFICATION FairSpec
CONSTANTS
  Drones = {1, 2, 3}
  Callers = {"observer", "sender"}
  Observer = "observer"
  Plans <- MCPlans
  Targets <- MCTargets
  Requests <- MCRequests
  Fallible = {2}
  Leavers = {2}
  MaxRun = 2
  MaxActs = 3
INVARIANTS
  ReturnAuthority
PROPERTIES
  ReturnsSettle
  TableKept
  EndsOnce
  NearerHome
CHECK_DEADLOCK FALSE
