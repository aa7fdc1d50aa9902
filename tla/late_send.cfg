SPECIFICATION Spec
CONSTANTS
  Drones = {1, 2}
  Missions <- OneMission
  NormalTargets <- None
  TakeoverTargets <- First
  ReturnTargets <- None
  Takeovers = {"hold"}
  MaxIntent = 3
  MaxRun = 1
INVARIANTS
  TakeoverIsFinal
