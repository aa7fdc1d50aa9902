SPECIFICATION Spec
CONSTANTS
  Drones = {1, 2}
  Missions <- OneMission
  NormalTargets <- None
  TakeoverTargets <- First
  ReturnTargets <- First
  Takeovers = {"stop"}
  MaxIntent = 3
  MaxRun = 1
INVARIANTS
  TakeoverEndsReturn
