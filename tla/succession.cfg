SPECIFICATION Spec
CONSTANTS
  Drones = {1, 2, 3}
  Missions <- SwarmMission
  NormalTargets <- Second
  TakeoverTargets <- First
  ReturnTargets <- None
  Takeovers = {"hold"}
  MaxIntent = 3
  MaxRun = 1
INVARIANTS
  SoleAuthority
