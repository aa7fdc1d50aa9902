SPECIFICATION FairSpec
CONSTANTS
  Drones = {1, 2, 3}
  Missions <- AllMissions
  NormalTargets <- Pairs
  TakeoverTargets <- Pairs
  ReturnTargets <- First
  Takeovers = {"hold", "kill"}
  MaxIntent = 3
  MaxRun = 2
INVARIANTS
  LatestCommandWins
  Exclusive
  RevokedStaysSilent
  SingleFlight
  LateOnlyAfterTheEnd
PROPERTIES
  TableKept
  SlotFreed
