SPECIFICATION FairSpec
CONSTANTS
  Drones = {1, 2, 3}
  Plans <- MCPlans
  Ops = {"a"}
  Deployments <- MCDeployments
  MaxRun = 2
INVARIANTS
  CommandsAdvance
  HoldInTime
  GroupBarrier
  WaitsSound
  MembershipSound
  ReturnDiscipline
PROPERTIES
  RevisionBoundary
  EndedIsFinal
  StaleCallsInert
  HoldsEnd
  ContractKept
