SPECIFICATION FairSpec
CONSTANTS
  Calls = {c1}
  Rescues = {r1}
  Kinds = {"kill", "takeoff"}
  Retries = 1
  MaxHerds = 0
  None = None
PROPERTIES
  KillReturns
