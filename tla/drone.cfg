SPECIFICATION FairSpec
CONSTANTS
  Calls = {c1, c2}
  Rescues = {r1}
  Kinds = {"hold", "mission_rtl", "takeoff"}
  Retries = 0
  MaxHerds = 1
  None = None
INVARIANTS
  OneOutstanding
  OwnAnswer
  FailsafePrevails
PROPERTIES
  NearerTheEnd
  EveryCommandReturns
