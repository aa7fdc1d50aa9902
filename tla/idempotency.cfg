SPECIFICATION FairSpec
CONSTANTS
  Calls = {c1, c2, c3}
  Nobody = nobody
  Requests = {"r"}
  Drones = {1, 2}
INVARIANTS
  NoCircularWait
  SentOnce
  AnswersAreWhole
PROPERTIES
  EveryCallEnds
CHECK_DEADLOCK FALSE
