SPECIFICATION FairSpec
CONSTANTS
  Width = 3
  Radius = 1
  Dem <- Hills
  Origins = {0, 2}
  Views = {0, 2}
  Fixes = {1}
  Drones = {1}
  MaxMoves = 2
INVARIANTS
  ShownOnce
  ClickGoesWhereShown
  HomeGroundHonest
PROPERTIES
  Settles
