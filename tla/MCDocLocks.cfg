CONSTANTS
  Tasks = {t1, t2, t3}
  Docs = {1, 2, 3, 4}
  Folders = {1, 2}
  Parent <- MCParent
  Shards = {1, 2}
  Placements <- MCPlacements
  Workers = 2
  None = None
SPECIFICATION Spec
SYMMETRY Symmetry
INVARIANTS
  TypeOK
  WedgeNeedsAReference
  WedgeNeedsASave
CHECK_DEADLOCK FALSE
