CONSTANTS
  a = a
  b = b
  NumFolders = 2
  NumDocs = 2
  Names = {a, b}
  Here = Here
  None = None
  Place0 <- MCPlace0
  Link0 <- MCLink0
  Spots <- MCSpots
  Written <- MCWritten
  MaxOps = 3
  MaxPanics = 1
SPECIFICATION Spec
INVARIANTS
  TypeOK
  BacklinksCurrent
  
 
CHECK_DEADLOCK FALSE
