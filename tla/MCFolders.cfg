CONSTANTS
  dir1 = dir1
  dir2 = dir2
  name1 = name1
  u1 = u1
  u2 = u2
  u3 = u3
  NumFolders = 2
  Dirs = {dir1, dir2}
  Names = {name1}
  Docs = {u1, u2, u3}
  Handlers = {h1, h2}
  Root = Root
  None = None
  DirId = DirId
  Tree0 <- MCTree0
  MaxOps = 2
  MaxCrashes = 1
SPECIFICATION Spec
SYMMETRY Symmetry
INVARIANTS
  
  MapsInSync
  
CHECK_DEADLOCK FALSE
