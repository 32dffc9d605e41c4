CONSTANTS
  Clients = {c1, c2}
  Edits = {e1}
  MaxInstances = 2
  StoreMayFail = TRUE
SPECIFICATION Spec
SYMMETRY Symmetry
INVARIANTS
  HeldIsMapped
  EditsReachSyncKv
  MappedIsServed
  NothingLeftBehind
  
CHECK_DEADLOCK FALSE
