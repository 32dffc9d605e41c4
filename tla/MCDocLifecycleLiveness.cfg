CONSTANTS
  Clients = {c1}
  Edits = {e1}
  MaxInstances = 2
  StoreMayFail = TRUE
SPECIFICATION FairSpec
PROPERTIES
  WorkersEnd
  UnusedIsCollected
CHECK_DEADLOCK FALSE
