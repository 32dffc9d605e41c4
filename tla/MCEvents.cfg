CONSTANTS
  Docs = {d1, d2}
  None = None
  MaxUpdates = 2
  MaxChanges = 2
  MaxQueues = 2
  MaxLoads = 3
  MaxQueries = 1
SYMMETRY Symmetry
SPECIFICATION Spec
INVARIANTS
  IndexCurrent
  CaughtUp
CHECK_DEADLOCK FALSE
