CONSTANTS
  Writers = {w1}
  Worker = worker
  Handlers = {handler}
  MaxVersion = 2
  Free = Free
SPECIFICATION Spec
INVARIANT CleanMeansStored
CHECK_DEADLOCK FALSE
