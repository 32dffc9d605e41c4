CONSTANTS
  Writers = {w1, w2}
  Worker = worker
  Handlers = {}
  MaxVersion = 2
  Free = Free
SPECIFICATION FairSpec
INVARIANTS
  TypeOK
  Accounted
  CleanMeansStored
  DirtyIsSignalled
PROPERTY
  ImplementsDurableDoc
CHECK_DEADLOCK FALSE
