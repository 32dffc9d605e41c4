CONSTANTS
  Workers = {w1}
  Docs = {d1, d2}
  None = None
  Budget = 3
  Window = 1
  PreExit = 1
  Grace = 1
  Period = 1
  Stale = 1
  MaxClock = 5
  MaxPanics = 5
SYMMETRY Symmetric
SPECIFICATION ProcessSpec
INVARIANTS
  BudgetKept
  StallsAreNoticed
CHECK_DEADLOCK FALSE
