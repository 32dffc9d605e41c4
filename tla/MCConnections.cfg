CONSTANTS
  Clients = {c1, c2}
  None = None
  Capacity = 4
  MaxConns = 2
  MaxEdits = 1
  MaxClock = 2
  MaxOps = 2
SYMMETRY Symmetry
SPECIFICATION Spec
INVARIANTS
  Converged
  PresenceTrue
CHECK_DEADLOCK FALSE
