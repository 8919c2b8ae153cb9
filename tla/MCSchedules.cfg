CONSTANTS
  Objs = {o1, o2}
  Names = {n}
  Failures = {f}
  Overlaps = {"skip", "queue", "restart"}
  Catchups = {"latest", "all", "none"}
  Cap = 2
  MaxTime = 4
  MaxRestarts = 1
  Nobody = nobody
  Other = other
SPECIFICATION Spec
CHECK_DEADLOCK FALSE
SYMMETRY MCSymmetry
INVARIANTS NothingMissed
PROPERTIES FiredOnce CursorForward
