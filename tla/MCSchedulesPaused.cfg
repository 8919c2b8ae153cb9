CONSTANTS
  Objs = {o1}
  Names = {n}
  Failures = {f}
  Overlaps = {"skip", "queue", "restart"}
  Catchups = {"all"}
  Cap = 2
  MaxTime = 4
  MaxRestarts = 0
  Nobody = nobody
  Other = other
SPECIFICATION Spec
CHECK_DEADLOCK FALSE
SYMMETRY MCSymmetry
PROPERTIES PausedFiresNothing
