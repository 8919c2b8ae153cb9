CONSTANTS
  Lts = {a, b}
  Cards = {c}
  None = none
  Tools = {}
  MaxSeq = 3
  MaxRestarts = 1
  CrashPoints = {"midAppend"}
  KillMayFail = FALSE
SPECIFICATION Spec
CHECK_DEADLOCK FALSE
SYMMETRY MCSymmetry
PROPERTIES PendingKept
