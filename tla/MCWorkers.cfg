SPECIFICATION MCSpec
CONSTANTS
  s1 = s1
  s2 = s2
  s3 = s3
  Slots = {s1, s2}
  Ops = {"start", "done", "handoff", "archive", "restore", "merge", "watch"}
  Keep = FALSE
  KillMayFail = FALSE
  MaxRecs = 2
  MaxGens = 2
  MaxRestarts = 0
SYMMETRY MCSymmetry
VIEW Running
CHECK_DEADLOCK FALSE
INVARIANTS OneWorker WorkingHasWorker
PROPERTIES DroppedOnlyWhenGone LeftStanding SilenceIsHeard
