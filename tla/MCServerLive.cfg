SPECIFICATION ServerSpec
CONSTANTS
  Parts = {"rest", "wakes", "due", "sessions", "base", "boot", "usage", "activity"}
  Slots = {s1, s2}
  Ops = {"done", "pause", "park", "watch", "archive", "merge"}
  Keep = FALSE
  KillMayFail = FALSE
  MaxRecs = 1
  MaxGens = 1
  MaxRestarts = 0
CHECK_DEADLOCK FALSE
PROPERTIES RestIsHonest CrewIsServed HostSettles
