SPECIFICATION CrewSpec
CONSTANTS
  Parts = {"wakes", "rough", "sessions", "panes", "hooks", "base", "push", "roster"}
  Lts = {"a"}
  Cards = {}
  None = "none"
  Tools = {"tool"}
  MaxSeq = 2
  MaxRestarts = 1
  CrashPoints = {"midCursor"}
  KillMayFail = TRUE
  MaxSends = 2
  MaxDeaths = 1
CHECK_DEADLOCK FALSE
VIEW Running
INVARIANTS SeqsUnique NudgedOnlyWhilePending ToldOnce GroundFresh CrewApart
PROPERTIES OneAgentOneBell
