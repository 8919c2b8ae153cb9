SPECIFICATION HostSpec
CONSTANTS
  Parts = {"boot", "speech", "dictation", "activity", "onboard", "usage", "when", "trace"}
  Callers = {k1, k2}
  Ports = {1, 2}
  Pids = {1, 2, 3}
  MaxChanges = 1
  Legacy = FALSE
  Charters = TRUE
  Trouble = {"crash", "recycled", "taken", "slow", "unwritable", "edit"}
  MaxTrouble = 1
CHECK_DEADLOCK FALSE
VIEW Running
SYMMETRY CallersAlike
INVARIANTS OneOwner AckedKept VoiceWhole ActivityAgrees CountedOnce NoneLostOrTwice
PROPERTIES StartsHonestly
