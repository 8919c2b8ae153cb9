CONSTANTS
  Modes = {"keyword", "silence"}
  MaxChunks = 2
  MaxReplies = 1
  MaxTouches = 2
SPECIFICATION Spec
CHECK_DEADLOCK FALSE
INVARIANTS HisTurnKept
PROPERTIES ButtonsObeyed
