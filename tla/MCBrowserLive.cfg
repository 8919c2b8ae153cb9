SPECIFICATION PageSpec
CONSTANT Parts = {"tab", "unread", "cards", "detail", "composer", "speech", "dictation", "gauges"}
CHECK_DEADLOCK FALSE
PROPERTIES PageSettles VoiceSettles
