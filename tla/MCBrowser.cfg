SPECIFICATION BrowserSpec
CONSTANTS
  Parts = {"tab", "unread", "cards", "detail", "composer", "files"}
  Text = {"ship it"}
  ChatTail = 1
  Page = 1
  Before = 2
  MaxLog = 4
  Trouble = {"change", "restart", "fault", "poll", "leave"}
  MaxTrouble = 2
  Repeats = FALSE
CHECK_DEADLOCK FALSE
VIEW Running
INVARIANTS ChatWhole BellAgrees BoardHonest ComposerKeeps WorkSafe
