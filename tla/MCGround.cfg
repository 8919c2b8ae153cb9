\* Two cards, one with a stack of two PRs, over one slot; a crash, a restore or a closed PR.
SPECIFICATION FairSpec
CONSTANTS
  Card = {"c1", "c2"}
  Slot = {"s"}
  PrsOf <- McPrs
  Serial = TRUE
  MaxFaults = 1
  MaxLines = 4
INVARIANTS CardKept LeaseIsMine
PROPERTY MergeLands
CHECK_DEADLOCK FALSE
