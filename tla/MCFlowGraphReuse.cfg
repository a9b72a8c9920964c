SPECIFICATION Spec
CONSTANTS
  Caps = {1}
  Costs = {1, 2}
  RandomizeIds = FALSE
  InitialIds = 2
  FlagChoices <- MergeOnly
  Deletable = {"task", "other"}
  MaxNodes = 3
  MaxChanges <- Longer
INVARIANT MergingNeverAborts
CHECK_DEADLOCK FALSE
