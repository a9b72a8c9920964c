SPECIFICATION Spec
CONSTANTS
  Caps = {1}
  Costs = {1, 2}
  RandomizeIds = FALSE
  InitialIds = 2
  FlagChoices <- Default
  Deletable = {"task"}
  MaxNodes = 3
  MaxChanges <- Small
INVARIANT DeltaReproducesGraph
CHECK_DEADLOCK FALSE
