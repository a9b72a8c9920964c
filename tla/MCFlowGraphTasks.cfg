SPECIFICATION Spec
CONSTANTS
  Caps = {1}
  Costs = {1, 2}
  RandomizeIds = FALSE
  InitialIds = 2
  FlagChoices <- MergeAndPurge
  Deletable = {"task"}
  MaxNodes = 3
  MaxChanges <- Small
INVARIANTS
  IdsNeverClash
  NoDanglingArcs
  DeltaReproducesGraph
  EveryChangeApplies
  OldCostIsTheSolvers
  OptimizingIsIdempotent
CHECK_DEADLOCK FALSE
