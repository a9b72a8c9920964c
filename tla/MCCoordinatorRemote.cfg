SPECIFICATION Spec
CONSTANTS
  a = a
  a1 = a1
  a2 = a2
  b = b
  jobA = jobA
  jobB = jobB
  obj = obj
  None = None
  Tasks <- JobATasks
  Jobs = {jobA}
  Objects = {obj}
  JobOf <- JobAJobOf
  Parent <- JobAParent
  Deps <- ChildNeedsOutput
  Outputs <- RootOutput
  JobOutputs <- JobAOutput
  Concrete = {}
  Public = {}
  Resources = {p1, p2}
  RandomlyPlaceTasks = TRUE
  Submitted = {a, a1}
  Remote = {p2}
  TasksCrash = TRUE
  LateMessages = FALSE
  JobsKilled = TRUE
INVARIANTS
  NoPUSharing
  
  RunnableTaskIsQueued
  
CHECK_DEADLOCK FALSE
