SPECIFICATION Spec
CONSTANTS
  a = a
  a1 = a1
  a2 = a2
  b = b
  jobA = jobA
  jobB = jobB
  obj = obj
  None = None
  Tasks <- JobATasks
  Jobs = {jobA}
  Objects = {obj}
  JobOf <- JobAJobOf
  Parent <- JobAParent
  Deps <- JobANoObjects
  Outputs <- JobANoObjects
  JobOutputs <- JobANoOutputs
  Concrete = {}
  Public = {}
  Resources = {p1}
  RandomlyPlaceTasks = FALSE
  Submitted = {a, a1}
  Remote = {p1}
  TasksCrash = FALSE
  LateMessages = FALSE
  JobsKilled = FALSE
PROPERTIES
  CompletedIsFinal
CHECK_DEADLOCK FALSE
