SPECIFICATION FairSpec
CONSTANTS
  a = a
  a1 = a1
  a2 = a2
  b = b
  jobA = jobA
  jobB = jobB
  obj = obj
  None = None
  Tasks <- TwoJobsTasks
  Jobs <- TwoJobs
  Objects = {obj}
  JobOf <- TwoJobsJobOf
  Parent <- TwoJobsParent
  Deps <- NoObjects
  Outputs <- NoObjects
  JobOutputs <- NoJobOutputs
  Concrete = {}
  Public = {}
  Resources = {p1}
  RandomlyPlaceTasks = FALSE
  Submitted = {a, a1, b}
  Remote = {}
  TasksCrash = FALSE
  LateMessages = FALSE
  JobsKilled = FALSE
PROPERTIES
  WaitingTaskIsTriedAgain
CHECK_DEADLOCK FALSE
