SPECIFICATION Spec
CONSTANTS
  d1 = d1  d2 = d2  l1 = l1  jobD = jobD  jobL = jobL
  Tasks <- MCTasks
  Delegated <- MCDelegated
  Jobs = {jobD, jobL}
  JobOf <- MCJobOf
  Parent <- MCParent
  Objects = {}
  Deps <- NoObjects
  Outputs <- NoObjects
  JobOutputs <- NoJobOutputs
  Concrete = {}
  Public = {}
  None = None
  Resources = {pu}
  RandomlyPlaceTasks = FALSE
  Channels <- MCChannels
  Delegator = Delegator
  NoChannel = NoChannel
  Address = "address"
  Names = {"address", "host"}
  Environments <- MCEnvironments
CHECK_DEADLOCK FALSE
INVARIANT SharingOnlyByRace
PROPERTY RequestsAnswered
