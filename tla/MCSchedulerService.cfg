SPECIFICATION Spec
CONSTANTS
  a = a
  a1 = a1
  b = b
  jobA = jobA
  jobB = jobB
  m1 = m1
  m2 = m2
  core = core
  p1 = p1
  p2 = p2
  None = None
  Root = Root
  Sink = Sink
  NoLabel = NoLabel
  Tasks <- TasksAB
  Jobs = {jobA, jobB}
  Objects = {}
  JobOf <- JobOfAB
  Parent <- ParentAB
  Deps <- NoObjects
  Outputs <- NoObjects
  JobOutputs <- NoJobOutputs
  Concrete = {}
  Public = {}
  Resources = {p1, p2}
  Machines = {m1, m2}
  Interior = {core}
  ResParent <- TwoMachines
  MaxTasksPerPU = 1
  Word = 16
  Binary <- BinaryAB
  CoreId <- CoreIds
  MaxArcCost = 100
  AvgRuntime = 1
  Capacity <- Capacities
  TaskKind <- TaskKinds
  ExpExcess <- Excess
  MaxMultiArcs = 2
  Replication = 1
  InputBlocks <- NoInput
  Configs <- AllConfigs
  TaskCosts <- SelectedTaskCosts
  ModelArcs <- SelectedModelArcs
  ResourceNodeToResourceNode <- SelectedResourceNodeToResourceNode
  InitialModel <- SelectedInitialModel
  AddMachineFails <- SelectedAddMachineFails
  AddMachine <- SelectedAddMachine
  RemoveMachineFails <- SelectedRemoveMachineFails
  RemoveMachineChoices <- SelectedRemoveMachineChoices
  RemoveMachine <- SelectedRemoveMachine
  AddTaskFails <- SelectedAddTaskFails
  AddTask <- SelectedAddTask
  RemoveTask <- SelectedRemoveTask
  TasksPlaced <- SelectedTasksPlaced
  ContinuationFails <- SelectedContinuationFails
  ClassesSeen <- SelectedClassesSeen
  TaskReported <- SelectedTaskReported
  SlotsBelow <- SelectedSlotsBelow
  RunningTasksBelow <- SelectedRunningTasksBelow
  GatheredModel <- SelectedGatheredModel
  GatherStatsFails <- SelectedGatherStatsFails
  CostModelFails <- SelectedCostModelFails
  NoTaskClasses <- SelectedNoTaskClasses
INVARIANTS
  TypeOK
  FailuresExplained
  AggregatorCapacityCovers
  PinnedIffRunning
  NoDanglingArcs
  CountersMatch
  FreeSlotsNeverWrap
PROPERTIES
  PlacesTasksSafely
  RoundMakesProgress
  SelectorsHonoured
CHECK_DEADLOCK FALSE
