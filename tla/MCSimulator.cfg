SPECIFICATION Spec
CONSTANTS
  a = a
  a1 = a1
  b = b
  jobA = jobA
  jobB = jobB
  m1 = m1
  m2 = m2
  m3 = m3
  p1 = p1
  p2 = p2
  p3 = p3
  p4 = p4
  None = None
  Root = Root
  Sink = Sink
  NoLabel = NoLabel
  Tasks <- TasksAB
  Jobs = {jobA, jobB}
  Objects = {}
  JobOf <- JobOfAB
  Parent <- ParentAB
  Deps <- NoObjects
  Outputs <- NoObjects
  JobOutputs <- NoJobOutputs
  Concrete = {}
  Public = {}
  Resources = {p1, p2, p3, p4}
  Machines = {m1, m2, m3}
  Interior = {}
  ResParent <- ThreeMachines
  MaxTasksPerPU = 1
  Word = 16
  Binary <- BinaryAB
  CoreId <- CoreIds
  MaxArcCost = 100
  AvgRuntime = 1
  Capacity <- Capacities
  TaskKind <- TaskKinds
  ExpExcess <- Excess
  MaxMultiArcs = 2
  Replication = 2
  InputBlocks <- Input
  SlowDown = 1
  TimeWord = 1024
  Never = 999
  TimeZeroWait = 100
  Configs <- AllConfigs
  TaskCosts <- SelectedTaskCosts
  ModelArcs <- SelectedModelArcs
  ResourceNodeToResourceNode <- SelectedResourceNodeToResourceNode
  InitialModel <- SelectedInitialModel
  AddMachineFails <- SelectedAddMachineFails
  AddMachine <- SelectedAddMachine
  RemoveMachineFails <- SelectedRemoveMachineFails
  RemoveMachineChoices <- SelectedRemoveMachineChoices
  RemoveMachine <- SelectedRemoveMachine
  AddTaskFails <- SelectedAddTaskFails
  AddTask <- SelectedAddTask
  RemoveTask <- SelectedRemoveTask
  TasksPlaced <- SelectedTasksPlaced
  ContinuationFails <- SelectedContinuationFails
  ClassesSeen <- SelectedClassesSeen
  TaskReported <- SelectedTaskReported
  SlotsBelow <- SelectedSlotsBelow
  RunningTasksBelow <- SelectedRunningTasksBelow
  GatheredModel <- SelectedGatheredModel
  GatherStatsFails <- SelectedGatherStatsFails
  CostModelFails <- SelectedCostModelFails
  NoTaskClasses <- SelectedNoTaskClasses
INVARIANTS
  
  EndEventsMatch
  WorkConserved
  UsageFromTrace
  CostsNeverUnderestimate
  BlocksAccounted
  WholeTraceReplayed
PROPERTY
  SimTerminates
