------------------------- MODULE CostModelInterface -------------------------
(***************************************************************************)
(* CostModelInterface (src/scheduling/flow/cost_model_interface.h): what   *)
(* FlowGraphManager and FlowScheduler ask of a cost model.  The methods    *)
(* that the models implement are constants here; CostModel defines them    *)
(* for the model that --flow_scheduling_cost_model selects.                *)
(*                                                                         *)
(* x is the record that SimpleCostModels describes, what a model sees when *)
(* it is asked; x.cm, or cm, is the model's own state.                     *)
(***************************************************************************)
EXTENDS Cluster

CONSTANTS
  TaskCosts(_, _),          \* TaskToUnscheduledAgg, TaskContinuation, TaskPreemption
  ModelArcs(_, _),          \* the arcs that leave a task or a class
  ResourceNodeToResourceNode(_, _),
  InitialModel,             \* the model's state when it is constructed
  AddMachineFails(_, _, _, _), AddMachine(_, _, _, _),
  RemoveMachineFails(_, _, _), RemoveMachine(_, _, _, _),
  RemoveMachineChoices(_, _, _), \* what chance decides in RemoveMachine
  AddTaskFails(_, _, _), AddTask(_, _, _), RemoveTask(_, _, _),
  TasksPlaced(_, _, _),     \* what TaskContinuation records of placed tasks
  ContinuationFails(_, _),
  ClassesSeen(_, _, _),     \* what GetTaskEquivClasses records of tasks
  TaskReported(_, _, _, _), \* what HandleTaskFinalReport leaves of a task
  SlotsBelow(_, _), RunningTasksBelow(_, _), \* PrepareStats and GatherStats
  GatheredModel(_, _), GatherStatsFails(_),
  CostModelFails(_, _),     \* the CHECKs in the functions that list arcs
  NoTaskClasses(_)          \* GetTaskEquivClasses returns nothing

(* These are the same in all models but that of interference. *)
LeafResourceNodeToSink(x, p) ==
  IF x.model = "interference" THEN Arc(0, 1) ELSE Arc(0, MaxTasksPerPU)

UnscheduledAggToSink == Arc(0, 1)

=============================================================================
