----------------------------- MODULE CostModel ------------------------------
(***************************************************************************)
(* The implementations of CostModelInterface, of which the flag            *)
(* --flow_scheduling_cost_model selects one: each operator defines the     *)
(* constant of that name there.  x is the record that SimpleCostModels     *)
(* describes; x.model is the flag and x.cm is the model's own state.       *)
(***************************************************************************)
EXTENDS NetCostModel, WhareMapCostModel, CocoCostModel, QuincyCostModel

Models == {"trivial", "random", "sjf", "octopus", "void", "interference", "net",
           "wharemap", "coco", "quincy"}

(* TaskToUnscheduledAgg, TaskContinuation and TaskPreemption *)
SelectedTaskCosts(x, t) ==
  CASE x.model = "trivial"      -> TrivialCosts
    [] x.model = "random"       -> RandomCosts
    [] x.model = "sjf"          -> SjfCosts(x, t)
    [] x.model = "octopus"      -> OctopusCosts
    [] x.model = "void"         -> VoidCosts
    [] x.model = "interference" -> InterferenceCosts
    [] x.model = "net"          -> NetCosts
    [] x.model = "wharemap"     -> WhareTaskCosts(x, t)
    [] x.model = "coco"         -> CocoTaskCosts(x, t)
    [] x.model = "quincy"       -> QuincyCosts(x, t)

(***************************************************************************)
(* The arcs that leave a task or a class u, from destinations to arcs: to  *)
(* classes (GetTaskEquivClasses, GetEquivClassToEquivClassesArcs) and to   *)
(* resources (GetTaskPreferenceArcs, GetOutgoingEquivClassPrefArcs).       *)
(***************************************************************************)
SelectedModelArcs(x, u) ==
  CASE x.model = "trivial"      -> TrivialArcs(x, u)
    [] x.model = "random"       -> RandomArcs(x, u)
    [] x.model = "sjf"          -> SjfArcs(x, u)
    [] x.model = "octopus"      -> OctopusArcs(x, u)
    [] x.model = "void"         -> VoidArcs(x, u)
    [] x.model = "interference" -> InterferenceArcs
    [] x.model = "net"          -> IF u \in Tasks THEN NetTaskArcs(x, u) ELSE NetClassArcs(x, u)
    [] x.model = "wharemap"     -> IF u \in Tasks THEN WhareTaskArcs(x, u) ELSE WhareClassArcs(x, u)
    [] x.model = "coco"         -> IF u \in Tasks THEN CocoTaskArcs(x, u) ELSE CocoClassArcs(x, u)
    [] x.model = "quincy"       -> IF u \in Tasks THEN QuincyTaskArcs(x, u) ELSE QuincyClassArcs(x, u)

(* ResourceNodeToResourceNode: the arc that enters r from its parent *)
SelectedResourceNodeToResourceNode(x, r) ==
  LET capacity == CapacityFromResNodeToParent(x, r)
  IN  CASE x.model = "interference" -> Arc(InterferenceCosts.resource, 1)
        [] x.model = "trivial"      -> Arc(TrivialCosts.resource, capacity)
        [] x.model = "random"       -> Arc(RandomCosts.resource, capacity)
        [] x.model = "sjf"          -> Arc(0, capacity)
        [] x.model = "octopus"      -> Arc(OctopusResourceCost(x, r), capacity)
        [] x.model = "void"         -> Arc(VoidCosts.resource, capacity)
        [] x.model = "net"          -> Arc(NetCosts.resource, capacity)
        [] x.model = "wharemap"     -> Arc(WhareResourceCost(r), capacity)
        [] x.model = "coco"         -> Arc(CocoResourceCost(x, r), capacity)
        [] x.model = "quincy"       -> Arc(0, capacity)

-----------------------------------------------------------------------------
(* The model's own state: the machines it knows; what the network model    *)
(* recorded of tasks, classes and machines; the samples of Whare-Map; the   *)
(* classes and bounds of CoCo; the data layer and preferences of Quincy.    *)

SelectedInitialModel ==
  [machines |-> {}, taskBw |-> [t \in Tasks |-> -1], selectorsOf |-> <<>>,
   available |-> [m \in Machines |-> 0],
   psi |-> <<>>, worst |-> [bin \in {Binary[t] : t \in Tasks} |-> 0], typeAggs |-> {},
   members |-> [j \in Jobs |-> {}], requestOf |-> [j \in Jobs |-> None],
   maxCap |-> Nothing, minCap |-> Nothing,
   dfs |-> None, ecs |-> [t \in Tasks |-> None], prefs |-> [t \in Tasks |-> <<>>],
   runArc |-> [t \in Tasks |-> NoRunArc]]

(* The rack for a new machine; only Quincy asks. *)
RackChoicesFor(x, cm) == IF x.model = "quincy" THEN RackChoices(cm.dfs) ELSE {None}

SelectedAddMachineFails(x, cm, m, rack) ==
  \/ x.model = "net" /\ NetAddMachineFails(cm, m)
  \/ x.model = "quincy" /\ AddMachineToRackFails(cm.dfs, rack)

SelectedAddMachine(x, cm, m, rack) ==
  CASE x.model = "interference" -> cm
    [] x.model = "quincy"       -> QuincyAddMachine(x, cm, m, rack)
    [] x.model = "coco"         -> CocoAddMachine(cm, m)
    [] x.model = "wharemap"     -> WhareAddMachine(cm, m)
    [] OTHER                    -> [cm EXCEPT !.machines = @ \cup {m}]

(* CHECK_EQ(machines_.erase(res_id), 1); nothing in net, interference and    *)
(* coco.  In Quincy, the machine's blocks need space elsewhere.            *)
SelectedRemoveMachineFails(x, cm, m) ==
  CASE x.model \in {"net", "interference", "coco"} -> FALSE
    [] x.model = "quincy"                          -> RemoveMachineFromRack(cm.dfs, m) = {}
    [] OTHER                                       -> m \notin cm.machines

(* What chance decides: whether m comes second among the machines of its    *)
(* type in Whare-Map's map, and where the blocks of a machine move.        *)
SelectedRemoveMachineChoices(x, cm, m) ==
  CASE x.model = "wharemap" /\ MachinesOfType(x, MachineType(m)) # {m} -> BOOLEAN
    [] x.model = "quincy" /\ ~SelectedRemoveMachineFails(x, cm, m) -> RemoveMachineFromRack(cm.dfs, m)
    [] OTHER -> {FALSE}

(* Mutant: the model keeps the machine. *)
RemoveMachineKeeps(x, cm, m, later) == cm

SelectedRemoveMachine(x, cm, m, later) ==
  CASE x.model \in {"net", "interference", "coco"} -> cm
    [] x.model = "wharemap"                        -> WhareRemoveMachine(cm, m, later)
    [] x.model = "quincy"                          -> QuincyRemoveMachine(x, cm, m, later)
    [] OTHER                                       -> [cm EXCEPT !.machines = @ \ {m}]

SelectedAddTaskFails(x, cm, t) ==
  \/ x.model = "net" /\ NetAddTaskFails(cm, t)
  \/ x.model = "quincy" /\ QuincyAddTaskFails(cm, t)

SelectedAddTask(x, cm, t) ==
  CASE x.model = "net"    -> NetAddTask(cm, x, t)
    [] x.model = "coco"   -> CocoAddTask(cm, x, t)
    [] x.model = "quincy" -> QuincyAddTask(cm, t)
    [] OTHER              -> cm

SelectedRemoveTask(x, cm, t) ==
  CASE x.model = "coco"   -> CocoRemoveTask(cm, t)
    [] x.model = "quincy" -> QuincyRemoveTask(cm, t)
    [] OTHER              -> cm

(* TaskContinuation when tasks S are placed, and its CHECK on the clock *)
SelectedTasksPlaced(x, cm, S) == IF x.model = "quincy" THEN QuincyCached(x, cm, S) ELSE cm
SelectedContinuationFails(x, S) == x.model = "quincy" /\ \E t \in S : QuincyContinuationFails(x, t)

(* The classes that a round asks for, before their arcs are listed *)
SelectedClassesSeen(x, cm, tasks) ==
  CASE x.model = "net"  -> NetClassesSeen(cm, x, tasks)
    [] x.model = "coco" -> CocoClassesSeen(cm, tasks)
    [] OTHER            -> cm

(* GetTaskEquivClasses and RemoveTask in HandleTaskFinalReport, for a task   *)
(* that completed on PU p                                                  *)
SelectedTaskReported(x, cm, t, p) ==
  CASE x.model = "wharemap" -> WhareTaskCompleted(cm, x, t, p)
    [] x.model = "quincy"   -> QuincyTaskCompleted(cm, t)
    [] OTHER                -> SelectedRemoveTask(x, SelectedClassesSeen(x, cm, {t}), t)

(***************************************************************************)
(* PrepareStats and GatherStats over the PUs below a resource: every PU    *)
(* has as many slots as tasks may run on it, and counts its list of        *)
(* current_running_tasks.  CoCo does not reach the root.                   *)
(***************************************************************************)
SelectedSlotsBelow(x, r) ==
  IF x.model # "coco" THEN MaxTasksPerPU * Cardinality(PUsBelow(r) \cap x.leaves)
  ELSE IF r = Root THEN 0 ELSE CocoSlots(x, r)

SelectedRunningTasksBelow(x, r) ==
  IF x.model # "coco" THEN SumOver(PUsBelow(r) \cap x.leaves, LAMBDA p : Cardinality(x.lists[p]))
  ELSE IF r = Root THEN 0 ELSE CocoBelow(x, r)

(* What they leave in the model's own tables *)
SelectedGatheredModel(x, cm) == IF x.model = "net" THEN NetGatherStats(cm, x) ELSE cm

(* GetTask in GatherStats *)
SelectedGatherStatsFails(x) == x.model = "coco" /\ CocoGatherFails(x)

(***************************************************************************)
(* The CHECKs on the way through AddOrUpdateJobNodes that depend on the    *)
(* model: a random PU needs a PU, the network model looks up every machine *)
(* it ever heard of, and CoCo the request of a job's class.                *)
(***************************************************************************)
SelectedCostModelFails(x, waiting) ==
  \/ x.model \in {"trivial", "random"} /\ waiting # {} /\ x.leaves = {}
  \/ x.model = "net" /\ waiting # {} /\ ~(x.cm.machines \subseteq x.up)
  \/ x.model = "coco" /\ \E t \in waiting : x.cm.requestOf[JobOf[t]] = None

(* HandleTaskFinalReport needs the task's classes. *)
SelectedNoTaskClasses(x) == x.model = "interference"

=============================================================================
