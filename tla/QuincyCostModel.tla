-------------------------- MODULE QuincyCostModel ---------------------------
(***************************************************************************)
(* The Quincy cost model (src/scheduling/flow/quincy_cost_model.cc): tasks *)
(* prefer the machines and racks that hold their input, and the cost of an *)
(* arc is the cost of the transfers it implies.  Its state, in x.cm:       *)
(*   dfs      the data layer (see SimulatedDFS)                            *)
(*   ecs      task_preferred_ecs_: the costs of the arcs to racks and to   *)
(*            the cluster aggregator; None for a task it does not know     *)
(*   prefs    task_preferred_machines_                                     *)
(*   runArc   task_running_arcs_: the cached cost of one other machine     *)
(* A block is one GB and time is in seconds, so that no division rounds    *)
(* but the one by the wait time factor.                                    *)
(***************************************************************************)
EXTENDS SimpleCostModels, SimulatedDFS

TorCost  == 1      \* FLAGS_quincy_tor_transfer_cost
CoreCost == 2      \* FLAGS_quincy_core_transfer_cost
CostOffset == 5    \* FLAGS_quincy_positive_cost_offset
NoCost == -1000    \* INT64_MIN

RackAgg(r) == <<"rack", r>>

(* ComputeDataStatsForMachine and ComputeTransferCostToMachine *)
TransferCost(d, t, m) ==
  LET onMachine == BlocksOn(d, t, {m})
      onRack    == BlocksOn(d, t, MachinesInRack(d, d.rack[m]))
  IN  TorCost * (onRack - onMachine) + CoreCost * (InputBlocks[t] - onRack)

(* ComputeTransferCostToRack: the worst machine of the rack *)
RackTransferCost(d, t, r) == Max({TransferCost(d, t, m) : m \in MachinesInRack(d, r)})

(* At least a tenth of the input, as both data fractions have it *)
EnoughData(blocks, t) == 10 * blocks >= InputBlocks[t]

(* Machines of S that task t prefers.  One that holds no block is never     *)
(* looked at.                                                              *)
PreferredMachines(d, t, S) ==
  {m \in S : BlocksOn(d, t, {m}) > 0 /\ EnoughData(BlocksOn(d, t, {m}), t)}

-----------------------------------------------------------------------------
(* Costs and arcs *)

(* TaskToUnscheduledAgg *)
QuincyUnscheduled(x, t) ==
  LET td == x.times.td[t]
      current == IF td.start = 0 \/ td.start < td.submit THEN x.times.now - td.submit ELSE 0
  IN  IF t \in x.times.forced THEN 100 + CostOffset
      ELSE (td.waited + current + 2 * CostOffset) \div 2

(* TaskToResourceNode for a machine, with GetTransferCostToNotPreferredRes *)
QuincyMachineCost(x, t, m) ==
  LET c == x.cm
  IN  CostOffset + (IF m \in DOMAIN c.prefs[t] THEN c.prefs[t][m]
                    ELSE IF c.runArc[t].machine = m THEN c.runArc[t].cost
                    ELSE TransferCost(c.dfs, t, m))

(* TaskContinuation.  Its time is total_run_time plus the current run.  *)
QuincyContinuation(x, t) ==
  IF x.where[t] = None THEN 0
  ELSE QuincyMachineCost(x, t, MachineOf(x.where[t]))
       - (x.times.td[t].total + x.times.now - x.times.td[t].start)
QuincyContinuationFails(x, t) == x.times.now < x.times.td[t].start

QuincyCosts(x, t) ==
  [unscheduled |-> QuincyUnscheduled(x, t), continuation |-> QuincyContinuation(x, t),
   preemption |-> QuincyUnscheduled(x, t)]

(* GetNumSchedulableSlots *)
SchedulableSlots(x, m) == CapacityFromResNodeToParent(x, m)

QuincyTaskArcs(x, t) ==
  [ec \in DOMAIN x.cm.ecs[t] |-> Arc(x.cm.ecs[t][ec] + CostOffset, 1)] @@
  [m \in DOMAIN x.cm.prefs[t] |-> Arc(QuincyMachineCost(x, t, m), 1)]

QuincyClassArcs(x, ec) ==
  LET d == x.cm.dfs
  IN  IF ec = ClusterAgg
      THEN [rack \in {RackAgg(r) : r \in RackIDs(d)} |->
              Arc(0, SumOver(MachinesInRack(d, rack[2]), LAMBDA m : SchedulableSlots(x, m)))]
      ELSE [m \in MachinesInRack(d, ec[2]) |-> Arc(0, SchedulableSlots(x, m))]

(* Running arcs that the cost model caches when tasks S are placed *)
QuincyCached(x, c, S) ==
  [c EXCEPT !.runArc = [t \in Tasks |->
     LET m == MachineOf(x.where[t])
     IN  IF t \in S /\ m \notin DOMAIN c.prefs[t]
         THEN [machine |-> m, cost |-> QuincyMachineCost(x, t, m) - CostOffset] ELSE @[t]]]

-----------------------------------------------------------------------------
(* Tasks *)

NoRunArc == [machine |-> None, cost |-> 0]

QuincyAddTaskFails(c, t) == c.ecs[t] # None

(* AddTask: ConstructTaskPreferredSet *)
QuincyAddTask(c, t) ==
  LET d == c.dfs
      racks  == {r \in RackIDs(d) : BlocksOn(d, t, MachinesInRack(d, r)) > 0}
      remote == IF racks # RackIDs(d) THEN CoreCost * InputBlocks[t] ELSE NoCost
      worst  == Max({remote} \cup {RackTransferCost(d, t, r) : r \in racks})
      wanted == {r \in racks : EnoughData(BlocksOn(d, t, MachinesInRack(d, r)), t)}
  IN  [c EXCEPT
         !.prefs[t] = [m \in PreferredMachines(d, t, Machines) |-> TransferCost(d, t, m)],
         !.ecs[t] = [ec \in {RackAgg(r) : r \in wanted} |-> RackTransferCost(d, t, ec[2])] @@
                    (ClusterAgg :> worst)]

QuincyRemoveTask(c, t) == [c EXCEPT !.ecs[t] = None, !.prefs[t] = <<>>, !.runArc[t] = NoRunArc]

(* RemoveTask for a task that completed, whose input the simulator deletes *)
QuincyTaskCompleted(c, t) == [QuincyRemoveTask(c, t) EXCEPT !.dfs = RemoveFilesForTask(@, t)]

-----------------------------------------------------------------------------
(* Machines *)

(* UpdateTaskCostForRack and UpdateTaskPreferredMachineList *)
UpdatedMachines(d, prefs, t, r) ==
  LET ms == MachinesInRack(d, r)
      now == PreferredMachines(d, t, ms)
  IN  [m \in now |-> TransferCost(d, t, m)] @@
      [m \in {q \in DOMAIN prefs : q \notin ms \/ BlocksOn(d, t, {q}) = 0} |-> prefs[m]]

(***************************************************************************)
(* UpdateTaskCosts, with UpdateTaskPreferredRacksList: the rack that       *)
(* changed gets a new cost, and the cluster aggregator the worst that is   *)
(* known; it never becomes cheaper.                                        *)
(***************************************************************************)
UpdatedClasses(d, ecs, t, r, rackRemoved) ==
  LET others == [ec \in DOMAIN ecs \ {RackAgg(r), ClusterAgg} |-> ecs[ec]]
      cost   == IF rackRemoved THEN {} ELSE {RackTransferCost(d, t, r)}
      wanted == ~rackRemoved /\ EnoughData(BlocksOn(d, t, MachinesInRack(d, r)), t)
      worst  == Max({ecs[ClusterAgg]} \cup {others[ec] : ec \in DOMAIN others} \cup cost)
  IN  (IF wanted THEN RackAgg(r) :> RackTransferCost(d, t, r) ELSE <<>>) @@ others @@
      (ClusterAgg :> worst)

(* Mutant: costs stay as they were when a machine comes or goes. *)
UpdateTaskCostsOff(x, c, r, rackRemoved) == c

(* UpdateTaskCosts for the tasks of task_map_ that the model knows *)
UpdateTaskCosts(x, c, r, rackRemoved) ==
  LET known == {t \in x.known : c.ecs[t] # None}
  IN  [c EXCEPT
         !.ecs = [t \in Tasks |-> IF t \in known
                    THEN UpdatedClasses(c.dfs, @[t], t, r, rackRemoved) ELSE @[t]],
         !.prefs = [t \in Tasks |-> IF t \in known /\ ~rackRemoved
                      THEN UpdatedMachines(c.dfs, @[t], t, r) ELSE @[t]]]

QuincyAddMachine(x, c, m, r) ==
  UpdateTaskCosts(x, [c EXCEPT !.dfs = AddMachineToRack(@, m, r)], r, FALSE)

(* RemoveMachine, where d is the data layer without the machine.  The       *)
(* preferences for the machine go, and those for its rack if it was the     *)
(* last.                                                                   *)
QuincyRemoveMachine(x, c, m, d) ==
  LET r == c.dfs.rack[m]
      rackRemoved == r \notin RackIDs(d)
      without(f, k) == [q \in DOMAIN f \ {k} |-> f[q]]
      c1 == [c EXCEPT !.dfs = d,
               !.prefs = [t \in Tasks |-> without(@[t], m)],
               !.ecs = [t \in Tasks |-> IF @[t] = None \/ ~rackRemoved THEN @[t]
                                        ELSE without(@[t], RackAgg(r))]]
  IN  UpdateTaskCosts(x, c1, r, rackRemoved)

=============================================================================
