-------------------------- MODULE FlowGraphManager --------------------------
(***************************************************************************)
(* FlowGraphManager (src/scheduling/flow/flow_graph_manager.cc): keeps the *)
(* flow network in step with tasks, jobs and resources, and turns a        *)
(* solver's answer into scheduling deltas.                                 *)
(*                                                                         *)
(* The manager's state is one record g:                                    *)
(*   task     task_to_node_map_ with the type of the node: "none",         *)
(*            "UNSCHEDULED" or "SCHEDULED"                                 *)
(*   aggs     job_unsched_to_node_: the jobs with an unscheduled aggregator *)
(*   ecs      tec_to_node_map_: the equivalence classes with a node        *)
(*   res      resource_to_node_map_: the resources with a node             *)
(*   running  task_to_running_arc_: where a task's running arc leads       *)
(*   arcs     the arcs, from pairs of nodes to arc descriptors             *)
(*   slots, below   num_slots_below and num_running_tasks_below of the     *)
(*            resource descriptors                                         *)
(* Each operator is one method and returns the new record; what would fail *)
(* a CHECK in it is an operator of its own.                                *)
(***************************************************************************)
EXTENDS CostModelInterface

EmptyGraph ==
  [task |-> [t \in Tasks |-> "none"], aggs |-> {}, ecs |-> {}, res |-> {Root},
   running |-> [t \in Tasks |-> None], arcs |-> <<>>,
   slots |-> [r \in Res |-> 0], below |-> [r \in Res |-> 0]]

HasNode(g, t) == g.task[t] # "none"
Leaves(g) == g.res \cap Resources

WithoutArcs(arcs, gone) == [a \in DOMAIN arcs \ gone |-> arcs[a]]

WithArcs(arcs, new) ==
  [a \in DOMAIN arcs \cup DOMAIN new |-> IF a \in DOMAIN new THEN new[a] ELSE arcs[a]]

(* The arcs that F(u), a function from destinations, lists for each u in S. *)
ArcsFrom(S, F(_)) ==
  [a \in UNION {{u} \X DOMAIN F(u) : u \in S} |-> F(a[1])[a[2]]]

(* f with value v for all of S *)
Assigned(f, S, v) == [t \in DOMAIN f |-> IF t \in S THEN v ELSE f[t]]

DeleteNodes(g, S) ==
  [g EXCEPT !.arcs = WithoutArcs(@, {a \in DOMAIN @ : a[1] \in S \/ a[2] \in S})]

-----------------------------------------------------------------------------
(* Unscheduled aggregators *)

AggArc(j) == <<j, Sink>>

(* UpdateUnscheduledAggNode: CHECKs that there is a node, and that an arc   *)
(* that is missing is not to shrink.                                       *)
AggFails(g, j, delta) == j \notin g.aggs \/ (AggArc(j) \notin DOMAIN g.arcs /\ delta < 1)

AggCapacity(g, j) == IF AggArc(j) \in DOMAIN g.arcs THEN g.arcs[AggArc(j)].cap ELSE 0

(* For each of the tasks S, the capacity of its job's aggregator changes by delta. *)
UpdateUnscheduledAggNode(g, S, delta) ==
  LET n(j) == Cardinality({t \in S : JobOf[t] = j})
      new  == [a \in {AggArc(JobOf[t]) : t \in S} |-> [UnscheduledAggToSink EXCEPT
                 !.cap = (AggCapacity(g, a[1]) + delta * n(a[1])) % Word]]
  IN  [g EXCEPT !.arcs = WithArcs(@, new)]

(* JobCompleted and JobRemoved: RemoveUnscheduledAggNode *)
RemoveUnscheduledAggNode(g, j) == DeleteNodes([g EXCEPT !.aggs = @ \ {j}], {j})

-----------------------------------------------------------------------------
(* Tasks *)

(* The methods below are called task by task; here they take the set of     *)
(* the tasks, since none of them depends on what it did for another task.  *)

(* RemoveTaskNode and the part of its callers before it: the capacity of a  *)
(* pinned task was given back already, so it is taken only with preemption. *)
RemoveTaskNode(g, x, S) ==
  LET g1 == IF x.preemption THEN UpdateUnscheduledAggNode(g, S, -1) ELSE g
  IN  DeleteNodes([g1 EXCEPT !.task = Assigned(@, S, "none"), !.running = Assigned(@, S, None)], S)

(* TaskCompleted *)
TaskCompletedFails(g, x, t) == ~HasNode(g, t) \/ (x.preemption /\ AggFails(g, JobOf[t], -1))

(* RemoveTaskHelper, for TaskFailed, TaskKilled and TaskRemoved *)
RemoveTaskHelper(g, x, S) == RemoveTaskNode(g, x, {t \in S : HasNode(g, t)})

(* TaskEvicted *)
TaskEvictedFails(g, x, t) ==
  ~HasNode(g, t) \/ g.running[t] = None \/ (~x.preemption /\ AggFails(g, JobOf[t], 1))

RunningArcs(g, S) == {<<t, g.running[t]>> : t \in S}

(* Mutants: the aggregator's capacity does not grow; the node keeps its type. *)
TaskEvictedWithoutCapacity(g, x, S) ==
  [g EXCEPT !.task = Assigned(@, S, "UNSCHEDULED"), !.running = Assigned(@, S, None),
            !.arcs = WithoutArcs(@, RunningArcs(g, S))]
TaskEvictedStillPinned(g, x, S) ==
  LET g1 == [g EXCEPT !.running = Assigned(@, S, None),
                      !.arcs = WithoutArcs(@, RunningArcs(g, S))]
  IN  IF x.preemption THEN g1 ELSE UpdateUnscheduledAggNode(g1, S, 1)

TaskEvicted(g, x, S) ==
  LET g1 == [g EXCEPT !.task = Assigned(@, S, "UNSCHEDULED"), !.running = Assigned(@, S, None),
                      !.arcs = WithoutArcs(@, RunningArcs(g, S))]
  IN  IF x.preemption THEN g1 ELSE UpdateUnscheduledAggNode(g1, S, 1)

(* PinTaskToNode: without preemption, the running arc replaces the others. *)
PinTaskToNode(g, x, S) ==
  LET pinned == [a \in RunningArcs(g, S) |->
                   [Arc(TaskCosts(x, a[1]).continuation, 1) EXCEPT !.low = 1]]
      g1     == [g EXCEPT !.arcs = WithArcs(WithoutArcs(@, {a \in DOMAIN @ : a[1] \in S}), pinned)]
  IN  UpdateUnscheduledAggNode(g1, S, -1)

(* The running arc, and UpdateRunningTaskToUnscheduledAggArc *)
RunningTaskArcs(g, x, t) ==
  LET costs == TaskCosts(x, t)
  IN  [d \in {g.running[t]} \cup (IF x.preemption THEN {JobOf[t]} ELSE {}) |->
         Arc(IF d = g.running[t] THEN costs.continuation ELSE costs.preemption, 1)]

ScheduledTaskArcs(g, x, S) == ArcsFrom(S, LAMBDA t : RunningTaskArcs(g, x, t))

(* UpdateArcsForScheduledTask: with preemption the other arcs stay, and an   *)
(* arc to p that is a preference arc is not recognised (AddArc CHECKs).     *)
TaskScheduledFails(g, x, t, p) ==
  \/ ~HasNode(g, t) \/ p \notin g.res
  \/ x.preemption /\ \/ g.running[t] = None /\ <<t, p>> \in DOMAIN g.arcs
                     \/ <<t, JobOf[t]>> \notin DOMAIN g.arcs
  \/ ~x.preemption /\ AggFails(g, JobOf[t], -1)

UpdateArcsForScheduledTask(g, x, S) ==
  IF x.preemption
  THEN [g EXCEPT !.arcs = WithArcs(@, ScheduledTaskArcs(g, x, S))]
  ELSE PinTaskToNode(g, x, S)

(* TaskScheduled for each task t in the domain of p, on PU p[t] *)
TaskScheduled(g, x, p) ==
  UpdateArcsForScheduledTask(
    [g EXCEPT !.task = Assigned(@, DOMAIN p, "SCHEDULED"),
              !.running = [t \in Tasks |-> IF t \in DOMAIN p THEN p[t] ELSE @[t]]], x, DOMAIN p)

(* TaskMigrated *)
TaskMigrated(g, x, p) == TaskScheduled(TaskEvicted(g, x, DOMAIN p), x, p)

-----------------------------------------------------------------------------
(* Resources *)

WithStatistics(x, g) == [x EXCEPT !.slots = g.slots, !.below = g.below, !.leaves = Leaves(g)]

ChildrenOf(g, r) == {c \in g.res \ {Root} : ResParent[c] = r}

(* The arcs that leave resource r: to the sink from a PU, else to its children. *)
ResourceArcs(g, x, r) ==
  IF r \in Resources THEN [s \in {Sink} |-> LeafResourceNodeToSink(x, r)]
  ELSE [c \in ChildrenOf(g, r) |-> ResourceNodeToResourceNode(x, c)]

(***************************************************************************)
(* AddResourceTopology for a machine m that has no node yet: nodes and     *)
(* statistics bottom up, then the arcs from the parents.  The statistics   *)
(* of the root, where the walk up starts, do not grow, and no sample has   *)
(* been looked at yet.                                                     *)
(***************************************************************************)
AddResourceTopology(g, x, m) ==
  LET new == Below(m)
      g1  == [g EXCEPT !.res = @ \cup new,
                       !.slots = [r \in Res |-> IF r \in new
                                     THEN MaxTasksPerPU * Cardinality(PUsBelow(r)) ELSE @[r]],
                       !.below = [r \in Res |-> IF r \in new THEN 0 ELSE @[r]]]
      x1  == [WithStatistics(x, g1) EXCEPT !.sample = [n \in Machines |-> None]]
      in  == [a \in {<<Root, m>>} |-> ResourceNodeToResourceNode(x1, m)]
  IN  [g1 EXCEPT !.arcs = WithArcs(WithArcs(@, ArcsFrom(new, LAMBDA r : ResourceArcs(g1, x1, r))), in)]

(* Mutant: only the arcs of the machine itself are deleted. *)
RemoveResourceTopologyTop(g, m) ==
  LET gone == Below(m)
      g1   == DeleteNodes([g EXCEPT !.res = @ \ gone], {m})
  IN  [g1 EXCEPT !.slots = [r \in Res |-> IF r \in gone THEN 0 ELSE @[r]],
                 !.below = [r \in Res |-> IF r \in gone THEN 0 ELSE @[r]]]

(* UpdateResourceStatsUpToRoot: what machine m had is subtracted from the   *)
(* root, in unsigned arithmetic.                                           *)
UpdateResourceStatsUpToRoot(stat, m) ==
  [r \in Res |-> IF r \in Below(m) THEN 0 ELSE
                 IF r = Root THEN (stat[r] - stat[m]) % Word ELSE stat[r]]

(* RemoveResourceTopology: the statistics, then the nodes of the subtree *)
RemoveResourceTopology(g, m) ==
  [DeleteNodes([g EXCEPT !.res = @ \ Below(m)], Below(m)) EXCEPT
     !.slots = UpdateResourceStatsUpToRoot(@, m), !.below = UpdateResourceStatsUpToRoot(@, m)]

(***************************************************************************)
(* ComputeTopologyStatistics: breadth first from the PUs up, every resource *)
(* that a PU lies below is cleared and adds up what is below it.           *)
(***************************************************************************)
ComputeTopologyStatistics(g, x) ==
  LET above == {r \in g.res : PUsBelow(r) \cap g.res # {}}
  IN  IF x.model = "interference" THEN g
      ELSE [g EXCEPT !.slots = [r \in Res |-> IF r \in above THEN SlotsBelow(x, r) ELSE @[r]],
                     !.below = [r \in Res |-> IF r \in above THEN RunningTasksBelow(x, r) ELSE @[r]]]

-----------------------------------------------------------------------------
(* AddOrUpdateJobNodes *)

(* The tasks of the jobs' trees; the walk passes tasks without a node too. *)
JobTasks(jobs, st) == {t \in Tasks : JobOf[t] \in jobs /\ st[t] # "ABSENT"}

(* TaskMustHaveNode *)
TasksToAdd(g, jobs, st) ==
  {t \in JobTasks(jobs, st) : st[t] \in {"RUNNABLE", "RUNNING"} /\ ~HasNode(g, t)}

(* IsTaskAssignedOrRunning, or not *)
PlacedTasks(jobs, st) == {t \in JobTasks(jobs, st) : st[t] = "RUNNING"}
WaitingTasks(g, jobs, st) ==
  {t \in JobTasks(jobs, st) : st[t] = "RUNNABLE" \/ (st[t] # "RUNNING" /\ HasNode(g, t))}

(* The classes that waiting tasks reach; no class is further away. *)
WithClassesBelow(x, first) == first \cup UNION {DOMAIN ModelArcs(x, ec) \ Entities : ec \in first}

ClassesReached(x, waiting) ==
  WithClassesBelow(x, UNION {DOMAIN ModelArcs(x, t) \ Entities : t \in waiting})

ResourcesReached(x, waiting, classes) ==
  UNION {DOMAIN ModelArcs(x, u) : u \in waiting \cup classes} \cap Res

(* VisitTopologyChildren *)
VisitTopologyChildren(g, resources) == {q \in g.res : \E r \in resources : q \in Below(r)}

AddOrUpdateJobNodesFails(g, x, jobs, st) ==
  LET waiting == WaitingTasks(g, jobs, st)
  IN  \/ \E t \in PlacedTasks(jobs, st) :
            g.running[t] = None \/ (x.preemption /\ <<t, JobOf[t]>> \notin DOMAIN g.arcs)
      \/ ~(ResourcesReached(x, waiting, ClassesReached(x, waiting)) \subseteq g.res)

(* UpdateTaskNode for a task that waits *)
WaitingTaskArcs(x, t) ==
  WithArcs(ModelArcs(x, t), [j \in {JobOf[t]} |-> Arc(TaskCosts(x, t).unscheduled, 1)])

(* AddTaskNode and the aggregators' capacity *)
AddTaskNodes(g, jobs, added) ==
  UpdateUnscheduledAggNode([g EXCEPT !.aggs = @ \cup jobs,
                                     !.task = Assigned(@, added, "UNSCHEDULED")], added, 1)

(***************************************************************************)
(* UpdateFlowGraph: the walk recomputes every arc that leaves a waiting    *)
(* task, a class or a resource it reaches, and drops those that the model  *)
(* no longer lists.  What it does not reach keeps its arcs.                *)
(***************************************************************************)
UpdateFlowGraph(g, x, waiting, placed, classes) ==
  LET reached == VisitTopologyChildren(g, ResourcesReached(x, waiting, classes))
      kept    == WithoutArcs(g.arcs, {a \in DOMAIN g.arcs : a[1] \in waiting \cup classes})
      NewArcs(u) == IF u \in waiting THEN WaitingTaskArcs(x, u) ELSE
                    IF u \in placed THEN RunningTaskArcs(g, x, u) ELSE
                    IF u \in classes THEN ModelArcs(x, u) ELSE ResourceArcs(g, x, u)
  IN  [g EXCEPT !.ecs = @ \cup classes,
                !.arcs = WithArcs(kept, ArcsFrom(waiting \cup placed \cup classes \cup reached, NewArcs))]

AddOrUpdateJobNodes(g, x, jobs, st) ==
  LET waiting == WaitingTasks(g, jobs, st)
  IN  UpdateFlowGraph(AddTaskNodes(g, jobs, TasksToAdd(g, jobs, st)), x, waiting,
                      PlacedTasks(jobs, st), ClassesReached(x, waiting))

(* PurgeUnconnectedEquivClassNodes.  A class that loses its last incoming   *)
(* arc here goes the next time (in the code, it may go at once, as the      *)
(* iteration order has it); meanwhile no flow can reach it.                *)
PurgeUnconnectedEquivClassNodes(g) ==
  LET gone == {ec \in g.ecs : \A a \in DOMAIN g.arcs : a[2] # ec}
  IN  DeleteNodes([g EXCEPT !.ecs = @ \ gone], gone)

(* UpdateAllCostsToUnscheduledAggs, just before the solver runs again *)
UpdateAllCostsToUnscheduledAggs(g, x, st) ==
  LET tasks == {t \in Tasks : <<t, JobOf[t]>> \in DOMAIN g.arcs}
      ToAgg(t) == [j \in {JobOf[t]} |-> Arc(TaskCosts(x, t).unscheduled, 1)]
  IN  [g EXCEPT !.arcs = WithArcs(@, ArcsFrom(tasks, LAMBDA t :
                           IF st[t] = "RUNNING" THEN RunningTaskArcs(g, x, t) ELSE ToAgg(t)))]

-----------------------------------------------------------------------------
(* From a solver's mapping (a function from tasks to PUs) to deltas *)

(* SchedulingDeltasForPreemptedTasks *)
PreemptedTasks(g, mapping, lists, registered) ==
  {d \in registered \X Tasks : d[2] \in lists[d[1]] /\ HasNode(g, d[2]) /\ d[2] \notin DOMAIN mapping}

(* NodeBindingToSchedulingDeltas, for the part m of the mapping still valid *)
PlacedBy(m, bindings)   == [t \in {u \in DOMAIN m : bindings[u] = None} |-> m[t]]
MigratedBy(m, bindings) == [t \in {u \in DOMAIN m : bindings[u] \notin {None, m[u]}} |-> m[t]]
StayedOn(m, bindings, p) == {t \in DOMAIN m : m[t] = p /\ bindings[t] = p}

=============================================================================
