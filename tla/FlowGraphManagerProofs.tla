----------------------- MODULE FlowGraphManagerProofs -----------------------
(***************************************************************************)
(* Proofs about FlowGraphManager: what each change of the graph does to    *)
(* the nodes of tasks, the running arcs and the arcs of PUs; that the      *)
(* capacities of the unscheduled aggregators cover the tasks of their      *)
(* jobs; and when no CHECK about an arc can fail.                          *)
(***************************************************************************)
EXTENDS FlowGraphManager, TLAPS

(* A step that names no prover is Zenon's.                                  *)
USE ZenonT(60)

GraphFields == {"task", "aggs", "ecs", "res", "running", "arcs", "slots", "below"}

(* A graph whose arcs reflect the PUs: the running arcs are there, and an   *)
(* arc from a PU to the sink carries no more tasks than the PU may run.     *)
GraphOK(gr) ==
  /\ DOMAIN gr = GraphFields
  /\ gr.task \in [Tasks -> {"none", "UNSCHEDULED", "SCHEDULED"}]
  /\ gr.running \in [Tasks -> Resources \cup {None}]
  /\ gr.ecs \cap Entities = {}
  /\ \A t \in Tasks : gr.running[t] # None => <<t, gr.running[t]>> \in DOMAIN gr.arcs
  /\ \A p \in Resources : <<p, Sink>> \in DOMAIN gr.arcs =>
       /\ p \in gr.res
       /\ gr.arcs[<<p, Sink>>].cap \in Int /\ gr.arcs[<<p, Sink>>].cap <= MaxTasksPerPU

-----------------------------------------------------------------------------
(* Graphs. *)

NodeTypes == {"none", "UNSCHEDULED", "SCHEDULED"}

(* h has the resources of gr, and these task nodes and running arcs. *)
Becomes(h, gr, task, run) ==
  GraphOK(h) /\ h.task = task /\ h.running = run /\ h.res = gr.res

(* What a graph needs after an update of tasks and arcs. *)
LEMMA Updated ==
  ASSUME NEW gr, GraphOK(gr), NEW task \in [Tasks -> NodeTypes],
         NEW run \in [Tasks -> Resources \cup {None}], NEW arcs,
         \A t \in Tasks : run[t] # None => <<t, run[t]>> \in DOMAIN arcs,
         \A p \in Resources : <<p, Sink>> \in DOMAIN arcs =>
           <<p, Sink>> \in DOMAIN gr.arcs /\ arcs[<<p, Sink>>] = gr.arcs[<<p, Sink>>]
  PROVE  Becomes([gr EXCEPT !.task = task, !.running = run, !.arcs = arcs], gr, task, run)
<1> DEFINE h == [gr EXCEPT !.task = task, !.running = run, !.arcs = arcs]
<1>1. DOMAIN h = GraphFields /\ h.task = task /\ h.running = run /\ h.arcs = arcs
  BY DEF GraphOK, GraphFields
<1>2. h.ecs = gr.ecs /\ h.res = gr.res
  BY DEF GraphOK, GraphFields
<1> HIDE DEF h
<1>3. GraphOK(h)
  BY <1>1, <1>2 DEF GraphOK, NodeTypes
<1> QED BY <1>1, <1>2, <1>3 DEF h, Becomes

(* ... of arcs alone. *)
LEMMA ArcsUpdated ==
  ASSUME NEW gr, GraphOK(gr), NEW arcs,
         \A t \in Tasks : gr.running[t] # None => <<t, gr.running[t]>> \in DOMAIN arcs,
         \A p \in Resources : <<p, Sink>> \in DOMAIN arcs =>
           <<p, Sink>> \in DOMAIN gr.arcs /\ arcs[<<p, Sink>>] = gr.arcs[<<p, Sink>>]
  PROVE  Becomes([gr EXCEPT !.arcs = arcs], gr, gr.task, gr.running)
<1> DEFINE h == [gr EXCEPT !.arcs = arcs]
<1>1. DOMAIN h = GraphFields /\ h.task = gr.task /\ h.running = gr.running /\ h.arcs = arcs
  BY DEF GraphOK, GraphFields
<1>2. h.ecs = gr.ecs /\ h.res = gr.res
  BY DEF GraphOK, GraphFields
<1> HIDE DEF h
<1>3. GraphOK(h)
  BY <1>1, <1>2 DEF GraphOK
<1> QED BY <1>1, <1>2, <1>3 DEF h, Becomes

(* Adding arcs, but none that leaves a PU. *)
LEMMA ArcsAdded ==
  ASSUME NEW gr, GraphOK(gr), NEW new, \A a \in DOMAIN new : a[1] \notin Resources
  PROVE  Becomes([gr EXCEPT !.arcs = WithArcs(@, new)], gr, gr.task, gr.running)
<1>1. DOMAIN WithArcs(gr.arcs, new) = DOMAIN gr.arcs \cup DOMAIN new
  BY DEF WithArcs
<1>2. \A p \in Resources : <<p, Sink>> \in DOMAIN WithArcs(gr.arcs, new) =>
        <<p, Sink>> \in DOMAIN gr.arcs /\ WithArcs(gr.arcs, new)[<<p, Sink>>] = gr.arcs[<<p, Sink>>]
  BY DEF WithArcs
<1>3. \A t \in Tasks : gr.running[t] # None => <<t, gr.running[t]>> \in DOMAIN WithArcs(gr.arcs, new)
  BY <1>1 DEF GraphOK
<1> HIDE DEF WithArcs
<1> QED BY ArcsUpdated, <1>2, <1>3

(* UpdateUnscheduledAggNode only changes arcs of aggregators. *)
LEMMA AggNodeUpdated ==
  ASSUME NEW gr, GraphOK(gr), NEW S \in SUBSET Tasks, NEW delta
  PROVE  Becomes(UpdateUnscheduledAggNode(gr, S, delta), gr, gr.task, gr.running)
<1> DEFINE n(j) == Cardinality({t \in S : JobOf[t] = j})
           new == [a \in {AggArc(JobOf[t]) : t \in S} |-> [UnscheduledAggToSink EXCEPT
                     !.cap = (AggCapacity(gr, a[1]) + delta * n(a[1])) % Word]]
<1>1. \A a \in DOMAIN new : a[1] \notin Resources
  BY EntitiesAssumption, TaskTreeAssumption, SMT DEF AggArc, Res
<1>2. UpdateUnscheduledAggNode(gr, S, delta) = [gr EXCEPT !.arcs = WithArcs(@, new)]
  BY DEF UpdateUnscheduledAggNode
<1> HIDE DEF new
<1> QED BY <1>1, <1>2, ArcsAdded

(* DeleteNodes, for nodes that no running arc needs *)
LEMMA NodesDeleted ==
  ASSUME NEW gr, GraphOK(gr), NEW S,
         \A t \in Tasks : gr.running[t] # None => t \notin S /\ gr.running[t] \notin S
  PROVE  Becomes(DeleteNodes(gr, S), gr, gr.task, gr.running)
<1> DEFINE gone == {a \in DOMAIN gr.arcs : a[1] \in S \/ a[2] \in S}
           arcs == WithoutArcs(gr.arcs, gone)
<1>1. DeleteNodes(gr, S) = [gr EXCEPT !.arcs = arcs]
  BY DEF DeleteNodes
<1>2. \A t \in Tasks : gr.running[t] # None => <<t, gr.running[t]>> \in DOMAIN arcs
  BY DEF GraphOK, WithoutArcs
<1>3. \A p \in Resources : <<p, Sink>> \in DOMAIN arcs =>
        <<p, Sink>> \in DOMAIN gr.arcs /\ arcs[<<p, Sink>>] = gr.arcs[<<p, Sink>>]
  BY DEF WithoutArcs
<1> HIDE DEF arcs
<1> QED BY <1>1, <1>2, <1>3, ArcsUpdated

(* RemoveTaskNode *)
LEMMA TaskNodesRemoved ==
  ASSUME NEW gr, GraphOK(gr), NEW x, NEW S \in SUBSET Tasks
  PROVE  Becomes(RemoveTaskNode(gr, x, S), gr, Assigned(gr.task, S, "none"), Assigned(gr.running, S, None))
<1> DEFINE g1 == IF x.preemption THEN UpdateUnscheduledAggNode(gr, S, -1) ELSE gr
           task == Assigned(gr.task, S, "none")
           run == Assigned(gr.running, S, None)
           g2 == [g1 EXCEPT !.task = Assigned(@, S, "none"), !.running = Assigned(@, S, None)]
<1>1. Becomes(g1, gr, gr.task, gr.running)
  BY AggNodeUpdated DEF Becomes
<1> HIDE DEF g1
<1>2. /\ task \in [Tasks -> NodeTypes] /\ run \in [Tasks -> Resources \cup {None}]
      /\ \A t \in Tasks : run[t] = IF t \in S THEN None ELSE gr.running[t]
  BY DEF GraphOK, Assigned, NodeTypes
<1>3. /\ DOMAIN g2 = GraphFields /\ g2.task = task /\ g2.running = run
      /\ g2.arcs = g1.arcs /\ g2.ecs = g1.ecs /\ g2.res = gr.res
  BY <1>1 DEF Becomes, GraphOK, GraphFields
<1> HIDE DEF task, run, g2
<1>4. Becomes(g2, gr, task, run)
  BY <1>1, <1>2, <1>3 DEF Becomes, GraphOK, NodeTypes
<1>5. \A t \in Tasks : run[t] # None => t \notin S /\ run[t] \notin S
  BY <1>2, EntitiesAssumption DEF Res
<1>6. Becomes(DeleteNodes(g2, S), g2, task, run)
  BY <1>4, <1>5, NodesDeleted DEF Becomes
<1>7. RemoveTaskNode(gr, x, S) = DeleteNodes(g2, S)
  BY DEF RemoveTaskNode, g1, g2
<1> QED BY <1>4, <1>6, <1>7 DEF Becomes, task, run

(* TaskEvicted *)
LEMMA TasksEvicted ==
  ASSUME NEW gr, GraphOK(gr), NEW x, NEW S \in SUBSET Tasks
  PROVE  Becomes(TaskEvicted(gr, x, S), gr, Assigned(gr.task, S, "UNSCHEDULED"),
                 Assigned(gr.running, S, None))
<1> DEFINE task == Assigned(gr.task, S, "UNSCHEDULED")
           run == Assigned(gr.running, S, None)
           arcs == WithoutArcs(gr.arcs, RunningArcs(gr, S))
           g1 == [gr EXCEPT !.task = task, !.running = run, !.arcs = arcs]
<1>1. /\ task \in [Tasks -> NodeTypes] /\ run \in [Tasks -> Resources \cup {None}]
      /\ \A t \in Tasks : run[t] = IF t \in S THEN None ELSE gr.running[t]
  BY DEF GraphOK, Assigned, NodeTypes
<1>2. \A t \in Tasks : run[t] # None => <<t, run[t]>> \in DOMAIN arcs
  <2> HIDE DEF run
  <2> QED BY <1>1 DEF GraphOK, WithoutArcs, RunningArcs
<1>3. \A p \in Resources : <<p, Sink>> \in DOMAIN arcs =>
        <<p, Sink>> \in DOMAIN gr.arcs /\ arcs[<<p, Sink>>] = gr.arcs[<<p, Sink>>]
  BY DEF WithoutArcs
<1>4. TaskEvicted(gr, x, S) = IF x.preemption THEN g1 ELSE UpdateUnscheduledAggNode(g1, S, 1)
  BY DEF TaskEvicted
<1> HIDE DEF task, run, arcs
<1>5. Becomes(g1, gr, task, run)
  BY <1>1, <1>2, <1>3, Updated
<1> HIDE DEF g1
<1>6. Becomes(UpdateUnscheduledAggNode(g1, S, 1), gr, task, run)
  BY <1>5, AggNodeUpdated DEF Becomes
<1> QED BY <1>4, <1>5, <1>6 DEF task, run

(* The running arcs of scheduled tasks are among the arcs to be added. *)
LEMMA RunningArcsAdded ==
  ASSUME NEW gr, NEW x, NEW S \in SUBSET Tasks
  PROVE  /\ \A t \in S : <<t, gr.running[t]>> \in DOMAIN ScheduledTaskArcs(gr, x, S)
         /\ \A a \in DOMAIN ScheduledTaskArcs(gr, x, S) : a[1] \in S
<1>1. \A t \in S : gr.running[t] \in DOMAIN RunningTaskArcs(gr, x, t)
  BY DEF RunningTaskArcs
<1> HIDE DEF RunningTaskArcs
<1> QED BY <1>1, SMT DEF ScheduledTaskArcs, ArcsFrom

(* TaskScheduled *)
LEMMA TasksScheduled ==
  ASSUME NEW gr, GraphOK(gr), NEW x, NEW p, DOMAIN p \subseteq Tasks,
         \A t \in DOMAIN p : p[t] \in Resources
  PROVE  Becomes(TaskScheduled(gr, x, p), gr, Assigned(gr.task, DOMAIN p, "SCHEDULED"),
                 [t \in Tasks |-> IF t \in DOMAIN p THEN p[t] ELSE gr.running[t]])
<1> DEFINE S == DOMAIN p
           task == Assigned(gr.task, S, "SCHEDULED")
           run == [t \in Tasks |-> IF t \in S THEN p[t] ELSE gr.running[t]]
           g1 == [gr EXCEPT !.task = task, !.running = run]
           new == ScheduledTaskArcs(g1, x, S)
           pinned == [a \in RunningArcs(g1, S) |-> [Arc(TaskCosts(x, a[1]).continuation, 1) EXCEPT !.low = 1]]
           arcs == IF x.preemption THEN WithArcs(g1.arcs, new)
                   ELSE WithArcs(WithoutArcs(g1.arcs, {a \in DOMAIN g1.arcs : a[1] \in S}), pinned)
           g2 == [g1 EXCEPT !.arcs = arcs]
<1>1. TaskScheduled(gr, x, p) = IF x.preemption THEN g2 ELSE UpdateUnscheduledAggNode(g2, S, -1)
  <2>1. TaskScheduled(gr, x, p) = UpdateArcsForScheduledTask(g1, x, S)
    BY DEF TaskScheduled
  <2> HIDE DEF g1
  <2> QED BY <2>1 DEF UpdateArcsForScheduledTask, PinTaskToNode
<1>2. task \in [Tasks -> NodeTypes] /\ run \in [Tasks -> Resources \cup {None}]
  BY DEF GraphOK, Assigned, NodeTypes
<1>3. \A t \in Tasks : run[t] = IF t \in S THEN p[t] ELSE gr.running[t]
  OBVIOUS
<1> HIDE DEF task, run
<1>4. /\ DOMAIN g1 = GraphFields /\ g1.task = task /\ g1.running = run
      /\ g1.arcs = gr.arcs /\ g1.ecs = gr.ecs /\ g1.res = gr.res
  BY DEF GraphOK, GraphFields
<1> HIDE DEF g1
<1>5. (\A t \in S : <<t, run[t]>> \in DOMAIN new) /\ \A a \in DOMAIN new : a[1] \in S
  BY <1>4, RunningArcsAdded
<1>6. (\A t \in S : <<t, run[t]>> \in DOMAIN pinned) /\ \A a \in DOMAIN pinned : a[1] \in S
  BY <1>4, SMT DEF RunningArcs
<1> HIDE DEF new, pinned
<1>7. \A t \in Tasks : run[t] # None => <<t, run[t]>> \in DOMAIN arcs
  BY <1>3, <1>4, <1>5, <1>6 DEF WithArcs, WithoutArcs, GraphOK
<1>8. \A q \in Resources : <<q, Sink>> \in DOMAIN arcs =>
        <<q, Sink>> \in DOMAIN gr.arcs /\ arcs[<<q, Sink>>] = gr.arcs[<<q, Sink>>]
  <2> SUFFICES ASSUME NEW q \in Resources, <<q, Sink>> \in DOMAIN arcs
               PROVE  <<q, Sink>> \in DOMAIN gr.arcs /\ arcs[<<q, Sink>>] = gr.arcs[<<q, Sink>>]
    OBVIOUS
  <2>1. <<q, Sink>> \notin DOMAIN new /\ <<q, Sink>> \notin DOMAIN pinned
    BY <1>5, <1>6, EntitiesAssumption DEF Res
  <2> QED BY <2>1, <1>4 DEF WithArcs, WithoutArcs
<1>9. /\ DOMAIN g2 = GraphFields /\ g2.task = task /\ g2.running = run
      /\ g2.arcs = arcs /\ g2.ecs = gr.ecs /\ g2.res = gr.res
  <2> HIDE DEF arcs
  <2> QED BY <1>4 DEF GraphFields
<1> HIDE DEF arcs, g2
<1>10. Becomes(g2, gr, task, run)
  BY <1>2, <1>7, <1>8, <1>9 DEF Becomes, GraphOK, NodeTypes
<1>11. Becomes(UpdateUnscheduledAggNode(g2, S, -1), gr, task, run)
  BY <1>10, AggNodeUpdated DEF Becomes
<1> QED BY <1>1, <1>10, <1>11 DEF task, run

(* RemoveUnscheduledAggNode *)
LEMMA AggNodeRemoved ==
  ASSUME NEW gr, GraphOK(gr), NEW j \in Jobs
  PROVE  Becomes(RemoveUnscheduledAggNode(gr, j), gr, gr.task, gr.running)
<1> DEFINE g1 == [gr EXCEPT !.aggs = @ \ {j}]
<1>1. /\ DOMAIN g1 = GraphFields /\ g1.task = gr.task /\ g1.running = gr.running
      /\ g1.arcs = gr.arcs /\ g1.ecs = gr.ecs /\ g1.res = gr.res
  BY DEF GraphOK, GraphFields
<1>2. RemoveUnscheduledAggNode(gr, j) = DeleteNodes(g1, {j})
  BY DEF RemoveUnscheduledAggNode
<1> HIDE DEF g1
<1>3. GraphOK(g1)
  BY <1>1 DEF GraphOK
<1>4. \A t \in Tasks : g1.running[t] # None => t \notin {j} /\ g1.running[t] \notin {j}
  BY <1>1, EntitiesAssumption DEF GraphOK, Res
<1>5. Becomes(DeleteNodes(g1, {j}), g1, g1.task, g1.running)
  BY <1>3, <1>4, NodesDeleted
<1> QED BY <1>1, <1>2, <1>5 DEF Becomes

(* An arc from a PU to the sink has room for the tasks the PU may run. *)
LEMMA LeafCapacity ==
  ASSUME NEW x, NEW p
  PROVE  LeafResourceNodeToSink(x, p).cap \in Int /\ LeafResourceNodeToSink(x, p).cap <= MaxTasksPerPU
BY TopologyAssumption, SMT DEF LeafResourceNodeToSink, Arc

(* AddResourceTopology *)
LEMMA TopologyAdded ==
  ASSUME NEW gr, GraphOK(gr), NEW x, NEW m \in Machines
  PROVE  LET h == AddResourceTopology(gr, x, m)
         IN  GraphOK(h) /\ h.task = gr.task /\ h.running = gr.running /\ h.res = gr.res \cup Below(m)
<1> DEFINE new == Below(m)
           slots == [r \in Res |-> IF r \in new
                       THEN MaxTasksPerPU * Cardinality(PUsBelow(r)) ELSE gr.slots[r]]
           below == [r \in Res |-> IF r \in new THEN 0 ELSE gr.below[r]]
           g1 == [gr EXCEPT !.res = @ \cup new, !.slots = slots, !.below = below]
           x1 == [WithStatistics(x, g1) EXCEPT !.sample = [n \in Machines |-> None]]
           in == [a \in {<<Root, m>>} |-> ResourceNodeToResourceNode(x1, m)]
           out == ArcsFrom(new, LAMBDA r : ResourceArcs(g1, x1, r))
           arcs == WithArcs(WithArcs(g1.arcs, out), in)
           h == [g1 EXCEPT !.arcs = arcs]
<1>1. AddResourceTopology(gr, x, m) = h
  BY DEF AddResourceTopology
<1> HIDE DEF slots, below
<1>2. /\ DOMAIN g1 = GraphFields /\ g1.task = gr.task /\ g1.running = gr.running
      /\ g1.arcs = gr.arcs /\ g1.ecs = gr.ecs /\ g1.res = gr.res \cup new
  BY DEF GraphOK, GraphFields
<1> HIDE DEF g1, x1
<1>3. \A p \in Resources : <<p, Sink>> \notin DOMAIN in
  BY EntitiesAssumption DEF Res
<1>4. \A p \in Resources : <<p, Sink>> \in DOMAIN out =>
        p \in new /\ out[<<p, Sink>>] = LeafResourceNodeToSink(x1, p)
  BY SMT DEF ArcsFrom, ResourceArcs
<1> HIDE DEF in, out
<1>5. \A p \in Resources : <<p, Sink>> \in DOMAIN arcs =>
        /\ p \in g1.res
        /\ arcs[<<p, Sink>>].cap \in Int /\ arcs[<<p, Sink>>].cap <= MaxTasksPerPU
  BY <1>2, <1>3, <1>4, LeafCapacity DEF WithArcs, GraphOK
<1>6. \A t \in Tasks : gr.running[t] # None => <<t, gr.running[t]>> \in DOMAIN arcs
  BY <1>2 DEF WithArcs, GraphOK
<1> HIDE DEF arcs
<1>7. /\ DOMAIN h = GraphFields /\ h.task = gr.task /\ h.running = gr.running
      /\ h.arcs = arcs /\ h.ecs = gr.ecs /\ h.res = gr.res \cup new
  BY <1>2 DEF GraphFields
<1> HIDE DEF h, new
<1>8. GraphOK(h)
  BY <1>2, <1>5, <1>6, <1>7 DEF GraphOK
<1> QED BY <1>1, <1>7, <1>8 DEF new

(* RemoveResourceTopology, when no task runs below m any more *)
LEMMA TopologyRemoved ==
  ASSUME NEW gr, GraphOK(gr), NEW m \in Machines,
         \A t \in Tasks : gr.running[t] \notin Below(m)
  PROVE  LET h == RemoveResourceTopology(gr, m)
         IN  GraphOK(h) /\ h.task = gr.task /\ h.running = gr.running /\ h.res = gr.res \ Below(m)
<1> DEFINE gone == Below(m)
           g1 == [gr EXCEPT !.res = @ \ gone]
           g2 == DeleteNodes(g1, gone)
           arcs == WithoutArcs(gr.arcs, {a \in DOMAIN gr.arcs : a[1] \in gone \/ a[2] \in gone})
           slots == UpdateResourceStatsUpToRoot(g2.slots, m)
           below == UpdateResourceStatsUpToRoot(g2.below, m)
           h == [g2 EXCEPT !.slots = slots, !.below = below]
<1>1. RemoveResourceTopology(gr, m) = h
  BY DEF RemoveResourceTopology
<1>2. /\ DOMAIN g1 = GraphFields /\ g1.task = gr.task /\ g1.running = gr.running
      /\ g1.arcs = gr.arcs /\ g1.ecs = gr.ecs /\ g1.res = gr.res \ gone
  BY DEF GraphOK, GraphFields
<1> HIDE DEF g1
<1>3. /\ DOMAIN g2 = GraphFields /\ g2.task = gr.task /\ g2.running = gr.running
      /\ g2.arcs = arcs /\ g2.ecs = gr.ecs /\ g2.res = gr.res \ gone
  <2>1. g2 = [g1 EXCEPT !.arcs = arcs]
    BY <1>2 DEF DeleteNodes
  <2> HIDE DEF arcs, g2, gone
  <2> QED BY <1>2, <2>1 DEF GraphFields
<1> HIDE DEF g2, slots, below
<1>4. /\ DOMAIN h = GraphFields /\ h.task = gr.task /\ h.running = gr.running
      /\ h.arcs = arcs /\ h.ecs = gr.ecs /\ h.res = gr.res \ gone
  <2> HIDE DEF arcs, gone
  <2> QED BY <1>3 DEF GraphFields
<1> HIDE DEF h
<1>5. \A t \in Tasks : gr.running[t] # None => <<t, gr.running[t]>> \in DOMAIN arcs
  BY EntitiesAssumption DEF GraphOK, WithoutArcs, Below
<1>6. \A p \in Resources : <<p, Sink>> \in DOMAIN arcs =>
        p \in gr.res \ gone /\ <<p, Sink>> \in DOMAIN gr.arcs /\ arcs[<<p, Sink>>] = gr.arcs[<<p, Sink>>]
  <2> HIDE DEF gone
  <2> QED BY DEF GraphOK, WithoutArcs
<1> HIDE DEF arcs, gone
<1>7. GraphOK(h)
  BY <1>4, <1>5, <1>6 DEF GraphOK
<1> QED BY <1>1, <1>4, <1>7 DEF gone

-----------------------------------------------------------------------------
(* A round up to the solver. *)

(* Graph gr agrees with the task states st. *)
Fits(gr, st) ==
  /\ GraphOK(gr)
  /\ \A t \in Tasks : /\ gr.task[t] = "SCHEDULED" <=> st[t] = "RUNNING"
                      /\ gr.running[t] # None => st[t] = "RUNNING"
                      /\ HasNode(gr, t) => st[t] \in {"RUNNABLE", "RUNNING"}

(* h agrees with st, and has the running arcs, the resources and at least   *)
(* the task nodes of gr.                                                   *)
Follows(h, gr, st) ==
  /\ Fits(h, st) /\ h.running = gr.running /\ h.res = gr.res
  /\ \A t \in Tasks : HasNode(gr, t) => HasNode(h, t)

(* A graph that keeps tasks and running arcs still agrees with st. *)
LEMMA BecomesFollows ==
  ASSUME NEW gr, NEW st, Fits(gr, st), NEW h, Becomes(h, gr, gr.task, gr.running)
  PROVE  Follows(h, gr, st)
BY DEF Becomes, Follows, Fits, HasNode

(* AddTaskNodes, for tasks that are ready and have no node *)
LEMMA TaskNodesAdded ==
  ASSUME NEW gr, NEW st, Fits(gr, st), NEW jobs
  PROVE  Follows(AddTaskNodes(gr, jobs, TasksToAdd(gr, jobs, st)), gr, st)
<1> DEFINE added == TasksToAdd(gr, jobs, st)
           task == Assigned(gr.task, added, "UNSCHEDULED")
           g1 == [gr EXCEPT !.aggs = @ \cup jobs, !.task = task]
<1>1. AddTaskNodes(gr, jobs, added) = UpdateUnscheduledAggNode(g1, added, 1)
  BY DEF AddTaskNodes
<1>2. /\ added \subseteq Tasks
      /\ \A t \in added : st[t] \in {"RUNNABLE", "RUNNING"} /\ gr.task[t] = "none"
  BY DEF TasksToAdd, JobTasks, HasNode
<1>3. \A t \in Tasks : task[t] = IF t \in added THEN "UNSCHEDULED" ELSE gr.task[t]
  BY DEF Assigned, Fits, GraphOK
<1>4. task \in [Tasks -> NodeTypes]
  BY DEF Assigned, Fits, GraphOK, NodeTypes
<1> HIDE DEF added, task
<1>5. /\ DOMAIN g1 = GraphFields /\ g1.task = task /\ g1.running = gr.running
      /\ g1.arcs = gr.arcs /\ g1.ecs = gr.ecs /\ g1.res = gr.res
  BY DEF Fits, GraphOK, GraphFields
<1> HIDE DEF g1
<1>6. Fits(g1, st)
  <2>1. GraphOK(g1)
    BY <1>4, <1>5 DEF Fits, GraphOK, NodeTypes
  <2>2. ASSUME NEW t \in Tasks
        PROVE  /\ task[t] = "SCHEDULED" <=> st[t] = "RUNNING"
               /\ task[t] # "none" => st[t] \in {"RUNNABLE", "RUNNING"}
    BY <1>2, <1>3 DEF Fits, HasNode
  <2> QED BY <1>5, <2>1, <2>2 DEF Fits, HasNode
<1>7. Becomes(UpdateUnscheduledAggNode(g1, added, 1), g1, g1.task, g1.running)
  BY <1>2, <1>6, AggNodeUpdated DEF Fits
<1>8. Follows(UpdateUnscheduledAggNode(g1, added, 1), g1, st)
  BY <1>6, <1>7, BecomesFollows
<1>9. Follows(AddTaskNodes(gr, jobs, added), gr, st)
  BY <1>1, <1>3, <1>5, <1>8 DEF Follows, HasNode
<1> QED BY <1>9 DEF added

(* The classes that a walk reaches are no tasks, jobs or resources. *)
LEMMA ClassesAreNew ==
  ASSUME NEW x, NEW waiting
  PROVE  ClassesReached(x, waiting) \cap Entities = {}
<1> DEFINE first == UNION {DOMAIN ModelArcs(x, t) \ Entities : t \in waiting}
<1>1. \A c \in first : c \notin Entities
  OBVIOUS
<1>2. ClassesReached(x, waiting) = WithClassesBelow(x, first)
  BY DEF ClassesReached
<1> HIDE DEF first
<1>3. \A c \in WithClassesBelow(x, first) : c \notin Entities
  BY <1>1 DEF WithClassesBelow
<1> QED BY <1>2, <1>3

(* UpdateFlowGraph *)
LEMMA FlowGraphUpdated ==
  ASSUME NEW gr, NEW st, Fits(gr, st), NEW x, NEW waiting, NEW placed, NEW classes,
         waiting \subseteq Tasks, placed \subseteq Tasks, classes \cap Entities = {},
         \A t \in waiting : st[t] # "RUNNING"
  PROVE  Follows(UpdateFlowGraph(gr, x, waiting, placed, classes), gr, st)
<1> DEFINE reached == VisitTopologyChildren(gr, ResourcesReached(x, waiting, classes))
           kept    == WithoutArcs(gr.arcs, {a \in DOMAIN gr.arcs : a[1] \in waiting \cup classes})
           NewArcs(u) == IF u \in waiting THEN WaitingTaskArcs(x, u) ELSE
                         IF u \in placed THEN RunningTaskArcs(gr, x, u) ELSE
                         IF u \in classes THEN ModelArcs(x, u) ELSE ResourceArcs(gr, x, u)
           new == ArcsFrom(waiting \cup placed \cup classes \cup reached, NewArcs)
           ecs == gr.ecs \cup classes
           arcs == WithArcs(kept, new)
           h == [gr EXCEPT !.ecs = ecs, !.arcs = arcs]
<1>1. UpdateFlowGraph(gr, x, waiting, placed, classes) = h
  BY DEF UpdateFlowGraph, ArcsFrom
<1>2. reached \subseteq gr.res
  BY DEF VisitTopologyChildren
<1> HIDE DEF reached
<1>3. \A p \in Resources : <<p, Sink>> \in DOMAIN new =>
        p \in gr.res /\ new[<<p, Sink>>] = LeafResourceNodeToSink(x, p)
  <2> SUFFICES ASSUME NEW p \in Resources, <<p, Sink>> \in DOMAIN new
               PROVE  p \in gr.res /\ new[<<p, Sink>>] = LeafResourceNodeToSink(x, p)
    OBVIOUS
  <2>1. p \notin waiting /\ p \notin placed /\ p \notin classes
    BY EntitiesAssumption DEF Entities, Res
  <2>2. p \in waiting \cup placed \cup classes \cup reached /\ Sink \in DOMAIN NewArcs(p)
    <3> HIDE DEF NewArcs
    <3> QED BY SMT DEF ArcsFrom
  <2>3. new[<<p, Sink>>] = NewArcs(p)[Sink]
    <3> HIDE DEF NewArcs
    <3> QED BY <2>2 DEF ArcsFrom
  <2>4. NewArcs(p) = [s \in {Sink} |-> LeafResourceNodeToSink(x, p)]
    BY <2>1 DEF ResourceArcs
  <2> HIDE DEF NewArcs, new
  <2> QED BY <1>2, <2>1, <2>2, <2>3, <2>4
<1>4. \A t \in Tasks : gr.running[t] # None => <<t, gr.running[t]>> \in DOMAIN kept
  BY DEF Fits, GraphOK, WithoutArcs, Entities
<1>5. \A p \in Resources : <<p, Sink>> \in DOMAIN kept =>
        <<p, Sink>> \in DOMAIN gr.arcs /\ kept[<<p, Sink>>] = gr.arcs[<<p, Sink>>]
  BY DEF WithoutArcs
<1> HIDE DEF kept, new
<1>6. \A p \in Resources : <<p, Sink>> \in DOMAIN arcs =>
        /\ p \in gr.res
        /\ arcs[<<p, Sink>>].cap \in Int /\ arcs[<<p, Sink>>].cap <= MaxTasksPerPU
  BY <1>3, <1>5, LeafCapacity DEF WithArcs, Fits, GraphOK
<1>7. \A t \in Tasks : gr.running[t] # None => <<t, gr.running[t]>> \in DOMAIN arcs
  BY <1>4 DEF WithArcs
<1>8. ecs \cap Entities = {}
  BY DEF Fits, GraphOK
<1> HIDE DEF ecs, arcs
<1>9. /\ DOMAIN h = GraphFields /\ h.task = gr.task /\ h.running = gr.running
      /\ h.arcs = arcs /\ h.ecs = ecs /\ h.res = gr.res
  BY DEF Fits, GraphOK, GraphFields
<1> HIDE DEF h
<1>10. Becomes(h, gr, gr.task, gr.running)
  BY <1>6, <1>7, <1>8, <1>9 DEF Becomes, Fits, GraphOK
<1> QED BY <1>1, <1>10, BecomesFollows

(* Follows is transitive. *)
LEMMA FollowsTrans ==
  ASSUME NEW gr, NEW g1, NEW g2, NEW st, Follows(g1, gr, st), Follows(g2, g1, st)
  PROVE  Follows(g2, gr, st)
BY DEF Follows

(* AddOrUpdateJobNodes *)
LEMMA JobNodesUpdated ==
  ASSUME NEW gr, NEW st, Fits(gr, st), NEW x, NEW jobs
  PROVE  Follows(AddOrUpdateJobNodes(gr, x, jobs, st), gr, st)
<1> DEFINE g1 == AddTaskNodes(gr, jobs, TasksToAdd(gr, jobs, st))
           waiting == WaitingTasks(gr, jobs, st)
           placed == PlacedTasks(jobs, st)
           classes == ClassesReached(x, waiting)
<1>1. Follows(g1, gr, st)
  BY TaskNodesAdded
<1>2. waiting \subseteq Tasks /\ placed \subseteq Tasks /\ \A t \in waiting : st[t] # "RUNNING"
  BY DEF WaitingTasks, PlacedTasks, JobTasks
<1>3. classes \cap Entities = {}
  BY ClassesAreNew
<1>4. AddOrUpdateJobNodes(gr, x, jobs, st) = UpdateFlowGraph(g1, x, waiting, placed, classes)
  BY DEF AddOrUpdateJobNodes
<1> HIDE DEF g1, waiting, placed, classes
<1>5. Follows(UpdateFlowGraph(g1, x, waiting, placed, classes), g1, st)
  BY <1>1, <1>2, <1>3, FlowGraphUpdated, SMT DEF Follows
<1> QED BY <1>1, <1>4, <1>5, FollowsTrans

(* PurgeUnconnectedEquivClassNodes *)
LEMMA ClassesPurged ==
  ASSUME NEW gr, NEW st, Fits(gr, st)
  PROVE  Follows(PurgeUnconnectedEquivClassNodes(gr), gr, st)
<1> DEFINE gone == {ec \in gr.ecs : \A a \in DOMAIN gr.arcs : a[2] # ec}
           ecs == gr.ecs \ gone
           g1 == [gr EXCEPT !.ecs = ecs]
<1>1. PurgeUnconnectedEquivClassNodes(gr) = DeleteNodes(g1, gone)
  BY DEF PurgeUnconnectedEquivClassNodes
<1>2. gone \subseteq gr.ecs /\ ecs \cap Entities = {}
  BY DEF Fits, GraphOK
<1> HIDE DEF gone, ecs
<1>3. /\ DOMAIN g1 = GraphFields /\ g1.task = gr.task /\ g1.running = gr.running
      /\ g1.arcs = gr.arcs /\ g1.ecs = ecs /\ g1.res = gr.res
  BY DEF Fits, GraphOK, GraphFields
<1> HIDE DEF g1
<1>4. Becomes(g1, gr, gr.task, gr.running)
  BY <1>2, <1>3 DEF Becomes, Fits, GraphOK
<1>5. \A t \in Tasks : gr.running[t] # None => t \notin gone /\ gr.running[t] \notin gone
  BY <1>2 DEF Fits, GraphOK, Entities, Res
<1>6. Becomes(DeleteNodes(g1, gone), g1, gr.task, gr.running)
  BY <1>3, <1>4, <1>5, NodesDeleted DEF Becomes
<1>7. Becomes(DeleteNodes(g1, gone), gr, gr.task, gr.running)
  BY <1>3, <1>6 DEF Becomes
<1> QED BY <1>1, <1>7, BecomesFollows

(* UpdateAllCostsToUnscheduledAggs *)
LEMMA AllCostsUpdated ==
  ASSUME NEW gr, NEW st, Fits(gr, st), NEW x
  PROVE  Follows(UpdateAllCostsToUnscheduledAggs(gr, x, st), gr, st)
<1> DEFINE tasks == {t \in Tasks : <<t, JobOf[t]>> \in DOMAIN gr.arcs}
           ToAgg(t) == [j \in {JobOf[t]} |-> Arc(TaskCosts(x, t).unscheduled, 1)]
           New(t) == IF st[t] = "RUNNING" THEN RunningTaskArcs(gr, x, t) ELSE ToAgg(t)
           new == ArcsFrom(tasks, New)
<1>1. UpdateAllCostsToUnscheduledAggs(gr, x, st) = [gr EXCEPT !.arcs = WithArcs(@, new)]
  BY DEF UpdateAllCostsToUnscheduledAggs, ArcsFrom
<1>2. \A a \in DOMAIN new : a[1] \in tasks
  <2> HIDE DEF New, tasks
  <2> QED BY SMT DEF ArcsFrom
<1> HIDE DEF new
<1>3. \A a \in DOMAIN new : a[1] \notin Resources
  BY <1>2, EntitiesAssumption DEF Res
<1>4. Becomes([gr EXCEPT !.arcs = WithArcs(@, new)], gr, gr.task, gr.running)
  BY <1>3, ArcsAdded DEF Fits
<1> QED BY <1>1, <1>4, BecomesFollows

(* ComputeTopologyStatistics *)
LEMMA StatisticsComputed ==
  ASSUME NEW gr, NEW st, Fits(gr, st), NEW x
  PROVE  Follows(ComputeTopologyStatistics(gr, x), gr, st)
<1> DEFINE above == {r \in gr.res : PUsBelow(r) \cap gr.res # {}}
           slots == [r \in Res |-> IF r \in above THEN SlotsBelow(x, r) ELSE gr.slots[r]]
           below == [r \in Res |-> IF r \in above THEN RunningTasksBelow(x, r) ELSE gr.below[r]]
           h == [gr EXCEPT !.slots = slots, !.below = below]
<1>1. ComputeTopologyStatistics(gr, x) = IF x.model = "interference" THEN gr ELSE h
  BY DEF ComputeTopologyStatistics
<1> HIDE DEF slots, below
<1>2. /\ DOMAIN h = GraphFields /\ h.task = gr.task /\ h.running = gr.running
      /\ h.arcs = gr.arcs /\ h.ecs = gr.ecs /\ h.res = gr.res
  BY DEF Fits, GraphOK, GraphFields
<1> HIDE DEF h
<1>3. Becomes(h, gr, gr.task, gr.running)
  BY <1>2 DEF Becomes, Fits, GraphOK
<1>4. Follows(h, gr, st) /\ Follows(gr, gr, st)
  BY <1>3, BecomesFollows DEF Follows
<1> QED BY <1>1, <1>4

(* Evictions, migrations and placements in the graph *)
LEMMA RoundGraph ==
  ASSUME NEW gr, GraphOK(gr), NEW x, NEW evicted \in SUBSET Tasks, NEW migrated, NEW placed,
         DOMAIN migrated \subseteq Tasks, \A t \in DOMAIN migrated : migrated[t] \in Resources,
         DOMAIN placed \subseteq Tasks, \A t \in DOMAIN placed : placed[t] \in Resources
  PROVE  LET h == TaskScheduled(TaskMigrated(TaskEvicted(gr, x, evicted), x, migrated), x, placed)
         IN  /\ GraphOK(h) /\ h.res = gr.res
             /\ \A t \in Tasks :
                  /\ h.task[t] = IF t \in DOMAIN placed \cup DOMAIN migrated THEN "SCHEDULED"
                                 ELSE IF t \in evicted THEN "UNSCHEDULED" ELSE gr.task[t]
                  /\ h.running[t] = IF t \in DOMAIN placed THEN placed[t]
                                    ELSE IF t \in DOMAIN migrated THEN migrated[t]
                                    ELSE IF t \in evicted THEN None ELSE gr.running[t]
<1> DEFINE g1 == TaskEvicted(gr, x, evicted)
           g2 == TaskEvicted(g1, x, DOMAIN migrated)
           g3 == TaskScheduled(g2, x, migrated)
           h == TaskScheduled(g3, x, placed)
<1>1. Becomes(g1, gr, Assigned(gr.task, evicted, "UNSCHEDULED"), Assigned(gr.running, evicted, None))
  BY TasksEvicted
<1> HIDE DEF g1
<1>2. Becomes(g2, g1, Assigned(g1.task, DOMAIN migrated, "UNSCHEDULED"),
              Assigned(g1.running, DOMAIN migrated, None))
  BY <1>1, TasksEvicted, SMT DEF Becomes
<1> HIDE DEF g2
<1>3. Becomes(g3, g2, Assigned(g2.task, DOMAIN migrated, "SCHEDULED"),
              [t \in Tasks |-> IF t \in DOMAIN migrated THEN migrated[t] ELSE g2.running[t]])
  <2>1. GraphOK(g2)
    BY <1>2 DEF Becomes
  <2> QED BY <2>1, TasksScheduled
<1> HIDE DEF g3
<1>4. Becomes(h, g3, Assigned(g3.task, DOMAIN placed, "SCHEDULED"),
              [t \in Tasks |-> IF t \in DOMAIN placed THEN placed[t] ELSE g3.running[t]])
  <2>1. GraphOK(g3)
    BY <1>3 DEF Becomes
  <2> QED BY <2>1, TasksScheduled
<1> HIDE DEF h
<1>5. GraphOK(h) /\ h.res = gr.res
  BY <1>1, <1>2, <1>3, <1>4 DEF Becomes
<1>6. ASSUME NEW t \in Tasks
      PROVE  /\ g1.task[t] = IF t \in evicted THEN "UNSCHEDULED" ELSE gr.task[t]
             /\ g1.running[t] = IF t \in evicted THEN None ELSE gr.running[t]
             /\ g3.task[t] = IF t \in DOMAIN migrated THEN "SCHEDULED" ELSE g1.task[t]
             /\ g3.running[t] = IF t \in DOMAIN migrated THEN migrated[t] ELSE g1.running[t]
             /\ h.task[t] = IF t \in DOMAIN placed THEN "SCHEDULED" ELSE g3.task[t]
             /\ h.running[t] = IF t \in DOMAIN placed THEN placed[t] ELSE g3.running[t]
  <2>1. /\ g1.task[t] = IF t \in evicted THEN "UNSCHEDULED" ELSE gr.task[t]
        /\ g1.running[t] = IF t \in evicted THEN None ELSE gr.running[t]
    BY <1>1 DEF Becomes, Assigned, GraphOK
  <2>2. /\ g2.task[t] = IF t \in DOMAIN migrated THEN "UNSCHEDULED" ELSE g1.task[t]
        /\ g2.running[t] = IF t \in DOMAIN migrated THEN None ELSE g1.running[t]
    BY <1>1, <1>2 DEF Becomes, Assigned, GraphOK
  <2>3. /\ g3.task[t] = IF t \in DOMAIN migrated THEN "SCHEDULED" ELSE g2.task[t]
        /\ g3.running[t] = IF t \in DOMAIN migrated THEN migrated[t] ELSE g2.running[t]
    BY <1>2, <1>3 DEF Becomes, Assigned, GraphOK
  <2>4. /\ h.task[t] = IF t \in DOMAIN placed THEN "SCHEDULED" ELSE g3.task[t]
        /\ h.running[t] = IF t \in DOMAIN placed THEN placed[t] ELSE g3.running[t]
    BY <1>3, <1>4 DEF Becomes, Assigned, GraphOK
  <2> QED BY <2>1, <2>2, <2>3, <2>4
<1>7. h = TaskScheduled(TaskMigrated(TaskEvicted(gr, x, evicted), x, migrated), x, placed)
  BY DEF h, g3, g2, g1, TaskMigrated
<1>8. \A t \in Tasks :
        /\ h.task[t] = IF t \in DOMAIN placed \cup DOMAIN migrated THEN "SCHEDULED"
                       ELSE IF t \in evicted THEN "UNSCHEDULED" ELSE gr.task[t]
        /\ h.running[t] = IF t \in DOMAIN placed THEN placed[t]
                          ELSE IF t \in DOMAIN migrated THEN migrated[t]
                          ELSE IF t \in evicted THEN None ELSE gr.running[t]
  BY <1>6
<1> QED BY <1>5, <1>7, <1>8

-----------------------------------------------------------------------------
(* The unscheduled aggregators. *)

(* The arcs of aggregators to the sink are the same in both. *)
SameAggArcs(new, old) ==
  \A j \in Jobs : /\ AggArc(j) \in DOMAIN new <=> AggArc(j) \in DOMAIN old
                  /\ AggArc(j) \in DOMAIN old => new[AggArc(j)] = old[AggArc(j)]

(* h has the aggregators of gr, and each has the capacity that it had. *)
SameAggs(h, gr) == h.aggs = gr.aggs /\ \A j \in Jobs : AggCapacity(h, j) = AggCapacity(gr, j)

(* h has the aggregators and the task nodes of gr. *)
LeavesAggs(h, gr) == h.task = gr.task /\ SameAggs(h, gr)

(* The capacity is that of the arc. *)
LEMMA AggsByArcs ==
  ASSUME NEW gr, NEW h, h.aggs = gr.aggs, SameAggArcs(h.arcs, gr.arcs)
  PROVE  SameAggs(h, gr)
BY DEF SameAggs, SameAggArcs, AggCapacity

(* Arcs that leave no job, added or replaced *)
LEMMA AddingKeepsAggArcs ==
  ASSUME NEW arcs, NEW new, \A a \in DOMAIN new : a[1] \notin Jobs
  PROVE  SameAggArcs(WithArcs(arcs, new), arcs)
<1>1. \A j \in Jobs : AggArc(j) \notin DOMAIN new
  BY DEF AggArc
<1> QED BY <1>1 DEF SameAggArcs, WithArcs

(* Arcs that leave no job, deleted *)
LEMMA DeletingKeepsAggArcs ==
  ASSUME NEW arcs, NEW gone, \A a \in gone : a[1] \notin Jobs
  PROVE  SameAggArcs(WithoutArcs(arcs, gone), arcs)
<1>1. \A j \in Jobs : AggArc(j) \notin gone
  BY DEF AggArc
<1> QED BY <1>1 DEF SameAggArcs, WithoutArcs

(* DeleteNodes, for nodes that are no jobs *)
LEMMA DeletingNodesKeepsAggArcs ==
  ASSUME NEW arcs, NEW S, S \cap (Jobs \cup {Sink}) = {}
  PROVE  SameAggArcs(WithoutArcs(arcs, {a \in DOMAIN arcs : a[1] \in S \/ a[2] \in S}), arcs)
<1> DEFINE gone == {a \in DOMAIN arcs : a[1] \in S \/ a[2] \in S}
<1>1. \A j \in Jobs : AggArc(j) \notin gone
  BY DEF AggArc
<1> QED BY <1>1 DEF SameAggArcs, WithoutArcs

(* SameAggArcs is transitive. *)
LEMMA SameAggArcsTrans ==
  ASSUME NEW A, NEW B, NEW C, SameAggArcs(B, A), SameAggArcs(C, B)
  PROVE  SameAggArcs(C, A)
BY DEF SameAggArcs

(* The tasks of S in job j *)
InJob(S, j) == {t \in S : JobOf[t] = j}

(* A sum that does not leave the range of a counter *)
LEMMA SmallMod ==
  ASSUME NEW n \in Int, 0 <= n, n < Word
  PROVE  n % Word = n
BY TopologyAssumption, SMT

(* UpdateUnscheduledAggNode changes capacities by what it should, unless a  *)
(* counter wraps around.                                                   *)
LEMMA AggNodeCounts ==
  ASSUME NEW gr, DOMAIN gr = GraphFields, NEW S \in SUBSET Tasks, NEW delta \in Int, NEW j \in Jobs,
         AggCapacity(gr, j) \in Int, Cardinality(InJob(S, j)) \in Nat,
         InJob(S, j) = {} => Cardinality(InJob(S, j)) = 0,
         0 <= AggCapacity(gr, j) + delta * Cardinality(InJob(S, j)),
         AggCapacity(gr, j) + delta * Cardinality(InJob(S, j)) < Word
  PROVE  LET h == UpdateUnscheduledAggNode(gr, S, delta)
         IN  /\ h.aggs = gr.aggs
             /\ AggCapacity(h, j) = AggCapacity(gr, j) + delta * Cardinality(InJob(S, j))
<1> DEFINE n(i) == Cardinality({t \in S : JobOf[t] = i})
           Cap(i) == (AggCapacity(gr, i) + delta * n(i)) % Word
           new == [a \in {AggArc(JobOf[t]) : t \in S} |-> [UnscheduledAggToSink EXCEPT !.cap = Cap(a[1])]]
           h == [gr EXCEPT !.arcs = WithArcs(@, new)]
<1>1. UpdateUnscheduledAggNode(gr, S, delta) = h
  BY DEF UpdateUnscheduledAggNode
<1>2. Cap(j) = AggCapacity(gr, j) + delta * Cardinality(InJob(S, j))
  BY SmallMod, SMT DEF InJob
<1>3. AggArc(j) \in DOMAIN new <=> InJob(S, j) # {}
  BY SMT DEF AggArc, InJob
<1>4. AggArc(j) \in DOMAIN new => new[AggArc(j)] = [UnscheduledAggToSink EXCEPT !.cap = Cap(j)]
  BY DEF AggArc
<1> HIDE DEF Cap
<1>5. [UnscheduledAggToSink EXCEPT !.cap = Cap(j)].cap = Cap(j)
  BY DEF UnscheduledAggToSink, Arc
<1> HIDE DEF new
<1>6. h.aggs = gr.aggs /\ h.arcs = WithArcs(gr.arcs, new)
  BY DEF GraphOK, GraphFields
<1> HIDE DEF h
<1>7. CASE InJob(S, j) = {}
  <2>1. AggArc(j) \notin DOMAIN new
    BY <1>3, <1>7
  <2>2. AggCapacity(h, j) = AggCapacity(gr, j)
    BY <1>6, <2>1 DEF AggCapacity, WithArcs
  <2> QED BY <1>1, <1>6, <1>7, <2>2, SMT
<1>8. CASE InJob(S, j) # {}
  <2>1. AggArc(j) \in DOMAIN new
    BY <1>3, <1>8
  <2>2. AggCapacity(h, j) = new[AggArc(j)].cap
    BY <1>6, <2>1 DEF AggCapacity, WithArcs
  <2> QED BY <1>1, <1>2, <1>4, <1>5, <1>6, <2>1, <2>2
<1> QED BY <1>7, <1>8

(* What is used of cardinalities: sets of tasks can be counted.             *)
TasksCount ==
  /\ \A S \in SUBSET Tasks : Cardinality(S) \in Nat /\ (Cardinality(S) = 0 <=> S = {})
  /\ \A S, T \in SUBSET Tasks : S \subseteq T => Cardinality(S) <= Cardinality(T)
  /\ \A S \in SUBSET Tasks, t \in Tasks :
       /\ t \notin S => Cardinality(S \cup {t}) = Cardinality(S) + 1
       /\ t \in S => Cardinality(S \ {t}) = Cardinality(S) - 1

(* ... and added up, without leaving the range of a counter. *)
TasksAddUp ==
  /\ \A S, T \in SUBSET Tasks : S \cap T = {} => Cardinality(S \cup T) = Cardinality(S) + Cardinality(T)
  /\ \A S \in SUBSET Tasks : Cardinality(S) < Word

TaskNodes(gr, j)   == {t \in Tasks : JobOf[t] = j /\ HasNode(gr, t)}
OpenNodes(gr, j)   == {t \in Tasks : JobOf[t] = j /\ gr.task[t] = "UNSCHEDULED"}
PinnedNodes(gr, j) == {t \in Tasks : JobOf[t] = j /\ gr.task[t] = "SCHEDULED"}

(* The tasks of job j that have a node, or had one if done holds the tasks  *)
(* that do not come back                                                   *)
EverNodes(gr, j, done) == {t \in Tasks : JobOf[t] = j /\ (HasNode(gr, t) \/ t \in done)}

(* Job j's aggregator is there as long as a task of j has a node.  With     *)
(* preemption its capacity is the number of nodes.  Without, it has room   *)
(* for all tasks that are not pinned, and with the pinned ones it does not *)
(* exceed the number of tasks that ever had a node.                        *)
AggOK(gr, j, preemption, done) ==
  /\ TaskNodes(gr, j) # {} => j \in gr.aggs
  /\ AggCapacity(gr, j) \in Nat
  /\ IF preemption THEN AggCapacity(gr, j) = Cardinality(TaskNodes(gr, j))
     ELSE /\ Cardinality(OpenNodes(gr, j)) <= AggCapacity(gr, j)
          /\ AggCapacity(gr, j) + Cardinality(PinnedNodes(gr, j)) <= Cardinality(EverNodes(gr, j, done))

(* A change that concerns neither the nodes of tasks nor aggregators *)
LEMMA AggUntouched ==
  ASSUME NEW gr, NEW h, LeavesAggs(h, gr), NEW j \in Jobs, NEW pre, NEW done, AggOK(gr, j, pre, done)
  PROVE  AggOK(h, j, pre, done)
<1>1. /\ TaskNodes(h, j) = TaskNodes(gr, j) /\ OpenNodes(h, j) = OpenNodes(gr, j)
      /\ PinnedNodes(h, j) = PinnedNodes(gr, j) /\ EverNodes(h, j, done) = EverNodes(gr, j, done)
  BY DEF TaskNodes, OpenNodes, PinnedNodes, EverNodes, HasNode, LeavesAggs
<1> QED BY <1>1 DEF AggOK, SameAggs, LeavesAggs

(* Sets of task nodes are sets of tasks. *)
LEMMA NodeSets ==
  ASSUME NEW gr, NEW j, NEW done, NEW S \in SUBSET Tasks
  PROVE  /\ TaskNodes(gr, j) \in SUBSET Tasks /\ OpenNodes(gr, j) \in SUBSET Tasks
         /\ PinnedNodes(gr, j) \in SUBSET Tasks /\ EverNodes(gr, j, done) \in SUBSET Tasks
         /\ InJob(S, j) \in SUBSET Tasks
BY DEF TaskNodes, OpenNodes, PinnedNodes, EverNodes, InJob

(* The nodes of S, which are pinned in gr, are open in h: what this does to *)
(* the numbers of nodes of job j.                                          *)
Reopened(h, gr, S, j, done) ==
  /\ TaskNodes(h, j) = TaskNodes(gr, j) /\ EverNodes(h, j, done) = EverNodes(gr, j, done)
  /\ Cardinality(OpenNodes(h, j)) = Cardinality(OpenNodes(gr, j)) + Cardinality(InJob(S, j))
  /\ Cardinality(PinnedNodes(gr, j)) = Cardinality(PinnedNodes(h, j)) + Cardinality(InJob(S, j))

(* Nodes that change from pinned to open *)
LEMMA PinnedToOpen ==
  ASSUME TasksCount, TasksAddUp, NEW gr, NEW h, NEW S \in SUBSET Tasks, NEW j \in Jobs, NEW done,
         \A t \in S : gr.task[t] = "SCHEDULED",
         \A t \in Tasks : h.task[t] = IF t \in S THEN "UNSCHEDULED" ELSE gr.task[t]
  PROVE  Reopened(h, gr, S, j, done)
<1>1. TaskNodes(h, j) = TaskNodes(gr, j) /\ EverNodes(h, j, done) = EverNodes(gr, j, done)
  BY DEF TaskNodes, EverNodes, HasNode
<1>2. OpenNodes(h, j) = OpenNodes(gr, j) \cup InJob(S, j) /\ OpenNodes(gr, j) \cap InJob(S, j) = {}
  BY DEF OpenNodes, InJob
<1>3. PinnedNodes(gr, j) = PinnedNodes(h, j) \cup InJob(S, j) /\ PinnedNodes(h, j) \cap InJob(S, j) = {}
  BY DEF PinnedNodes, InJob
<1>4. /\ OpenNodes(gr, j) \in SUBSET Tasks /\ PinnedNodes(h, j) \in SUBSET Tasks
      /\ InJob(S, j) \in SUBSET Tasks
  BY NodeSets
<1> QED BY <1>1, <1>2, <1>3, <1>4 DEF TasksAddUp, Reopened

(* TaskEvicted *)
LEMMA EvictionKeepsAgg ==
  ASSUME TasksCount, TasksAddUp, NEW gr, GraphOK(gr), NEW x, NEW S \in SUBSET Tasks,
         \A t \in S : gr.task[t] = "SCHEDULED",
         NEW j \in Jobs, NEW done, AggOK(gr, j, x.preemption, done)
  PROVE  AggOK(TaskEvicted(gr, x, S), j, x.preemption, done)
<1> DEFINE task == Assigned(gr.task, S, "UNSCHEDULED")
           run == Assigned(gr.running, S, None)
           arcs == WithoutArcs(gr.arcs, RunningArcs(gr, S))
           g1 == [gr EXCEPT !.task = task, !.running = run, !.arcs = arcs]
           h == TaskEvicted(gr, x, S)
           s == Cardinality(InJob(S, j))
<1>1. h = IF x.preemption THEN g1 ELSE UpdateUnscheduledAggNode(g1, S, 1)
  BY DEF TaskEvicted
<1>2. Becomes(h, gr, task, run)
  BY TasksEvicted
<1>3. \A t \in Tasks : h.task[t] = IF t \in S THEN "UNSCHEDULED" ELSE gr.task[t]
  BY <1>2 DEF Becomes, Assigned, GraphOK
<1>4. SameAggArcs(arcs, gr.arcs)
  <2>1. \A a \in RunningArcs(gr, S) : a[1] \notin Jobs
    BY EntitiesAssumption, SMT DEF RunningArcs
  <2> QED BY <2>1, DeletingKeepsAggArcs
<1> HIDE DEF task, run, arcs
<1>5. DOMAIN g1 = GraphFields /\ g1.arcs = arcs /\ g1.aggs = gr.aggs
  BY DEF GraphOK, GraphFields
<1> SUFFICES AggOK(h, j, x.preemption, done)
  OBVIOUS
<1> HIDE DEF g1, h
<1>6. SameAggs(g1, gr)
  BY <1>4, <1>5, AggsByArcs
<1>7. /\ TaskNodes(h, j) = TaskNodes(gr, j) /\ EverNodes(h, j, done) = EverNodes(gr, j, done)
      /\ Cardinality(OpenNodes(h, j)) = Cardinality(OpenNodes(gr, j)) + s
      /\ Cardinality(PinnedNodes(gr, j)) = Cardinality(PinnedNodes(h, j)) + s
  <2>1. Reopened(h, gr, S, j, done)
    BY <1>3, PinnedToOpen
  <2> QED BY <2>1 DEF Reopened
<1>8. /\ Cardinality(OpenNodes(gr, j)) \in Nat /\ Cardinality(PinnedNodes(h, j)) \in Nat
      /\ s \in Nat /\ (InJob(S, j) = {} => s = 0)
      /\ Cardinality(EverNodes(gr, j, done)) \in Nat /\ Cardinality(EverNodes(gr, j, done)) < Word
  BY NodeSets DEF TasksCount, TasksAddUp
<1> HIDE DEF s
<1>9. CASE x.preemption
  <2>1. h.aggs = gr.aggs /\ AggCapacity(h, j) = AggCapacity(gr, j)
    BY <1>1, <1>6, <1>9 DEF SameAggs
  <2> QED BY <1>7, <1>9, <2>1 DEF AggOK
<1>10. CASE ~x.preemption
  <2>1. AggCapacity(g1, j) = AggCapacity(gr, j) /\ AggCapacity(gr, j) \in Nat
    BY <1>6 DEF SameAggs, AggOK
  <2>2. /\ AggCapacity(gr, j) + s + Cardinality(PinnedNodes(h, j)) <= Cardinality(EverNodes(gr, j, done))
        /\ Cardinality(OpenNodes(gr, j)) <= AggCapacity(gr, j)
    BY <1>7, <1>8, <1>10, <2>1, SMT DEF AggOK
  <2>3. 0 <= AggCapacity(g1, j) + 1 * s /\ AggCapacity(g1, j) + 1 * s < Word
    BY <1>8, <2>1, <2>2, TopologyAssumption, SMT
  <2>4. h.aggs = gr.aggs /\ AggCapacity(h, j) = AggCapacity(gr, j) + s
    BY <1>1, <1>5, <1>8, <1>10, <2>1, <2>3, AggNodeCounts, SMT DEF s
  <2>5. /\ AggCapacity(h, j) \in Nat /\ Cardinality(OpenNodes(h, j)) <= AggCapacity(h, j)
        /\ AggCapacity(h, j) + Cardinality(PinnedNodes(h, j)) <= Cardinality(EverNodes(gr, j, done))
    BY <1>7, <1>8, <2>1, <2>2, <2>4, SMT
  <2> QED BY <1>7, <1>10, <2>4, <2>5 DEF AggOK
<1> QED BY <1>9, <1>10

(* TaskScheduled *)
LEMMA SchedulingKeepsAgg ==
  ASSUME TasksCount, TasksAddUp, NEW gr, GraphOK(gr), NEW x, NEW p, DOMAIN p \subseteq Tasks,
         \A t \in DOMAIN p : p[t] \in Resources /\ gr.task[t] = "UNSCHEDULED",
         NEW j \in Jobs, NEW done, AggOK(gr, j, x.preemption, done)
  PROVE  AggOK(TaskScheduled(gr, x, p), j, x.preemption, done)
<1> DEFINE S == DOMAIN p
           task == Assigned(gr.task, S, "SCHEDULED")
           run == [t \in Tasks |-> IF t \in S THEN p[t] ELSE gr.running[t]]
           g1 == [gr EXCEPT !.task = task, !.running = run]
           new == ScheduledTaskArcs(g1, x, S)
           kept == WithoutArcs(g1.arcs, {a \in DOMAIN g1.arcs : a[1] \in S})
           pinned == [a \in RunningArcs(g1, S) |->
                        [Arc(TaskCosts(x, a[1]).continuation, 1) EXCEPT !.low = 1]]
           arcs == IF x.preemption THEN WithArcs(g1.arcs, new) ELSE WithArcs(kept, pinned)
           g2 == [g1 EXCEPT !.arcs = arcs]
           h == TaskScheduled(gr, x, p)
           s == Cardinality(InJob(S, j))
<1>1. h = IF x.preemption THEN g2 ELSE UpdateUnscheduledAggNode(g2, S, -1)
  <2>1. h = UpdateArcsForScheduledTask(g1, x, S)
    BY DEF TaskScheduled
  <2> HIDE DEF g1, h
  <2> QED BY <2>1 DEF UpdateArcsForScheduledTask, PinTaskToNode
<1>2. Becomes(h, gr, task, run)
  BY TasksScheduled
<1>3. \A t \in Tasks : h.task[t] = IF t \in S THEN "SCHEDULED" ELSE gr.task[t]
  BY <1>2 DEF Becomes, Assigned, GraphOK
<1> SUFFICES AggOK(h, j, x.preemption, done)
  OBVIOUS
<1> HIDE DEF h
<1>4. DOMAIN g1 = GraphFields /\ g1.arcs = gr.arcs /\ g1.aggs = gr.aggs
  <2> HIDE DEF task, run
  <2> QED BY DEF GraphOK, GraphFields
<1> HIDE DEF task, run, g1
<1>5. SameAggArcs(arcs, gr.arcs)
  <2>1. (\A a \in DOMAIN new : a[1] \in S) /\ \A a \in DOMAIN pinned : a[1] \in S
    BY RunningArcsAdded, SMT DEF RunningArcs
  <2>2. \A t \in S : t \notin Jobs
    BY EntitiesAssumption
  <2> HIDE DEF new, pinned
  <2>3. SameAggArcs(WithArcs(g1.arcs, new), g1.arcs)
    BY <2>1, <2>2, AddingKeepsAggArcs
  <2>4. SameAggArcs(WithArcs(kept, pinned), kept)
    <3> HIDE DEF kept
    <3> QED BY <2>1, <2>2, AddingKeepsAggArcs
  <2>5. SameAggArcs(kept, g1.arcs)
    <3> DEFINE gone == {a \in DOMAIN g1.arcs : a[1] \in S}
    <3>1. \A a \in gone : a[1] \notin Jobs
      BY <2>2
    <3> HIDE DEF gone
    <3>2. SameAggArcs(WithoutArcs(g1.arcs, gone), g1.arcs)
      BY <3>1, DeletingKeepsAggArcs
    <3> QED BY <3>2 DEF gone
  <2> HIDE DEF kept
  <2> QED BY <1>4, <2>3, <2>4, <2>5, SameAggArcsTrans
<1> HIDE DEF arcs
<1>6. DOMAIN g2 = GraphFields /\ g2.arcs = arcs /\ g2.aggs = gr.aggs
  BY <1>4 DEF GraphFields
<1> HIDE DEF g2
<1>7. SameAggs(g2, gr)
  BY <1>5, <1>6, AggsByArcs
<1>8. /\ TaskNodes(h, j) = TaskNodes(gr, j) /\ EverNodes(h, j, done) = EverNodes(gr, j, done)
      /\ Cardinality(OpenNodes(gr, j)) = Cardinality(OpenNodes(h, j)) + s
      /\ Cardinality(PinnedNodes(h, j)) = Cardinality(PinnedNodes(gr, j)) + s
  <2>1. \A t \in S : h.task[t] = "SCHEDULED"
    BY <1>3
  <2>2. \A t \in Tasks : gr.task[t] = IF t \in S THEN "UNSCHEDULED" ELSE h.task[t]
    BY <1>3
  <2>3. S \in SUBSET Tasks
    OBVIOUS
  <2> HIDE DEF S
  <2>4. Reopened(gr, h, S, j, done)
    BY <2>1, <2>2, <2>3, PinnedToOpen
  <2> QED BY <2>4 DEF Reopened
<1>9. /\ Cardinality(OpenNodes(h, j)) \in Nat /\ Cardinality(PinnedNodes(gr, j)) \in Nat
      /\ s \in Nat /\ (InJob(S, j) = {} => s = 0) /\ S \in SUBSET Tasks
      /\ Cardinality(EverNodes(gr, j, done)) \in Nat /\ Cardinality(EverNodes(gr, j, done)) < Word
  <2>1. S \in SUBSET Tasks
    OBVIOUS
  <2> QED BY <2>1, NodeSets DEF TasksCount, TasksAddUp
<1> HIDE DEF s, S
<1>10. CASE x.preemption
  <2>1. h.aggs = gr.aggs /\ AggCapacity(h, j) = AggCapacity(gr, j)
    BY <1>1, <1>7, <1>10 DEF SameAggs
  <2> QED BY <1>8, <1>10, <2>1 DEF AggOK
<1>11. CASE ~x.preemption
  <2>1. AggCapacity(g2, j) = AggCapacity(gr, j) /\ AggCapacity(gr, j) \in Nat
    BY <1>7 DEF SameAggs, AggOK
  <2>2. /\ AggCapacity(gr, j) + Cardinality(PinnedNodes(gr, j)) <= Cardinality(EverNodes(gr, j, done))
        /\ Cardinality(OpenNodes(h, j)) + s <= AggCapacity(gr, j)
    BY <1>8, <1>11 DEF AggOK
  <2>3. 0 <= AggCapacity(g2, j) + (-1) * s /\ AggCapacity(g2, j) + (-1) * s < Word
    BY <1>9, <2>1, <2>2, TopologyAssumption, SMT
  <2>4. h.aggs = gr.aggs /\ AggCapacity(h, j) = AggCapacity(gr, j) - s
    BY <1>1, <1>6, <1>9, <1>11, <2>1, <2>3, AggNodeCounts, SMT DEF s
  <2>5. /\ AggCapacity(h, j) \in Nat /\ Cardinality(OpenNodes(h, j)) <= AggCapacity(h, j)
        /\ AggCapacity(h, j) + Cardinality(PinnedNodes(h, j)) <= Cardinality(EverNodes(gr, j, done))
    BY <1>8, <1>9, <2>1, <2>2, <2>4, SMT
  <2> QED BY <1>8, <1>11, <2>4, <2>5 DEF AggOK
<1> QED BY <1>10, <1>11

(* RemoveTaskNode: the tasks do not come back. *)
LEMMA RemovingNodesKeepsAgg ==
  ASSUME TasksCount, TasksAddUp, NEW gr, GraphOK(gr), NEW x, NEW S \in SUBSET Tasks,
         \A t \in S : HasNode(gr, t),
         NEW j \in Jobs, NEW done, NEW after, S \subseteq after, done \subseteq after,
         AggOK(gr, j, x.preemption, done)
  PROVE  AggOK(RemoveTaskNode(gr, x, S), j, x.preemption, after)
<1> DEFINE task == Assigned(gr.task, S, "none")
           run == Assigned(gr.running, S, None)
           g1 == IF x.preemption THEN UpdateUnscheduledAggNode(gr, S, -1) ELSE gr
           g2 == [g1 EXCEPT !.task = Assigned(@, S, "none"), !.running = Assigned(@, S, None)]
           arcs == WithoutArcs(g2.arcs, {a \in DOMAIN g2.arcs : a[1] \in S \/ a[2] \in S})
           g3 == [g2 EXCEPT !.arcs = arcs]
           h == RemoveTaskNode(gr, x, S)
           s == Cardinality(InJob(S, j))
<1>1. h = g3
  BY DEF RemoveTaskNode, DeleteNodes
<1>2. Becomes(h, gr, task, run)
  BY TaskNodesRemoved
<1>3. \A t \in Tasks : h.task[t] = IF t \in S THEN "none" ELSE gr.task[t]
  BY <1>2 DEF Becomes, Assigned, GraphOK
<1> SUFFICES AggOK(h, j, x.preemption, after)
  OBVIOUS
<1> HIDE DEF h
<1>4. DOMAIN g1 = GraphFields
  BY AggNodeUpdated DEF Becomes, GraphOK
<1> HIDE DEF g1
<1>5. DOMAIN g2 = GraphFields /\ g2.arcs = g1.arcs /\ g2.aggs = g1.aggs
  BY <1>4 DEF GraphFields
<1> HIDE DEF g2
<1>6. SameAggs(h, g1)
  <2>1. S \cap (Jobs \cup {Sink}) = {}
    BY EntitiesAssumption
  <2>2. SameAggArcs(arcs, g2.arcs)
    BY <2>1, DeletingNodesKeepsAggArcs
  <2> HIDE DEF arcs
  <2>3. g3.arcs = arcs /\ g3.aggs = g1.aggs
    BY <1>5 DEF GraphFields
  <2> QED BY <1>1, <1>5, <2>2, <2>3, AggsByArcs
<1> HIDE DEF arcs, g3
<1>7. /\ TaskNodes(gr, j) = TaskNodes(h, j) \cup InJob(S, j) /\ TaskNodes(h, j) \cap InJob(S, j) = {}
      /\ OpenNodes(h, j) \subseteq OpenNodes(gr, j) /\ PinnedNodes(h, j) \subseteq PinnedNodes(gr, j)
      /\ EverNodes(gr, j, done) \subseteq EverNodes(h, j, after)
  <2>1. TaskNodes(gr, j) = TaskNodes(h, j) \cup InJob(S, j) /\ TaskNodes(h, j) \cap InJob(S, j) = {}
    BY <1>3 DEF TaskNodes, InJob, HasNode
  <2>2. OpenNodes(h, j) \subseteq OpenNodes(gr, j) /\ PinnedNodes(h, j) \subseteq PinnedNodes(gr, j)
    BY <1>3 DEF OpenNodes, PinnedNodes
  <2>3. EverNodes(gr, j, done) \subseteq EverNodes(h, j, after)
    BY <1>3 DEF EverNodes, HasNode
  <2> QED BY <2>1, <2>2, <2>3
<1>8. /\ Cardinality(TaskNodes(gr, j)) = Cardinality(TaskNodes(h, j)) + s
      /\ Cardinality(OpenNodes(h, j)) <= Cardinality(OpenNodes(gr, j))
      /\ Cardinality(PinnedNodes(h, j)) <= Cardinality(PinnedNodes(gr, j))
      /\ Cardinality(EverNodes(gr, j, done)) <= Cardinality(EverNodes(h, j, after))
  <2>1. /\ Cardinality(OpenNodes(h, j)) <= Cardinality(OpenNodes(gr, j))
        /\ Cardinality(PinnedNodes(h, j)) <= Cardinality(PinnedNodes(gr, j))
        /\ Cardinality(EverNodes(gr, j, done)) <= Cardinality(EverNodes(h, j, after))
    BY <1>7, NodeSets DEF TasksCount
  <2>2. Cardinality(TaskNodes(gr, j)) = Cardinality(TaskNodes(h, j)) + s
    BY <1>7, NodeSets DEF TasksAddUp
  <2> QED BY <2>1, <2>2
<1>9. /\ Cardinality(OpenNodes(h, j)) \in Nat /\ Cardinality(PinnedNodes(h, j)) \in Nat
      /\ Cardinality(OpenNodes(gr, j)) \in Nat /\ Cardinality(PinnedNodes(gr, j)) \in Nat
      /\ s \in Nat /\ (InJob(S, j) = {} => s = 0) /\ Cardinality(EverNodes(gr, j, done)) \in Nat
      /\ Cardinality(EverNodes(h, j, after)) \in Nat /\ Cardinality(TaskNodes(h, j)) \in Nat
      /\ Cardinality(TaskNodes(h, j)) < Word
  BY NodeSets DEF TasksCount, TasksAddUp
<1> HIDE DEF s
<1>10. CASE x.preemption
  <2>1. AggCapacity(gr, j) \in Nat /\ AggCapacity(gr, j) = Cardinality(TaskNodes(h, j)) + s
    BY <1>8, <1>10 DEF AggOK
  <2>2. 0 <= AggCapacity(gr, j) + (-1) * s /\ AggCapacity(gr, j) + (-1) * s < Word
    BY <1>9, <2>1, TopologyAssumption, SMT
  <2>3. g1.aggs = gr.aggs /\ AggCapacity(g1, j) = AggCapacity(gr, j) - s
    BY <1>9, <1>10, <2>1, <2>2, AggNodeCounts, SMT DEF s, g1, GraphOK
  <2>4. h.aggs = gr.aggs /\ AggCapacity(h, j) = Cardinality(TaskNodes(h, j))
    BY <1>6, <1>9, <2>1, <2>3, SMT DEF SameAggs
  <2> QED BY <1>7, <1>9, <1>10, <2>4 DEF AggOK
<1>11. CASE ~x.preemption
  <2>1. h.aggs = gr.aggs /\ AggCapacity(h, j) = AggCapacity(gr, j)
    BY <1>6, <1>11 DEF SameAggs, g1
  <2>2. /\ AggCapacity(gr, j) \in Nat /\ Cardinality(OpenNodes(gr, j)) <= AggCapacity(gr, j)
        /\ AggCapacity(gr, j) + Cardinality(PinnedNodes(gr, j)) <= Cardinality(EverNodes(gr, j, done))
    BY <1>11 DEF AggOK
  <2>3. /\ Cardinality(OpenNodes(h, j)) <= AggCapacity(h, j)
        /\ AggCapacity(h, j) + Cardinality(PinnedNodes(h, j)) <= Cardinality(EverNodes(h, j, after))
    BY <1>8, <1>9, <2>1, <2>2, SMT
  <2> QED BY <1>7, <1>11, <2>1, <2>2, <2>3 DEF AggOK
<1> QED BY <1>10, <1>11

(* RemoveUnscheduledAggNode, for a job that has no task node left *)
LEMMA RemovingAggKeepsAgg ==
  ASSUME TasksCount, NEW gr, GraphOK(gr), NEW i \in Jobs, TaskNodes(gr, i) = {},
         NEW j \in Jobs, NEW pre, NEW done, AggOK(gr, j, pre, done)
  PROVE  AggOK(RemoveUnscheduledAggNode(gr, i), j, pre, done)
<1> DEFINE aggs == gr.aggs \ {i}
           g1 == [gr EXCEPT !.aggs = aggs]
           arcs == WithoutArcs(gr.arcs, {a \in DOMAIN gr.arcs : a[1] \in {i} \/ a[2] \in {i}})
           h == RemoveUnscheduledAggNode(gr, i)
<1>1. h = DeleteNodes(g1, {i})
  BY DEF RemoveUnscheduledAggNode
<1>2. h.task = gr.task
  BY AggNodeRemoved DEF Becomes
<1> SUFFICES AggOK(h, j, pre, done)
  OBVIOUS
<1> HIDE DEF h
<1>3. DOMAIN g1 = GraphFields /\ g1.arcs = gr.arcs /\ g1.aggs = aggs
  <2> HIDE DEF aggs
  <2> QED BY DEF GraphOK, GraphFields
<1> HIDE DEF g1
<1>4. h.arcs = arcs /\ h.aggs = gr.aggs \ {i}
  <2>1. h = [g1 EXCEPT !.arcs = arcs]
    BY <1>1, <1>3 DEF DeleteNodes
  <2> HIDE DEF arcs
  <2> QED BY <1>3, <2>1 DEF GraphFields
<1>5. /\ TaskNodes(h, j) = TaskNodes(gr, j) /\ OpenNodes(h, j) = OpenNodes(gr, j)
      /\ PinnedNodes(h, j) = PinnedNodes(gr, j) /\ EverNodes(h, j, done) = EverNodes(gr, j, done)
  BY <1>2 DEF TaskNodes, OpenNodes, PinnedNodes, EverNodes, HasNode
<1>6. CASE j = i
  <2>1. AggCapacity(h, j) = 0
    <3>1. AggArc(i) \notin DOMAIN arcs
      BY DEF AggArc, WithoutArcs
    <3> HIDE DEF arcs
    <3> QED BY <1>4, <1>6, <3>1 DEF AggCapacity
  <2>2. TaskNodes(h, j) = {} /\ OpenNodes(h, j) = {} /\ PinnedNodes(h, j) = {}
    BY <1>5, <1>6 DEF TaskNodes, OpenNodes, PinnedNodes, HasNode
  <2>3. Cardinality({}) = 0 /\ Cardinality(EverNodes(h, j, done)) \in Nat
    BY NodeSets DEF TasksCount
  <2>4. /\ AggCapacity(h, j) \in Nat /\ Cardinality({}) <= AggCapacity(h, j)
        /\ AggCapacity(h, j) + Cardinality({}) <= Cardinality(EverNodes(h, j, done))
    BY <2>1, <2>3, SMT
  <2> QED BY <2>1, <2>2, <2>3, <2>4 DEF AggOK
<1>7. CASE j # i
  <2>1. /\ AggArc(j) \in DOMAIN arcs <=> AggArc(j) \in DOMAIN gr.arcs
        /\ AggArc(j) \in DOMAIN arcs => arcs[AggArc(j)] = gr.arcs[AggArc(j)]
    BY <1>7, EntitiesAssumption DEF AggArc, WithoutArcs
  <2> HIDE DEF arcs
  <2>2. AggCapacity(h, j) = AggCapacity(gr, j) /\ (j \in gr.aggs => j \in h.aggs)
    BY <1>4, <1>7, <2>1 DEF AggCapacity
  <2> QED BY <1>5, <2>2 DEF AggOK
<1> QED BY <1>6, <1>7

(* AddResourceTopology *)
LEMMA AddingTopologyKeepsAggs ==
  ASSUME NEW gr, GraphOK(gr), NEW x, NEW m \in Machines
  PROVE  LeavesAggs(AddResourceTopology(gr, x, m), gr)
<1> DEFINE new == Below(m)
           slots == [r \in Res |-> IF r \in new
                       THEN MaxTasksPerPU * Cardinality(PUsBelow(r)) ELSE gr.slots[r]]
           below == [r \in Res |-> IF r \in new THEN 0 ELSE gr.below[r]]
           g1 == [gr EXCEPT !.res = @ \cup new, !.slots = slots, !.below = below]
           x1 == [WithStatistics(x, g1) EXCEPT !.sample = [n \in Machines |-> None]]
           in == [a \in {<<Root, m>>} |-> ResourceNodeToResourceNode(x1, m)]
           out == ArcsFrom(new, LAMBDA r : ResourceArcs(g1, x1, r))
           arcs == WithArcs(WithArcs(g1.arcs, out), in)
           h == [g1 EXCEPT !.arcs = arcs]
<1>1. AddResourceTopology(gr, x, m) = h
  BY DEF AddResourceTopology
<1> HIDE DEF slots, below
<1>2. DOMAIN g1 = GraphFields /\ g1.arcs = gr.arcs /\ g1.aggs = gr.aggs /\ g1.task = gr.task
  <2> HIDE DEF new
  <2> QED BY DEF GraphOK, GraphFields
<1> HIDE DEF g1, x1
<1>3. (\A a \in DOMAIN in : a[1] \notin Jobs) /\ \A a \in DOMAIN out : a[1] \notin Jobs
  <2>1. \A r \in new : r \notin Jobs
    BY EntitiesAssumption DEF Below, Res
  <2>2. \A a \in DOMAIN in : a[1] = Root
    BY SMT
  <2>3. \A a \in DOMAIN out : a[1] \in new
    <3> HIDE DEF new
    <3> QED BY SMT DEF ArcsFrom
  <2> HIDE DEF in, out, new
  <2> QED BY <2>1, <2>2, <2>3, EntitiesAssumption DEF Res
<1> HIDE DEF in, out
<1>4. SameAggArcs(arcs, gr.arcs)
  <2>1. SameAggArcs(WithArcs(g1.arcs, out), g1.arcs)
    BY <1>3, AddingKeepsAggArcs
  <2>2. SameAggArcs(arcs, WithArcs(g1.arcs, out))
    BY <1>3, AddingKeepsAggArcs
  <2> HIDE DEF arcs
  <2> QED BY <1>2, <2>1, <2>2, SameAggArcsTrans
<1> HIDE DEF arcs
<1>5. h.arcs = arcs /\ h.aggs = gr.aggs /\ h.task = gr.task
  BY <1>2 DEF GraphFields
<1> HIDE DEF h
<1> QED BY <1>1, <1>4, <1>5, AggsByArcs DEF LeavesAggs

(* RemoveResourceTopology *)
LEMMA RemovingTopologyKeepsAggs ==
  ASSUME NEW gr, GraphOK(gr), NEW m \in Machines
  PROVE  LeavesAggs(RemoveResourceTopology(gr, m), gr)
<1> DEFINE gone == Below(m)
           g1 == [gr EXCEPT !.res = @ \ gone]
           g2 == DeleteNodes(g1, gone)
           arcs == WithoutArcs(gr.arcs, {a \in DOMAIN gr.arcs : a[1] \in gone \/ a[2] \in gone})
           slots == UpdateResourceStatsUpToRoot(g2.slots, m)
           below == UpdateResourceStatsUpToRoot(g2.below, m)
           h == [g2 EXCEPT !.slots = slots, !.below = below]
<1>1. RemoveResourceTopology(gr, m) = h
  BY DEF RemoveResourceTopology
<1>2. gone \cap (Jobs \cup {Sink}) = {}
  BY EntitiesAssumption DEF Below, Res
<1> HIDE DEF gone
<1>3. DOMAIN g1 = GraphFields /\ g1.arcs = gr.arcs /\ g1.aggs = gr.aggs /\ g1.task = gr.task
  BY DEF GraphOK, GraphFields
<1> HIDE DEF g1
<1>4. DOMAIN g2 = GraphFields /\ g2.arcs = arcs /\ g2.aggs = gr.aggs /\ g2.task = gr.task
  <2>1. g2 = [g1 EXCEPT !.arcs = arcs]
    BY <1>3 DEF DeleteNodes
  <2> HIDE DEF arcs, g2
  <2> QED BY <1>3, <2>1 DEF GraphFields
<1> HIDE DEF g2, slots, below
<1>5. SameAggArcs(arcs, gr.arcs)
  BY <1>2, DeletingNodesKeepsAggArcs
<1> HIDE DEF arcs
<1>6. h.arcs = arcs /\ h.aggs = gr.aggs /\ h.task = gr.task
  BY <1>4 DEF GraphFields
<1> HIDE DEF h
<1> QED BY <1>1, <1>5, <1>6, AggsByArcs DEF LeavesAggs

(* UpdateFlowGraph *)
LEMMA UpdatingFlowGraphKeepsAggs ==
  ASSUME NEW gr, GraphOK(gr), NEW x, NEW waiting, NEW placed, NEW classes,
         waiting \subseteq Tasks, placed \subseteq Tasks, classes \cap Entities = {}
  PROVE  LeavesAggs(UpdateFlowGraph(gr, x, waiting, placed, classes), gr)
<1> DEFINE reached == VisitTopologyChildren(gr, ResourcesReached(x, waiting, classes))
           gone    == {a \in DOMAIN gr.arcs : a[1] \in waiting \cup classes}
           kept    == WithoutArcs(gr.arcs, gone)
           NewArcs(u) == IF u \in waiting THEN WaitingTaskArcs(x, u) ELSE
                         IF u \in placed THEN RunningTaskArcs(gr, x, u) ELSE
                         IF u \in classes THEN ModelArcs(x, u) ELSE ResourceArcs(gr, x, u)
           walked == waiting \cup placed \cup classes \cup reached
           new == ArcsFrom(walked, NewArcs)
           ecs == gr.ecs \cup classes
           arcs == WithArcs(kept, new)
           h == [gr EXCEPT !.ecs = ecs, !.arcs = arcs]
<1>1. UpdateFlowGraph(gr, x, waiting, placed, classes) = h
  BY DEF UpdateFlowGraph, ArcsFrom
<1>2. \A u \in walked : u \notin Jobs
  <2>1. reached \subseteq Res
    BY DEF VisitTopologyChildren, Below
  <2> HIDE DEF reached
  <2> QED BY <2>1, EntitiesAssumption DEF Entities
<1>3. \A a \in DOMAIN new : a[1] \in walked
  <2> HIDE DEF NewArcs, walked
  <2> QED BY SMT DEF ArcsFrom
<1>4. \A a \in gone : a[1] \in walked
  OBVIOUS
<1> HIDE DEF new, gone, walked
<1>5. SameAggArcs(kept, gr.arcs)
  BY <1>2, <1>4, DeletingKeepsAggArcs
<1> HIDE DEF kept
<1>6. SameAggArcs(arcs, kept)
  BY <1>2, <1>3, AddingKeepsAggArcs
<1> HIDE DEF arcs, ecs
<1>7. h.arcs = arcs /\ h.aggs = gr.aggs /\ h.task = gr.task
  BY DEF GraphOK, GraphFields
<1> HIDE DEF h
<1> QED BY <1>1, <1>5, <1>6, <1>7, SameAggArcsTrans, AggsByArcs DEF LeavesAggs

(* PurgeUnconnectedEquivClassNodes *)
LEMMA PurgingClassesKeepsAggs ==
  ASSUME NEW gr, GraphOK(gr)
  PROVE  LeavesAggs(PurgeUnconnectedEquivClassNodes(gr), gr)
<1> DEFINE gone == {ec \in gr.ecs : \A a \in DOMAIN gr.arcs : a[2] # ec}
           ecs == gr.ecs \ gone
           g1 == [gr EXCEPT !.ecs = ecs]
           arcs == WithoutArcs(gr.arcs, {a \in DOMAIN gr.arcs : a[1] \in gone \/ a[2] \in gone})
<1>1. PurgeUnconnectedEquivClassNodes(gr) = DeleteNodes(g1, gone)
  BY DEF PurgeUnconnectedEquivClassNodes
<1>2. gone \cap (Jobs \cup {Sink}) = {}
  BY DEF GraphOK, Entities
<1> HIDE DEF gone, ecs
<1>3. DOMAIN g1 = GraphFields /\ g1.arcs = gr.arcs /\ g1.aggs = gr.aggs /\ g1.task = gr.task
  BY DEF GraphOK, GraphFields
<1> HIDE DEF g1
<1>4. DeleteNodes(g1, gone) = [g1 EXCEPT !.arcs = arcs]
  BY <1>3 DEF DeleteNodes
<1>5. SameAggArcs(arcs, gr.arcs)
  BY <1>2, DeletingNodesKeepsAggArcs
<1> HIDE DEF arcs
<1> DEFINE h == [g1 EXCEPT !.arcs = arcs]
<1>6. h.arcs = arcs /\ h.aggs = gr.aggs /\ h.task = gr.task
  BY <1>3 DEF GraphFields
<1> HIDE DEF h
<1>7. LeavesAggs(h, gr)
  BY <1>5, <1>6, AggsByArcs DEF LeavesAggs
<1> QED BY <1>1, <1>4, <1>7 DEF h

(* UpdateAllCostsToUnscheduledAggs *)
LEMMA UpdatingCostsKeepsAggs ==
  ASSUME NEW gr, GraphOK(gr), NEW x, NEW st
  PROVE  LeavesAggs(UpdateAllCostsToUnscheduledAggs(gr, x, st), gr)
<1> DEFINE tasks == {t \in Tasks : <<t, JobOf[t]>> \in DOMAIN gr.arcs}
           ToAgg(t) == [j \in {JobOf[t]} |-> Arc(TaskCosts(x, t).unscheduled, 1)]
           New(t) == IF st[t] = "RUNNING" THEN RunningTaskArcs(gr, x, t) ELSE ToAgg(t)
           new == ArcsFrom(tasks, New)
           arcs == WithArcs(gr.arcs, new)
           h == [gr EXCEPT !.arcs = arcs]
<1>1. UpdateAllCostsToUnscheduledAggs(gr, x, st) = h
  BY DEF UpdateAllCostsToUnscheduledAggs, ArcsFrom
<1>2. \A a \in DOMAIN new : a[1] \in tasks
  <2> HIDE DEF New, tasks
  <2> QED BY SMT DEF ArcsFrom
<1> HIDE DEF new
<1>3. \A a \in DOMAIN new : a[1] \notin Jobs
  BY <1>2, EntitiesAssumption
<1>4. SameAggArcs(arcs, gr.arcs)
  BY <1>3, AddingKeepsAggArcs
<1> HIDE DEF arcs
<1>5. h.arcs = arcs /\ h.aggs = gr.aggs /\ h.task = gr.task
  BY DEF GraphOK, GraphFields
<1> HIDE DEF h
<1> QED BY <1>1, <1>4, <1>5, AggsByArcs DEF LeavesAggs

(* ComputeTopologyStatistics *)
LEMMA StatisticsKeepAggs ==
  ASSUME NEW gr, GraphOK(gr), NEW x
  PROVE  LeavesAggs(ComputeTopologyStatistics(gr, x), gr)
<1> DEFINE above == {r \in gr.res : PUsBelow(r) \cap gr.res # {}}
           slots == [r \in Res |-> IF r \in above THEN SlotsBelow(x, r) ELSE gr.slots[r]]
           below == [r \in Res |-> IF r \in above THEN RunningTasksBelow(x, r) ELSE gr.below[r]]
           h == [gr EXCEPT !.slots = slots, !.below = below]
<1>1. ComputeTopologyStatistics(gr, x) = IF x.model = "interference" THEN gr ELSE h
  BY DEF ComputeTopologyStatistics
<1> HIDE DEF slots, below
<1>2. h.arcs = gr.arcs /\ h.aggs = gr.aggs /\ h.task = gr.task
  BY DEF GraphOK, GraphFields
<1> HIDE DEF h
<1> QED BY <1>1, <1>2 DEF LeavesAggs, SameAggs, AggCapacity

(* AddTaskNodes, for tasks that have no node and never had one *)
LEMMA AddingNodesKeepsAgg ==
  ASSUME TasksCount, TasksAddUp, NEW gr, GraphOK(gr), NEW jobs, NEW S \in SUBSET Tasks,
         \A t \in S : JobOf[t] \in jobs /\ ~HasNode(gr, t),
         NEW j \in Jobs, NEW pre, NEW done, S \cap done = {}, AggOK(gr, j, pre, done)
  PROVE  AggOK(AddTaskNodes(gr, jobs, S), j, pre, done)
<1> DEFINE task == Assigned(gr.task, S, "UNSCHEDULED")
           aggs == gr.aggs \cup jobs
           g1 == [gr EXCEPT !.aggs = aggs, !.task = task]
           h == AddTaskNodes(gr, jobs, S)
           s == Cardinality(InJob(S, j))
<1>1. h = UpdateUnscheduledAggNode(g1, S, 1)
  BY DEF AddTaskNodes
<1>2. \A t \in Tasks : task[t] = IF t \in S THEN "UNSCHEDULED" ELSE gr.task[t]
  BY DEF Assigned, GraphOK
<1> SUFFICES AggOK(h, j, pre, done)
  OBVIOUS
<1> HIDE DEF h, task, aggs
<1>3. DOMAIN g1 = GraphFields /\ g1.arcs = gr.arcs /\ g1.aggs = aggs /\ g1.task = task
  BY DEF GraphOK, GraphFields
<1> HIDE DEF g1
<1>4. h.task = task
  <2> DEFINE n(i) == Cardinality({t \in S : JobOf[t] = i})
             new == [a \in {AggArc(JobOf[t]) : t \in S} |->
                       [UnscheduledAggToSink EXCEPT !.cap = (AggCapacity(g1, a[1]) + 1 * n(a[1])) % Word]]
  <2>1. h = [g1 EXCEPT !.arcs = WithArcs(@, new)]
    BY <1>1 DEF UpdateUnscheduledAggNode
  <2> HIDE DEF new
  <2> QED BY <1>3, <2>1 DEF GraphFields
<1>5. \A t \in Tasks : h.task[t] = IF t \in S THEN "UNSCHEDULED" ELSE gr.task[t]
  BY <1>2, <1>4
<1>6. /\ TaskNodes(h, j) = TaskNodes(gr, j) \cup InJob(S, j) /\ TaskNodes(gr, j) \cap InJob(S, j) = {}
      /\ OpenNodes(h, j) = OpenNodes(gr, j) \cup InJob(S, j) /\ OpenNodes(gr, j) \cap InJob(S, j) = {}
      /\ PinnedNodes(h, j) = PinnedNodes(gr, j)
      /\ EverNodes(h, j, done) = EverNodes(gr, j, done) \cup InJob(S, j)
      /\ EverNodes(gr, j, done) \cap InJob(S, j) = {}
  <2>1. TaskNodes(h, j) = TaskNodes(gr, j) \cup InJob(S, j) /\ TaskNodes(gr, j) \cap InJob(S, j) = {}
    BY <1>5 DEF TaskNodes, InJob, HasNode
  <2>2. OpenNodes(h, j) = OpenNodes(gr, j) \cup InJob(S, j) /\ OpenNodes(gr, j) \cap InJob(S, j) = {}
    BY <1>5 DEF OpenNodes, InJob, HasNode
  <2>3. PinnedNodes(h, j) = PinnedNodes(gr, j)
    BY <1>5 DEF PinnedNodes, HasNode
  <2>4. EverNodes(h, j, done) = EverNodes(gr, j, done) \cup InJob(S, j)
    BY <1>5 DEF EverNodes, InJob, HasNode
  <2>5. EverNodes(gr, j, done) \cap InJob(S, j) = {}
    BY DEF EverNodes, InJob
  <2> QED BY <2>1, <2>2, <2>3, <2>4, <2>5
<1>7. /\ Cardinality(TaskNodes(h, j)) = Cardinality(TaskNodes(gr, j)) + s
      /\ Cardinality(OpenNodes(h, j)) = Cardinality(OpenNodes(gr, j)) + s
      /\ Cardinality(EverNodes(h, j, done)) = Cardinality(EverNodes(gr, j, done)) + s
  BY <1>6, NodeSets DEF TasksAddUp
<1>8. /\ Cardinality(TaskNodes(gr, j)) \in Nat /\ Cardinality(OpenNodes(gr, j)) \in Nat
      /\ Cardinality(PinnedNodes(gr, j)) \in Nat /\ Cardinality(EverNodes(gr, j, done)) \in Nat
      /\ s \in Nat /\ (InJob(S, j) = {} => s = 0)
      /\ Cardinality(TaskNodes(h, j)) < Word /\ Cardinality(EverNodes(h, j, done)) < Word
  BY NodeSets DEF TasksCount, TasksAddUp
<1>9. TaskNodes(h, j) # {} => j \in aggs
  BY <1>6 DEF AggOK, aggs, InJob
<1>10. AggCapacity(g1, j) = AggCapacity(gr, j) /\ AggCapacity(gr, j) \in Nat
  BY <1>3 DEF AggCapacity, AggOK
<1>11. ASSUME 0 <= AggCapacity(g1, j) + 1 * s, AggCapacity(g1, j) + 1 * s < Word
       PROVE  h.aggs = aggs /\ AggCapacity(h, j) = AggCapacity(g1, j) + 1 * s
  <2>1. s \in Nat /\ (InJob(S, j) = {} => s = 0) /\ AggCapacity(g1, j) \in Int /\ 1 \in Int
    BY <1>8, <1>10, SMT
  <2> QED BY <1>1, <1>3, <1>11, <2>1, AggNodeCounts
<1> HIDE DEF s
<1>12. CASE pre
  <2>1. AggCapacity(gr, j) = Cardinality(TaskNodes(gr, j))
    BY <1>12 DEF AggOK
  <2>2. 0 <= AggCapacity(g1, j) + 1 * s /\ AggCapacity(g1, j) + 1 * s < Word
    BY <1>7, <1>8, <1>10, <2>1, SMT
  <2>3. h.aggs = aggs /\ AggCapacity(h, j) = AggCapacity(g1, j) + 1 * s
    BY <1>11, <2>2
  <2>4. AggCapacity(h, j) \in Nat /\ AggCapacity(h, j) = Cardinality(TaskNodes(h, j))
    BY <1>7, <1>8, <1>10, <2>1, <2>3, SMT
  <2> QED BY <1>9, <1>12, <2>3, <2>4 DEF AggOK
<1>13. CASE ~pre
  <2>1. /\ Cardinality(OpenNodes(gr, j)) <= AggCapacity(gr, j)
        /\ AggCapacity(gr, j) + Cardinality(PinnedNodes(gr, j)) <= Cardinality(EverNodes(gr, j, done))
    BY <1>13 DEF AggOK
  <2>2. 0 <= AggCapacity(g1, j) + 1 * s /\ AggCapacity(g1, j) + 1 * s < Word
    BY <1>7, <1>8, <1>10, <2>1, TopologyAssumption, SMT
  <2>3. h.aggs = aggs /\ AggCapacity(h, j) = AggCapacity(g1, j) + 1 * s
    BY <1>11, <2>2
  <2>4. /\ AggCapacity(h, j) \in Nat /\ Cardinality(OpenNodes(h, j)) <= AggCapacity(h, j)
        /\ AggCapacity(h, j) + Cardinality(PinnedNodes(gr, j)) <= Cardinality(EverNodes(h, j, done))
    BY <1>7, <1>8, <1>10, <2>1, <2>3, SMT
  <2> QED BY <1>6, <1>9, <1>13, <2>3, <2>4 DEF AggOK
<1> QED BY <1>12, <1>13

(* All jobs *)
AggsOK(gr, preemption, done) ==
  gr.aggs \subseteq Jobs /\ \A j \in Jobs : AggOK(gr, j, preemption, done)

(* A change that concerns neither the nodes of tasks nor aggregators *)
LEMMA AggsUntouched ==
  ASSUME NEW gr, NEW h, LeavesAggs(h, gr), NEW pre, NEW done, AggsOK(gr, pre, done)
  PROVE  AggsOK(h, pre, done)
<1>1. h.aggs = gr.aggs
  BY DEF LeavesAggs, SameAggs
<1> QED BY <1>1, AggUntouched DEF AggsOK

(* UpdateUnscheduledAggNode adds no aggregator, and removes none. *)
LEMMA AggNodeAggs ==
  ASSUME NEW gr, DOMAIN gr = GraphFields, NEW S, NEW delta
  PROVE  LET h == UpdateUnscheduledAggNode(gr, S, delta)
         IN  h.aggs = gr.aggs /\ DOMAIN h = GraphFields
<1> DEFINE n(j) == Cardinality({t \in S : JobOf[t] = j})
           new == [a \in {AggArc(JobOf[t]) : t \in S} |-> [UnscheduledAggToSink EXCEPT
                     !.cap = (AggCapacity(gr, a[1]) + delta * n(a[1])) % Word]]
           arcs == WithArcs(gr.arcs, new)
<1>1. UpdateUnscheduledAggNode(gr, S, delta) = [gr EXCEPT !.arcs = arcs]
  BY DEF UpdateUnscheduledAggNode, GraphFields
<1> HIDE DEF arcs
<1> QED BY <1>1 DEF GraphFields

(* TaskEvicted, for all jobs *)
LEMMA EvictionKeepsAggs ==
  ASSUME TasksCount, TasksAddUp, NEW gr, GraphOK(gr), NEW x, NEW S \in SUBSET Tasks,
         \A t \in S : gr.task[t] = "SCHEDULED", NEW done, AggsOK(gr, x.preemption, done)
  PROVE  AggsOK(TaskEvicted(gr, x, S), x.preemption, done)
<1> DEFINE task == Assigned(gr.task, S, "UNSCHEDULED")
           run == Assigned(gr.running, S, None)
           arcs == WithoutArcs(gr.arcs, RunningArcs(gr, S))
           g1 == [gr EXCEPT !.task = task, !.running = run, !.arcs = arcs]
           h == TaskEvicted(gr, x, S)
<1>1. h = IF x.preemption THEN g1 ELSE UpdateUnscheduledAggNode(g1, S, 1)
  BY DEF TaskEvicted
<1>2. \A j \in Jobs : AggOK(h, j, x.preemption, done)
  BY EvictionKeepsAgg DEF AggsOK
<1> SUFFICES AggsOK(h, x.preemption, done)
  OBVIOUS
<1> HIDE DEF task, run, arcs, h
<1>3. DOMAIN g1 = GraphFields /\ g1.aggs = gr.aggs
  BY DEF GraphOK, GraphFields
<1> HIDE DEF g1
<1>4. h.aggs = gr.aggs
  BY <1>1, <1>3, AggNodeAggs
<1> QED BY <1>2, <1>4 DEF AggsOK

(* TaskScheduled, for all jobs *)
LEMMA SchedulingKeepsAggs ==
  ASSUME TasksCount, TasksAddUp, NEW gr, GraphOK(gr), NEW x, NEW p, DOMAIN p \subseteq Tasks,
         \A t \in DOMAIN p : p[t] \in Resources /\ gr.task[t] = "UNSCHEDULED",
         NEW done, AggsOK(gr, x.preemption, done)
  PROVE  AggsOK(TaskScheduled(gr, x, p), x.preemption, done)
<1> DEFINE S == DOMAIN p
           task == Assigned(gr.task, S, "SCHEDULED")
           run == [t \in Tasks |-> IF t \in S THEN p[t] ELSE gr.running[t]]
           g1 == [gr EXCEPT !.task = task, !.running = run]
           h == TaskScheduled(gr, x, p)
<1>1. h = UpdateArcsForScheduledTask(g1, x, S)
  BY DEF TaskScheduled
<1>2. \A j \in Jobs : AggOK(h, j, x.preemption, done)
  BY SchedulingKeepsAgg DEF AggsOK
<1> SUFFICES AggsOK(h, x.preemption, done)
  OBVIOUS
<1> HIDE DEF task, run, h
<1>3. DOMAIN g1 = GraphFields /\ g1.aggs = gr.aggs
  BY DEF GraphOK, GraphFields
<1> HIDE DEF g1
<1> DEFINE kept == WithoutArcs(g1.arcs, {a \in DOMAIN g1.arcs : a[1] \in S})
           pinned == [a \in RunningArcs(g1, S) |->
                        [Arc(TaskCosts(x, a[1]).continuation, 1) EXCEPT !.low = 1]]
           arcs == IF x.preemption THEN WithArcs(g1.arcs, ScheduledTaskArcs(g1, x, S))
                   ELSE WithArcs(kept, pinned)
           g2 == [g1 EXCEPT !.arcs = arcs]
<1>4. h = IF x.preemption THEN g2 ELSE UpdateUnscheduledAggNode(g2, S, -1)
  BY <1>1 DEF UpdateArcsForScheduledTask, PinTaskToNode
<1> HIDE DEF arcs
<1>5. DOMAIN g2 = GraphFields /\ g2.aggs = gr.aggs
  BY <1>3 DEF GraphFields
<1> HIDE DEF g2
<1>6. h.aggs = gr.aggs
  BY <1>4, <1>5, AggNodeAggs
<1> QED BY <1>2, <1>6 DEF AggsOK

(* RemoveTaskNode, for all jobs *)
LEMMA RemovingNodesKeepsAggs ==
  ASSUME TasksCount, TasksAddUp, NEW gr, GraphOK(gr), NEW x, NEW S \in SUBSET Tasks,
         \A t \in S : HasNode(gr, t), NEW done, AggsOK(gr, x.preemption, done),
         NEW after, S \subseteq after, done \subseteq after
  PROVE  AggsOK(RemoveTaskNode(gr, x, S), x.preemption, after)
<1> DEFINE g1 == IF x.preemption THEN UpdateUnscheduledAggNode(gr, S, -1) ELSE gr
           g2 == [g1 EXCEPT !.task = Assigned(@, S, "none"), !.running = Assigned(@, S, None)]
           arcs == WithoutArcs(g2.arcs, {a \in DOMAIN g2.arcs : a[1] \in S \/ a[2] \in S})
           h == RemoveTaskNode(gr, x, S)
<1>1. h = [g2 EXCEPT !.arcs = arcs]
  BY DEF RemoveTaskNode, DeleteNodes
<1>2. \A j \in Jobs : AggOK(h, j, x.preemption, after)
  BY RemovingNodesKeepsAgg DEF AggsOK
<1> SUFFICES AggsOK(h, x.preemption, after)
  OBVIOUS
<1> HIDE DEF h
<1>3. DOMAIN g1 = GraphFields /\ g1.aggs = gr.aggs
  BY AggNodeAggs DEF GraphOK
<1> HIDE DEF g1
<1>4. DOMAIN g2 = GraphFields /\ g2.aggs = gr.aggs
  BY <1>3 DEF GraphFields
<1> HIDE DEF g2, arcs
<1>5. h.aggs = gr.aggs
  BY <1>1, <1>4 DEF GraphFields
<1> QED BY <1>2, <1>5 DEF AggsOK

(* RemoveUnscheduledAggNode, for a job that has no task node left *)
LEMMA AggRemoved ==
  ASSUME TasksCount, NEW gr, GraphOK(gr), NEW i \in Jobs, NEW pre, NEW done, AggsOK(gr, pre, done),
         TaskNodes(gr, i) = {}
  PROVE  AggsOK(RemoveUnscheduledAggNode(gr, i), pre, done)
<1> DEFINE aggs == gr.aggs \ {i}
           g1 == [gr EXCEPT !.aggs = aggs]
           arcs == WithoutArcs(g1.arcs, {a \in DOMAIN g1.arcs : a[1] \in {i} \/ a[2] \in {i}})
           h == RemoveUnscheduledAggNode(gr, i)
<1>1. h = [g1 EXCEPT !.arcs = arcs]
  BY DEF RemoveUnscheduledAggNode, DeleteNodes
<1>2. \A j \in Jobs : AggOK(h, j, pre, done)
  BY RemovingAggKeepsAgg DEF AggsOK
<1> SUFFICES AggsOK(h, pre, done)
  OBVIOUS
<1> HIDE DEF h, aggs
<1>3. DOMAIN g1 = GraphFields /\ g1.aggs = aggs
  BY DEF GraphOK, GraphFields
<1> HIDE DEF g1, arcs
<1>4. h.aggs = aggs
  BY <1>1, <1>3 DEF GraphFields
<1> QED BY <1>2, <1>4 DEF AggsOK, aggs

(* AddTaskNodes, for tasks that have no node and never had one *)
LEMMA AddingNodesKeepsAggs ==
  ASSUME TasksCount, TasksAddUp, NEW gr, GraphOK(gr), NEW jobs \in SUBSET Jobs, NEW S \in SUBSET Tasks,
         \A t \in S : JobOf[t] \in jobs /\ ~HasNode(gr, t),
         NEW pre, NEW done, S \cap done = {}, AggsOK(gr, pre, done)
  PROVE  AggsOK(AddTaskNodes(gr, jobs, S), pre, done)
<1> DEFINE task == Assigned(gr.task, S, "UNSCHEDULED")
           aggs == gr.aggs \cup jobs
           g1 == [gr EXCEPT !.aggs = aggs, !.task = task]
           h == AddTaskNodes(gr, jobs, S)
<1>1. h = UpdateUnscheduledAggNode(g1, S, 1)
  BY DEF AddTaskNodes
<1>2. \A j \in Jobs : AggOK(h, j, pre, done)
  BY AddingNodesKeepsAgg DEF AggsOK
<1> SUFFICES AggsOK(h, pre, done)
  OBVIOUS
<1> HIDE DEF h, task, aggs
<1>3. DOMAIN g1 = GraphFields /\ g1.aggs = aggs
  BY DEF GraphOK, GraphFields
<1> HIDE DEF g1
<1>4. h.aggs = aggs
  BY <1>1, <1>3, AggNodeAggs
<1> QED BY <1>2, <1>4 DEF AggsOK, aggs

(* A task more that does not come back *)
LEMMA AggsWithMoreDone ==
  ASSUME TasksCount, NEW gr, NEW pre, NEW done, AggsOK(gr, pre, done), NEW after, done \subseteq after
  PROVE  AggsOK(gr, pre, after)
<1> SUFFICES ASSUME NEW j \in Jobs PROVE AggOK(gr, j, pre, after)
  BY DEF AggsOK
<1>1. AggOK(gr, j, pre, done)
  BY DEF AggsOK
<1>2. Cardinality(EverNodes(gr, j, done)) <= Cardinality(EverNodes(gr, j, after))
  <2>1. EverNodes(gr, j, done) \subseteq EverNodes(gr, j, after)
    BY DEF EverNodes
  <2> QED BY <2>1, NodeSets DEF TasksCount
<1>3. /\ Cardinality(EverNodes(gr, j, done)) \in Nat /\ Cardinality(EverNodes(gr, j, after)) \in Nat
      /\ Cardinality(PinnedNodes(gr, j)) \in Nat /\ AggCapacity(gr, j) \in Nat
  BY <1>1, NodeSets DEF TasksCount, AggOK
<1>4. AggCapacity(gr, j) + Cardinality(PinnedNodes(gr, j)) <= Cardinality(EverNodes(gr, j, done)) =>
      AggCapacity(gr, j) + Cardinality(PinnedNodes(gr, j)) <= Cardinality(EverNodes(gr, j, after))
  BY <1>2, <1>3, SMT
<1> QED BY <1>1, <1>4 DEF AggOK

(* RemoveTaskHelper *)
LEMMA HelperKeepsAggs ==
  ASSUME TasksCount, TasksAddUp, NEW gr, GraphOK(gr), NEW x, NEW S \in SUBSET Tasks,
         NEW done, AggsOK(gr, x.preemption, done), NEW after, S \subseteq after, done \subseteq after
  PROVE  AggsOK(RemoveTaskHelper(gr, x, S), x.preemption, after)
<1> DEFINE here == {t \in S : HasNode(gr, t)}
<1>1. here \in SUBSET Tasks /\ here \subseteq after /\ \A t \in here : HasNode(gr, t)
  OBVIOUS
<1>2. RemoveTaskHelper(gr, x, S) = RemoveTaskNode(gr, x, here)
  BY DEF RemoveTaskHelper
<1> HIDE DEF here
<1> QED BY <1>1, <1>2, RemovingNodesKeepsAggs

(* AddOrUpdateJobNodes, for tasks that are not done *)
LEMMA JobNodesKeepAggs ==
  ASSUME TasksCount, TasksAddUp, NEW gr, NEW st, Fits(gr, st), NEW x, NEW jobs \in SUBSET Jobs,
         NEW pre, NEW done, TasksToAdd(gr, jobs, st) \cap done = {}, AggsOK(gr, pre, done)
  PROVE  AggsOK(AddOrUpdateJobNodes(gr, x, jobs, st), pre, done)
<1> DEFINE added == TasksToAdd(gr, jobs, st)
           g1 == AddTaskNodes(gr, jobs, added)
           waiting == WaitingTasks(gr, jobs, st)
           placed == PlacedTasks(jobs, st)
           classes == ClassesReached(x, waiting)
           h == UpdateFlowGraph(g1, x, waiting, placed, classes)
<1>1. Follows(g1, gr, st)
  BY TaskNodesAdded
<1>2. waiting \subseteq Tasks /\ placed \subseteq Tasks /\ \A t \in waiting : st[t] # "RUNNING"
  BY DEF WaitingTasks, PlacedTasks, JobTasks
<1>3. classes \cap Entities = {}
  BY ClassesAreNew
<1>4. AddOrUpdateJobNodes(gr, x, jobs, st) = h
  BY DEF AddOrUpdateJobNodes
<1>5. added \in SUBSET Tasks /\ \A t \in added : JobOf[t] \in jobs /\ ~HasNode(gr, t)
  BY DEF TasksToAdd, JobTasks
<1> HIDE DEF added, waiting, placed, classes
<1>6. AggsOK(g1, pre, done)
  BY <1>5, AddingNodesKeepsAggs DEF Fits, added
<1> HIDE DEF g1
<1>7. GraphOK(g1)
  BY <1>1 DEF Follows, Fits
<1>8. LeavesAggs(h, g1)
  BY <1>2, <1>3, <1>7, UpdatingFlowGraphKeepsAggs
<1> HIDE DEF h
<1> QED BY <1>4, <1>6, <1>8, AggsUntouched

(* Evictions, migrations and placements keep the aggregators right, when    *)
(* evicted and migrated tasks are scheduled, and placed ones are not.      *)
LEMMA RoundKeepsAggs ==
  ASSUME TasksCount, TasksAddUp, NEW gr, GraphOK(gr), NEW x, NEW evicted \in SUBSET Tasks,
         NEW migrated, NEW placed,
         DOMAIN migrated \subseteq Tasks, \A t \in DOMAIN migrated : migrated[t] \in Resources,
         DOMAIN placed \subseteq Tasks, \A t \in DOMAIN placed : placed[t] \in Resources,
         \A t \in evicted \cup DOMAIN migrated : gr.task[t] = "SCHEDULED",
         \A t \in DOMAIN placed : gr.task[t] = "UNSCHEDULED",
         evicted \cap DOMAIN migrated = {},
         NEW done, AggsOK(gr, x.preemption, done)
  PROVE  AggsOK(TaskScheduled(TaskMigrated(TaskEvicted(gr, x, evicted), x, migrated), x, placed),
                x.preemption, done)
<1> DEFINE g1 == TaskEvicted(gr, x, evicted)
           g2 == TaskEvicted(g1, x, DOMAIN migrated)
           g3 == TaskScheduled(g2, x, migrated)
           h == TaskScheduled(g3, x, placed)
<1>1. Becomes(g1, gr, Assigned(gr.task, evicted, "UNSCHEDULED"), Assigned(gr.running, evicted, None))
  BY TasksEvicted
<1>2. AggsOK(g1, x.preemption, done)
  BY EvictionKeepsAggs
<1> HIDE DEF g1
<1>3. /\ GraphOK(g1) /\ \A t \in DOMAIN migrated : g1.task[t] = "SCHEDULED"
      /\ \A t \in DOMAIN placed : g1.task[t] = "UNSCHEDULED"
  BY <1>1 DEF Becomes, Assigned, GraphOK
<1>4. Becomes(g2, g1, Assigned(g1.task, DOMAIN migrated, "UNSCHEDULED"),
              Assigned(g1.running, DOMAIN migrated, None))
  BY <1>3, TasksEvicted, SMT
<1>5. AggsOK(g2, x.preemption, done)
  BY <1>2, <1>3, EvictionKeepsAggs, SMT
<1> HIDE DEF g2
<1>6. /\ GraphOK(g2) /\ \A t \in DOMAIN migrated : g2.task[t] = "UNSCHEDULED"
      /\ \A t \in DOMAIN placed : g2.task[t] = "UNSCHEDULED"
  BY <1>3, <1>4 DEF Becomes, Assigned, GraphOK
<1>7. Becomes(g3, g2, Assigned(g2.task, DOMAIN migrated, "SCHEDULED"),
              [t \in Tasks |-> IF t \in DOMAIN migrated THEN migrated[t] ELSE g2.running[t]])
  BY <1>6, TasksScheduled
<1>8. AggsOK(g3, x.preemption, done)
  BY <1>5, <1>6, SchedulingKeepsAggs
<1> HIDE DEF g3
<1>9. /\ GraphOK(g3) /\ \A t \in DOMAIN placed : t \notin DOMAIN migrated => g3.task[t] = "UNSCHEDULED"
  BY <1>6, <1>7 DEF Becomes, Assigned, GraphOK
<1>10. \A t \in DOMAIN placed : t \notin DOMAIN migrated
  OBVIOUS
<1>11. AggsOK(h, x.preemption, done)
  BY <1>8, <1>9, <1>10, SchedulingKeepsAggs
<1> QED BY <1>11 DEF h, g3, g2, g1, TaskMigrated

-----------------------------------------------------------------------------
(* The CHECKs of UpdateUnscheduledAggNode. *)

(* The aggregator of a task with a node may grow. *)
LEMMA AggMayGrow ==
  ASSUME NEW gr, NEW pre, NEW done, AggsOK(gr, pre, done), NEW t \in Tasks, HasNode(gr, t)
  PROVE  ~AggFails(gr, JobOf[t], 1)
<1>1. JobOf[t] \in Jobs /\ t \in TaskNodes(gr, JobOf[t])
  BY TaskTreeAssumption DEF TaskNodes
<1>2. JobOf[t] \in gr.aggs
  BY <1>1 DEF AggsOK, AggOK
<1>3. ~(1 < 1)
  BY SMT
<1> QED BY <1>2, <1>3 DEF AggFails

(* It may shrink, if it counts the task. *)
LEMMA AggMayShrink ==
  ASSUME TasksCount, NEW gr, NEW pre, NEW done, AggsOK(gr, pre, done),
         NEW t \in Tasks, HasNode(gr, t), pre \/ gr.task[t] = "UNSCHEDULED"
  PROVE  ~AggFails(gr, JobOf[t], -1)
<1> DEFINE j == JobOf[t]
<1>1. j \in Jobs /\ t \in TaskNodes(gr, j) /\ (gr.task[t] = "UNSCHEDULED" => t \in OpenNodes(gr, j))
  BY TaskTreeAssumption DEF TaskNodes, OpenNodes
<1>2. j \in gr.aggs /\ AggOK(gr, j, pre, done)
  BY <1>1 DEF AggsOK, AggOK
<1>3. TaskNodes(gr, j) \in SUBSET Tasks /\ OpenNodes(gr, j) \in SUBSET Tasks
  BY DEF TaskNodes, OpenNodes
<1>4. /\ Cardinality(TaskNodes(gr, j)) \in Nat \ {0} /\ Cardinality(OpenNodes(gr, j)) \in Nat
      /\ gr.task[t] = "UNSCHEDULED" => Cardinality(OpenNodes(gr, j)) # 0
  BY <1>1, <1>3 DEF TasksCount
<1>5. AggCapacity(gr, j) # 0
  <2>1. CASE pre
    BY <1>2, <1>4, <2>1 DEF AggOK
  <2>2. CASE ~pre
    <3>1. /\ Cardinality(OpenNodes(gr, j)) <= AggCapacity(gr, j) /\ AggCapacity(gr, j) \in Nat
          /\ Cardinality(OpenNodes(gr, j)) # 0
      BY <1>2, <1>4, <2>2 DEF AggOK
    <3> QED BY <1>4, <3>1, SMT
  <2> QED BY <2>1, <2>2
<1>6. AggArc(j) \in DOMAIN gr.arcs
  BY <1>5 DEF AggCapacity
<1> QED BY <1>2, <1>6 DEF AggFails

(* TaskEvicted fails no CHECK for a task with a running arc. *)
LEMMA MayBeEvicted ==
  ASSUME NEW gr, NEW x, NEW done, AggsOK(gr, x.preemption, done), NEW t \in Tasks,
         HasNode(gr, t), gr.running[t] # None
  PROVE  ~TaskEvictedFails(gr, x, t)
BY AggMayGrow DEF TaskEvictedFails

(* Without preemption, TaskScheduled fails none for a task that waits. *)
LEMMA MayBeScheduled ==
  ASSUME TasksCount, NEW gr, NEW x, ~x.preemption, NEW done, AggsOK(gr, x.preemption, done),
         NEW t \in Tasks, gr.task[t] = "UNSCHEDULED", NEW p \in gr.res
  PROVE  ~TaskScheduledFails(gr, x, t, p)
<1>1. HasNode(gr, t)
  BY DEF HasNode
<1>2. ~AggFails(gr, JobOf[t], -1)
  BY <1>1, AggMayShrink
<1> QED BY <1>1, <1>2 DEF TaskScheduledFails

(* What the deltas of a round may fail *)
DeltasStand(gr, x, evicted, migrated, placed) ==
  LET g1 == TaskEvicted(gr, x, evicted)
      g2 == TaskMigrated(g1, x, migrated)
  IN  /\ \A t \in DOMAIN placed : ~TaskScheduledFails(g2, x, t, placed[t])
      /\ \A t \in DOMAIN migrated :
           ~TaskEvictedFails(g1, x, t) /\ ~TaskScheduledFails(TaskEvicted(g1, x, {t}), x, t, migrated[t])

(* Without preemption, the deltas of a round fail no CHECK. *)
LEMMA RoundStands ==
  ASSUME TasksCount, TasksAddUp, NEW gr, GraphOK(gr), NEW x, ~x.preemption,
         NEW evicted \in SUBSET Tasks, NEW migrated, NEW placed,
         DOMAIN migrated \subseteq Tasks, \A t \in DOMAIN migrated : migrated[t] \in Resources \cap gr.res,
         DOMAIN placed \subseteq Tasks, \A t \in DOMAIN placed : placed[t] \in Resources \cap gr.res,
         \A t \in evicted \cup DOMAIN migrated : gr.task[t] = "SCHEDULED",
         \A t \in DOMAIN migrated : gr.running[t] # None,
         \A t \in DOMAIN placed : gr.task[t] = "UNSCHEDULED",
         evicted \cap DOMAIN migrated = {},
         NEW done, AggsOK(gr, x.preemption, done)
  PROVE  DeltasStand(gr, x, evicted, migrated, placed)
<1> DEFINE g1 == TaskEvicted(gr, x, evicted)
           g2 == TaskMigrated(g1, x, migrated)
<1>1. Becomes(g1, gr, Assigned(gr.task, evicted, "UNSCHEDULED"), Assigned(gr.running, evicted, None))
  BY TasksEvicted
<1>2. AggsOK(g1, x.preemption, done)
  BY EvictionKeepsAggs
<1> SUFFICES /\ \A t \in DOMAIN placed : ~TaskScheduledFails(g2, x, t, placed[t])
             /\ \A t \in DOMAIN migrated :
                  ~TaskEvictedFails(g1, x, t) /\ ~TaskScheduledFails(TaskEvicted(g1, x, {t}), x, t, migrated[t])
  BY DEF DeltasStand
<1> HIDE DEF g1
<1>3. /\ GraphOK(g1) /\ g1.res = gr.res
      /\ \A t \in DOMAIN migrated : g1.task[t] = "SCHEDULED" /\ g1.running[t] # None
      /\ \A t \in DOMAIN placed : g1.task[t] = "UNSCHEDULED"
  BY <1>1 DEF Becomes, Assigned, GraphOK
<1>4. ASSUME NEW t \in DOMAIN migrated
      PROVE  ~TaskEvictedFails(g1, x, t) /\ ~TaskScheduledFails(TaskEvicted(g1, x, {t}), x, t, migrated[t])
  <2> DEFINE h == TaskEvicted(g1, x, {t})
  <2>1. ~TaskEvictedFails(g1, x, t)
    BY <1>2, <1>3, MayBeEvicted DEF HasNode
  <2>2. {t} \in SUBSET Tasks /\ \A u \in {t} : g1.task[u] = "SCHEDULED"
    BY <1>3
  <2>3. Becomes(h, g1, Assigned(g1.task, {t}, "UNSCHEDULED"), Assigned(g1.running, {t}, None))
    BY <1>3, <2>2, TasksEvicted
  <2>4. AggsOK(h, x.preemption, done)
    BY <1>2, <1>3, <2>2, EvictionKeepsAggs
  <2> HIDE DEF h
  <2>5. h.task[t] = "UNSCHEDULED" /\ h.res = gr.res
    BY <1>3, <2>3 DEF Becomes, Assigned, GraphOK
  <2>6. ~TaskScheduledFails(h, x, t, migrated[t])
    BY <2>4, <2>5, MayBeScheduled
  <2> QED BY <2>1, <2>6 DEF h
<1>5. ASSUME NEW t \in DOMAIN placed
      PROVE  ~TaskScheduledFails(g2, x, t, placed[t])
  <2> DEFINE g3 == TaskEvicted(g1, x, DOMAIN migrated)
             h == TaskScheduled(g3, x, migrated)
  <2>1. Becomes(g3, g1, Assigned(g1.task, DOMAIN migrated, "UNSCHEDULED"),
                Assigned(g1.running, DOMAIN migrated, None))
    BY <1>3, TasksEvicted, SMT
  <2>2. AggsOK(g3, x.preemption, done)
    BY <1>2, <1>3, EvictionKeepsAggs, SMT
  <2> HIDE DEF g3
  <2>3. /\ GraphOK(g3) /\ g3.res = gr.res /\ \A u \in DOMAIN migrated : g3.task[u] = "UNSCHEDULED"
        /\ g3.task[t] = "UNSCHEDULED"
    BY <1>3, <2>1 DEF Becomes, Assigned, GraphOK
  <2>4. \A u \in DOMAIN migrated : migrated[u] \in Resources
    OBVIOUS
  <2>5. Becomes(h, g3, Assigned(g3.task, DOMAIN migrated, "SCHEDULED"),
                [u \in Tasks |-> IF u \in DOMAIN migrated THEN migrated[u] ELSE g3.running[u]])
    BY <2>3, <2>4, TasksScheduled
  <2>6. AggsOK(h, x.preemption, done)
    BY <2>2, <2>3, <2>4, SchedulingKeepsAggs
  <2> HIDE DEF h
  <2>7. t \notin DOMAIN migrated
    OBVIOUS
  <2>8. h.task[t] = "UNSCHEDULED" /\ h.res = gr.res
    BY <2>3, <2>5, <2>7 DEF Becomes, Assigned, GraphOK
  <2>9. ~TaskScheduledFails(h, x, t, placed[t])
    BY <2>6, <2>8, MayBeScheduled
  <2> QED BY <2>9 DEF h, g3, TaskMigrated
<1> QED BY <1>4, <1>5

=============================================================================
