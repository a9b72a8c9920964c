----------------------- MODULE SchedulerServiceProofs -----------------------
(***************************************************************************)
(* Proofs about SchedulerService: the solver's answer, scheduling rounds,  *)
(* the CHECKs that a round may fail, and the theorems.                     *)
(***************************************************************************)
EXTENDS SchedulerRequestProofs, FiniteSetTheorems

(* A step that names no prover is Zenon's.                                  *)
USE ZenonT(60)

-----------------------------------------------------------------------------
(* What a round hands to the solver. *)

(* If the aggregators' capacities are right in gr, they are in h, whichever  *)
(* tasks are done, but for those that st has ready or running.             *)
KeepsAggs(h, gr, st) ==
  \A done : /\ \A t \in Tasks : st[t] \in {"RUNNABLE", "RUNNING"} => t \notin done
            /\ AggsOK(gr, config.preemption, done)
            => AggsOK(h, config.preemption, done)

(* n is what a part of a round leaves of graph gr.  If a CHECK failed, it is *)
(* one of the cost model's.                                                *)
RoundLeaves(n, gr, st) ==
  /\ DOMAIN n = {"g", "cm", "check"} /\ n.check \notin OwnChecks
  /\ Follows(n.g, gr, st) /\ KeepsAggs(n.g, gr, st)

(* Two parts, one after the other *)
LEMMA RoundLeavesTrans ==
  ASSUME NEW gr, NEW h, NEW st, Follows(h, gr, st), KeepsAggs(h, gr, st), NEW n, RoundLeaves(n, h, st)
  PROVE  RoundLeaves(n, gr, st)
<1>1. Follows(n.g, gr, st)
  BY FollowsTrans DEF RoundLeaves
<1> QED BY <1>1 DEF RoundLeaves, KeepsAggs

(* A part that leaves the aggregators alone *)
LEMMA RoundLeavesGraph ==
  ASSUME NEW gr, NEW st, NEW n, RoundLeaves(n, gr, st), NEW h, Follows(h, n.g, st), LeavesAggs(h, n.g)
  PROVE  RoundLeaves([n EXCEPT !.g = h], gr, st)
<1> DEFINE n1 == [n EXCEPT !.g = h]
<1>1. DOMAIN n1 = {"g", "cm", "check"} /\ n1.g = h /\ n1.check = n.check
  BY DEF RoundLeaves
<1> HIDE DEF n1
<1>2. Follows(h, gr, st)
  BY FollowsTrans DEF RoundLeaves
<1>3. KeepsAggs(h, gr, st)
  BY AggsUntouched DEF RoundLeaves, KeepsAggs
<1> QED BY <1>1, <1>2, <1>3 DEF RoundLeaves, n1

(* JobNodes, whether it fails a CHECK or not *)
LEMMA JobNodesFollow ==
  ASSUME TasksCount, TasksAddUp, NEW gr, NEW st, Fits(gr, st), NEW c, NEW w, NEW jobs \in SUBSET Jobs
  PROVE  RoundLeaves(JobNodes(gr, c, w, jobs, st), gr, st)
<1>1. ASSUME NEW x0, NEW x
      PROVE  RoundLeaves(JobNodesSeenBy(x0, x, gr, jobs, st), gr, st)
  <2> DEFINE h == AddOrUpdateJobNodes(gr, x, jobs, st)
             Made(gg, cc, check) == [g |-> gg, cm |-> cc, check |-> check]
  <2>1. Follows(h, gr, st) /\ Follows(gr, gr, st)
    BY JobNodesUpdated DEF Follows
  <2>2. KeepsAggs(h, gr, st) /\ KeepsAggs(gr, gr, st)
    <3>1. ASSUME NEW done, \A t \in Tasks : st[t] \in {"RUNNABLE", "RUNNING"} => t \notin done,
                 AggsOK(gr, config.preemption, done)
          PROVE  AggsOK(h, config.preemption, done)
      <4>1. TasksToAdd(gr, jobs, st) \cap done = {}
        BY <3>1 DEF TasksToAdd, JobTasks
      <4> QED BY <3>1, <4>1, JobNodesKeepAggs
    <3> HIDE DEF h
    <3> QED BY <3>1 DEF KeepsAggs
  <2> HIDE DEF h
  <2>3. \A cc, check : check \notin OwnChecks =>
          RoundLeaves(Made(gr, cc, check), gr, st) /\ RoundLeaves(Made(h, cc, check), gr, st)
    BY <2>1, <2>2 DEF RoundLeaves
  <2>4. /\ "AddTask_inserted" \notin OwnChecks /\ "CostModel_arcs" \notin OwnChecks
        /\ "TaskContinuation_start_time" \notin OwnChecks /\ "UpdateFlowGraph_node" \notin OwnChecks
        /\ "none" \notin OwnChecks
    BY DEF OwnChecks
  <2> QED BY <2>3, <2>4 DEF JobNodesSeenBy, h
<1> QED BY <1>1 DEF JobNodes

(* The purge *)
LEMMA PurgedFollows ==
  ASSUME NEW gr, NEW st, NEW n, RoundLeaves(n, gr, st)
  PROVE  RoundLeaves(Purged(n), gr, st)
<1> DEFINE h == PurgeUnconnectedEquivClassNodes(n.g)
           n1 == [n EXCEPT !.g = h]
<1>1. Fits(n.g, st) /\ GraphOK(n.g)
  BY DEF RoundLeaves, Follows, Fits
<1>2. Follows(h, n.g, st) /\ LeavesAggs(h, n.g)
  BY <1>1, ClassesPurged, PurgingClassesKeepsAggs
<1>3. Purged(n) = IF config.purge THEN n1 ELSE n
  BY DEF Purged
<1> HIDE DEF h
<1>4. RoundLeaves(n1, gr, st)
  BY <1>2, RoundLeavesGraph
<1> HIDE DEF n1
<1> QED BY <1>3, <1>4

(* The costs of waiting *)
LEMMA UnscheduledCostsFollow ==
  ASSUME NEW gr, NEW st, NEW n, RoundLeaves(n, gr, st), NEW w
  PROVE  RoundLeaves(UnscheduledCostsUpdated(n, w, st), gr, st)
<1> DEFINE x == View(n.g, n.cm, w)
           h == UpdateAllCostsToUnscheduledAggs(n.g, x, st)
           n1 == [n EXCEPT !.g = h]
<1>1. Fits(n.g, st) /\ GraphOK(n.g)
  BY DEF RoundLeaves, Follows, Fits
<1>2. UnscheduledCostsUpdated(n, w, st) = IF n.check # "none" THEN n ELSE n1
  BY DEF UnscheduledCostsUpdated
<1> HIDE DEF x
<1>3. Follows(h, n.g, st) /\ LeavesAggs(h, n.g)
  BY <1>1, AllCostsUpdated, UpdatingCostsKeepsAggs
<1> HIDE DEF h
<1>4. RoundLeaves(n1, gr, st)
  BY <1>3, RoundLeavesGraph
<1> HIDE DEF n1
<1> QED BY <1>2, <1>4

(* What Prepared hands to the solver agrees with the states of the round. *)
LEMMA PreparedFollows ==
  ASSUME TasksCount, TasksAddUp, NEW st, Fits(g, st), NEW w, NEW due, NEW jobs \in SUBSET Jobs
  PROVE  RoundLeaves(Prepared(w, due, jobs, st), g, st)
<1> DEFINE g1 == ComputeTopologyStatistics(g, Now)
           c1 == GatheredModel(View(g1, cm, w), cm)
           n1 == JobNodes(g1, c1, w, jobs, st)
           n2 == JobNodes(n1.g, n1.cm, w, ActiveJobs, st)
           n3 == IF due /\ n1.check = "none" THEN n2 ELSE n1
<1>1. Follows(g1, g, st) /\ KeepsAggs(g1, g, st)
  <2>1. LeavesAggs(g1, g)
    BY StatisticsKeepAggs DEF Fits
  <2>2. KeepsAggs(g1, g, st)
    <3> HIDE DEF g1
    <3> QED BY <2>1, AggsUntouched DEF KeepsAggs
  <2> QED BY <2>2, StatisticsComputed
<1>2. Prepared(w, due, jobs, st) =
        IF GatherStatsFails(View(g1, cm, w)) THEN [g |-> g, cm |-> cm, check |-> "GatherStats_task"]
        ELSE UnscheduledCostsUpdated(Purged(n3), w, st)
  BY DEF Prepared, BeforeSolver
<1> HIDE DEF g1, c1
<1>3. RoundLeaves(n1, g, st)
  <2>1. RoundLeaves(n1, g1, st)
    BY <1>1, JobNodesFollow DEF Follows
  <2> HIDE DEF n1
  <2> QED BY <1>1, <2>1, RoundLeavesTrans
<1> HIDE DEF n1
<1>4. RoundLeaves(n2, g, st)
  <2>1. Follows(n1.g, g, st) /\ KeepsAggs(n1.g, g, st) /\ Fits(n1.g, st)
    BY <1>3 DEF RoundLeaves, Follows
  <2>2. ActiveJobs \in SUBSET Jobs
    BY DEF ActiveJobs
  <2>3. RoundLeaves(n2, n1.g, st)
    BY <2>1, <2>2, JobNodesFollow
  <2> HIDE DEF n2
  <2> QED BY <2>1, <2>3, RoundLeavesTrans
<1> HIDE DEF n2
<1>5. RoundLeaves(n3, g, st)
  BY <1>3, <1>4
<1> HIDE DEF n3
<1>6. RoundLeaves(UnscheduledCostsUpdated(Purged(n3), w, st), g, st)
  BY <1>5, PurgedFollows, UnscheduledCostsFollow
<1>7. RoundLeaves([g |-> g, cm |-> cm, check |-> "GatherStats_task"], g, st)
  BY DEF RoundLeaves, Follows, KeepsAggs, OwnChecks
<1> QED BY <1>2, <1>6, <1>7

-----------------------------------------------------------------------------
(* The solver's answer. *)

(* Whatever part of a flow GetMappings loses, it maps tasks of the graph to  *)
(* PUs of the graph, and to none of them more than the PU may run.          *)
LEMMA SolverSound ==
  ASSUME TasksCount, NEW gr, GraphOK(gr), NEW mapping \in RunSolver(gr)
  PROVE  /\ \A t \in DOMAIN mapping : t \in Tasks /\ HasNode(gr, t) /\ mapping[t] \in Leaves(gr)
         /\ \A p \in Resources : Cardinality({t \in DOMAIN mapping : mapping[t] = p}) <= MaxTasksPerPU
<1> DEFINE net == gr.arcs
           tasks == {t \in Tasks : HasNode(gr, t)}
<1>1. mapping \in SolverMappings(net, tasks)
  BY DEF RunSolver
<1>2. CASE net = <<>>
  <2>1. mapping = <<>>
    BY <1>1, <1>2 DEF SolverMappings
  <2>2. DOMAIN mapping = {}
    BY <2>1, SMT
  <2>3. \A p \in Resources : {t \in DOMAIN mapping : mapping[t] = p} = {}
    BY <2>2
  <2> QED BY <2>2, <2>3, TopologyAssumption, SMT DEF TasksCount
<1>3. CASE net # <<>>
  <2>1. PICK flow \in MinCostFlows(net, tasks) : mapping \in GetMappings(flow)
    BY <1>1, <1>3 DEF SolverMappings
  <2>2. /\ DOMAIN flow = tasks /\ \A t \in tasks : flow[t] \subseteq DOMAIN net
        /\ \A a \in DOMAIN net : Load(flow, a) <= net[a].cap
    BY <2>1 DEF MinCostFlows, FeasibleFlows
  <2>3. \A t \in DOMAIN mapping :
          t \in tasks /\ mapping[t] \in Resources /\ <<mapping[t], Sink>> \in flow[t]
    <3>1. PICK late : mapping = [t \in {u \in {t \in DOMAIN flow : Reaches(flow, t)} :
                                         flow[u] \cap late = {}} |-> ReachedPU(flow, t)]
      BY <2>1 DEF GetMappings
    <3>2. \A t \in DOMAIN mapping :
            t \in DOMAIN flow /\ Reaches(flow, t) /\ mapping[t] = ReachedPU(flow, t)
      BY <3>1
    <3> QED BY <2>2, <3>2 DEF Reaches, ReachedPU
  <2>4. \A t \in DOMAIN mapping : <<mapping[t], Sink>> \in DOMAIN net /\ mapping[t] \in Leaves(gr)
    BY <2>2, <2>3 DEF GraphOK, Leaves
  <2>5. ASSUME NEW p \in Resources
        PROVE  Cardinality({t \in DOMAIN mapping : mapping[t] = p}) <= MaxTasksPerPU
    <3> DEFINE here == {t \in DOMAIN mapping : mapping[t] = p}
               load == {t \in DOMAIN flow : <<p, Sink>> \in flow[t]}
    <3>1. here \subseteq load /\ load \subseteq Tasks
      BY <2>2, <2>3
    <3>2. CASE here = {}
      BY <3>2, TopologyAssumption, SMT DEF TasksCount
    <3>3. CASE here # {}
      <4>1. <<p, Sink>> \in DOMAIN net
        BY <2>4, <3>3
      <4>2. Cardinality(load) <= net[<<p, Sink>>].cap
        BY <2>2, <4>1 DEF Load
      <4>3. net[<<p, Sink>>].cap \in Int /\ net[<<p, Sink>>].cap <= MaxTasksPerPU
        BY <4>1 DEF GraphOK
      <4>4. here \in SUBSET Tasks /\ load \in SUBSET Tasks /\ here \subseteq load
        BY <3>1
      <4> HIDE DEF here, load
      <4>5. /\ Cardinality(here) <= Cardinality(load) /\ Cardinality(here) \in Nat
            /\ Cardinality(load) \in Nat
        BY <4>4 DEF TasksCount
      <4> QED BY <4>2, <4>3, <4>5, TopologyAssumption, SMT DEF here
    <3> QED BY <3>2, <3>3
  <2> QED BY <2>3, <2>4, <2>5
<1> QED BY <1>2, <1>3

-----------------------------------------------------------------------------
(* Scheduling rounds. *)

(* The task states that a round works with: tasks that had not started may  *)
(* be ready.                                                               *)
Advanced(st) ==
  /\ st \in [Tasks -> TaskStates]
  /\ \A t \in Tasks : \/ st[t] = taskState[t]
                      \/ st[t] = "RUNNABLE" /\ taskState[t] \in {"CREATED", "BLOCKING"}

(* ComputeRunnableTasksForJob: without an object store, no other task *)
LEMMA StatesAdvance ==
  ASSUME TablesOK, NEW jobs
  PROVE  Advanced(StatesForRound(BecomingRunnable(jobs)))
<1>1. ASSUME NEW j, NEW t \in NewlyRunnable(taskState, Reduction(taskState, producing, j))
      PROVE  t \in Tasks /\ taskState[t] \in {"CREATED", "BLOCKING"}
  <2> DEFINE red == Reduction(taskState, producing, j)
  <2>1. UNION {producing[o] : o \in Objects} = {}
    BY DEF TablesOK
  <2>2. red.visited \subseteq Tasks /\ red.blocking \subseteq UNION {producing[o] : o \in Objects}
    BY DEF Reduction
  <2> HIDE DEF red
  <2>3. t \in red.visited /\ NotStarted(taskState, red.blocking, t)
    BY <1>1 DEF NewlyRunnable, red
  <2> QED BY <2>1, <2>2, <2>3 DEF NotStarted
<1>2. \A t \in BecomingRunnable(jobs) : t \in Tasks /\ taskState[t] \in {"CREATED", "BLOCKING"}
  BY <1>1 DEF BecomingRunnable
<1> HIDE DEF BecomingRunnable
<1> QED BY <1>2 DEF Advanced, StatesForRound, TablesOK, TaskStates

(* The graph agrees with these states too. *)
LEMMA GraphFits ==
  ASSUME ServiceInv, NEW st, Advanced(st)
  PROVE  Fits(g, st)
<1>1. GraphOK(g)
  BY DEF ServiceInv
<1>2. ASSUME NEW t \in Tasks
      PROVE  /\ g.task[t] = "SCHEDULED" <=> st[t] = "RUNNING"
             /\ g.running[t] # None => st[t] = "RUNNING"
             /\ HasNode(g, t) => st[t] \in {"RUNNABLE", "RUNNING"}
  <2>1. TaskOK(t)
    BY DEF ServiceInv
  <2>2. \/ st[t] = taskState[t]
        \/ st[t] = "RUNNABLE" /\ taskState[t] \in {"CREATED", "BLOCKING"}
    BY DEF Advanced
  <2> QED BY <2>1, <2>2 DEF TaskOK, RunsOn, HasNode
<1> QED BY <1>1, <1>2 DEF Fits

(* A round without jobs only makes tasks ready. *)
LEMMA IdleRoundKeeps ==
  ASSUME ServiceInv, Advanced(taskState'),
         UNCHANGED <<jobState, producing, taskBinding, resBindings, resState, running>>,
         UNCHANGED <<g, removed, incomplete, toRemove, jobsToSchedule>>
  PROVE  ServiceInv' /\ PlacementStep
<1>1. TablesOK'
  BY DEF ServiceInv, TablesOK, BindingsInverse, Advanced
<1>2. (GraphOK(g) /\ Leaves(g) = RegisteredPUs)'
  BY DEF ServiceInv, RegisteredPUs, Registered
<1>3. ASSUME NEW t \in Tasks
      PROVE  /\ TaskOK(t)' /\ RunsOn(t)' = RunsOn(t)
             /\ taskState'[t] = "ABSENT" <=> taskState[t] = "ABSENT"
             /\ taskState'[t] = "COMPLETED" <=> taskState[t] = "COMPLETED"
  <2>1. TaskOK(t)
    BY DEF ServiceInv
  <2>2. \/ taskState'[t] = taskState[t]
        \/ taskState'[t] = "RUNNABLE" /\ taskState[t] \in {"CREATED", "BLOCKING"}
    BY DEF Advanced
  <2> QED BY <2>1, <2>2 DEF TaskOK, RunsOn, HasNode, Registered
<1>4. CountersMatch'
  <2>1. ASSUME NEW i \in Jobs PROVE JobCounted(i)'
    <3>1. JobCounted(i)
      BY CountersByJob DEF ServiceInv
    <3> QED BY <1>3, <3>1, JobStillCounted
  <2> QED BY <2>1, CountersByJobNext
<1>5. UNCHANGED <<Where, RegisteredPUs, Over>>
  BY <1>3 DEF Where, RegisteredPUs, Over, Registered
<1> QED BY <1>1, <1>2, <1>3, <1>4, <1>5 DEF ServiceInv, PlacementStep

(* Rebind for tasks that leave registered PUs and others that get one *)
LEMMA Rebound ==
  ASSUME TablesOK, NEW out \in SUBSET Tasks, \A t \in out : Registered(taskBinding[t]),
         NEW into, DOMAIN into \subseteq Tasks,
         \A t \in DOMAIN into : Registered(into[t]) /\ (taskBinding[t] = None \/ t \in out),
         NEW lists, Rebind(out, into, lists)
  PROVE  /\ taskBinding' = [t \in Tasks |-> IF t \in DOMAIN into THEN into[t]
                                            ELSE IF t \in out THEN None ELSE taskBinding[t]]
         /\ BindingsInverse' /\ resBindings' \subseteq Resources \X Tasks
         /\ running' = [r \in Resources |-> lists[r] \cup {t \in DOMAIN into : into[t] = r}]
         /\ resState' \in [Resources -> ResourceStates]
         /\ \A r : Registered(r)' <=> Registered(r)
<1> DEFINE To(r) == {t \in DOMAIN into : into[t] = r}
           From(r) == {t \in out : taskBinding[t] = r}
<1>1. /\ taskBinding' = [t \in Tasks |-> IF t \in DOMAIN into THEN into[t]
                                         ELSE IF t \in out THEN None ELSE taskBinding[t]]
      /\ resBindings' = (resBindings \ {<<taskBinding[t], t>> : t \in out})
                        \cup {<<into[t], t>> : t \in DOMAIN into}
      /\ running' = [r \in Resources |-> lists[r] \cup To(r)]
      /\ resState' = [r \in Resources |->
                        IF To(r) # {} THEN "BUSY"
                        ELSE IF From(r) # {} /\ lists[r] = {} THEN "IDLE" ELSE resState[r]]
  BY DEF Rebind
<1>2. \A r \in Resources : To(r) # {} \/ From(r) # {} => Registered(r)
  OBVIOUS
<1>3. \A t \in DOMAIN into : into[t] \in Resources /\ t \in Tasks
  BY DEF Registered
<1>4. resBindings' \subseteq Resources \X Tasks
  BY <1>1, <1>3, SMT DEF TablesOK
<1>5. BindingsInverse'
  <2> SUFFICES ASSUME NEW t \in Tasks, NEW r \in Resources
               PROVE  taskBinding'[t] = r <=> <<r, t>> \in resBindings'
    BY DEF BindingsInverse
  <2>1. taskBinding[t] = r <=> <<r, t>> \in resBindings
    BY DEF TablesOK, BindingsInverse
  <2>2. <<r, t>> \in resBindings' <=> \/ <<r, t>> \in resBindings /\ ~(t \in out /\ taskBinding[t] = r)
                                      \/ t \in DOMAIN into /\ into[t] = r
    BY <1>1
  <2>3. taskBinding'[t] = IF t \in DOMAIN into THEN into[t]
                          ELSE IF t \in out THEN None ELSE taskBinding[t]
    BY <1>1
  <2> QED BY <2>1, <2>2, <2>3, ResourcesAssumption
<1> HIDE DEF To, From
<1>6. resState' \in [Resources -> ResourceStates]
  BY <1>1 DEF TablesOK, ResourceStates
<1>7. \A r : Registered(r)' <=> Registered(r)
  BY <1>1, <1>2 DEF Registered
<1> QED BY <1>1, <1>4, <1>5, <1>6, <1>7 DEF To

(* What a round knows of a task before it: mapped tasks run already or are  *)
(* ready, and the tasks that run have a node.                              *)
LEMMA RoundTask ==
  ASSUME ServiceInv, NEW st, Advanced(st), NEW gr, Follows(gr, g, st), NEW t \in Tasks
  PROVE  /\ taskBinding[t] # None => Registered(taskBinding[t])
         /\ taskState[t] = "RUNNING" => t \in running[taskBinding[t]]
         /\ taskState[t] = "RUNNING" <=> st[t] = "RUNNING"
         /\ st[t] = "RUNNING" => /\ HasNode(gr, t) /\ taskBinding[t] # None
                                 /\ gr.running[t] = taskBinding[t]
         /\ st[t] # "RUNNING" => gr.running[t] = None /\ gr.task[t] # "SCHEDULED"
         /\ HasNode(gr, t) => /\ st[t] \in {"RUNNABLE", "RUNNING"} /\ t \notin removed
                              /\ taskBinding[t] # None <=> st[t] = "RUNNING"
         /\ gr.task[t] = "SCHEDULED" <=> st[t] = "RUNNING"
         /\ taskState[t] = "ABSENT" <=> st[t] = "ABSENT"
         /\ taskState[t] = "COMPLETED" <=> st[t] = "COMPLETED"
         /\ taskBinding[t] # None /\ st[t] # "RUNNING" => t \in removed
         /\ t \in removed => st[t] = taskState[t]
<1>1. TaskOK(t)
  BY DEF ServiceInv
<1>2. \/ st[t] = taskState[t]
      \/ st[t] = "RUNNABLE" /\ taskState[t] \in {"CREATED", "BLOCKING"}
  BY DEF Advanced
<1>3. /\ gr.task[t] = "SCHEDULED" <=> st[t] = "RUNNING"
      /\ HasNode(gr, t) => st[t] \in {"RUNNABLE", "RUNNING"}
      /\ gr.running[t] = g.running[t]
  BY DEF Follows, Fits
<1> QED BY <1>1, <1>2, <1>3 DEF TaskOK, RunsOn, HasNode

(* What the deltas of a round with mapping m do to each task, whose state   *)
(* was st[t] and whose node was that of graph gr                           *)
Delta(m, st, gr, t) ==
  IF t \in DOMAIN m
  THEN /\ taskBinding'[t] = m[t] /\ taskState'[t] = "RUNNING"
       /\ g'.task[t] = "SCHEDULED" /\ g'.running[t] = m[t]
  ELSE IF st[t] = "RUNNING"
  THEN /\ taskBinding'[t] = None /\ taskState'[t] = "RUNNABLE"
       /\ g'.task[t] = "UNSCHEDULED" /\ g'.running[t] = None
  ELSE /\ taskBinding'[t] = taskBinding[t] /\ taskState'[t] = st[t]
       /\ g'.task[t] = gr.task[t] /\ g'.running[t] = None

(* The mapping gives tasks with a node to registered PUs. *)
Sound(m, gr) == \A t \in DOMAIN m : t \in Tasks /\ HasNode(gr, t) /\ Registered(m[t])

(* SchedulingDeltasForPreemptedTasks: the tasks of the deltas *)
Evicted(gr, mapping) == {d[2] : d \in PreemptedTasks(gr, mapping, running, RegisteredPUs)}

(* They have a node and are on a list, but are not mapped. *)
LEMMA EvictedTasks ==
  ASSUME NEW gr, NEW mapping, NEW t
  PROVE  t \in Evicted(gr, mapping) <=> /\ t \in Tasks /\ t \notin DOMAIN mapping /\ HasNode(gr, t)
                                        /\ \E r \in RegisteredPUs : t \in running[r]
<1> DEFINE preempted == PreemptedTasks(gr, mapping, running, RegisteredPUs)
<1>1. \A d : d \in preempted <=> /\ d \in RegisteredPUs \X Tasks
                                 /\ d[2] \in running[d[1]] /\ HasNode(gr, d[2]) /\ d[2] \notin DOMAIN mapping
  BY DEF PreemptedTasks
<1>2. Evicted(gr, mapping) = {d[2] : d \in preempted}
  BY DEF Evicted
<1> HIDE DEF preempted
<1>3. \A r \in RegisteredPUs, u \in Tasks :
        <<r, u>> \in preempted <=> u \in running[r] /\ HasNode(gr, u) /\ u \notin DOMAIN mapping
  BY <1>1, SMT
<1>4. ASSUME NEW u \in Evicted(gr, mapping)
      PROVE  u \in Tasks /\ \E r \in RegisteredPUs : <<r, u>> \in preempted
  <2>1. PICK d \in preempted : u = d[2]
    BY <1>2
  <2>2. d \in RegisteredPUs \X Tasks
    BY <1>1
  <2>3. d[1] \in RegisteredPUs /\ d[2] \in Tasks /\ d = <<d[1], d[2]>>
    BY <2>2, SMT
  <2> QED BY <2>1, <2>3
<1>5. \A r \in RegisteredPUs, u \in Tasks : <<r, u>> \in preempted => u \in Evicted(gr, mapping)
  BY <1>2, SMT
<1> QED BY <1>3, <1>4, <1>5

(* A round that changes nothing *)
NothingDone ==
  UNCHANGED <<taskState, jobState, producing, taskBinding, resBindings, resState, running, scheduledTo, g>>

(* All tasks have their deltas. *)
DeltasDone(m, st, gr) ==
  /\ \A t \in Tasks : Delta(m, st, gr, t)
  /\ GraphOK(g') /\ g'.res = g.res
  /\ taskBinding' \in [Tasks -> Resources \cup {None}] /\ taskState' \in [Tasks -> TaskStates]
  /\ BindingsInverse' /\ resBindings' \subseteq Resources \X Tasks
  /\ running' = [r \in Resources |-> {t \in DOMAIN m : m[t] = r}]
  /\ resState' \in [Resources -> ResourceStates]
  /\ \A r : Registered(r)' <=> Registered(r)
  /\ jobState' = [j \in Jobs |-> IF \E t \in DOMAIN m : taskBinding[t] = None /\ JobOf[t] = j
                                 THEN "RUNNING" ELSE jobState[j]]
  /\ UNCHANGED producing
  /\ KeepsAggs(g', gr, st)
  /\ \A t \in Tasks \ DOMAIN m : scheduledTo'[t] = scheduledTo[t]

(* ApplySchedulingDeltas: a CHECK fails, or every task gets its delta. *)
LEMMA DeltasApplied ==
  ASSUME TasksCount, TasksAddUp, ServiceInv,
         NEW st, Advanced(st), NEW gr, Follows(gr, g, st), NEW m, Sound(m, gr),
         NEW mapping, DOMAIN mapping = DOMAIN m, NEW c, NEW w, NEW ready,
         ApplySchedulingDeltas(gr, c, w, mapping, m, st, ready)
  PROVE  NothingDone \/ DeltasDone(m, st, gr)
<1> DEFINE evicted  == Evicted(gr, mapping)
           placed   == PlacedBy(m, taskBinding)
           migrated == MigratedBy(m, taskBinding)
           into     == [t \in DOMAIN placed \cup DOMAIN migrated |-> m[t]]
           where    == [t \in Tasks |-> IF t \in DOMAIN into THEN m[t] ELSE scheduledTo[t]]
           x        == [View(gr, c, w) EXCEPT !.where = where]
           lists    == [r \in Resources |-> StayedOn(m, taskBinding, r)]
           h        == TaskScheduled(TaskMigrated(TaskEvicted(gr, x, evicted), x, migrated), x, placed)
           failed(check) == Fail(check) /\ UNCHANGED <<g, cm>>
           done == /\ \A t \in evicted : gr.running[t] # None
                   /\ Rebind(evicted \cup DOMAIN migrated, into, lists)
                   /\ g' = h
                   /\ taskState' = [t \in Tasks |-> IF t \in DOMAIN into THEN "RUNNING"
                                                    ELSE IF t \in evicted THEN "RUNNABLE" ELSE st[t]]
                   /\ jobState' = [j \in Jobs |-> IF \E t \in DOMAIN placed : JobOf[t] = j
                                                  THEN "RUNNING" ELSE jobState[j]]
                   /\ UNCHANGED producing
                   /\ scheduledTo' = where
<1>1. \/ failed("TaskEvicted_task_node") \/ failed("UpdateArcsForScheduledTask_arc")
      \/ failed("TaskContinuation_start_time") \/ done
  BY DEF ApplySchedulingDeltas, TaskEvictedFails, Evicted
<1>2. CASE ~done
  BY <1>1, <1>2 DEF Fail, bindingVars, NothingDone
<1>3. CASE done
  <2>1. /\ DOMAIN placed = {t \in DOMAIN m : taskBinding[t] = None}
        /\ DOMAIN migrated = {t \in DOMAIN m : taskBinding[t] # None /\ taskBinding[t] # m[t]}
        /\ \A t \in DOMAIN placed : placed[t] = m[t]
        /\ \A t \in DOMAIN migrated : migrated[t] = m[t]
    BY DEF PlacedBy, MigratedBy
  <2>2. \A t : t \in evicted <=> /\ t \in Tasks /\ t \notin DOMAIN m /\ HasNode(gr, t)
                                 /\ \E r \in RegisteredPUs : t \in running[r]
    BY EvictedTasks
  <2>3. \A r \in Resources : lists[r] = {t \in DOMAIN m : m[t] = r /\ taskBinding[t] = r}
    BY DEF StayedOn
  <2>4. /\ \A t \in evicted : gr.running[t] # None
        /\ Rebind(evicted \cup DOMAIN migrated, into, lists)
        /\ g' = h
        /\ taskState' = [t \in Tasks |-> IF t \in DOMAIN into THEN "RUNNING"
                                         ELSE IF t \in evicted THEN "RUNNABLE" ELSE st[t]]
        /\ jobState' = [j \in Jobs |-> IF \E t \in DOMAIN placed : JobOf[t] = j
                                       THEN "RUNNING" ELSE jobState[j]]
        /\ UNCHANGED producing
    BY <1>3
  <2>5. DOMAIN into = DOMAIN placed \cup DOMAIN migrated /\ \A t \in DOMAIN into : into[t] = m[t]
    OBVIOUS
  <2>17. \A t \in Tasks \ DOMAIN m : scheduledTo'[t] = scheduledTo[t]
    <3>1. scheduledTo' = [t \in Tasks |-> IF t \in DOMAIN into THEN m[t] ELSE scheduledTo[t]]
      BY <1>3
    <3> HIDE DEF evicted, placed, migrated, lists, into, x, h, where, done, failed
    <3> QED BY <2>1, <2>5, <3>1
  <2> HIDE DEF evicted, placed, migrated, lists, into, x, where, done, failed
  <2>6. \A t \in Tasks : t \in evicted <=> st[t] = "RUNNING" /\ t \notin DOMAIN m
    <3> SUFFICES ASSUME NEW t \in Tasks PROVE t \in evicted <=> st[t] = "RUNNING" /\ t \notin DOMAIN m
      OBVIOUS
    <3>1. /\ st[t] = "RUNNING" => /\ HasNode(gr, t) /\ Registered(taskBinding[t])
                                  /\ t \in running[taskBinding[t]]
          /\ st[t] # "RUNNING" => gr.running[t] = None
      BY RoundTask, SMT
    <3> QED BY <2>2, <2>4, <3>1 DEF RegisteredPUs, Registered
  <2>7. \A t \in DOMAIN m : /\ t \in Tasks /\ m[t] \in Resources /\ m[t] # None /\ Registered(m[t])
                            /\ taskBinding[t] # None <=> st[t] = "RUNNING"
    BY RoundTask, ResourcesAssumption, SMT DEF Sound, Registered
  <2>8. evicted \in SUBSET Tasks /\ DOMAIN migrated \subseteq Tasks /\ DOMAIN placed \subseteq Tasks
    BY <2>1, <2>2, <2>7
  <2>9. GraphOK(gr) /\ gr.res = g.res
    BY DEF Follows, Fits
  <2>10. KeepsAggs(g', gr, st)
    <3>1. /\ \A t \in DOMAIN migrated : migrated[t] \in Resources
          /\ \A t \in DOMAIN placed : placed[t] \in Resources
      BY <2>1, <2>7
    <3>2. \A t \in evicted \cup DOMAIN migrated : gr.task[t] = "SCHEDULED"
      BY <2>1, <2>6, <2>7, <2>8 DEF Follows, Fits
    <3>3. \A t \in DOMAIN placed : gr.task[t] = "UNSCHEDULED"
      <4>1. \A t \in DOMAIN placed : t \in Tasks /\ HasNode(gr, t) /\ st[t] # "RUNNING"
        BY <2>1, <2>7 DEF Sound
      <4> QED BY <2>9, <4>1 DEF Follows, Fits, GraphOK, HasNode
    <3>4. evicted \cap DOMAIN migrated = {}
      BY <2>1, <2>2
    <3>5. x.preemption = config.preemption
      BY DEF x, View
    <3>6. ASSUME NEW over, AggsOK(gr, config.preemption, over)
          PROVE  AggsOK(h, config.preemption, over)
      BY <2>8, <2>9, <3>1, <3>2, <3>3, <3>4, <3>5, <3>6, RoundKeepsAggs
    <3> HIDE DEF h
    <3> QED BY <2>4, <3>6 DEF KeepsAggs
  <2>11. /\ GraphOK(g') /\ g'.res = gr.res
         /\ \A t \in Tasks :
              /\ g'.task[t] = IF t \in DOMAIN placed \cup DOMAIN migrated THEN "SCHEDULED"
                              ELSE IF t \in evicted THEN "UNSCHEDULED" ELSE gr.task[t]
              /\ g'.running[t] = IF t \in DOMAIN placed THEN placed[t]
                                 ELSE IF t \in DOMAIN migrated THEN migrated[t]
                                 ELSE IF t \in evicted THEN None ELSE gr.running[t]
    <3>1. /\ \A t \in DOMAIN migrated : migrated[t] \in Resources
          /\ \A t \in DOMAIN placed : placed[t] \in Resources
      BY <2>1, <2>7
    <3> QED BY <2>4, <2>8, <2>9, <3>1, RoundGraph, SMT
  <2> HIDE DEF h
  <2>12. /\ taskBinding' = [t \in Tasks |-> IF t \in DOMAIN into THEN into[t]
                                            ELSE IF t \in evicted \cup DOMAIN migrated THEN None
                                            ELSE taskBinding[t]]
         /\ BindingsInverse' /\ resBindings' \subseteq Resources \X Tasks
         /\ running' = [r \in Resources |-> lists[r] \cup {t \in DOMAIN into : into[t] = r}]
         /\ resState' \in [Resources -> ResourceStates]
         /\ \A r : Registered(r)' <=> Registered(r)
    <3>1. TablesOK
      BY DEF ServiceInv
    <3>2. evicted \cup DOMAIN migrated \in SUBSET Tasks /\ DOMAIN into \subseteq Tasks
      BY <2>5, <2>8
    <3>3. \A t \in evicted \cup DOMAIN migrated : Registered(taskBinding[t])
      BY <2>1, <2>6, <2>8, RoundTask
    <3>4. \A t \in DOMAIN into :
            Registered(into[t]) /\ (taskBinding[t] = None \/ t \in evicted \cup DOMAIN migrated)
      BY <2>1, <2>5, <2>7
    <3> QED BY <2>4, <3>1, <3>2, <3>3, <3>4, Rebound
  <2>13. ASSUME NEW t \in Tasks PROVE Delta(m, st, gr, t)
    <3>1. /\ taskState'[t] = IF t \in DOMAIN into THEN "RUNNING"
                             ELSE IF t \in evicted THEN "RUNNABLE" ELSE st[t]
          /\ taskBinding'[t] = IF t \in DOMAIN into THEN into[t]
                               ELSE IF t \in evicted \cup DOMAIN migrated THEN None
                               ELSE taskBinding[t]
      BY <2>4, <2>12
    <3>2. /\ st[t] # "RUNNING" => gr.running[t] = None
          /\ st[t] = "RUNNING" => gr.running[t] = taskBinding[t] /\ gr.task[t] = "SCHEDULED"
      BY RoundTask, SMT
    <3>3. CASE t \in DOMAIN placed \cup DOMAIN migrated
      BY <2>1, <2>5, <2>11, <3>1, <3>3 DEF Delta
    <3>4. CASE t \in DOMAIN m /\ t \notin DOMAIN placed \cup DOMAIN migrated
      BY <2>1, <2>5, <2>6, <2>7, <2>11, <3>1, <3>2, <3>4 DEF Delta
    <3>5. CASE t \notin DOMAIN m
      BY <2>1, <2>5, <2>6, <2>11, <3>1, <3>2, <3>5 DEF Delta
    <3> QED BY <2>1, <3>3, <3>4, <3>5
  <2>14. running' = [r \in Resources |-> {t \in DOMAIN m : m[t] = r}]
    <3>1. ASSUME NEW r \in Resources
          PROVE  lists[r] \cup {t \in DOMAIN into : into[t] = r} = {t \in DOMAIN m : m[t] = r}
      BY <2>1, <2>3, <2>5, ResourcesAssumption, SMT
    <3> QED BY <2>12, <3>1
  <2>15. taskBinding' \in [Tasks -> Resources \cup {None}] /\ taskState' \in [Tasks -> TaskStates]
    <3>1. taskBinding \in [Tasks -> Resources \cup {None}] /\ st \in [Tasks -> TaskStates]
      BY DEF ServiceInv, TablesOK, Advanced
    <3>2. \A t \in DOMAIN into : into[t] \in Resources
      BY <2>1, <2>5, <2>7
    <3> QED BY <2>4, <2>12, <3>1, <3>2 DEF TaskStates
  <2>16. jobState' = [j \in Jobs |-> IF \E t \in DOMAIN m : taskBinding[t] = None /\ JobOf[t] = j
                                     THEN "RUNNING" ELSE jobState[j]]
    BY <2>1, <2>4
  <2> QED BY <2>4, <2>9, <2>10, <2>11, <2>12, <2>13, <2>14, <2>15, <2>16, <2>17
         DEF DeltasDone
<1> QED BY <1>2, <1>3

(* Placement counts as the service does. *)
LEMMA SameCardinality == \A S : Abstract!Cardinality(S) = Cardinality(S)
BY DEF Abstract!Cardinality, Cardinality

(* A round that applied its deltas *)
LEMMA RoundKeeps ==
  ASSUME TasksCount, ServiceInv, NEW st, Advanced(st), NEW gr, Follows(gr, g, st), NEW m, Sound(m, gr),
         \A p \in Resources : Cardinality({t \in DOMAIN m : m[t] = p}) <= MaxTasksPerPU,
         UNCHANGED <<removed, incomplete, toRemove, jobsToSchedule, producing>>,
         \A t \in Tasks : Delta(m, st, gr, t),
         GraphOK(g'), g'.res = g.res,
         taskBinding' \in [Tasks -> Resources \cup {None}], taskState' \in [Tasks -> TaskStates],
         BindingsInverse', resBindings' \subseteq Resources \X Tasks,
         running' = [r \in Resources |-> {t \in DOMAIN m : m[t] = r}],
         resState' \in [Resources -> ResourceStates],
         \A r : Registered(r)' <=> Registered(r),
         jobState' = [j \in Jobs |-> IF \E t \in DOMAIN m : taskBinding[t] = None /\ JobOf[t] = j
                                     THEN "RUNNING" ELSE jobState[j]]
  PROVE  ServiceInv' /\ PlacementStep
<1>1. TablesOK /\ Leaves(g) = RegisteredPUs
  BY DEF ServiceInv
<1>2. \A t \in DOMAIN m :
        t \in Tasks /\ HasNode(gr, t) /\ Registered(m[t]) /\ m[t] \in Resources /\ m[t] # None
  BY ResourcesAssumption DEF Sound, Registered
<1>3. \A t \in DOMAIN m : /\ st[t] \in {"RUNNABLE", "RUNNING"} /\ t \notin removed
                          /\ taskState[t] # "ABSENT" /\ taskState[t] # "COMPLETED"
  <2> SUFFICES ASSUME NEW t \in DOMAIN m
               PROVE  /\ st[t] \in {"RUNNABLE", "RUNNING"} /\ t \notin removed
                      /\ taskState[t] # "ABSENT" /\ taskState[t] # "COMPLETED"
    OBVIOUS
  <2> QED BY <1>2, RoundTask
<1>4. \A r \in Resources : running'[r] = {t \in DOMAIN m : m[t] = r}
  OBVIOUS
<1>5. TablesOK'
  <2>1. jobState' \in [Jobs -> JobStates]
    BY <1>1 DEF TablesOK, JobStates
  <2>2. running' \in [Resources -> SUBSET Tasks]
    BY <1>2
  <2>3. \A p \in Resources : Cardinality(running'[p]) <= MaxTasksPerPU
    BY <1>4
  <2> QED BY <1>1, <2>1, <2>2, <2>3 DEF TablesOK
<1>6. RegisteredPUs' = RegisteredPUs
  BY DEF RegisteredPUs
<1>7. Leaves(g') = RegisteredPUs'
  BY <1>1, <1>6 DEF Leaves
<1>8. ASSUME NEW t \in Tasks
      PROVE  /\ TaskOK(t)' /\ RunsOn(t)' = IF t \in DOMAIN m THEN m[t] ELSE None
             /\ taskState'[t] = "ABSENT" <=> taskState[t] = "ABSENT"
             /\ taskState'[t] = "COMPLETED" <=> taskState[t] = "COMPLETED"
  <2>1. Delta(m, st, gr, t) /\ TaskOK(t)
    BY DEF ServiceInv
  <2>2. CASE t \in DOMAIN m
    <3>1. t \in running'[m[t]]
      BY <1>2, <1>4, <2>2
    <3>2. taskBinding'[t] = m[t] /\ Registered(taskBinding[t])'
      BY <1>2, <2>1, <2>2 DEF Delta
    <3> QED BY <1>2, <1>3, <2>1, <2>2, <3>1, <3>2 DEF Delta, TaskOK, RunsOn, HasNode
  <2>3. CASE t \notin DOMAIN m /\ st[t] = "RUNNING"
    <3>1. taskState[t] = "RUNNING" /\ t \notin removed
      BY <2>3, RoundTask
    <3> QED BY <2>1, <2>3, <3>1 DEF Delta, TaskOK, RunsOn, HasNode
  <2>4. CASE t \notin DOMAIN m /\ st[t] # "RUNNING"
    <3>1. /\ gr.task[t] # "SCHEDULED"
          /\ HasNode(gr, t) => st[t] \in {"RUNNABLE", "RUNNING"}
          /\ taskState[t] = "ABSENT" <=> st[t] = "ABSENT"
          /\ taskState[t] = "COMPLETED" <=> st[t] = "COMPLETED"
          /\ taskBinding[t] # None => t \in removed /\ Registered(taskBinding[t])
          /\ t \in removed => st[t] = taskState[t]
      BY <2>4, RoundTask
    <3>2. taskBinding[t] # None => Registered(taskBinding[t])'
      BY <2>1, <2>4, <3>1 DEF Delta
    <3>3. /\ taskBinding'[t] = taskBinding[t] /\ taskState'[t] = st[t]
          /\ g'.task[t] = gr.task[t] /\ g'.running[t] = None
      BY <2>1, <2>4 DEF Delta
    <3> QED BY <2>1, <2>4, <3>1, <3>2, <3>3 DEF TaskOK, RunsOn, HasNode
  <2> QED BY <2>2, <2>3, <2>4
<1>9. CountersMatch'
  <2>1. ASSUME NEW i \in Jobs PROVE JobCounted(i)'
    <3>1. JobCounted(i)
      BY CountersByJob DEF ServiceInv
    <3>2. jobState'[i] = "ABSENT" <=> jobState[i] = "ABSENT"
      <4>1. CASE \E t \in DOMAIN m : taskBinding[t] = None /\ JobOf[t] = i
        <5>1. PICK t \in DOMAIN m : JobOf[t] = i
          BY <4>1
        <5>2. t \in LeftTasks(i) /\ LeftTasks(i) \in SUBSET Tasks
          BY <1>2, <1>3, <5>1 DEF LeftTasks, Known
        <5>3. Cardinality(LeftTasks(i)) # 0
          BY <5>2 DEF TasksCount
        <5>4. jobState[i] # "ABSENT"
          BY <3>1, <5>3 DEF JobCounted
        <5> QED BY <4>1, <5>4
      <4>2. CASE ~\E t \in DOMAIN m : taskBinding[t] = None /\ JobOf[t] = i
        BY <4>2
      <4> QED BY <4>1, <4>2
    <3> QED BY <1>8, <3>1, <3>2, JobStillCounted
  <2> QED BY <2>1, CountersByJobNext
<1>10. PlacementStep
  <2>1. Where' = [t \in Tasks |-> IF t \in DOMAIN m THEN m[t] ELSE None]
    BY <1>8 DEF Where
  <2>2. Over' = Over
    BY <1>8 DEF Over
  <2>3. \A t \in Tasks : Where'[t] \in RegisteredPUs \cup {None} /\ (Where'[t] # None => t \notin Over)
    BY <1>2, <1>3, <2>1 DEF RegisteredPUs, Over
  <2>4. Where' \in [Tasks -> RegisteredPUs \cup {None}]
    BY <2>1, <2>3
  <2>5. \A p \in Resources : Cardinality({t \in Tasks : Where'[t] = p}) <= MaxTasksPerPU
    <3>1. \A p \in Resources : {t \in Tasks : Where'[t] = p} = {t \in DOMAIN m : m[t] = p}
      BY <1>2, <2>1, ResourcesAssumption
    <3> QED BY <3>1
  <2>6. Abstract!Round
    <3>1. Abstract!Allowed(Where', RegisteredPUs, Over)
      BY <2>3, <2>5, SameCardinality DEF Abstract!Allowed
    <3> QED BY <1>6, <2>2, <2>4, <3>1 DEF Abstract!Round, Where, Over
  <2> QED BY <2>6 DEF PlacementStep, Abstract!Next
<1> QED BY <1>5, <1>7, <1>8, <1>9, <1>10 DEF ServiceInv

(* The list of jobs to schedule has jobs only. *)
ListedJobs == jobsToSchedule \subseteq Jobs

(* A round in which the solver answered: it works with states st on a graph *)
(* gr that agrees with them, and applies a sound mapping m.                *)
RoundRuns(st, gr, m) ==
  /\ Advanced(st) /\ Follows(gr, g, st) /\ KeepsAggs(gr, g, st) /\ Sound(m, gr)
  /\ \A p \in Resources : Cardinality({t \in DOMAIN m : m[t] = p}) <= MaxTasksPerPU
  /\ \E mapping, c, w, ready : /\ DOMAIN mapping = DOMAIN m
                               /\ ApplySchedulingDeltas(gr, c, w, mapping, m, st, ready)

(* Schedule: nothing but states of tasks changes, or a CHECK fails, or the  *)
(* solver answers.                                                         *)
LEMMA ScheduleEffect ==
  ASSUME TasksCount, TasksAddUp, ServiceInv, ListedJobs, NEW w, NEW due, Schedule(w, due)
  PROVE  /\ UNCHANGED <<jobsToSchedule, removed, incomplete, toRemove, config>>
         /\ \/ /\ Advanced(taskState')
               /\ UNCHANGED <<jobState, producing, taskBinding, resBindings, resState, running, g>>
               /\ UNCHANGED <<scheduledTo, failedCheck>>
            \/ NothingDone /\ failedCheck' \notin OwnChecks
            \/ \E st, gr, m : RoundRuns(st, gr, m)
<1> DEFINE newly == BecomingRunnable(jobsToSchedule)
           st == StatesForRound(newly)
           ready == ReadyForRound(newly)
           jobs == {j \in jobsToSchedule : ready[j] # {}}
           p == Prepared(w, due, jobs, st)
<1>1. /\ UNCHANGED <<jobsToSchedule, removed, incomplete, toRemove, config>>
      /\ \/ /\ taskState' = st
            /\ UNCHANGED <<jobState, producing, taskBinding, resBindings, resState, running, g>>
            /\ UNCHANGED <<scheduledTo, failedCheck>>
         \/ RunSchedulingIteration(p, w, st, ready)
  BY DEF Schedule, ScheduleAllJobs, bindingVars, serviceVars
<1>2. TablesOK
  BY DEF ServiceInv
<1>3. Advanced(st)
  BY <1>2, StatesAdvance
<1>4. Follows(p.g, g, st) /\ KeepsAggs(p.g, g, st) /\ p.check \notin OwnChecks
  <2> HIDE DEF st
  <2>1. Fits(g, st) /\ jobs \in SUBSET Jobs
    BY <1>3, GraphFits DEF ListedJobs
  <2> HIDE DEF jobs
  <2> QED BY <2>1, PreparedFollows DEF RoundLeaves
<1> HIDE DEF newly, st, ready, jobs, p
<1>5. CASE RunSchedulingIteration(p, w, st, ready)
  <2>1. \/ NothingDone /\ failedCheck' \notin OwnChecks
        \/ \E mapping \in RunSolver(p.g) :
             ApplySchedulingDeltas(p.g, p.cm, w, mapping, StillValid(mapping, {}, {}), st, ready)
    <3>1. "Solver_exit_status" \notin OwnChecks
      BY DEF OwnChecks
    <3> QED BY <1>4, <1>5, <3>1 DEF RunSchedulingIteration, Fail, bindingVars, NothingDone
  <2>2. ASSUME NEW mapping \in RunSolver(p.g),
               ApplySchedulingDeltas(p.g, p.cm, w, mapping, StillValid(mapping, {}, {}), st, ready)
        PROVE  \E gr, m : RoundRuns(st, gr, m)
    <3> DEFINE m == StillValid(mapping, {}, {})
               gr == p.g
    <3>1. DOMAIN m = DOMAIN mapping /\ \A t \in DOMAIN m : m[t] = mapping[t]
      BY DEF StillValid
    <3>2. GraphOK(gr) /\ Leaves(gr) = RegisteredPUs
      BY <1>4 DEF Follows, Fits, ServiceInv, Leaves
    <3>3. /\ \A t \in DOMAIN mapping : t \in Tasks /\ HasNode(gr, t) /\ mapping[t] \in Leaves(gr)
          /\ \A r \in Resources : Cardinality({t \in DOMAIN mapping : mapping[t] = r}) <= MaxTasksPerPU
      BY <3>2, SolverSound
    <3>4. ApplySchedulingDeltas(gr, p.cm, w, mapping, m, st, ready)
      BY <2>2
    <3>5. Follows(gr, g, st) /\ KeepsAggs(gr, g, st)
      BY <1>4
    <3> HIDE DEF m, gr
    <3>6. Sound(m, gr)
      BY <3>1, <3>2, <3>3 DEF Sound, RegisteredPUs
    <3>7. \A r \in Resources : Cardinality({t \in DOMAIN m : m[t] = r}) <= MaxTasksPerPU
      <4>1. \A r \in Resources : {t \in DOMAIN m : m[t] = r} = {t \in DOMAIN mapping : mapping[t] = r}
        BY <3>1
      <4> QED BY <3>3, <4>1
    <3>8. \E mm, c, v, rr : DOMAIN mm = DOMAIN m /\ ApplySchedulingDeltas(gr, c, v, mm, m, st, rr)
      BY <3>1, <3>4
    <3>9. RoundRuns(st, gr, m)
      BY <1>3, <3>5, <3>6, <3>7, <3>8 DEF RoundRuns
    <3> QED BY <3>9
  <2> QED BY <1>1, <2>1, <2>2
<1> QED BY <1>1, <1>3, <1>5

(* Schedule *)
LEMMA ScheduleKeeps ==
  ASSUME TasksCount, TasksAddUp, ServiceInv, ListedJobs, NEW w, NEW due, Schedule(w, due)
  PROVE  ServiceInv' /\ PlacementStep
<1>1. UNCHANGED <<jobsToSchedule, removed, incomplete, toRemove>>
  BY ScheduleEffect
<1>2. CASE /\ Advanced(taskState')
           /\ UNCHANGED <<jobState, producing, taskBinding, resBindings, resState, running, g>>
  BY <1>1, <1>2, IdleRoundKeeps
<1>3. CASE NothingDone
  BY <1>1, <1>3, ServiceUnchanged DEF NothingDone
<1>4. ASSUME NEW st, NEW gr, NEW m, RoundRuns(st, gr, m),
             ~NothingDone
      PROVE  ServiceInv' /\ PlacementStep
  <2>1. PICK mapping, c, v, ready : /\ DOMAIN mapping = DOMAIN m
                                    /\ ApplySchedulingDeltas(gr, c, v, mapping, m, st, ready)
    BY <1>4 DEF RoundRuns
  <2>2. /\ Advanced(st) /\ Follows(gr, g, st) /\ Sound(m, gr)
        /\ \A p \in Resources : Cardinality({t \in DOMAIN m : m[t] = p}) <= MaxTasksPerPU
    BY <1>4 DEF RoundRuns
  <2>3. DeltasDone(m, st, gr)
    BY <1>4, <2>1, <2>2, DeltasApplied
  <2> QED BY <1>1, <2>2, <2>3, RoundKeeps DEF DeltasDone
<1> QED BY <1>2, <1>3, <1>4, ScheduleEffect

(* A round makes no task ready that is done. *)
LEMMA DoneStays ==
  ASSUME ServiceInv, NEW st, Advanced(st), NEW t \in Tasks
  PROVE  /\ st[t] \in {"COMPLETED", "FAILED"} <=> taskState[t] \in {"COMPLETED", "FAILED"}
         /\ st[t] \in {"RUNNABLE", "RUNNING"} => t \notin Done
<1>1. TaskOK(t)
  BY DEF ServiceInv
<1>2. \/ st[t] = taskState[t]
      \/ st[t] = "RUNNABLE" /\ taskState[t] \in {"CREATED", "BLOCKING"}
  BY DEF Advanced
<1> QED BY <1>1, <1>2 DEF TaskOK, Done

(* Schedule keeps the aggregators right. *)
LEMMA ScheduleKeepsAggs ==
  ASSUME TasksCount, TasksAddUp, ServiceInv, AggsInv, ListedJobs, NEW w, NEW due, Schedule(w, due)
  PROVE  AggsInv'
<1>1. UNCHANGED <<removed, config>>
  BY ScheduleEffect
<1>3. CASE Advanced(taskState') /\ g' = g
  <2>1. Done' = Done
    BY <1>1, <1>3, DoneStays DEF Done
  <2> QED BY <1>1, <1>3, <2>1, AggsUnchanged
<1>4. CASE NothingDone
  BY <1>1, <1>4, AggsUnchanged DEF Done, NothingDone
<1>5. ASSUME NEW st, NEW gr, NEW m, RoundRuns(st, gr, m),
             ~NothingDone
      PROVE  AggsInv'
  <2>1. PICK mapping, c, v, ready : /\ DOMAIN mapping = DOMAIN m
                                    /\ ApplySchedulingDeltas(gr, c, v, mapping, m, st, ready)
    BY <1>5 DEF RoundRuns
  <2>2. Advanced(st) /\ Follows(gr, g, st) /\ Sound(m, gr) /\ KeepsAggs(gr, g, st)
    BY <1>5 DEF RoundRuns
  <2>3. (\A t \in Tasks : Delta(m, st, gr, t)) /\ KeepsAggs(g', gr, st)
    BY <1>5, <2>1, <2>2, DeltasApplied DEF DeltasDone
  <2>4. ASSUME NEW t \in Tasks
        PROVE  taskState'[t] \in {"COMPLETED", "FAILED"} <=> taskState[t] \in {"COMPLETED", "FAILED"}
    <3>1. t \in DOMAIN m => st[t] \in {"RUNNABLE", "RUNNING"}
      BY <2>2 DEF Sound, Follows, Fits
    <3> QED BY <2>2, <2>3, <3>1, DoneStays DEF Delta
  <2>5. Done' = Done
    BY <1>1, <2>4 DEF Done
  <2>6. \A t \in Tasks : st[t] \in {"RUNNABLE", "RUNNING"} => t \notin Done
    BY <2>2, DoneStays
  <2>7. AggsOK(g', config.preemption, Done)
    BY <2>2, <2>3, <2>6 DEF KeepsAggs, AggsInv
  <2> QED BY <1>1, <2>5, <2>7 DEF AggsInv
<1> QED BY <1>3, <1>4, <1>5, ScheduleEffect

(* Schedule keeps what the tables remember. *)
LEMMA ScheduleKeepsPast ==
  ASSUME TasksCount, TasksAddUp, ServiceInv, PastInv, ListedJobs, NEW w, NEW due, Schedule(w, due)
  PROVE  PastInv'
<1>1. removed' = removed
  BY ScheduleEffect
<1>2. ASSUME NEW st, Advanced(st), NEW t \in Tasks, scheduledTo[t] # None
      PROVE  /\ st[t] = taskState[t]
             /\ st[t] \in {"RUNNABLE", "RUNNING"} => HasNode(g, t)
             /\ st[t] \in {"ABSENT", "CREATED", "BLOCKING"} => t \in removed
  <2>1. TaskOK(t) /\ TaskPast(t)
    BY DEF ServiceInv, PastInv
  <2>2. \/ st[t] = taskState[t]
        \/ st[t] = "RUNNABLE" /\ taskState[t] \in {"CREATED", "BLOCKING"}
    BY <1>2 DEF Advanced
  <2> QED BY <1>2, <2>1, <2>2 DEF TaskOK, TaskPast
<1>3. CASE Advanced(taskState') /\ UNCHANGED <<taskBinding, running, scheduledTo, g>>
  <2> SUFFICES ASSUME NEW t \in Tasks PROVE TaskPast(t)'
    BY DEF PastInv
  <2>1. TaskPast(t)
    BY DEF PastInv
  <2>2. /\ taskState'[t] \in {"COMPLETED", "FAILED"} <=> taskState[t] \in {"COMPLETED", "FAILED"}
        /\ taskState[t] = "RUNNING" => taskState'[t] = "RUNNING"
    BY <1>3, DoneStays DEF Advanced
  <2>3. t \in Done => t \in Done'
    BY <1>1, <2>2 DEF Done
  <2> QED BY <1>1, <1>2, <1>3, <2>1, <2>2, <2>3 DEF TaskPast
<1>4. CASE NothingDone
  BY <1>1, <1>4, PastUnchanged DEF NothingDone
<1>5. ASSUME NEW st, NEW gr, NEW m, RoundRuns(st, gr, m), ~NothingDone
      PROVE  PastInv'
  <2>1. PICK mapping, c, v, ready : /\ DOMAIN mapping = DOMAIN m
                                    /\ ApplySchedulingDeltas(gr, c, v, mapping, m, st, ready)
    BY <1>5 DEF RoundRuns
  <2>2. Advanced(st) /\ Follows(gr, g, st) /\ Sound(m, gr)
    BY <1>5 DEF RoundRuns
  <2>3. DeltasDone(m, st, gr)
    BY <1>5, <2>1, <2>2, DeltasApplied
  <2> SUFFICES ASSUME NEW t \in Tasks PROVE TaskPast(t)'
    BY DEF PastInv
  <2>4. /\ Delta(m, st, gr, t)
        /\ \A r \in Resources : t \in running'[r] <=> t \in DOMAIN m /\ m[t] = r
    BY <2>3 DEF DeltasDone
  <2>5. CASE t \in DOMAIN m
    BY <2>4, <2>5 DEF Delta, TaskPast, HasNode
  <2>6. CASE t \notin DOMAIN m
    <3>1. scheduledTo'[t] = scheduledTo[t]
      BY <2>3, <2>6 DEF DeltasDone
    <3>2. CASE st[t] = "RUNNING"
      BY <2>4, <2>6, <3>2 DEF Delta, TaskPast, HasNode
    <3>3. CASE st[t] # "RUNNING"
      <4>1. taskState'[t] = st[t] /\ g'.task[t] = gr.task[t]
        BY <2>4, <2>6, <3>3 DEF Delta
      <4>2. HasNode(g, t) => HasNode(g', t)
        BY <2>2, <4>1 DEF Follows, HasNode
      <4> QED BY <1>1, <1>2, <2>2, <2>4, <2>6, <3>1, <4>1, <4>2 DEF TaskPast
    <3> QED BY <3>2, <3>3
  <2> QED BY <2>5, <2>6
<1> QED BY <1>3, <1>4, <1>5, ScheduleEffect

(* The CHECKs that the deltas of a round may fail: an evicted task runs and *)
(* is bound, and without preemption nothing is in the way of an arc.       *)
LEMMA DeltasExplained ==
  ASSUME TasksCount, TasksAddUp, ServiceInv, AggsInv, PastInv, failedCheck = "none", config' = config,
         NEW st, NEW gr, NEW m, RoundRuns(st, gr, m)
  PROVE  OwnFailuresExplained'
<1>1. PICK mapping, c, w, ready : /\ DOMAIN mapping = DOMAIN m
                                  /\ ApplySchedulingDeltas(gr, c, w, mapping, m, st, ready)
  BY DEF RoundRuns
<1>2. Advanced(st) /\ Follows(gr, g, st) /\ KeepsAggs(gr, g, st) /\ Sound(m, gr)
  BY DEF RoundRuns
<1> DEFINE evicted  == Evicted(gr, mapping)
           placed   == PlacedBy(m, taskBinding)
           migrated == MigratedBy(m, taskBinding)
           into     == [t \in DOMAIN placed \cup DOMAIN migrated |-> m[t]]
           where    == [t \in Tasks |-> IF t \in DOMAIN into THEN m[t] ELSE scheduledTo[t]]
           x        == [View(gr, c, w) EXCEPT !.where = where]
           g1       == TaskEvicted(gr, x, evicted)
           g2       == TaskMigrated(g1, x, migrated)
           failing  == \/ \E t \in DOMAIN placed : TaskScheduledFails(g2, x, t, m[t])
                       \/ \E t \in DOMAIN migrated :
                            TaskEvictedFails(g1, x, t) \/ TaskScheduledFails(TaskEvicted(g1, x, {t}), x, t, m[t])
<1>3. \/ \E t \in evicted : TaskEvictedFails(gr, x, t) \/ taskBinding[t] = None
      \/ Fail("UpdateArcsForScheduledTask_arc") /\ failing
      \/ Fail("TaskContinuation_start_time") \/ failedCheck' = failedCheck
  BY <1>1 DEF ApplySchedulingDeltas, Evicted
<1>4. x.preemption = config.preemption
  BY DEF View
<1>5. /\ DOMAIN placed = {t \in DOMAIN m : taskBinding[t] = None}
      /\ DOMAIN migrated = {t \in DOMAIN m : taskBinding[t] # None /\ taskBinding[t] # m[t]}
      /\ \A t \in DOMAIN placed : placed[t] = m[t]
      /\ \A t \in DOMAIN migrated : migrated[t] = m[t]
  BY DEF PlacedBy, MigratedBy
<1>6. failing => ~DeltasStand(gr, x, evicted, migrated, placed)
  BY <1>5 DEF DeltasStand
<1> HIDE DEF evicted, placed, migrated, into, where, x, g1, g2, failing
<1>7. GraphOK(gr) /\ gr.res = g.res /\ AggsOK(gr, x.preemption, Done)
  <2>1. \A t \in Tasks : st[t] \in {"RUNNABLE", "RUNNING"} => t \notin Done
    BY <1>2, DoneStays
  <2>2. AggsOK(gr, config.preemption, Done)
    BY <1>2, <2>1 DEF KeepsAggs, AggsInv
  <2> QED BY <1>2, <1>4, <2>2 DEF Follows, Fits
<1>8. ASSUME NEW t \in Tasks, st[t] = "RUNNING" \/ taskState[t] = "RUNNING"
      PROVE  st[t] = "RUNNING" /\ taskBinding[t] # None /\ gr.running[t] # None
  <2>1. st[t] = "RUNNING"
    BY <1>8, <1>2, RoundTask
  <2>2. st[t] = "RUNNING" => /\ HasNode(gr, t) /\ taskBinding[t] # None
                             /\ gr.running[t] = taskBinding[t]
    BY <1>2, RoundTask, SMT
  <2> QED BY <2>1, <2>2
<1>9. ASSUME NEW t \in evicted
      PROVE  /\ t \in Tasks /\ t \notin DOMAIN m /\ HasNode(gr, t) /\ st[t] = "RUNNING"
             /\ taskBinding[t] # None /\ gr.running[t] # None
  <2>1. /\ t \in Tasks /\ t \notin DOMAIN m /\ HasNode(gr, t)
        /\ \E r \in RegisteredPUs : t \in running[r]
    BY <1>1, EvictedTasks DEF evicted
  <2>2. st[t] \in {"RUNNABLE", "RUNNING"} /\ t \notin Done
    BY <1>2, <2>1, DoneStays DEF Follows, Fits
  <2>3. taskState[t] = "RUNNING"
    BY <2>1, <2>2 DEF PastInv, TaskPast, RegisteredPUs
  <2> QED BY <1>8, <2>1, <2>3
<1>10. \A t \in evicted : ~TaskEvictedFails(gr, x, t) /\ taskBinding[t] # None
  BY <1>7, <1>9, MayBeEvicted
<1>11. failing => config.preemption
  <2> SUFFICES ASSUME ~config.preemption PROVE DeltasStand(gr, x, evicted, migrated, placed)
    BY <1>6
  <2>1. \A t \in DOMAIN m : /\ t \in Tasks /\ m[t] \in Resources \cap gr.res /\ HasNode(gr, t)
                            /\ taskBinding[t] # None <=> st[t] = "RUNNING"
    <3>1. \A t \in DOMAIN m : t \in Tasks /\ HasNode(gr, t) /\ m[t] \in RegisteredPUs
      BY <1>2 DEF Sound, RegisteredPUs, Registered
    <3>2. RegisteredPUs \subseteq Resources \cap gr.res
      BY <1>7 DEF ServiceInv, Leaves
    <3>3. \A t \in Tasks : HasNode(gr, t) => (taskBinding[t] # None <=> st[t] = "RUNNING")
      BY <1>2, RoundTask
    <3> QED BY <3>1, <3>2, <3>3
  <2>2. /\ DOMAIN migrated \subseteq Tasks /\ \A t \in DOMAIN migrated : migrated[t] \in Resources \cap gr.res
        /\ DOMAIN placed \subseteq Tasks /\ \A t \in DOMAIN placed : placed[t] \in Resources \cap gr.res
    BY <1>5, <2>1
  <2>3. evicted \in SUBSET Tasks /\ evicted \cap DOMAIN migrated = {}
    BY <1>5, <1>9
  <2>4. /\ \A t \in evicted \cup DOMAIN migrated : t \in Tasks /\ st[t] = "RUNNING"
        /\ \A t \in DOMAIN placed : t \in Tasks /\ HasNode(gr, t) /\ st[t] # "RUNNING"
    BY <1>5, <1>9, <2>1
  <2>5. \A t \in evicted \cup DOMAIN migrated : gr.task[t] = "SCHEDULED"
    BY <1>2, <2>4 DEF Follows, Fits
  <2>6. \A t \in DOMAIN migrated : gr.running[t] # None
    BY <1>8, <2>4
  <2>7. \A t \in DOMAIN placed : gr.task[t] = "UNSCHEDULED"
    BY <1>2, <1>7, <2>4 DEF Follows, Fits, GraphOK, HasNode
  <2> QED BY <1>4, <1>7, <2>2, <2>3, <2>5, <2>6, <2>7, RoundStands
<1>12. CASE Fail("UpdateArcsForScheduledTask_arc") /\ failing
  <2>1. failedCheck' = "UpdateArcsForScheduledTask_arc" /\ config'.preemption
    BY <1>11, <1>12 DEF Fail
  <2> QED BY <2>1 DEF OwnFailuresExplained
<1>13. CASE Fail("TaskContinuation_start_time") \/ failedCheck' = failedCheck
  <2>1. failedCheck' \in {"none", "TaskContinuation_start_time"}
    BY <1>13 DEF Fail
  <2> QED BY <2>1, OtherFailure DEF OwnChecks
<1> QED BY <1>3, <1>10, <1>12, <1>13

(* Schedule *)
LEMMA ScheduleExplained ==
  ASSUME TasksCount, TasksAddUp, ServiceInv, AggsInv, PastInv, ListedJobs, failedCheck = "none",
         NEW w, NEW due, Schedule(w, due)
  PROVE  OwnFailuresExplained'
<1>1. config' = config
  BY ScheduleEffect
<1>2. "none" \notin OwnChecks
  BY DEF OwnChecks
<1>3. failedCheck' \notin OwnChecks \/ \E st, gr, m : RoundRuns(st, gr, m)
  BY <1>2, ScheduleEffect
<1> QED BY <1>1, <1>3, OtherFailure, DeltasExplained

-----------------------------------------------------------------------------
(* All steps. *)

(* Init: nothing is submitted and no node is there. *)
LEMMA ServiceStarts ==
  ASSUME TasksCount, Init
  PROVE  /\ ServiceInv /\ AggsInv /\ config \in Configs /\ ListedJobs /\ Abstract!Init
         /\ PastInv /\ OwnFailuresExplained
<1>1. /\ taskState = [t \in Tasks |-> "ABSENT"] /\ jobState = [j \in Jobs |-> "ABSENT"]
      /\ producing = [o \in Objects |-> {}] /\ taskBinding = [t \in Tasks |-> None]
      /\ resBindings = {} /\ running = [r \in Resources |-> {}]
      /\ resState = [r \in Resources |-> "ABSENT"]
      /\ jobsToSchedule = {} /\ removed = {}
      /\ incomplete = [j \in Jobs |-> 0] /\ toRemove = [j \in Jobs |-> 0]
      /\ scheduledTo = [t \in Tasks |-> None] /\ failedCheck = "none"
  BY DEF Init, NothingSubmitted
<1>2. /\ g.task = [t \in Tasks |-> "none"] /\ g.running = [t \in Tasks |-> None]
      /\ g.arcs = <<>> /\ g.ecs = {} /\ g.aggs = {} /\ g.res = {Root} /\ DOMAIN g = GraphFields
  BY DEF Init, EmptyGraph, GraphFields
<1>3. TablesOK
  <2>1. \A p \in Resources : Cardinality(running[p]) <= MaxTasksPerPU
    BY <1>1, TopologyAssumption, SMT DEF TasksCount
  <2>2. BindingsInverse
    BY <1>1, ResourcesAssumption DEF BindingsInverse
  <2> QED BY <1>1, <2>1, <2>2 DEF TablesOK, TaskStates, JobStates, ResourceStates
<1>4. GraphOK(g)
  <2>1. DOMAIN g.arcs = {}
    BY <1>2, SMT
  <2> QED BY <1>2, <2>1 DEF GraphOK
<1>5. RegisteredPUs = {} /\ Leaves(g) = {}
  BY <1>1, <1>2, TopologyAssumption DEF RegisteredPUs, Registered, Leaves
<1>6. \A t \in Tasks : TaskOK(t)
  BY <1>1, <1>2 DEF TaskOK, RunsOn, HasNode
<1>7. CountersMatch
  <2>1. ASSUME NEW j \in Jobs PROVE JobCounted(j)
    <3>1. LeftTasks(j) = {} /\ OpenTasks(j) = {}
      BY <1>1 DEF LeftTasks, OpenTasks, Known
    <3> QED BY <1>1, <3>1, SMT DEF JobCounted, TasksCount
  <2> QED BY <2>1, CountersByJob
<1>8. Abstract!Init
  <2>1. \A t \in Tasks : RunsOn(t) = None
    BY <1>1 DEF RunsOn
  <2> QED BY <1>1, <1>5, <2>1 DEF Abstract!Init
<1>9. config \in Configs /\ ListedJobs
  BY <1>1 DEF Init, ListedJobs
<1>10. AggsInv
  <2>1. ASSUME NEW j \in Jobs PROVE AggOK(g, j, config.preemption, Done)
    <3>1. /\ TaskNodes(g, j) = {} /\ OpenNodes(g, j) = {} /\ PinnedNodes(g, j) = {}
          /\ EverNodes(g, j, Done) = {}
      BY <1>1, <1>2 DEF TaskNodes, OpenNodes, PinnedNodes, EverNodes, HasNode, Done
    <3>2. AggCapacity(g, j) = 0
      <4>1. DOMAIN g.arcs = {}
        BY <1>2, SMT
      <4> QED BY <4>1 DEF AggCapacity
    <3>3. Cardinality({}) = 0
      BY DEF TasksCount
    <3>4. 0 \in Nat /\ 0 <= 0 /\ 0 + 0 <= 0
      BY SMT
    <3> QED BY <3>1, <3>2, <3>3, <3>4 DEF AggOK
  <2> QED BY <1>2, <2>1 DEF AggsInv, AggsOK
<1>11. PastInv /\ OwnFailuresExplained
  BY <1>1 DEF PastInv, TaskPast, OwnFailuresExplained
<1> QED BY <1>3, <1>4, <1>5, <1>6, <1>7, <1>8, <1>9, <1>10, <1>11 DEF ServiceInv

(* The flags of the process never change, and the list keeps to jobs. *)
LEMMA BackgroundStays ==
  ASSUME config \in Configs, ListedJobs, [Next]_vars
  PROVE  config' \in Configs /\ ListedJobs'
<1>1. CASE Next
  <2>1. \/ \E t \in config.tasks : \E request : TaskSubmitted(t, request)
        \/ \E n, said : TaskUpdated(n, said) \/ NodeUpdated(n, said) \/ AddNodeStats(n, said)
        \/ \E t : TaskCompleted(t) \/ TaskFailed(t) \/ TaskRemoved(t)
        \/ \E m, label : NodeAdded(m, label) \/ NodeRemoved(m, label)
        \/ \E w, due : Schedule(w, due)
    BY <1>1 DEF Next
  <2>2. config' = config
    BY <2>1 DEF TaskSubmitted, TaskUpdated, TaskCompleted, TaskFailed, TaskRemoved,
                NodeAdded, NodeRemoved, NodeUpdated, AddNodeStats, Schedule
  <2>3. ASSUME NEW t \in config.tasks, NEW request, TaskSubmitted(t, request)
        PROVE  ListedJobs'
    <3>1. JobOf[t] \in Jobs
      BY ConfigsAssumption, TaskTreeAssumption
    <3> QED BY <2>3, <3>1 DEF TaskSubmitted, ListedJobs
  <2>4. ASSUME NEW n, NEW said, TaskUpdated(n, said) \/ NodeUpdated(n, said) \/ AddNodeStats(n, said)
        PROVE  ListedJobs'
    BY <2>4 DEF TaskUpdated, NodeUpdated, AddNodeStats, ListedJobs
  <2>5. ASSUME NEW t, TaskCompleted(t) PROVE ListedJobs'
    BY <2>5 DEF TaskCompleted, HandleTaskCompletionAndReport, FlowFail, flowVars, ListedJobs
  <2>6. ASSUME NEW t, TaskFailed(t) \/ TaskRemoved(t) PROVE ListedJobs'
    BY <2>6 DEF TaskFailed, FlowHandleTaskFailure, TaskRemoved, HandleTaskRemoval, FlowFail, flowVars,
                ListedJobs
  <2>7. ASSUME NEW m, NEW label, NodeAdded(m, label) \/ NodeRemoved(m, label) PROVE ListedJobs'
    BY <2>7 DEF NodeAdded, RegisterResource, NodeRemoved, DeregisterResource, FlowFail, flowVars,
       ListedJobs
  <2>8. ASSUME NEW w, NEW due, Schedule(w, due) PROVE ListedJobs'
    BY <2>8 DEF Schedule, ScheduleAllJobs, serviceVars, ListedJobs
  <2> QED BY <2>1, <2>2, <2>3, <2>4, <2>5, <2>6, <2>7, <2>8
<1>2. CASE UNCHANGED vars
  BY <1>2 DEF vars, flowVars, ListedJobs
<1> QED BY <1>1, <1>2

(* Every step of the service keeps the invariant and is a step of Placement *)
(* or none.                                                                *)
LEMMA ServiceSteps ==
  ASSUME TasksCount, TasksAddUp, ServiceInv, ListedJobs, config \in Configs, [Next]_vars
  PROVE  ServiceInv' /\ PlacementStep
<1>1. CASE UNCHANGED vars
  <2>1. /\ UNCHANGED <<taskState, jobState, producing, taskBinding, resBindings, resState, running>>
        /\ UNCHANGED <<g, removed, incomplete, toRemove, jobsToSchedule>>
    BY <1>1 DEF vars, edsVars, flowVars, serviceVars
  <2> QED BY <2>1, ServiceUnchanged
<1>2. ASSUME NEW n, NEW said,
             TaskUpdated(n, said) \/ NodeUpdated(n, said) \/ AddNodeStats(n, said)
      PROVE  ServiceInv' /\ PlacementStep
  <2>1. /\ UNCHANGED <<taskState, jobState, producing, taskBinding, resBindings, resState, running>>
        /\ UNCHANGED <<g, removed, incomplete, toRemove, jobsToSchedule>>
    BY <1>2 DEF TaskUpdated, NodeUpdated, AddNodeStats, edsVars
  <2> QED BY <2>1, ServiceUnchanged
<1>3. ASSUME NEW t \in Tasks, failedCheck = "none",
             TaskCompleted(t) \/ TaskFailed(t) \/ TaskRemoved(t)
      PROVE  ServiceInv' /\ PlacementStep
  BY <1>3, CompletionKeeps, FailureKeeps, RemovalKeeps
<1>4. ASSUME NEW m \in Machines, NEW label, NodeAdded(m, label) \/ NodeRemoved(m, label)
      PROVE  ServiceInv' /\ PlacementStep
  BY <1>4, NodeAddedKeeps, NodeRemovedKeeps
<1>5. CASE Next
  <2>1. failedCheck = "none" /\ config.tasks \subseteq Tasks
    BY <1>5, ConfigsAssumption DEF Next, Alive
  <2>2. \/ \E t \in Tasks : \E request : TaskSubmitted(t, request)
        \/ \E n, said : TaskUpdated(n, said) \/ NodeUpdated(n, said) \/ AddNodeStats(n, said)
        \/ \E t \in Tasks : TaskCompleted(t) \/ TaskFailed(t) \/ TaskRemoved(t)
        \/ \E m \in Machines : \E label : NodeAdded(m, label) \/ NodeRemoved(m, label)
        \/ \E w, due : Schedule(w, due)
    BY <1>5, <2>1 DEF Next
  <2> QED BY <1>2, <1>3, <1>4, <2>1, <2>2, SubmitKeeps, ScheduleKeeps
<1> QED BY <1>1, <1>5

(* ... and the aggregators right. *)
LEMMA ServiceStepsAggs ==
  ASSUME TasksCount, TasksAddUp, ServiceInv, AggsInv, ListedJobs, config \in Configs, [Next]_vars
  PROVE  AggsInv'
<1>1. CASE UNCHANGED vars
  <2>1. UNCHANGED <<g, config, taskState, removed>>
    BY <1>1 DEF vars, edsVars, flowVars, serviceVars
  <2> QED BY <2>1, AggsUnchanged DEF Done
<1>2. ASSUME NEW n, NEW said,
             TaskUpdated(n, said) \/ NodeUpdated(n, said) \/ AddNodeStats(n, said)
      PROVE  AggsInv'
  <2>1. UNCHANGED <<g, config, taskState, removed>>
    BY <1>2 DEF TaskUpdated, NodeUpdated, AddNodeStats, edsVars
  <2> QED BY <2>1, AggsUnchanged DEF Done
<1>3. ASSUME NEW t \in Tasks, TaskCompleted(t) \/ TaskFailed(t) \/ TaskRemoved(t)
      PROVE  AggsInv'
  BY <1>3, CompletionKeepsAggs, FailureKeepsAggs, RemovalKeepsAggs
<1>4. ASSUME NEW m \in Machines, NEW label, NodeAdded(m, label) \/ NodeRemoved(m, label)
      PROVE  AggsInv'
  BY <1>4, NodeAddedKeepsAggs, NodeRemovedKeepsAggs
<1>5. CASE Next
  <2>1. config.tasks \subseteq Tasks
    BY ConfigsAssumption
  <2>2. \/ \E t \in Tasks : \E request : TaskSubmitted(t, request)
        \/ \E n, said : TaskUpdated(n, said) \/ NodeUpdated(n, said) \/ AddNodeStats(n, said)
        \/ \E t \in Tasks : TaskCompleted(t) \/ TaskFailed(t) \/ TaskRemoved(t)
        \/ \E m \in Machines : \E label : NodeAdded(m, label) \/ NodeRemoved(m, label)
        \/ \E w, due : Schedule(w, due)
    BY <1>5, <2>1 DEF Next
  <2> QED BY <1>2, <1>3, <1>4, <2>2, SubmitKeepsAggs, ScheduleKeepsAggs
<1> QED BY <1>1, <1>5

(* ... and what the tables remember, and fails a CHECK only as explained. *)
LEMMA ServiceStepsPast ==
  ASSUME TasksCount, TasksAddUp, ServiceInv, ServiceInv', AggsInv, PastInv, OwnFailuresExplained,
         ListedJobs, config \in Configs, [Next]_vars
  PROVE  PastInv' /\ OwnFailuresExplained'
<1>1. CASE UNCHANGED vars
  <2>1. /\ UNCHANGED <<taskState, taskBinding, running, scheduledTo, g, removed>>
        /\ UNCHANGED <<resState, failedCheck, config>>
    BY <1>1 DEF vars, edsVars, flowVars
  <2>2. OwnFailuresExplained'
    BY <2>1 DEF OwnFailuresExplained, Registered, Gone
  <2> QED BY <2>1, <2>2, PastUnchanged
<1>2. ASSUME NEW n, NEW said, failedCheck = "none",
             TaskUpdated(n, said) \/ NodeUpdated(n, said) \/ AddNodeStats(n, said)
      PROVE  PastInv' /\ OwnFailuresExplained'
  <2>1. UNCHANGED <<taskState, taskBinding, running, scheduledTo, g, removed, failedCheck>>
    BY <1>2 DEF TaskUpdated, NodeUpdated, AddNodeStats, edsVars
  <2> QED BY <1>2, <2>1, PastUnchanged, OtherFailure DEF OwnChecks
<1>3. ASSUME NEW t \in Tasks, NEW request, failedCheck = "none", TaskSubmitted(t, request) \/ TaskRemoved(t)
      PROVE  PastInv' /\ OwnFailuresExplained'
  <2>1. failedCheck' = failedCheck
    BY <1>3 DEF TaskSubmitted, TaskRemoved, HandleTaskRemoval
  <2> QED BY <1>3, <2>1, SubmitKeepsPast, RemovalKeepsPast, OtherFailure DEF OwnChecks
<1>4. ASSUME NEW t \in Tasks, failedCheck = "none", TaskCompleted(t) \/ TaskFailed(t)
      PROVE  PastInv' /\ OwnFailuresExplained'
  BY <1>4, CompletionKeepsPast, FailureKeepsPast, CompletionExplained, FailureExplained
<1>5. ASSUME NEW m \in Machines, NEW label, failedCheck = "none", NodeAdded(m, label)
      PROVE  PastInv' /\ OwnFailuresExplained'
  <2>1. failedCheck' \in {"none", "AddMachine_inserted"}
    BY <1>5 DEF NodeAdded, RegisterResource, FlowFail, Fail
  <2> QED BY <1>5, <2>1, NodeAddedKeepsPast, OtherFailure DEF OwnChecks
<1>6. ASSUME NEW m \in Machines, NEW later, failedCheck = "none", NodeRemoved(m, later)
      PROVE  PastInv' /\ OwnFailuresExplained'
  BY <1>6, NodeRemovedKeepsPast, NodeRemovedExplained
<1>7. CASE Next
  <2>1. failedCheck = "none" /\ config.tasks \subseteq Tasks
    BY <1>7, ConfigsAssumption DEF Next, Alive
  <2>2. \/ \E t \in Tasks : \E request : TaskSubmitted(t, request) \/ TaskRemoved(t)
        \/ \E n, said : TaskUpdated(n, said) \/ NodeUpdated(n, said) \/ AddNodeStats(n, said)
        \/ \E t \in Tasks : TaskCompleted(t) \/ TaskFailed(t)
        \/ \E m \in Machines : \E label : NodeAdded(m, label) \/ NodeRemoved(m, label)
        \/ \E w, due : Schedule(w, due)
    BY <1>7, <2>1 DEF Next
  <2> QED BY <1>2, <1>3, <1>4, <1>5, <1>6, <2>1, <2>2, ScheduleKeepsPast, ScheduleExplained
<1> QED BY <1>1, <1>7

-----------------------------------------------------------------------------
(* Theorems. *)

(* The set of tasks is finite, so its subsets can be counted. *)
LEMMA TasksCanBeCounted == TasksCount
<1>1. ASSUME NEW S \in SUBSET Tasks
      PROVE  IsFiniteSet(S) /\ Cardinality(S) \in Nat /\ (Cardinality(S) = 0 <=> S = {})
  BY FS_Subset, FS_CardinalityType, FS_EmptySet, TasksFinite
<1>2. ASSUME NEW S \in SUBSET Tasks, NEW T \in SUBSET Tasks, S \subseteq T
      PROVE  Cardinality(S) <= Cardinality(T)
  BY <1>1, <1>2, FS_Subset
<1>3. ASSUME NEW S \in SUBSET Tasks, NEW t \in Tasks
      PROVE  /\ t \notin S => Cardinality(S \cup {t}) = Cardinality(S) + 1
             /\ t \in S => Cardinality(S \ {t}) = Cardinality(S) - 1
  BY <1>1, FS_AddElement, FS_RemoveElement
<1> QED BY <1>1, <1>2, <1>3 DEF TasksCount

(* There are fewer tasks than a counter can count. *)
LEMMA TasksCanBeAdded == TasksAddUp
<1>1. ASSUME NEW S \in SUBSET Tasks
      PROVE  IsFiniteSet(S) /\ Cardinality(S) \in Nat /\ Cardinality(S) <= Cardinality(Tasks)
  BY FS_Subset, FS_CardinalityType, TasksFinite
<1>2. ASSUME NEW S \in SUBSET Tasks, NEW T \in SUBSET Tasks, S \cap T = {}
      PROVE  Cardinality(S \cup T) = Cardinality(S) + Cardinality(T)
  <2>1. Cardinality(S \cup T) = Cardinality(S) + Cardinality(T) - Cardinality(S \cap T)
    BY <1>1, FS_Union
  <2>2. Cardinality(S \cap T) = 0
    BY <1>2, FS_EmptySet
  <2> QED BY <1>1, <2>1, <2>2, SMT
<1>3. ASSUME NEW S \in SUBSET Tasks PROVE Cardinality(S) < Word
  <2>1. /\ Cardinality(S) \in Nat /\ Cardinality(S) <= Cardinality(Tasks)
        /\ Cardinality(Tasks) \in Nat /\ Cardinality(Tasks) < Word
    BY <1>1, FS_CardinalityType, TasksFinite
  <2> QED BY <2>1, TopologyAssumption, SMT
<1> QED BY <1>2, <1>3 DEF TasksAddUp

(* ServiceInv is an invariant of the service, for any cost model. *)
THEOREM ServiceInvariant == Spec => []ServiceInv
<1> DEFINE Inv == ServiceInv /\ config \in Configs /\ ListedJobs
<1>1. Init => Inv
  BY ServiceStarts, TasksCanBeCounted
<1>2. Inv /\ [Next]_vars => Inv'
  BY ServiceSteps, BackgroundStays, TasksCanBeCounted, TasksCanBeAdded
<1>3. Inv => ServiceInv
  OBVIOUS
<1> QED BY <1>1, <1>2, <1>3, PTL DEF Spec

(***************************************************************************)
(* The aggregator of a job has room for every task of the job that may     *)
(* have to wait, and for no more tasks than the job has: whatever order    *)
(* the requests, evictions, migrations and placements come in, no change   *)
(* of its capacity (UpdateUnscheduledAggNode) is forgotten, made twice, or *)
(* wraps around.                                                           *)
(***************************************************************************)
THEOREM AggregatorsAlwaysCover == Spec => []AggregatorCapacityCovers
<1> DEFINE Inv == ServiceInv /\ AggsInv /\ config \in Configs /\ ListedJobs
<1>1. Init => Inv
  BY ServiceStarts, TasksCanBeCounted
<1>2. Inv /\ [Next]_vars => Inv'
  BY ServiceSteps, ServiceStepsAggs, BackgroundStays, TasksCanBeCounted, TasksCanBeAdded
<1>3. Inv => AggregatorCapacityCovers
  <2> SUFFICES ASSUME ServiceInv, AggsInv, NEW j \in g.aggs
               PROVE  LET open == {t \in Tasks : JobOf[t] = j /\ HasNode(g, t) /\
                                       (config.preemption \/ g.task[t] = "UNSCHEDULED")}
                      IN  /\ Cardinality(open) <= AggCapacity(g, j)
                          /\ AggCapacity(g, j) <= Cardinality({t \in Tasks : JobOf[t] = j})
                          /\ config.preemption => AggCapacity(g, j) = Cardinality(open)
    BY DEF AggregatorCapacityCovers, AggCapacity
  <2> DEFINE open == {t \in Tasks : JobOf[t] = j /\ HasNode(g, t) /\
                                    (config.preemption \/ g.task[t] = "UNSCHEDULED")}
             all == {t \in Tasks : JobOf[t] = j}
             ever == EverNodes(g, j, Done)
             pinned == PinnedNodes(g, j)
  <2>1. AggOK(g, j, config.preemption, Done)
    BY DEF AggsInv, AggsOK
  <2>2. /\ config.preemption => open = TaskNodes(g, j)
        /\ ~config.preemption => open = OpenNodes(g, j)
    BY DEF TaskNodes, OpenNodes, HasNode
  <2>3. /\ open \in SUBSET Tasks /\ all \in SUBSET Tasks /\ open \subseteq all
        /\ ever \in SUBSET Tasks /\ ever \subseteq all /\ pinned \in SUBSET Tasks
    BY DEF EverNodes, PinnedNodes
  <2> HIDE DEF open, all, ever, pinned
  <2>4. /\ Cardinality(open) \in Nat /\ Cardinality(all) \in Nat /\ Cardinality(open) <= Cardinality(all)
        /\ Cardinality(ever) \in Nat /\ Cardinality(ever) <= Cardinality(all)
        /\ Cardinality(pinned) \in Nat
    BY <2>3, TasksCanBeCounted DEF TasksCount
  <2>5. CASE config.preemption
    BY <2>1, <2>2, <2>4, <2>5, SMT DEF AggOK, open, all
  <2>6. CASE ~config.preemption
    <3>1. /\ AggCapacity(g, j) \in Nat /\ Cardinality(open) <= AggCapacity(g, j)
          /\ AggCapacity(g, j) + Cardinality(pinned) <= Cardinality(ever)
      BY <2>1, <2>2, <2>6 DEF AggOK, ever, pinned
    <3> QED BY <2>4, <2>6, <3>1, SMT DEF open, all
  <2> QED BY <2>5, <2>6
<1> QED BY <1>1, <1>2, <1>3, PTL DEF Spec

(***************************************************************************)
(* Under any cost model, a task that fails was bound to a registered PU    *)
(* and one that completes had its node (HandleTaskFailure, TaskCompleted); *)
(* a completion finds its PU gone only for a task that was evicted or had  *)
(* failed; a machine that leaves stops the process only if a task that was *)
(* removed is still bound below it; and without preemption, no arc of a    *)
(* round's deltas is in the way of another.                                *)
(***************************************************************************)
THEOREM OwnFailuresAlwaysExplained == Spec => []OwnFailuresExplained
<1> DEFINE Inv == /\ ServiceInv /\ AggsInv /\ PastInv /\ OwnFailuresExplained
                  /\ config \in Configs /\ ListedJobs
<1>1. Init => Inv
  BY ServiceStarts, TasksCanBeCounted
<1>2. Inv /\ [Next]_vars => Inv'
  <2> SUFFICES ASSUME Inv, [Next]_vars PROVE Inv'
    OBVIOUS
  <2>1. TasksCount /\ TasksAddUp
    BY TasksCanBeCounted, TasksCanBeAdded
  <2>2. ServiceInv' /\ AggsInv' /\ config' \in Configs /\ ListedJobs'
    BY <2>1, ServiceSteps, ServiceStepsAggs, BackgroundStays
  <2>3. PastInv' /\ OwnFailuresExplained'
    BY <2>1, <2>2, ServiceStepsPast
  <2> QED BY <2>2, <2>3
<1> QED BY <1>1, <1>2, PTL DEF Spec

(***************************************************************************)
(* In every reachable state of the service, the counters of tasks to       *)
(* complete and to remove match its tables (TaskSubmitted, TaskCompleted,  *)
(* TaskRemoved), whatever rounds and node failures do in between.          *)
(***************************************************************************)
THEOREM CountersAlwaysMatch == Spec => []CountersMatch
<1>1. ServiceInv => CountersMatch
  BY DEF ServiceInv
<1> QED BY <1>1, ServiceInvariant, PTL

(* A task's node is of the scheduled type exactly while the task runs, and  *)
(* its running arc leads to the PU it is bound to (TaskScheduled,          *)
(* TaskEvicted, TaskMigrated and the removal of tasks and machines).       *)
THEOREM TasksAlwaysPinnedIffRunning == Spec => []PinnedIffRunning
<1>1. ServiceInv => PinnedIffRunning
  BY DEF ServiceInv, PinnedIffRunning, TaskOK, GraphOK
<1> QED BY <1>1, ServiceInvariant, PTL

(* No PU's list of running tasks outgrows FLAGS_max_tasks_per_pu, and the   *)
(* PUs with a node in the graph are the registered ones.                   *)
THEOREM ListsAlwaysFit ==
  Spec => [](/\ \A p \in Resources : Cardinality(running[p]) <= MaxTasksPerPU
             /\ Leaves(g) = RegisteredPUs)
<1>1. ServiceInv => /\ \A p \in Resources : Cardinality(running[p]) <= MaxTasksPerPU
                    /\ Leaves(g) = RegisteredPUs
  BY DEF ServiceInv, TablesOK
<1> QED BY <1>1, ServiceInvariant, PTL

(***************************************************************************)
(* The flow scheduler behind the service implements Placement: a task runs *)
(* on one registered PU at most, no PU runs more than it has slots for,    *)
(* and only rounds start or move tasks.                                    *)
(***************************************************************************)
THEOREM ServicePlacesTasksSafely == Spec => PlacesTasksSafely
<1> DEFINE Inv == ServiceInv /\ config \in Configs /\ ListedJobs
           Map == <<[t \in Tasks |-> RunsOn(t)], RegisteredPUs,
                    removed \cup {t \in Tasks : taskState[t] = "COMPLETED"}>>
<1>1. Init => Inv /\ Abstract!Init
  BY ServiceStarts, TasksCanBeCounted
<1>2. Inv /\ [Next]_vars => Inv'
  BY ServiceSteps, BackgroundStays, TasksCanBeCounted, TasksCanBeAdded
<1>3. Inv /\ [Next]_vars => [Abstract!Next]_Map
  BY ServiceSteps, TasksCanBeCounted, TasksCanBeAdded DEF PlacementStep, Where, Over
<1> QED BY <1>1, <1>2, <1>3, PTL DEF Spec, PlacesTasksSafely, Abstract!Spec

=============================================================================
