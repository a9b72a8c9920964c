---------------------------- MODULE FlowScheduler ----------------------------
(***************************************************************************)
(* FlowScheduler (src/scheduling/flow/flow_scheduler.cc): the scheduler    *)
(* that places tasks by solving a minimum-cost flow problem.  It inherits  *)
(* bindings, task states and runnable sets from EventDrivenScheduler and   *)
(* keeps the flow graph and the cost model in step with them.              *)
(*                                                                         *)
(* Every handler holds the recursive scheduling_lock_ from beginning to    *)
(* end, so each is one step.  The round is split into operators that a     *)
(* caller may use in one step (the service) or in two, with other events   *)
(* while the solver runs (the simulator).                                  *)
(***************************************************************************)
EXTENDS FlowGraphManager, FlowSolver

VARIABLES
  g,               \* flow_graph_manager_ (see FlowGraphManager)
  cm,              \* the state of cost_model_ (see CostModel)
  jobsToSchedule,  \* jobs_to_schedule_
  info,            \* the knowledge base, and what clients said of tasks and machines
  removed,         \* the tasks that were removed
  times,           \* simulated time and the times of tasks (see Simulator)
  config           \* the command line flags of this process

flowVars == <<g, cm, jobsToSchedule, info>>

(* Descriptors that are no longer in task_map_: a removed task is kept only *)
(* if it is the root of a job that is still there.                         *)
Gone == {t \in removed : Parent[t] # None \/ taskState[t] = "ABSENT"}

(* PUs that were never picked, for calls outside a round *)
NoChoice == [pick |-> [t \in Tasks |-> None], pickClass |-> None, dice |-> "low", wait |-> 0]

(* What a cost model sees of graph gr and of its own state c, with the      *)
(* choices w of the round.                                                 *)
View(gr, c, w) ==
  [model |-> config.model, preemption |-> config.preemption, cm |-> c,
   leaves |-> Leaves(gr), slots |-> gr.slots, below |-> gr.below, up |-> gr.res \cap Machines,
   lists |-> running, known |-> {t \in Tasks \ Gone : taskState[t] # "ABSENT"},
   reports |-> info.reports, request |-> info.request, label |-> info.label,
   sample |-> info.sample, times |-> times, where |-> scheduledTo,
   pspi |-> config.pspi, pick |-> w.pick, pickClass |-> w.pickClass, dice |-> w.dice, wait |-> w.wait]

Now == View(g, cm, NoChoice)

FlowFail(check) == Fail(check) /\ UNCHANGED flowVars

(* Mutant: tasks that went away stay in the PUs' lists of running tasks. *)
RebindKeepingLists(out, into, lists) ==
  LET to(r) == {t \in DOMAIN into : into[t] = r}
  IN  /\ taskBinding' = [t \in Tasks |-> IF t \in DOMAIN into THEN into[t]
                                         ELSE IF t \in out THEN None ELSE taskBinding[t]]
      /\ resBindings' = (resBindings \ {<<taskBinding[t], t>> : t \in out})
                        \cup {<<into[t], t>> : t \in DOMAIN into}
      /\ running' = [r \in Resources |-> running[r] \cup to(r)]
      /\ resState' = [r \in Resources |-> IF to(r) # {} THEN "BUSY" ELSE resState[r]]

(***************************************************************************)
(* UnbindTaskFromResource for the tasks in out, and BindTaskToResource for *)
(* those in the domain of into, where lists are the running tasks of the   *)
(* PUs when the first of them is called.                                   *)
(***************************************************************************)
Rebind(out, into, lists) ==
  LET to(r) == {t \in DOMAIN into : into[t] = r}
      from(r) == {t \in out : taskBinding[t] = r}
  IN  /\ taskBinding' = [t \in Tasks |-> IF t \in DOMAIN into THEN into[t]
                                         ELSE IF t \in out THEN None ELSE taskBinding[t]]
      /\ resBindings' = (resBindings \ {<<taskBinding[t], t>> : t \in out})
                        \cup {<<into[t], t>> : t \in DOMAIN into}
      /\ running' = [r \in Resources |-> lists[r] \cup to(r)]
      /\ resState' = [r \in Resources |->
                        IF to(r) # {} THEN "BUSY"
                        ELSE IF from(r) # {} /\ lists[r] = {} THEN "IDLE" ELSE resState[r]]

-----------------------------------------------------------------------------
(* Machines *)

(* RegisterResource *)
RegisterResource(m, rack) ==
  IF AddMachineFails(Now, cm, m, rack) THEN FlowFail("AddMachine_inserted")
  ELSE /\ g' = AddResourceTopology(g, Now, m)
       /\ cm' = AddMachine(Now, cm, m, rack)
       /\ resState' = [r \in Resources |-> IF r \in Below(m) THEN "IDLE" ELSE resState[r]]
       /\ UNCHANGED <<taskState, jobState, producing, runnable, taskBinding, resBindings,
                      running, scheduledTo, failedCheck, jobsToSchedule>>

(* The cost model after RemoveTask for all of S *)
ForgetAll(x, c, S) == FoldSet(LAMBDA t, acc : RemoveTask(x, acc, t), c, S)

(***************************************************************************)
(* DeregisterResource: the tasks bound below m are evicted or failed, then *)
(* the nodes, executors and bindings of the subtree go.  A victim whose    *)
(* descriptor is no longer in task_map_ is a NULL pointer to the handler.  *)
(***************************************************************************)
DeregisterResource(m, later) ==
  LET victims == {t \in Tasks : \E r \in Below(m) : <<r, t>> \in resBindings}
      g1 == IF config.reschedule THEN TaskEvicted(g, Now, victims)
            ELSE RemoveTaskHelper(g, Now, victims)
      c1 == IF config.reschedule THEN cm
            ELSE ForgetAll(Now, cm, {t \in victims : HasNode(g, t)})
  IN  CASE victims \cap Gone # {} -> FlowFail("HandleTasksFromDeregisteredResource_td")
        [] /\ victims \cap Gone = {} /\ config.reschedule
           /\ \E t \in victims : TaskEvictedFails(g, Now, t) -> FlowFail("TaskEvicted_task_node")
        [] RemoveMachineFails(Now, cm, m) -> FlowFail("RemoveMachine_erased")
        [] OTHER ->
             /\ g' = RemoveResourceTopology(g1, m)
             /\ cm' = RemoveMachine(Now, c1, m, later)
             /\ taskBinding' = [t \in Tasks |-> IF t \in victims THEN None ELSE taskBinding[t]]
             /\ resBindings' = {b \in resBindings : b[1] \notin Below(m)}
             /\ resState' = [r \in Resources |-> IF r \in Below(m) THEN "ABSENT" ELSE resState[r]]
             /\ running' = [r \in Resources |-> IF r \in Below(m) THEN {} ELSE running[r]]
             /\ taskState' = [t \in Tasks |-> IF t \notin victims THEN taskState[t]
                                ELSE IF config.reschedule THEN "RUNNABLE" ELSE "FAILED"]
             /\ runnable' = [j \in Jobs |-> IF config.reschedule
                               THEN runnable[j] \cup {t \in victims : JobOf[t] = j} ELSE runnable[j]]
             /\ UNCHANGED <<jobState, producing, scheduledTo, failedCheck, jobsToSchedule>>

-----------------------------------------------------------------------------
(* Tasks and jobs *)

(***************************************************************************)
(* HandleTaskCompletion, then HandleTaskFinalReport, then, for the last    *)
(* task of its job, HandleJobCompletion.  A task without a binding was     *)
(* evicted or failed before the notification came.                         *)
(***************************************************************************)
HandleTaskCompletionAndReport(t, last) ==
  LET j == JobOf[t]
      inGraph == taskState[t] \notin {"FAILED", "ABORTED"}
      where == IF taskBinding[t] # None THEN taskBinding[t] ELSE scheduledTo[t]
      g1 == IF inGraph THEN RemoveTaskNode(g, Now, {t}) ELSE g
  IN  CASE ~Registered(where) -> FlowFail("HandleTaskCompletion_scheduled_to")
        [] inGraph /\ TaskCompletedFails(g, Now, t) -> FlowFail("TaskCompleted_task_node")
        [] NoTaskClasses(Now) -> FlowFail("HandleTaskFinalReport_equiv_classes")
        [] OTHER ->
             /\ Rebind(IF taskBinding[t] # None THEN {t} ELSE {}, <<>>, running)
             /\ taskState' = [taskState EXCEPT ![t] = "COMPLETED"]
             /\ info' = [info EXCEPT !.reports[Binary[t]] =
                           IF config.pspi = 0 THEN "noInstructions" ELSE "instructions"]
             /\ cm' = TaskReported(Now, cm, t, where)
             /\ g' = IF last THEN RemoveUnscheduledAggNode(g1, j) ELSE g1
             /\ jobState' = IF last THEN [jobState EXCEPT ![j] = "COMPLETED"] ELSE jobState
             /\ runnable' = IF last THEN [runnable EXCEPT ![j] = {}] ELSE runnable
             /\ jobsToSchedule' = IF last THEN jobsToSchedule \ {j} ELSE jobsToSchedule
             /\ UNCHANGED <<producing, scheduledTo, failedCheck>>

(* HandleTaskFailure *)
FlowHandleTaskFailure(t) ==
  IF ~Registered(taskBinding[t]) THEN FlowFail("HandleTaskFailure_binding")
  ELSE /\ Rebind({t}, <<>>, running)
       /\ taskState' = [taskState EXCEPT ![t] = "FAILED"]
       /\ g' = RemoveTaskHelper(g, Now, {t})
       /\ cm' = IF HasNode(g, t) THEN RemoveTask(Now, cm, t) ELSE cm
       /\ UNCHANGED <<jobState, producing, runnable, scheduledTo, failedCheck, jobsToSchedule, info>>

(***************************************************************************)
(* HandleTaskRemoval, and HandleJobRemoval for the job if removeJob.  The  *)
(* task leaves the graph and becomes ABORTED.  A running task gets a kill  *)
(* message; its binding stays, because the branch of KillRunningTask that  *)
(* would drop it is never taken.  What the caller then erases from the     *)
(* task and job tables is in st and js.                                    *)
(***************************************************************************)
HandleTaskRemoval(t, removeJob, st, js) ==
  LET j == JobOf[t]
      g1 == RemoveTaskHelper(g, Now, {t})
  IN  /\ taskState' = st
      /\ jobState' = js
      /\ g' = IF removeJob THEN RemoveUnscheduledAggNode(g1, j) ELSE g1
      /\ cm' = IF HasNode(g, t) THEN RemoveTask(Now, cm, t) ELSE cm
      /\ runnable' = [runnable EXCEPT ![j] = IF removeJob THEN {} ELSE
                                             IF taskState[t] = "RUNNABLE" THEN @ \ {t} ELSE @]
      /\ jobsToSchedule' = IF removeJob THEN jobsToSchedule \ {j} ELSE jobsToSchedule
      /\ UNCHANGED <<producing, bindingVars, failedCheck, info>>

-----------------------------------------------------------------------------
(* A scheduling round *)

(* ComputeRunnableTasksForJob for the jobs to schedule.  There is no object *)
(* store here, so that a job's reduction concerns that job alone.          *)
BecomingRunnable(jobs) ==
  UNION {NewlyRunnable(taskState, Reduction(taskState, producing, j)) : j \in jobs}

StatesForRound(newly) == [t \in Tasks |-> IF t \in newly THEN "RUNNABLE" ELSE taskState[t]]
ReadyForRound(newly) == [j \in Jobs |-> runnable[j] \cup {t \in newly : JobOf[t] = j}]

(* The cost model's AddTask for each new task *)
TasksAdded(x, added) == FoldSet(LAMBDA t, acc : AddTask(x, acc, t), x.cm, added)

(* The classes that the model hands out to waiting tasks *)
ModelForJobs(gr, c, w, waiting) == ClassesSeen(View(gr, c, w), c, waiting)

(* AddOrUpdateJobNodes where the cost model sees x0 before it knows of the  *)
(* new tasks and x then: graph and model afterwards, and the CHECK that    *)
(* fails on the way.                                                       *)
JobNodesSeenBy(x0, x, gr, jobs, st) ==
  LET Failed(check) == [g |-> gr, cm |-> x0.cm, check |-> check]
  IN  CASE \E t \in TasksToAdd(gr, jobs, st) : AddTaskFails(x0, x0.cm, t) -> Failed("AddTask_inserted")
        [] CostModelFails(x, WaitingTasks(gr, jobs, st)) -> Failed("CostModel_arcs")
        [] ContinuationFails(x, PlacedTasks(jobs, st))   -> Failed("TaskContinuation_start_time")
        [] AddOrUpdateJobNodesFails(gr, x, jobs, st)     -> Failed("UpdateFlowGraph_node")
        [] OTHER -> [g |-> AddOrUpdateJobNodes(gr, x, jobs, st), cm |-> x.cm, check |-> "none"]

(* AddOrUpdateJobNodes on graph gr and cost model c *)
JobNodes(gr, c, w, jobs, st) ==
  LET x0 == View(gr, c, w)
      c1 == TasksAdded(x0, TasksToAdd(gr, jobs, st))
  IN  JobNodesSeenBy(x0, View(gr, ModelForJobs(gr, c1, w, WaitingTasks(gr, jobs, st)), w), gr, jobs, st)

ActiveJobs == {j \in Jobs : jobState[j] \in {"CREATED", "RUNNING"}}

(* The flag --purge_unconnected_ec_frequency, reduced to every round or none *)
Purged(n) == IF config.purge THEN [n EXCEPT !.g = PurgeUnconnectedEquivClassNodes(@)] ELSE n

(* RunSchedulingIteration up to the solver: the nodes of all active jobs if *)
(* time-dependent costs are due, then the purge of unconnected classes.    *)
BeforeSolver(n, w, due, st) ==
  Purged(IF due /\ n.check = "none" THEN JobNodes(n.g, n.cm, w, ActiveJobs, st) ELSE n)

(* The solver's dispatcher has the costs of staying unscheduled updated. *)
UnscheduledCostsUpdated(n, w, st) ==
  IF n.check # "none" THEN n
  ELSE [n EXCEPT !.g = UpdateAllCostsToUnscheduledAggs(@, View(@, n.cm, w), st)]

(***************************************************************************)
(* ScheduleJobs up to the solver, which updates the costs of staying       *)
(* unscheduled before it runs: statistics, the nodes of the jobs with      *)
(* runnable tasks, and what RunSchedulingIteration adds.                   *)
(***************************************************************************)
Prepared(w, due, jobs, st) ==
  LET g1 == ComputeTopologyStatistics(g, Now)
      c1 == GatheredModel(View(g1, cm, w), cm)
  IN  IF GatherStatsFails(View(g1, cm, w)) THEN [g |-> g, cm |-> cm, check |-> "GatherStats_task"]
      ELSE UnscheduledCostsUpdated(BeforeSolver(JobNodes(g1, c1, w, jobs, st), w, due, st), w, st)

(* The mappings the solver may return for graph gr *)
RunSolver(gr) == SolverMappings(gr.arcs, {t \in Tasks : HasNode(gr, t)})

(* Mutant: placements are applied whatever happened while the solver ran. *)
StillValidAlways(mapping, completed, removedPUs) == mapping

(* What RunSchedulingIteration keeps of a mapping, given the tasks that      *)
(* completed and the PUs that were removed while the solver ran            *)
StillValid(mapping, completed, removedPUs) ==
  [t \in {u \in DOMAIN mapping : u \notin completed /\ mapping[u] \notin removedPUs} |-> mapping[t]]

RegisteredPUs == {r \in Resources : Registered(r)}

(***************************************************************************)
(* The rest of RunSchedulingIteration, on graph gr: deltas for preempted   *)
(* tasks, which also empties the lists of running tasks; deltas for the    *)
(* part m of the mapping that is still valid; ApplySchedulingDeltas.  The  *)
(* round works with task states st and runnable sets ready.                *)
(***************************************************************************)
ApplySchedulingDeltas(gr, c, w, mapping, m, st, ready) ==
  LET preempted == PreemptedTasks(gr, mapping, running, RegisteredPUs)
      evicted   == {d[2] : d \in preempted}
      placed    == PlacedBy(m, taskBinding)
      migrated  == MigratedBy(m, taskBinding)
      into      == [t \in DOMAIN placed \cup DOMAIN migrated |-> m[t]]
      where     == [t \in Tasks |-> IF t \in DOMAIN into THEN m[t] ELSE scheduledTo[t]]
      x         == [View(gr, c, w) EXCEPT !.where = where]
      lists     == [r \in Resources |-> StayedOn(m, taskBinding, r)]
      g1        == TaskEvicted(gr, x, evicted)
      g2        == TaskMigrated(g1, x, migrated)
      failing   == \/ \E t \in DOMAIN placed : TaskScheduledFails(g2, x, t, m[t])
                   \/ \E t \in DOMAIN migrated :
                        TaskEvictedFails(g1, x, t) \/ TaskScheduledFails(TaskEvicted(g1, x, {t}), x, t, m[t])
  IN  CASE \E t \in evicted : TaskEvictedFails(gr, x, t) \/ taskBinding[t] = None ->
             Fail("TaskEvicted_task_node") /\ UNCHANGED <<g, cm>>
        [] failing -> Fail("UpdateArcsForScheduledTask_arc") /\ UNCHANGED <<g, cm>>
        [] ContinuationFails(x, DOMAIN into) ->
             Fail("TaskContinuation_start_time") /\ UNCHANGED <<g, cm>>
        [] OTHER ->
             /\ Rebind(evicted \cup DOMAIN migrated, into, lists)
             /\ g' = TaskScheduled(g2, x, placed)
             /\ cm' = TasksPlaced(x, c, DOMAIN into)
             /\ taskState' = [t \in Tasks |-> IF t \in DOMAIN into THEN "RUNNING"
                                              ELSE IF t \in evicted THEN "RUNNABLE" ELSE st[t]]
             /\ runnable' = [j \in Jobs |-> (ready[j] \cup {t \in evicted : JobOf[t] = j})
                                            \ DOMAIN placed]
             /\ scheduledTo' = where
             /\ jobState' = [j \in Jobs |-> IF \E t \in DOMAIN placed : JobOf[t] = j
                                            THEN "RUNNING" ELSE jobState[j]]
             /\ UNCHANGED <<producing, failedCheck>>

(* The picks that chance and time may make for a round *)
RoundChoices ==
  LET pus == IF Leaves(g) = {} THEN {None} ELSE Leaves(g)
  IN  [pick : IF config.model = "trivial" THEN [Tasks -> pus] ELSE {NoChoice.pick},
       pickClass : IF config.model = "random" THEN pus ELSE {None},
       dice : IF config.model = "random" THEN {"low", "high"} ELSE {"low"},
       wait : config.waits]

(* RunSchedulingIteration from the solver on, for what Prepared made *)
RunSchedulingIteration(p, w, st, ready) ==
  LET found == RunSolver(p.g)
  IN  CASE p.check # "none" -> Fail(p.check) /\ UNCHANGED <<g, cm>>
        [] p.check = "none" /\ found = {} -> Fail("Solver_exit_status") /\ UNCHANGED <<g, cm>>
        [] OTHER -> \E mapping \in found :
             ApplySchedulingDeltas(p.g, p.cm, w, mapping, StillValid(mapping, {}, {}), st, ready)

(* ScheduleAllJobs, with nothing happening while the solver runs *)
ScheduleAllJobs(w, due) ==
  LET newly == BecomingRunnable(jobsToSchedule)
      st    == StatesForRound(newly)
      ready == ReadyForRound(newly)
      jobs  == {j \in jobsToSchedule : ready[j] # {}}
  IN  /\ UNCHANGED <<jobsToSchedule, info>>
      /\ IF jobs = {}
         THEN /\ taskState' = st
              /\ runnable' = ready
              /\ UNCHANGED <<jobState, producing, bindingVars, failedCheck, g, cm>>
         ELSE RunSchedulingIteration(Prepared(w, due, jobs, st), w, st, ready)

=============================================================================
