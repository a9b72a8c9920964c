-------------------------- MODULE SchedulerService --------------------------
(***************************************************************************)
(* The gRPC scheduler service                                              *)
(* (src/scheduling/firmament_scheduler_service.cc) over the flow scheduler: *)
(* a cluster manager submits, completes, fails and removes tasks, adds and *)
(* removes nodes, reports statistics and asks for scheduling rounds.       *)
(*                                                                         *)
(* The handlers share tables that no lock protects; the service is usable  *)
(* only if its client sends one request at a time, so every request is one *)
(* step.  The service runs simulated executors: nothing happens to a task  *)
(* between two requests.                                                   *)
(*                                                                         *)
(* What a client is assumed to do: it submits a root before the other      *)
(* tasks of the job, never reuses a task id, completes a task that was     *)
(* placed at some time, once, fails a task that runs, and says nothing     *)
(* more of a task that it removed.                                         *)
(***************************************************************************)
EXTENDS FlowScheduler

CONSTANTS
  Configs          \* the settings of the flags, with what the clients send

(* Clients submit tasks. *)
ASSUME ConfigsAssumption == \A c \in Configs : c.tasks \subseteq Tasks

VARIABLES
  incomplete,      \* job_num_incomplete_tasks_
  toRemove,        \* job_num_tasks_to_remove_
  changes          \* requests so far about nodes, or updates of tasks

serviceVars == <<incomplete, toRemove, changes>>
vars == <<edsVars, flowVars, config, removed, times, serviceVars>>

Known(t) == taskState[t] # "ABSENT"
Up == g.res \cap Machines

Init ==
  /\ NothingSubmitted
  /\ resState = [r \in Resources |-> "ABSENT"]
  /\ config \in Configs
  /\ g = EmptyGraph
  /\ cm = InitialModel
  /\ jobsToSchedule = {}
  /\ info = [reports |-> [bin \in {Binary[t] : t \in Tasks} |-> "none"],
             request |-> [t \in Tasks |-> None], label |-> [m \in Machines |-> NoLabel],
             sample |-> [m \in Machines |-> None]]
  /\ incomplete = [j \in Jobs |-> 0]
  /\ toRemove = [j \in Jobs |-> 0]
  /\ removed = {}
  /\ times = None
  /\ changes = 0

-----------------------------------------------------------------------------

(* Mutant: only a job's first task puts the job on the list of jobs to schedule. *)
TaskSubmittedOnce(t, request) ==
  LET j == JobOf[t]
  IN  /\ ~Known(t) /\ t \notin removed
      /\ (jobState[j] = "ABSENT") <=> (Parent[t] = None)
      /\ taskState' = [taskState EXCEPT ![t] = "CREATED"]
      /\ jobState' = IF jobState[j] = "ABSENT" THEN [jobState EXCEPT ![j] = "CREATED"] ELSE jobState
      /\ jobsToSchedule' = IF Parent[t] = None THEN jobsToSchedule \cup {j} ELSE jobsToSchedule
      /\ incomplete' = [incomplete EXCEPT ![j] = @ + 1]
      /\ toRemove' = [toRemove EXCEPT ![j] = @ + 1]
      /\ info' = [info EXCEPT !.request[t] = request]
      /\ UNCHANGED <<producing, runnable, bindingVars, failedCheck, g, cm, config, removed, changes>>

(* TaskSubmitted: the first task of a job is its root; later ones are       *)
(* appended to the root's spawned list.                                    *)
TaskSubmitted(t, request) ==
  LET j == JobOf[t]
  IN  /\ ~Known(t) /\ t \notin removed
      /\ (jobState[j] = "ABSENT") <=> (Parent[t] = None)
      /\ taskState' = [taskState EXCEPT ![t] = "CREATED"]
      /\ jobState' = IF jobState[j] = "ABSENT" THEN [jobState EXCEPT ![j] = "CREATED"] ELSE jobState
      /\ jobsToSchedule' = IF incomplete[j] = 0 THEN jobsToSchedule \cup {j} ELSE jobsToSchedule
      /\ incomplete' = [incomplete EXCEPT ![j] = @ + 1]
      /\ toRemove' = [toRemove EXCEPT ![j] = @ + 1]
      /\ info' = [info EXCEPT !.request[t] = request]
      /\ UNCHANGED <<producing, runnable, bindingVars, failedCheck, g, cm, config, removed, changes>>

(* TaskUpdated *)
TaskUpdated(t, request) ==
  /\ Known(t) /\ t \notin removed /\ changes < config.changes
  /\ request # info.request[t]
  /\ info' = [info EXCEPT !.request[t] = request]
  /\ changes' = changes + 1
  /\ UNCHANGED <<edsVars, g, cm, jobsToSchedule, config, removed, incomplete, toRemove>>

(* TaskCompleted *)
TaskCompleted(t) ==
  LET j == JobOf[t]
      last == incomplete[j] = 1
  IN  /\ Known(t) /\ t \notin removed
      /\ scheduledTo[t] # None
      /\ taskState[t] \in {"RUNNING", "RUNNABLE", "FAILED"}
      /\ HandleTaskCompletionAndReport(t, last)
      /\ incomplete' = IF failedCheck' # "none" THEN incomplete ELSE [incomplete EXCEPT ![j] = @ - 1]
      /\ UNCHANGED <<config, toRemove, removed, changes>>

(* TaskFailed *)
TaskFailed(t) ==
  /\ taskState[t] = "RUNNING"
  /\ FlowHandleTaskFailure(t)
  /\ UNCHANGED <<config, removed, serviceVars>>

(* Mutant: a removal always counts as a completion too. *)
TaskRemovedCountsAsCompletion(t) ==
  LET j == JobOf[t]
      last == toRemove[j] = 1
      aborted == [taskState EXCEPT ![t] = "ABORTED"]
  IN  /\ Known(t) /\ t \notin removed
      /\ HandleTaskRemoval(t, last /\ incomplete[j] > 0,
           [u \in Tasks |-> IF last /\ JobOf[u] = j THEN "ABSENT" ELSE aborted[u]],
           IF last THEN [jobState EXCEPT ![j] = "ABSENT"] ELSE jobState)
      /\ toRemove' = [toRemove EXCEPT ![j] = @ - 1]
      /\ incomplete' = [incomplete EXCEPT ![j] = @ - 1]
      /\ removed' = removed \cup {t}
      /\ UNCHANGED <<config, changes>>

(***************************************************************************)
(* TaskRemoved: with the last task of a job, the job goes: HandleJobRemoval *)
(* if it had not completed, then its entries in the tables.                *)
(***************************************************************************)
TaskRemoved(t) ==
  LET j == JobOf[t]
      last == toRemove[j] = 1
      aborted == [taskState EXCEPT ![t] = "ABORTED"]
  IN  /\ Known(t) /\ t \notin removed
      /\ HandleTaskRemoval(t, last /\ incomplete[j] > 0,
           [u \in Tasks |-> IF last /\ JobOf[u] = j THEN "ABSENT" ELSE aborted[u]],
           IF last THEN [jobState EXCEPT ![j] = "ABSENT"] ELSE jobState)
      /\ toRemove' = [toRemove EXCEPT ![j] = @ - 1]
      /\ incomplete' = IF last THEN [incomplete EXCEPT ![j] = 0] ELSE incomplete
      /\ removed' = removed \cup {t}
      /\ UNCHANGED <<config, changes>>

(* NodeAdded: a node that exists already is refused. *)
NodeAdded(m, label) ==
  /\ m \notin Up /\ changes < config.changes
  /\ RegisterResource(m, None)
  /\ info' = IF failedCheck' = "none" THEN [info EXCEPT !.label[m] = label] ELSE info
  /\ changes' = changes + 1
  /\ UNCHANGED <<config, incomplete, toRemove, removed>>

(* NodeRemoved and NodeFailed *)
NodeRemoved(m, later) ==
  /\ m \in Up /\ changes < config.changes
  /\ DeregisterResource(m, later)
  /\ changes' = changes + 1
  /\ UNCHANGED <<info, config, incomplete, toRemove, removed>>

(* NodeUpdated replaces a node's labels. *)
NodeUpdated(m, label) ==
  /\ m \in Up /\ label # info.label[m] /\ changes < config.changes
  /\ info' = [info EXCEPT !.label[m] = label]
  /\ changes' = changes + 1
  /\ UNCHANGED <<edsVars, g, cm, jobsToSchedule, config, removed, incomplete, toRemove>>

(* AddNodeStats *)
AddNodeStats(m, sample) ==
  /\ m \in Up /\ sample # info.sample[m] /\ changes < config.changes
  /\ info' = [info EXCEPT !.sample[m] = sample]
  /\ changes' = changes + 1
  /\ UNCHANGED <<edsVars, g, cm, jobsToSchedule, config, removed, incomplete, toRemove>>

(* Schedule *)
Schedule(w, due) == ScheduleAllJobs(w, due) /\ UNCHANGED <<config, removed, serviceVars>>

Next ==
  /\ Alive /\ UNCHANGED times
  /\ \/ \E t \in config.tasks, request \in config.requests : TaskSubmitted(t, request)
     \/ \E t \in config.tasks, request \in config.requests : TaskUpdated(t, request)
     \/ \E t \in Tasks : TaskCompleted(t)
     \/ \E t \in Tasks : TaskFailed(t)
     \/ \E t \in Tasks : TaskRemoved(t)
     \/ \E m \in Machines, label \in config.labels : NodeAdded(m, label)
     \/ \E m \in Machines : \E later \in RemoveMachineChoices(Now, cm, m) : NodeRemoved(m, later)
     \/ \E m \in Machines, label \in config.labels : NodeUpdated(m, label)
     \/ \E m \in Machines, sample \in config.samples : AddNodeStats(m, sample)
     \/ \E w \in RoundChoices, due \in config.due : Schedule(w, due)

Spec == Init /\ [][Next]_vars

-----------------------------------------------------------------------------
(* Properties *)

(* Every table holds values of its type: the maps of EventDrivenScheduler,  *)
(* the flow graph and the service's counters.                              *)
TypeOK ==
  /\ EdsTypeOK
  /\ g.task \in [Tasks -> {"none", "UNSCHEDULED", "SCHEDULED"}]
  /\ g.running \in [Tasks -> Resources \cup {None}]
  /\ g.aggs \subseteq Jobs /\ g.res \subseteq Res /\ Root \in g.res
  /\ \A r \in Res : g.slots[r] \in 0..(Word - 1) /\ g.below[r] \in 0..(Word - 1)
  /\ jobsToSchedule \subseteq Jobs
  /\ incomplete \in [Jobs -> Nat] /\ toRemove \in [Jobs -> Nat]

RunsOn(t) == IF taskState[t] = "RUNNING" THEN taskBinding[t] ELSE None

(* The service implements Placement: placements, evictions and removals by  *)
(* all of its handlers and rounds are steps that Placement allows.         *)
Abstract ==
  INSTANCE Placement WITH
    Task <- Tasks, PU <- Resources, Slots <- MaxTasksPerPU, Nowhere <- None,
    where <- [t \in Tasks |-> RunsOn(t)], up <- RegisteredPUs,
    over <- removed \cup {t \in Tasks : taskState[t] = "COMPLETED"}

PlacesTasksSafely == Abstract!Spec

(***************************************************************************)
(* The checks of the scheduler's own tables, whatever the cost model: two  *)
(* never fail, and the others for these causes only.  A task that was      *)
(* removed while it ran keeps its binding (KillRunningTask does not reach  *)
(* its branch that unbinds it), and the PU's node must not leave then; a   *)
(* task that was evicted or failed may complete late only if its PU is     *)
(* there; and only preemption leaves arcs that clash with a running arc.   *)
(***************************************************************************)
OwnFailuresExplained ==
  /\ failedCheck \notin {"HandleTaskFailure_binding", "TaskCompleted_task_node"}
  /\ failedCheck = "HandleTaskCompletion_scheduled_to" =>
       \E t \in Tasks : /\ taskState[t] \in {"RUNNABLE", "FAILED"} /\ taskBinding[t] = None
                        /\ scheduledTo[t] # None /\ ~Registered(scheduledTo[t])
  /\ failedCheck = "HandleTasksFromDeregisteredResource_td" =>
       \E t \in Gone : taskBinding[t] # None
  /\ failedCheck = "TaskEvicted_task_node" =>
       config.reschedule /\ \E t \in removed \ Gone : taskBinding[t] # None
  /\ failedCheck = "UpdateArcsForScheduledTask_arc" => config.preemption

(***************************************************************************)
(* The process ends only for these causes and those that a cost model has: *)
(* the network model never forgets a machine that left; trivial and random *)
(* need a PU; CoCo looks up tasks in stale lists of running tasks; and     *)
(* trivial's preference arcs clash with running arcs under preemption.     *)
(***************************************************************************)
FailuresExplained ==
  /\ OwnFailuresExplained
  /\ CASE failedCheck \in {"none", "HandleTaskCompletion_scheduled_to", "TaskEvicted_task_node",
                           "HandleTasksFromDeregisteredResource_td"} -> TRUE
       [] failedCheck = "AddMachine_inserted" -> config.model = "net" /\ cm.machines \ Up # {}
       [] failedCheck = "CostModel_arcs" ->
            \/ config.model \in {"trivial", "random"} /\ Up = {}
            \/ config.model = "net" /\ cm.machines \ Up # {}
       [] failedCheck = "GatherStats_task" ->
            config.model = "coco" /\ \E t \in Gone, p \in Resources : t \in running[p]
       [] failedCheck = "UpdateArcsForScheduledTask_arc" -> config.model = "trivial"
       [] OTHER -> FALSE

(* The capacity from a job's unscheduled aggregator to the sink lets every  *)
(* task wait that is not pinned to a PU, so that the solver always finds a *)
(* flow; with preemption it is the number of the job's task nodes exactly. *)
(* It never wraps around below zero.                                       *)
AggregatorCapacityCovers ==
  \A j \in g.aggs :
    LET cap  == IF AggArc(j) \in DOMAIN g.arcs THEN g.arcs[AggArc(j)].cap ELSE 0
        open == {t \in Tasks : JobOf[t] = j /\ HasNode(g, t) /\
                                (config.preemption \/ g.task[t] = "UNSCHEDULED")}
    IN  /\ Cardinality(open) <= cap /\ cap <= Cardinality({t \in Tasks : JobOf[t] = j})
        /\ config.preemption => cap = Cardinality(open)

(* The graph's view of a task agrees with its descriptor: its node is of    *)
(* the scheduled type exactly while the task runs, and then its running    *)
(* arc leads to the PU it is bound to.                                     *)
PinnedIffRunning ==
  \A t \in Tasks :
    /\ g.task[t] = "SCHEDULED" <=> taskState[t] = "RUNNING"
    /\ g.running[t] = RunsOn(t)
    /\ g.running[t] # None => <<t, g.running[t]>> \in DOMAIN g.arcs

(* Whatever joins or leaves, both ends of every arc are nodes of the graph, *)
(* the PUs with a node are the registered ones, and a model that lists     *)
(* machines lists those with a node.                                       *)
NoDanglingArcs ==
  /\ \A arc \in DOMAIN g.arcs : \A n \in {arc[1], arc[2]} :
       \/ n = Sink \/ n \in g.res \/ n \in g.aggs \/ n \in g.ecs
       \/ n \in Tasks /\ HasNode(g, n)
  /\ Leaves(g) = RegisteredPUs
  /\ config.model \notin {"net", "interference", "coco"} => cm.machines = Up

(* The service's counters: a job has as many tasks to remove as the table   *)
(* has tasks that were not removed, and is known exactly as long; tasks    *)
(* that can still complete are counted as incomplete; and the scheduler    *)
(* considers the job as long as the count is not zero.                     *)
CountersMatch ==
  \A j \in Jobs :
    LET left == {t \in Tasks : JobOf[t] = j /\ Known(t) /\ t \notin removed}
    IN  /\ toRemove[j] = Cardinality(left)
        /\ jobState[j] = "ABSENT" <=> toRemove[j] = 0
        /\ incomplete[j] >= Cardinality({t \in left : taskState[t] # "COMPLETED"})
        /\ j \in jobsToSchedule <=> incomplete[j] > 0

(* The list of running tasks of a PU, which is rebuilt in every round, is   *)
(* never longer than the PU has slots: the free slots that the cost models *)
(* compute from it in unsigned arithmetic never wrap around.               *)
FreeSlotsNeverWrap ==
  /\ \A p \in Resources : Cardinality(running[p]) <= MaxTasksPerPU
  /\ \A r \in g.res \ {Root} : g.below[r] <= g.slots[r]

(* Only rounds and failures of tasks leave the following unchanged. *)
RoundStep ==
  /\ UNCHANGED <<serviceVars, removed, info>>
  /\ failedCheck' = "none"
  /\ \A t \in Tasks : taskState'[t] = "FAILED" => taskState[t] = "FAILED"

(* Under a cost model in which running is always cheaper than waiting, a    *)
(* round with a runnable task and a PU whose list of running tasks is      *)
(* empty starts a task, even if GetMappings loses some of the solver's     *)
(* placements.                                                             *)
RoundMakesProgress ==
  [][RoundStep /\ config.model \in {"octopus", "trivial", "wharemap"} =>
       \/ \A j \in jobsToSchedule : runnable'[j] \cap {t \in Tasks : taskState'[t] = "RUNNABLE"} = {}
       \/ \A p \in RegisteredPUs : running[p] # {}
       \/ \E t \in Tasks : taskState[t] # "RUNNING" /\ taskState'[t] = "RUNNING"]_vars

=============================================================================
