------------------------ MODULE EventDrivenScheduler ------------------------
(***************************************************************************)
(* The state that EventDrivenScheduler keeps about tasks, jobs and         *)
(* resources (src/scheduling/event_driven_scheduler.{h,cc}) and the        *)
(* handlers that its subclasses inherit.                                   *)
(*                                                                         *)
(* Every handler runs under the recursive scheduling_lock_, so each one is *)
(* a single step of whichever thread calls it.  A glog CHECK that does not *)
(* hold ends the process: the step sets failedCheck to its name and        *)
(* nothing else happens afterwards.                                        *)
(*                                                                         *)
(* A subclass may clear a resource's current_running_tasks before it calls *)
(* the inherited handler; the handlers below take the lists as the         *)
(* subclass left them in the parameter "lists".                            *)
(***************************************************************************)
EXTENDS LazyGraphReduction

CONSTANTS
  Resources     \* the processing units (PUs) tasks are bound to

ASSUME ResourcesAssumption == None \notin Resources

VARIABLES
  taskState,    \* task_map_: the state of each TaskDescriptor, ABSENT if unknown
  jobState,     \* job_map_: the state of each JobDescriptor, ABSENT if unknown
  producing,    \* object store: the producing_task of the references to an object
  runnable,     \* runnable_tasks_: job -> set of tasks
  taskBinding,  \* task_bindings_: task -> resource, None if not bound
  resBindings,  \* resource_bindings_: the pairs <<resource, task>>
  resState,     \* resource_map_: the state of each ResourceDescriptor
  running,      \* current_running_tasks of each ResourceDescriptor
  scheduledTo,  \* scheduled_to_resource of each TaskDescriptor
  failedCheck   \* the CHECK that ended the process, "none" while it runs

edsVars == <<taskState, jobState, producing, runnable, taskBinding, resBindings,
             resState, running, scheduledTo, failedCheck>>

bindingVars == <<taskBinding, resBindings, resState, running, scheduledTo>>

TaskStates == {"ABSENT", "CREATED", "BLOCKING", "RUNNABLE", "RUNNING", "COMPLETED",
               "FAILED", "ABORTED", "DELEGATED"}
JobStates == {"ABSENT", "CREATED", "RUNNING", "COMPLETED", "ABORTED"}
ResourceStates == {"ABSENT", "IDLE", "BUSY"}
Checks == {"none", "BindTaskToResource_unbound", "HandleTaskCompletion_binding",
           "HandleTaskCompletion_descriptor", "HandleTaskCompletion_scheduled_to",
           "HandleTaskDelegationFailure_binding", "HandleTaskFailure_binding",
           "HandleTaskFailure_descriptor", "LazyGraphReduction_producer",
           "AddMachine_inserted", "AddTask_inserted", "GatherStats_task", "CostModel_arcs", "UpdateFlowGraph_node",
           "HandleTasksFromDeregisteredResource_td", "TaskEvicted_task_node", "RemoveMachine_erased",
           "TaskCompleted_task_node", "HandleTaskFinalReport_equiv_classes",
           "UpdateArcsForScheduledTask_arc", "Solver_exit_status", "TaskContinuation_start_time",
           "UpdateTaskTotalUnscheduledTime_start", "AddBlocksForTask_space",
           "AddMachineSamples_bound", "JobsRuntimeEvents_runs", "LoadTaskUtilizationStats_task",
           "LoadTaskEvents_num_tasks", "RunTask_handler", "CleanUpCompletedTask_pid",
           "TCPConnection_Start", "HandleAccept_endpoint", "HandleAsyncMessageRecv_endpoint",
           "HandleAsyncMessageRecv_envelope"}

EdsTypeOK ==
  /\ taskState \in [Tasks -> TaskStates]
  /\ jobState \in [Jobs -> JobStates]
  /\ producing \in [Objects -> SUBSET Tasks]
  /\ runnable \in [Jobs -> SUBSET Tasks]
  /\ taskBinding \in [Tasks -> Resources \cup {None}]
  /\ resBindings \subseteq Resources \X Tasks
  /\ resState \in [Resources -> ResourceStates]
  /\ running \in [Resources -> SUBSET Tasks]
  /\ scheduledTo \in [Tasks -> Resources \cup {None}]
  /\ failedCheck \in Checks

NothingSubmitted ==
  /\ taskState = [t \in Tasks |-> "ABSENT"]
  /\ jobState = [j \in Jobs |-> "ABSENT"]
  /\ producing = [o \in Objects |-> {}]
  /\ runnable = [j \in Jobs |-> {}]
  /\ taskBinding = [t \in Tasks |-> None]
  /\ resBindings = {}
  /\ running = [r \in Resources |-> {}]
  /\ scheduledTo = [t \in Tasks |-> None]
  /\ failedCheck = "none"

(* Nothing is submitted; the PUs were registered at start-up (SetupPUs). *)
EdsInit == NothingSubmitted /\ resState = [r \in Resources |-> "IDLE"]

Alive == failedCheck = "none"

Fail(check) ==
  /\ failedCheck' = check
  /\ UNCHANGED <<taskState, jobState, producing, runnable, bindingVars>>

(* BoundTasksForResource *)
BoundTasksForResource(r) == {t \in Tasks : <<r, t>> \in resBindings}

Registered(r) == r \in Resources /\ resState[r] # "ABSENT"

(* Mutant: resource_bindings_ keeps the pair. *)
UnbindFromOneMap(t, r, lists) ==
  /\ running' = lists
  /\ resState' = [resState EXCEPT ![r] = IF lists[r] = {} THEN "IDLE" ELSE @]
  /\ taskBinding' = [taskBinding EXCEPT ![t] = None]
  /\ UNCHANGED resBindings

(***************************************************************************)
(* UnbindTaskFromResource: the resource becomes idle only if its list of   *)
(* running tasks is empty by now; then both maps drop the task.            *)
(***************************************************************************)
UnbindTaskFromResource(t, r, lists) ==
  /\ running' = lists
  /\ resState' = [resState EXCEPT ![r] = IF lists[r] = {} THEN "IDLE" ELSE @]
  /\ taskBinding' = [taskBinding EXCEPT ![t] = None]
  /\ resBindings' = resBindings \ {<<taskBinding[t], t>>}

(* HandleTaskCompletion: a task without a binding may complete too, when the *)
(* machine it ran on was declared failed before the notification arrived.   *)
HandleTaskCompletion(t, lists) ==
  IF taskBinding[t] # None
  THEN IF ~Registered(taskBinding[t])
       THEN Fail("HandleTaskCompletion_binding")
       ELSE /\ UnbindTaskFromResource(t, taskBinding[t], lists)
            /\ taskState' = [taskState EXCEPT ![t] = "COMPLETED"]
            /\ UNCHANGED <<jobState, producing, runnable, scheduledTo, failedCheck>>
  ELSE IF ~Registered(scheduledTo[t])
       THEN Fail("HandleTaskCompletion_scheduled_to")
       ELSE /\ running' = lists
            /\ taskState' = [taskState EXCEPT ![t] = "COMPLETED"]
            /\ UNCHANGED <<jobState, producing, runnable, taskBinding, resBindings,
                           resState, scheduledTo, failedCheck>>

(* Mutant: the failed task keeps its binding. *)
FailWithoutUnbinding(t, lists) ==
  /\ running' = lists
  /\ taskState' = [taskState EXCEPT ![t] = "FAILED"]
  /\ UNCHANGED <<jobState, producing, runnable, taskBinding, resBindings, resState,
                 scheduledTo, failedCheck>>

(* HandleTaskFailure: the task must be bound; it is not scheduled again here. *)
HandleTaskFailure(t, lists) ==
  IF ~Registered(taskBinding[t])
  THEN Fail("HandleTaskFailure_binding")
  ELSE /\ UnbindTaskFromResource(t, taskBinding[t], lists)
       /\ taskState' = [taskState EXCEPT ![t] = "FAILED"]
       /\ UNCHANGED <<jobState, producing, runnable, scheduledTo, failedCheck>>

(* Mutant: the task becomes RUNNABLE but is not inserted into the runnable set. *)
DelegationFailureWithoutInsert(t) ==
  IF ~Registered(taskBinding[t])
  THEN Fail("HandleTaskDelegationFailure_binding")
  ELSE /\ UnbindTaskFromResource(t, taskBinding[t], running)
       /\ taskState' = [taskState EXCEPT ![t] = "RUNNABLE"]
       /\ UNCHANGED <<jobState, producing, runnable, scheduledTo, failedCheck>>

(* HandleTaskDelegationFailure up to its call of ScheduleJob.  No subclass  *)
(* overrides it, so nothing has cleared the resource's running tasks.       *)
HandleTaskDelegationFailure(t) ==
  IF ~Registered(taskBinding[t])
  THEN Fail("HandleTaskDelegationFailure_binding")
  ELSE /\ UnbindTaskFromResource(t, taskBinding[t], running)
       /\ taskState' = [taskState EXCEPT ![t] = "RUNNABLE"]
       /\ runnable' = [runnable EXCEPT ![JobOf[t]] = @ \cup {t}]
       /\ UNCHANGED <<jobState, producing, scheduledTo, failedCheck>>

(* HandleTaskDelegationSuccess *)
HandleTaskDelegationSuccess(t) ==
  /\ runnable' = [runnable EXCEPT ![JobOf[t]] = @ \ {t}]
  /\ UNCHANGED <<taskState, jobState, producing, bindingVars, failedCheck>>

(* Mutant: the job ends in a state that no job of a coordinator has. *)
CompleteJobAsFailed(j) ==
  /\ jobState' = [jobState EXCEPT ![j] = "FAILED"]
  /\ runnable' = [runnable EXCEPT ![j] = {}]
  /\ UNCHANGED <<taskState, producing, bindingVars, failedCheck>>

(* HandleJobCompletion *)
HandleJobCompletion(j) ==
  /\ jobState' = [jobState EXCEPT ![j] = "COMPLETED"]
  /\ runnable' = [runnable EXCEPT ![j] = {}]
  /\ UNCHANGED <<taskState, producing, bindingVars, failedCheck>>

(* Mutant: the placed tasks stay in the runnable set. *)
PlaceWithoutErasing(p, st, ready) ==
  IF \E t \in DOMAIN p : taskBinding[t] # None
  THEN Fail("BindTaskToResource_unbound")
  ELSE /\ taskBinding' = [t \in Tasks |-> IF t \in DOMAIN p THEN p[t] ELSE taskBinding[t]]
       /\ resBindings' = resBindings \cup {<<p[t], t>> : t \in DOMAIN p}
       /\ resState' = [r \in Resources |->
                         IF \E t \in DOMAIN p : p[t] = r THEN "BUSY" ELSE resState[r]]
       /\ running' = [r \in Resources |-> running[r] \cup {t \in DOMAIN p : p[t] = r}]
       /\ runnable' = [j \in Jobs |-> ready[j]]
       /\ taskState' = [t \in Tasks |-> IF t \in DOMAIN p THEN "RUNNING" ELSE st[t]]
       /\ scheduledTo' = [t \in Tasks |-> IF t \in DOMAIN p THEN p[t] ELSE scheduledTo[t]]
       /\ UNCHANGED failedCheck

(* Mutant: the PUs stay idle. *)
PlaceOnPUStillIdle(p, st, ready) ==
  IF \E t \in DOMAIN p : taskBinding[t] # None
  THEN Fail("BindTaskToResource_unbound")
  ELSE /\ taskBinding' = [t \in Tasks |-> IF t \in DOMAIN p THEN p[t] ELSE taskBinding[t]]
       /\ resBindings' = resBindings \cup {<<p[t], t>> : t \in DOMAIN p}
       /\ resState' = resState
       /\ running' = [r \in Resources |-> running[r] \cup {t \in DOMAIN p : p[t] = r}]
       /\ runnable' = [j \in Jobs |-> ready[j] \ DOMAIN p]
       /\ taskState' = [t \in Tasks |-> IF t \in DOMAIN p THEN "RUNNING" ELSE st[t]]
       /\ scheduledTo' = [t \in Tasks |-> IF t \in DOMAIN p THEN p[t] ELSE scheduledTo[t]]
       /\ UNCHANGED failedCheck

(***************************************************************************)
(* HandleTaskPlacement for every task in the domain of p (a function from  *)
(* tasks to resources), from task states st and runnable sets ready:       *)
(* BindTaskToResource, whose CHECK demands that task_bindings_ has no      *)
(* entry for the task yet; erase it from the runnable set; ExecuteTask.    *)
(***************************************************************************)
HandleTaskPlacements(p, st, ready) ==
  IF \E t \in DOMAIN p : taskBinding[t] # None
  THEN Fail("BindTaskToResource_unbound")
  ELSE /\ taskBinding' = [t \in Tasks |-> IF t \in DOMAIN p THEN p[t] ELSE taskBinding[t]]
       /\ resBindings' = resBindings \cup {<<p[t], t>> : t \in DOMAIN p}
       /\ resState' = [r \in Resources |->
                         IF \E t \in DOMAIN p : p[t] = r THEN "BUSY" ELSE resState[r]]
       /\ running' = [r \in Resources |-> running[r] \cup {t \in DOMAIN p : p[t] = r}]
       /\ runnable' = [j \in Jobs |-> ready[j] \ DOMAIN p]
       /\ taskState' = [t \in Tasks |-> IF t \in DOMAIN p THEN "RUNNING" ELSE st[t]]
       /\ scheduledTo' = [t \in Tasks |-> IF t \in DOMAIN p THEN p[t] ELSE scheduledTo[t]]
       /\ UNCHANGED failedCheck

-----------------------------------------------------------------------------

(* The two binding maps are each other's inverse: task_bindings_ maps t to  *)
(* r exactly when resource_bindings_ holds the pair.  BindTaskToResource    *)
(* and UnbindTaskFromResource update them one after the other.              *)
BindingsInverse ==
  \A t \in Tasks, r \in Resources : taskBinding[t] = r <=> <<r, t>> \in resBindings

(* No CHECK of the scheduler's handlers ever fails. *)
NoFailedCheck == failedCheck = "none"

=============================================================================
