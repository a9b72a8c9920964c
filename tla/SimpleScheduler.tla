-------------------------- MODULE SimpleScheduler ---------------------------
(***************************************************************************)
(* SimpleScheduler (src/scheduling/simple/simple_scheduler.cc): a task is  *)
(* placed on the first idle PU found, one task per PU.  Its handlers clear *)
(* the PU's list of running tasks and then call the inherited ones.        *)
(***************************************************************************)
EXTENDS EventDrivenScheduler

CONSTANTS
  RandomlyPlaceTasks   \* FLAGS_randomly_place_tasks

ASSUME RandomlyPlaceTasksAssumption == RandomlyPlaceTasks \in BOOLEAN

IdleResources == {r \in Resources : resState[r] = "IDLE"}

(***************************************************************************)
(* The assignments the loop of ScheduleJob can make to the tasks in ready: *)
(* each task it places takes an idle PU, which is then busy.               *)
(* FindResourceForTask fails only when no PU is idle;                      *)
(* FindRandomResourceForTask may also give up after its 2000 attempts.     *)
(***************************************************************************)
Placements(ready) ==
  {p \in UNION {[S -> IdleResources] : S \in SUBSET ready} :
     /\ \A t, u \in DOMAIN p : p[t] = p[u] => t = u
     /\ \/ RandomlyPlaceTasks
        \/ DOMAIN p = ready
        \/ \A r \in IdleResources : \E t \in DOMAIN p : p[t] = r}

(* runnable_tasks_ after a lazy graph reduction. *)
ComputeRunnableTasks(red) ==
  [k \in Jobs |-> runnable[k] \cup {t \in NewlyRunnable(taskState, red) : JobOf[t] = k}]

(* ScheduleJob: the job is RUNNING as soon as one of its tasks is placed. *)
ScheduleJob(j) ==
  IF \E o \in JobOutputs[j] : ProducingTasksForDataObjectID(taskState, producing, o, j) = {}
  THEN Fail("LazyGraphReduction_producer")
  ELSE LET red   == Reduction(taskState, producing, j)
           ready == ComputeRunnableTasks(red)
       IN  \E p \in Placements(ready[j]) :
             /\ HandleTaskPlacements(p, Reduced(taskState, red), ready)
             /\ IF DOMAIN p = {} \/ failedCheck' # "none"
                THEN UNCHANGED jobState
                ELSE jobState' = [jobState EXCEPT ![j] = "RUNNING"]
             /\ UNCHANGED producing

(* Mutant: the lists are not cleared. *)
KeptLists(t) == running

(* The list of running tasks after clear_current_running_tasks on the PU that *)
(* the task's descriptor names.                                            *)
ClearedLists(t) == [running EXCEPT ![scheduledTo[t]] = {}]

SimpleHandleTaskCompletion(t) ==
  IF ~Registered(scheduledTo[t])
  THEN Fail("HandleTaskCompletion_descriptor")
  ELSE HandleTaskCompletion(t, ClearedLists(t))

SimpleHandleTaskFailure(t) ==
  IF ~Registered(scheduledTo[t])
  THEN Fail("HandleTaskFailure_descriptor")
  ELSE HandleTaskFailure(t, ClearedLists(t))

-----------------------------------------------------------------------------

(* A PU runs at most one task ("This assumes no PU sharing"), and no task is *)
(* still bound to a PU that FindResourceForTask considers idle.             *)
NoPUSharing ==
  \A r \in Resources :
    /\ \A t, u \in BoundTasksForResource(r) : t = u
    /\ resState[r] = "IDLE" => BoundTasksForResource(r) = {}

(* A PU that is not idle has a task: nothing leaves a PU busy for good. *)
BusyPUHasTask ==
  \A r \in Resources : resState[r] = "BUSY" => BoundTasksForResource(r) # {}

=============================================================================
