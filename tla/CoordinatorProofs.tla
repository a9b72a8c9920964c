------------------------- MODULE CoordinatorProofs --------------------------
(***************************************************************************)
(* Proofs about Coordinator, for every set of jobs, tasks and PUs: the     *)
(* type invariant, that the two binding maps stay each other's inverse,    *)
(* and that a PU is never shared.                                          *)
(***************************************************************************)
EXTENDS Coordinator, TLAPS

(* A step that names no prover is Zenon's.                                  *)
USE ZenonT(60)

(* A thread's argument is what its next step expects. *)
ArgOK ==
  \A h \in Threads :
    /\ pc[h] = "schedule" => arg[h] \in Jobs
    /\ pc[h] \in {"completion", "failure", "jobdone", "delegated"} => arg[h] \in Tasks

(* The inductive invariant.  ArgOK is needed because the handlers index      *)
(* the maps by the thread's argument.                                       *)
BindingInv == TypeOK /\ ArgOK /\ BindingsInverse /\ NoPUSharing

-----------------------------------------------------------------------------
(* The scheduler's state, seen from its operations. *)

(* A step that leaves the bindings and PU states alone keeps both properties. *)
LEMMA BindingsUnchanged ==
  ASSUME BindingsInverse, NoPUSharing, UNCHANGED <<taskBinding, resBindings, resState>>
  PROVE  BindingsInverse' /\ NoPUSharing'
BY DEF BindingsInverse, NoPUSharing, BoundTasksForResource

(* UnbindTaskFromResource on a PU that has one task at most leaves it none, *)
(* so that it may become idle.                                             *)
LEMMA UnbindKeeps ==
  ASSUME EdsTypeOK, BindingsInverse, NoPUSharing,
         NEW t \in Tasks, taskBinding[t] \in Resources,
         NEW lists \in [Resources -> SUBSET Tasks],
         UnbindTaskFromResource(t, taskBinding[t], lists)
  PROVE  /\ taskBinding' \in [Tasks -> Resources \cup {None}]
         /\ resBindings' \subseteq Resources \X Tasks
         /\ resState' \in [Resources -> ResourceStates]
         /\ running' \in [Resources -> SUBSET Tasks]
         /\ BindingsInverse'
         /\ NoPUSharing'
<1> DEFINE r0 == taskBinding[t]
<1>1. /\ taskBinding' \in [Tasks -> Resources \cup {None}]
      /\ resBindings' \subseteq Resources \X Tasks
      /\ resState' \in [Resources -> ResourceStates]
      /\ running' \in [Resources -> SUBSET Tasks]
  BY DEF UnbindTaskFromResource, EdsTypeOK, ResourceStates
<1>2. BindingsInverse'
  BY ResourcesAssumption DEF UnbindTaskFromResource, EdsTypeOK, BindingsInverse
<1>3. ASSUME NEW r \in Resources
      PROVE  /\ \A u, v \in BoundTasksForResource(r)' : u = v
             /\ resState'[r] = "IDLE" => BoundTasksForResource(r)' = {}
  <2>1. BoundTasksForResource(r)' = BoundTasksForResource(r) \ (IF r = r0 THEN {t} ELSE {})
    BY DEF BoundTasksForResource, UnbindTaskFromResource, BindingsInverse
  <2>2. CASE r = r0
    <3>1. t \in BoundTasksForResource(r)
      BY <2>2 DEF BoundTasksForResource, BindingsInverse
    <3>2. BoundTasksForResource(r)' = {}
      BY <2>1, <2>2, <3>1 DEF NoPUSharing
    <3> QED BY <3>2
  <2>3. CASE r # r0
    <3>1. resState'[r] = resState[r]
      BY <2>3 DEF UnbindTaskFromResource, EdsTypeOK
    <3> QED BY <2>1, <2>3, <3>1 DEF NoPUSharing
  <2> QED BY <2>2, <2>3
<1>4. NoPUSharing'
  BY <1>3 DEF NoPUSharing
<1> QED BY <1>1, <1>2, <1>4

(* A failed CHECK changes nothing else. *)
LEMMA FailKeeps ==
  ASSUME EdsTypeOK, BindingsInverse, NoPUSharing, failedCheck' \in Checks,
         UNCHANGED <<taskState, jobState, producing, runnable>>,
         UNCHANGED <<taskBinding, resBindings, resState, running, scheduledTo>>
  PROVE  EdsTypeOK' /\ BindingsInverse' /\ NoPUSharing'
<1>1. EdsTypeOK'
  BY DEF EdsTypeOK
<1>2. BindingsInverse' /\ NoPUSharing'
  BY BindingsUnchanged
<1> QED BY <1>1, <1>2

(* SimpleScheduler's HandleTaskCompletion, with or without a binding. *)
LEMMA CompletionKeeps ==
  ASSUME EdsTypeOK, BindingsInverse, NoPUSharing, NEW t \in Tasks, SimpleHandleTaskCompletion(t)
  PROVE  EdsTypeOK' /\ BindingsInverse' /\ NoPUSharing'
<1> DEFINE lists == ClearedLists(t)
<1>0. lists \in [Resources -> SUBSET Tasks]
  BY DEF ClearedLists, EdsTypeOK
<1>1. CASE ~Registered(scheduledTo[t])
  <2>1. Fail("HandleTaskCompletion_descriptor")
    BY <1>1 DEF SimpleHandleTaskCompletion
  <2> QED BY <2>1, FailKeeps DEF Fail, bindingVars, Checks
<1>2. CASE Registered(scheduledTo[t])
  <2>0. HandleTaskCompletion(t, lists)
    BY <1>2 DEF SimpleHandleTaskCompletion
  <2>1. CASE taskBinding[t] # None /\ ~Registered(taskBinding[t])
    <3>1. Fail("HandleTaskCompletion_binding")
      BY <2>0, <2>1 DEF HandleTaskCompletion
    <3> QED BY <3>1, FailKeeps DEF Fail, bindingVars, Checks
  <2>2. CASE taskBinding[t] # None /\ Registered(taskBinding[t])
    <3>1. /\ UnbindTaskFromResource(t, taskBinding[t], lists)
          /\ taskState' = [taskState EXCEPT ![t] = "COMPLETED"]
          /\ UNCHANGED <<jobState, producing, runnable, scheduledTo, failedCheck>>
      BY <2>0, <2>2 DEF HandleTaskCompletion
    <3>2. taskBinding[t] \in Resources
      BY <2>2 DEF Registered
    <3>3. taskState' \in [Tasks -> TaskStates]
      BY <3>1 DEF EdsTypeOK, TaskStates
    <3> HIDE DEF lists
    <3> QED BY <1>0, <3>1, <3>2, <3>3, UnbindKeeps DEF EdsTypeOK
  <2>3. CASE taskBinding[t] = None
    <3>1. /\ running' = lists
          /\ taskState' = [taskState EXCEPT ![t] = "COMPLETED"]
          /\ UNCHANGED <<jobState, producing, runnable, taskBinding, resBindings,
                         resState, scheduledTo, failedCheck>>
      BY <1>2, <2>0, <2>3 DEF HandleTaskCompletion
    <3>2. taskState' \in [Tasks -> TaskStates]
      BY <3>1 DEF EdsTypeOK, TaskStates
    <3>3. BindingsInverse' /\ NoPUSharing'
      BY <3>1, BindingsUnchanged
    <3> HIDE DEF lists
    <3> QED BY <1>0, <3>1, <3>2, <3>3 DEF EdsTypeOK
  <2> QED BY <2>1, <2>2, <2>3
<1> QED BY <1>1, <1>2

(* ... its HandleTaskFailure, *)
LEMMA FailureKeeps ==
  ASSUME EdsTypeOK, BindingsInverse, NoPUSharing, NEW t \in Tasks, SimpleHandleTaskFailure(t)
  PROVE  EdsTypeOK' /\ BindingsInverse' /\ NoPUSharing'
<1> DEFINE lists == ClearedLists(t)
<1>0. lists \in [Resources -> SUBSET Tasks]
  BY DEF ClearedLists, EdsTypeOK
<1>1. CASE ~Registered(scheduledTo[t])
  <2>1. Fail("HandleTaskFailure_descriptor")
    BY <1>1 DEF SimpleHandleTaskFailure
  <2> QED BY <2>1, FailKeeps DEF Fail, bindingVars, Checks
<1>2. CASE Registered(scheduledTo[t])
  <2>0. HandleTaskFailure(t, lists)
    BY <1>2 DEF SimpleHandleTaskFailure
  <2>1. CASE ~Registered(taskBinding[t])
    <3>1. Fail("HandleTaskFailure_binding")
      BY <2>0, <2>1 DEF HandleTaskFailure
    <3> QED BY <3>1, FailKeeps DEF Fail, bindingVars, Checks
  <2>2. CASE Registered(taskBinding[t])
    <3>1. /\ UnbindTaskFromResource(t, taskBinding[t], lists)
          /\ taskState' = [taskState EXCEPT ![t] = "FAILED"]
          /\ UNCHANGED <<jobState, producing, runnable, scheduledTo, failedCheck>>
      BY <2>0, <2>2 DEF HandleTaskFailure
    <3>2. taskBinding[t] \in Resources
      BY <2>2 DEF Registered
    <3>3. taskState' \in [Tasks -> TaskStates]
      BY <3>1 DEF EdsTypeOK, TaskStates
    <3> HIDE DEF lists
    <3> QED BY <1>0, <3>1, <3>2, <3>3, UnbindKeeps DEF EdsTypeOK
  <2> QED BY <2>1, <2>2
<1> QED BY <1>1, <1>2

(* ... and the inherited HandleTaskDelegationFailure. *)
LEMMA DelegationFailureKeeps ==
  ASSUME EdsTypeOK, BindingsInverse, NoPUSharing, NEW t \in Tasks, HandleTaskDelegationFailure(t)
  PROVE  EdsTypeOK' /\ BindingsInverse' /\ NoPUSharing'
<1>1. CASE ~Registered(taskBinding[t])
  <2>1. Fail("HandleTaskDelegationFailure_binding")
    BY <1>1 DEF HandleTaskDelegationFailure
  <2> QED BY <2>1, FailKeeps DEF Fail, bindingVars, Checks
<1>2. CASE Registered(taskBinding[t])
  <2>1. /\ UnbindTaskFromResource(t, taskBinding[t], running)
        /\ taskState' = [taskState EXCEPT ![t] = "RUNNABLE"]
        /\ runnable' = [runnable EXCEPT ![JobOf[t]] = @ \cup {t}]
        /\ UNCHANGED <<jobState, producing, scheduledTo, failedCheck>>
    BY <1>2 DEF HandleTaskDelegationFailure
  <2>2. taskBinding[t] \in Resources /\ running \in [Resources -> SUBSET Tasks]
    BY <1>2 DEF Registered, EdsTypeOK
  <2>3. taskState' \in [Tasks -> TaskStates]
    <3>1. taskState \in [Tasks -> TaskStates] /\ "RUNNABLE" \in TaskStates
      BY DEF EdsTypeOK, TaskStates
    <3> QED BY <2>1, <3>1
  <2>4. runnable' \in [Jobs -> SUBSET Tasks]
    <3>1. runnable \in [Jobs -> SUBSET Tasks]
      BY DEF EdsTypeOK
    <3>2. JobOf[t] \in Jobs
      BY TaskTreeAssumption
    <3>3. runnable[JobOf[t]] \cup {t} \in SUBSET Tasks
      BY <3>1, <3>2
    <3> QED BY <2>1, <3>1, <3>3
  <2> QED BY <2>1, <2>2, <2>3, <2>4, UnbindKeeps DEF EdsTypeOK
<1> QED BY <1>1, <1>2

(* The reduction speaks of known tasks and leaves well-typed states. *)
LEMMA ReductionTyped ==
  ASSUME EdsTypeOK, NEW j \in Jobs
  PROVE  LET red == Reduction(taskState, producing, j)
         IN  /\ ComputeRunnableTasks(red) \in [Jobs -> SUBSET Tasks]
             /\ Reduced(taskState, red) \in [Tasks -> TaskStates]
<1> DEFINE red == Reduction(taskState, producing, j)
<1>1. red.visited \subseteq Tasks
  BY DEF Reduction
<1>2. NewlyRunnable(taskState, red) \subseteq Tasks
  BY <1>1 DEF NewlyRunnable
<1> HIDE DEF red
<1>3. ComputeRunnableTasks(red) \in [Jobs -> SUBSET Tasks]
  BY <1>2 DEF ComputeRunnableTasks, EdsTypeOK
<1>4. Reduced(taskState, red) \in [Tasks -> TaskStates]
  <2> SUFFICES ASSUME NEW t \in Tasks PROVE Reduced(taskState, red)[t] \in TaskStates
    BY DEF Reduced
  <2> QED BY DEF Reduced, EdsTypeOK, TaskStates
<1> QED BY <1>3, <1>4 DEF red

(* Placing unbound tasks on distinct idle PUs keeps the maps inverse and the *)
(* PUs unshared.                                                           *)
LEMMA PlacementsKeep ==
  ASSUME EdsTypeOK, BindingsInverse, NoPUSharing,
         NEW st \in [Tasks -> TaskStates], NEW ready \in [Jobs -> SUBSET Tasks],
         NEW p, DOMAIN p \subseteq Tasks,
         \A t \in DOMAIN p : p[t] \in Resources /\ resState[p[t]] = "IDLE",
         \A t, u \in DOMAIN p : p[t] = p[u] => t = u,
         \A t \in DOMAIN p : taskBinding[t] = None,
         HandleTaskPlacements(p, st, ready)
  PROVE  /\ taskState' \in [Tasks -> TaskStates]
         /\ runnable' \in [Jobs -> SUBSET Tasks]
         /\ taskBinding' \in [Tasks -> Resources \cup {None}]
         /\ resBindings' \subseteq Resources \X Tasks
         /\ resState' \in [Resources -> ResourceStates]
         /\ running' \in [Resources -> SUBSET Tasks]
         /\ scheduledTo' \in [Tasks -> Resources \cup {None}]
         /\ failedCheck' = failedCheck
         /\ BindingsInverse'
         /\ NoPUSharing'
<1>0. /\ taskBinding' = [t \in Tasks |-> IF t \in DOMAIN p THEN p[t] ELSE taskBinding[t]]
      /\ resBindings' = resBindings \cup {<<p[t], t>> : t \in DOMAIN p}
      /\ resState' = [r \in Resources |->
                        IF \E t \in DOMAIN p : p[t] = r THEN "BUSY" ELSE resState[r]]
      /\ running' = [r \in Resources |-> running[r] \cup {t \in DOMAIN p : p[t] = r}]
      /\ runnable' = [j \in Jobs |-> ready[j] \ DOMAIN p]
      /\ taskState' = [t \in Tasks |-> IF t \in DOMAIN p THEN "RUNNING" ELSE st[t]]
      /\ scheduledTo' = [t \in Tasks |-> IF t \in DOMAIN p THEN p[t] ELSE scheduledTo[t]]
      /\ failedCheck' = failedCheck
  BY DEF HandleTaskPlacements
<1>1. taskState' \in [Tasks -> TaskStates] /\ runnable' \in [Jobs -> SUBSET Tasks]
  BY <1>0 DEF TaskStates
<1>2. /\ taskBinding' \in [Tasks -> Resources \cup {None}]
      /\ scheduledTo' \in [Tasks -> Resources \cup {None}]
  BY <1>0 DEF EdsTypeOK
<1>3. resBindings' \subseteq Resources \X Tasks
  BY <1>0, SMT DEF EdsTypeOK
<1>4. resState' \in [Resources -> ResourceStates] /\ running' \in [Resources -> SUBSET Tasks]
  BY <1>0 DEF EdsTypeOK, ResourceStates
<1>5. ASSUME NEW t \in Tasks, NEW r \in Resources
      PROVE  <<r, t>> \in resBindings' <=>
               <<r, t>> \in resBindings \/ (t \in DOMAIN p /\ p[t] = r)
  BY <1>0
<1>6. BindingsInverse'
  <2> SUFFICES ASSUME NEW t \in Tasks, NEW r \in Resources
               PROVE  taskBinding'[t] = r <=> <<r, t>> \in resBindings'
    BY DEF BindingsInverse
  <2>1. CASE t \in DOMAIN p
    BY <1>0, <1>5, <2>1, ResourcesAssumption, SMTT(30) DEF BindingsInverse
  <2>2. CASE t \notin DOMAIN p
    BY <1>0, <1>5, <2>2 DEF BindingsInverse
  <2> QED BY <2>1, <2>2
<1>7. NoPUSharing'
  <2> SUFFICES ASSUME NEW r \in Resources
               PROVE  /\ \A t, u \in BoundTasksForResource(r)' : t = u
                      /\ resState'[r] = "IDLE" => BoundTasksForResource(r)' = {}
    BY DEF NoPUSharing
  <2>0. BoundTasksForResource(r)' = BoundTasksForResource(r) \cup {t \in DOMAIN p : p[t] = r}
    BY <1>5 DEF BoundTasksForResource
  <2>1. CASE \E t \in DOMAIN p : p[t] = r
    <3>1. BoundTasksForResource(r) = {}
      BY <2>1 DEF NoPUSharing
    <3>2. resState'[r] = "BUSY"
      BY <1>0, <2>1
    <3> QED BY <2>0, <3>1, <3>2
  <2>2. CASE ~ \E t \in DOMAIN p : p[t] = r
    <3>1. BoundTasksForResource(r)' = BoundTasksForResource(r) /\ resState'[r] = resState[r]
      BY <1>0, <2>0, <2>2
    <3> QED BY <3>1, SMTT(30) DEF NoPUSharing
  <2> QED BY <2>1, <2>2
<1> QED BY <1>0, <1>1, <1>2, <1>3, <1>4, <1>6, <1>7

(* ScheduleJob places tasks on distinct idle PUs. *)
LEMMA ScheduleJobKeeps ==
  ASSUME EdsTypeOK, BindingsInverse, NoPUSharing, NEW j \in Jobs, ScheduleJob(j)
  PROVE  EdsTypeOK' /\ BindingsInverse' /\ NoPUSharing'
<1> DEFINE unproduced == \E o \in JobOutputs[j] :
                           ProducingTasksForDataObjectID(taskState, producing, o, j) = {}
           red == Reduction(taskState, producing, j)
           ready == ComputeRunnableTasks(red)
<1>1. CASE unproduced
  <2>1. Fail("LazyGraphReduction_producer")
    BY <1>1 DEF ScheduleJob
  <2> QED BY <2>1, FailKeeps DEF Fail, bindingVars, Checks
<1>2. CASE ~unproduced
  <2>1. PICK p \in Placements(ready[j]) :
          /\ HandleTaskPlacements(p, Reduced(taskState, red), ready)
          /\ jobState' \in {jobState, [jobState EXCEPT ![j] = "RUNNING"]}
          /\ UNCHANGED producing
    BY <1>2 DEF ScheduleJob
  <2>2. ready \in [Jobs -> SUBSET Tasks] /\ Reduced(taskState, red) \in [Tasks -> TaskStates]
    BY ReductionTyped
  <2>3. jobState' \in [Jobs -> JobStates] /\ producing' \in [Objects -> SUBSET Tasks]
    BY <2>1 DEF EdsTypeOK, JobStates
  <2> DEFINE st == Reduced(taskState, red)
  <2> HIDE DEF red, ready, st
  <2>4. /\ DOMAIN p \subseteq Tasks
        /\ \A t \in DOMAIN p : p[t] \in Resources /\ resState[p[t]] = "IDLE"
        /\ \A t, u \in DOMAIN p : p[t] = p[u] => t = u
    BY <2>1, <2>2, SMT DEF Placements, IdleResources
  <2>5. HandleTaskPlacements(p, st, ready) /\ st \in [Tasks -> TaskStates]
    BY <2>1, <2>2 DEF st
  <2>6. CASE \E t \in DOMAIN p : taskBinding[t] # None
    <3>1. Fail("BindTaskToResource_unbound")
      BY <2>5, <2>6 DEF HandleTaskPlacements
    <3> QED BY <2>3, <3>1, FailKeeps DEF Fail, bindingVars, Checks
  <2>7. CASE \A t \in DOMAIN p : taskBinding[t] = None
    BY <2>2, <2>3, <2>4, <2>5, <2>7, PlacementsKeep, SMTT(30) DEF EdsTypeOK
  <2> QED BY <2>6, <2>7, SMTT(30)
<1> QED BY <1>1, <1>2

-----------------------------------------------------------------------------
(* The coordinator. *)

(* Types of what a step of a thread leaves in pc and arg. *)
LEMMA GotoTyped ==
  ASSUME TypeOK, ArgOK, NEW h \in Threads, NEW s \in Steps, NEW a \in Tasks \cup Jobs \cup {None},
         s = "schedule" => a \in Jobs,
         s \in {"completion", "failure", "jobdone", "delegated"} => a \in Tasks,
         Goto(h, s, a)
  PROVE  /\ pc' \in [Threads -> Steps]
         /\ arg' \in [Threads -> Tasks \cup Jobs \cup {None}]
         /\ ArgOK'
BY DEF Goto, TypeOK, ArgOK

(* Initially nothing is bound and every thread is idle. *)
LEMMA InitBindingInv == Init => BindingInv
<1> SUFFICES ASSUME Init PROVE BindingInv
  OBVIOUS
<1> USE DEF Init, EdsInit, NothingSubmitted
<1>1. TypeOK
  BY DEF TypeOK, EdsTypeOK, TaskStates, JobStates, ResourceStates, Checks, Threads, Steps, ProcStates
<1>2. ArgOK
  BY DEF ArgOK, Threads
<1>3. BindingsInverse /\ NoPUSharing
  BY ResourcesAssumption DEF BindingsInverse, NoPUSharing, BoundTasksForResource
<1> QED BY <1>1, <1>2, <1>3 DEF BindingInv

(* Every step of the coordinator and its environment keeps BindingInv. *)
LEMMA NextBindingInv == BindingInv /\ [Next]_vars => BindingInv'
<1> SUFFICES ASSUME BindingInv, [Next]_vars PROVE BindingInv'
  OBVIOUS
<1> USE DEF BindingInv
<1>typed. TypeOK /\ EdsTypeOK /\ ArgOK /\ BindingsInverse /\ NoPUSharing
  BY DEF TypeOK
<1>threads. "io" \in Threads /\ "http" \in Threads /\ "health" \in Threads
  BY DEF Threads
<1>steps. {"idle", "completion", "failure", "jobdone", "delegated", "schedule"} = Steps
  BY DEF Steps
<1>jobof. \A t \in Tasks : JobOf[t] \in Jobs
  BY TaskTreeAssumption, SMTT(30)
<1>1. ASSUME NEW j \in Jobs, SubmitJob(j) PROVE BindingInv'
  <2>1. EdsTypeOK'
    <3>1. taskState' \in [Tasks -> TaskStates] /\ jobState' \in [Jobs -> JobStates]
      BY <1>1, <1>typed, SMTT(30) DEF SubmitJob, EdsTypeOK, TaskStates, JobStates
    <3>2. producing' \in [Objects -> SUBSET Tasks]
      BY <1>1, <1>typed, CoordinatorAssumption DEF SubmitJob, EdsTypeOK
    <3> QED BY <1>1, <1>typed, <3>1, <3>2 DEF SubmitJob, EdsTypeOK, bindingVars
  <2>2. BindingsInverse' /\ NoPUSharing'
    BY <1>1, <1>typed, BindingsUnchanged DEF SubmitJob, bindingVars
  <2>3. /\ pc' \in [Threads -> Steps]
        /\ arg' \in [Threads -> Tasks \cup Jobs \cup {None}]
        /\ ArgOK'
    BY <1>1, <1>typed, <1>threads, <1>steps, GotoTyped DEF SubmitJob
  <2> QED BY <1>1, <1>typed, <2>1, <2>2, <2>3 DEF SubmitJob, TypeOK
<1>2. ASSUME NEW j \in Jobs, KillRunningJob(j) PROVE BindingInv'
  <2>1. EdsTypeOK'
    <3>1. taskState' \in [Tasks -> TaskStates] /\ jobState' \in [Jobs -> JobStates]
      BY <1>2, <1>typed, SMTT(30) DEF KillRunningJob, EdsTypeOK, TaskStates, JobStates
    <3> QED BY <1>2, <1>typed, <3>1 DEF KillRunningJob, EdsTypeOK, bindingVars
  <2>2. BindingsInverse' /\ NoPUSharing'
    BY <1>2, <1>typed, BindingsUnchanged DEF KillRunningJob, bindingVars
  <2> QED BY <1>2, <1>typed, <2>1, <2>2 DEF KillRunningJob, TypeOK, ArgOK
<1>3. ASSUME NEW t \in Tasks, NEW s \in EndStates, HandleTaskStateChange(t, s) PROVE BindingInv'
  <2>0. taskState' \in {taskState, [taskState EXCEPT ![t] = s]}
    BY <1>3 DEF HandleTaskStateChange
  <2>1. EdsTypeOK'
    <3>1. taskState' \in [Tasks -> TaskStates]
      BY <2>0, <1>typed, SMTT(30) DEF EdsTypeOK, TaskStates, EndStates
    <3> QED BY <1>3, <1>typed, <3>1 DEF HandleTaskStateChange, EdsTypeOK, bindingVars
  <2>2. BindingsInverse' /\ NoPUSharing'
    BY <1>3, <1>typed, BindingsUnchanged DEF HandleTaskStateChange, bindingVars
  <2>3. /\ pc' \in [Threads -> Steps]
        /\ arg' \in [Threads -> Tasks \cup Jobs \cup {None}]
        /\ ArgOK'
    <3>1. CASE UNCHANGED <<pc, arg>>
      BY <3>1, <1>typed DEF TypeOK, ArgOK
    <3>2. CASE Goto("io", "failure", t) \/ Goto("io", "completion", t)
      BY <3>2, <1>typed, <1>threads, <1>steps, GotoTyped, SMTT(30)
    <3> QED BY <1>3, <3>1, <3>2 DEF HandleTaskStateChange
  <2> QED BY <1>3, <1>typed, <2>1, <2>2, <2>3 DEF HandleTaskStateChange, Arrives, TypeOK
<1>4. ASSUME NEW c \in Tasks, HandleTaskSpawn(c) PROVE BindingInv'
  <2>1. EdsTypeOK'
    BY <1>4, <1>typed DEF HandleTaskSpawn, EdsTypeOK, bindingVars, TaskStates
  <2>2. BindingsInverse' /\ NoPUSharing'
    BY <1>4, <1>typed, BindingsUnchanged DEF HandleTaskSpawn, bindingVars
  <2>3. /\ pc' \in [Threads -> Steps]
        /\ arg' \in [Threads -> Tasks \cup Jobs \cup {None}]
        /\ ArgOK'
    BY <1>4, <1>typed, <1>threads, <1>steps, <1>jobof, GotoTyped DEF HandleTaskSpawn
  <2> QED BY <1>4, <1>typed, <2>1, <2>2, <2>3, SMTT(30) DEF HandleTaskSpawn, Arrives, TypeOK
<1>5. ASSUME NEW t \in Tasks, NEW ok \in BOOLEAN, HandleTaskDelegationResponse(t, ok)
      PROVE  BindingInv'
  <2>0. proc' = proc /\ msgs' \subseteq msgs
    BY <1>5 DEF HandleTaskDelegationResponse, Arrives
  <2>1. CASE ok
    <3>1. /\ taskState' = [taskState EXCEPT ![t] = "DELEGATED"]
          /\ Goto("io", "delegated", t)
          /\ UNCHANGED <<jobState, producing, runnable, bindingVars, failedCheck, lock>>
      BY <1>5, <2>1 DEF HandleTaskDelegationResponse
    <3>2. EdsTypeOK'
      BY <3>1, <1>typed DEF EdsTypeOK, bindingVars, TaskStates
    <3>3. BindingsInverse' /\ NoPUSharing'
      BY <3>1, <1>typed, BindingsUnchanged DEF bindingVars
    <3>4. /\ pc' \in [Threads -> Steps]
          /\ arg' \in [Threads -> Tasks \cup Jobs \cup {None}]
          /\ ArgOK'
      BY <3>1, <1>typed, <1>threads, <1>steps, GotoTyped
    <3> QED BY <1>typed, <2>0, <3>1, <3>2, <3>3, <3>4 DEF TypeOK
  <2>2. CASE ~ok
    <3>1. HandleTaskDelegationFailure(t) /\ Goto("io", "schedule", JobOf[t]) /\ lock' = "io"
      BY <1>5, <2>2 DEF HandleTaskDelegationResponse
    <3>2. EdsTypeOK' /\ BindingsInverse' /\ NoPUSharing'
      BY <3>1, <1>typed, DelegationFailureKeeps
    <3>3. /\ pc' \in [Threads -> Steps]
          /\ arg' \in [Threads -> Tasks \cup Jobs \cup {None}]
          /\ ArgOK'
      BY <3>1, <1>typed, <1>threads, <1>steps, <1>jobof, GotoTyped, SMTT(30)
    <3> QED BY <1>typed, <1>threads, <2>0, <3>1, <3>2, <3>3 DEF TypeOK
  <2> QED BY <2>1, <2>2
<1>6. ASSUME TaskCompletion PROVE BindingInv'
  <2>1. arg["io"] \in Tasks
    BY <1>6, <1>typed, <1>threads DEF TaskCompletion, ArgOK
  <2>2. EdsTypeOK' /\ BindingsInverse' /\ NoPUSharing'
    BY <1>6, <1>typed, <2>1, CompletionKeeps DEF TaskCompletion
  <2>3. /\ pc' \in [Threads -> Steps]
        /\ arg' \in [Threads -> Tasks \cup Jobs \cup {None}]
        /\ ArgOK'
    BY <1>6, <1>typed, <1>threads, <1>steps, <2>1, GotoTyped DEF TaskCompletion
  <2> QED BY <1>6, <1>typed, <2>2, <2>3 DEF TaskCompletion, TypeOK, ProcStates
<1>7. ASSUME TaskDelegationSuccess PROVE BindingInv'
  <2>1. EdsTypeOK'
    BY <1>7, <1>typed DEF TaskDelegationSuccess, HandleTaskDelegationSuccess, EdsTypeOK,
                          bindingVars
  <2>2. BindingsInverse' /\ NoPUSharing'
    BY <1>7, <1>typed, BindingsUnchanged DEF TaskDelegationSuccess, HandleTaskDelegationSuccess,
                                             bindingVars
  <2>3. /\ pc' \in [Threads -> Steps]
        /\ arg' \in [Threads -> Tasks \cup Jobs \cup {None}]
        /\ ArgOK'
    BY <1>7, <1>typed, <1>threads, <1>steps, GotoTyped DEF TaskDelegationSuccess
  <2> QED BY <1>7, <1>typed, <2>1, <2>2, <2>3 DEF TaskDelegationSuccess, TypeOK
<1>8. ASSUME JobCompletion PROVE BindingInv'
  <2>1. arg["io"] \in Tasks
    BY <1>8, <1>typed, <1>threads DEF JobCompletion, ArgOK
  <2>2. EdsTypeOK'
    BY <1>8, <1>typed DEF JobCompletion, HandleJobCompletion, edsVars, EdsTypeOK, bindingVars,
                          JobStates
  <2>3. BindingsInverse' /\ NoPUSharing'
    BY <1>8, <1>typed, BindingsUnchanged, SMTT(30) DEF JobCompletion, HandleJobCompletion, edsVars,
       bindingVars
  <2>4. /\ pc' \in [Threads -> Steps]
        /\ arg' \in [Threads -> Tasks \cup Jobs \cup {None}]
        /\ ArgOK'
    BY <1>8, <1>typed, <1>threads, <1>steps, <1>jobof, <2>1, GotoTyped DEF JobCompletion
  <2> QED BY <1>8, <1>typed, <2>2, <2>3, <2>4 DEF JobCompletion, TypeOK
<1>9. ASSUME NEW h \in {"io", "health"}, TaskFailure(h) PROVE BindingInv'
  <2>0. h \in Threads
    BY <1>threads
  <2>1. arg[h] \in Tasks
    BY <1>9, <1>typed, <2>0 DEF TaskFailure, ArgOK
  <2>2. EdsTypeOK' /\ BindingsInverse' /\ NoPUSharing'
    BY <1>9, <1>typed, <2>1, FailureKeeps DEF TaskFailure
  <2>3. /\ pc' \in [Threads -> Steps]
        /\ arg' \in [Threads -> Tasks \cup Jobs \cup {None}]
        /\ ArgOK'
    BY <1>9, <1>typed, <1>steps, <1>jobof, <2>0, <2>1, GotoTyped, SMTT(30) DEF TaskFailure
  <2> QED BY <1>9, <1>typed, <2>2, <2>3 DEF TaskFailure, TypeOK, ProcStates
<1>10. ASSUME NEW t \in Tasks, CheckRunningTasksHealth(t) PROVE BindingInv'
  <2>1. EdsTypeOK' /\ BindingsInverse' /\ NoPUSharing'
    BY <1>10, <1>typed, BindingsUnchanged, SMTT(30) DEF CheckRunningTasksHealth, edsVars, EdsTypeOK
  <2>2. /\ pc' \in [Threads -> Steps]
        /\ arg' \in [Threads -> Tasks \cup Jobs \cup {None}]
        /\ ArgOK'
    BY <1>10, <1>typed, <1>threads, <1>steps, GotoTyped DEF CheckRunningTasksHealth
  <2> QED BY <1>10, <1>typed, <1>threads, <2>1, <2>2, SMTT(30) DEF CheckRunningTasksHealth, TypeOK
<1>11. ASSUME NEW h \in {"io", "http"}, RunScheduler(h) PROVE BindingInv'
  <2>0. h \in Threads
    BY <1>threads
  <2>1. arg[h] \in Jobs
    BY <1>11, <1>typed, <2>0 DEF RunScheduler, ArgOK
  <2>2. EdsTypeOK' /\ BindingsInverse' /\ NoPUSharing'
    BY <1>11, <1>typed, <2>1, ScheduleJobKeeps DEF RunScheduler
  <2>3. /\ pc' \in [Threads -> Steps]
        /\ arg' \in [Threads -> Tasks \cup Jobs \cup {None}]
        /\ ArgOK'
    BY <1>11, <1>typed, <1>steps, <2>0, GotoTyped DEF RunScheduler
  <2>4. proc' \in [Tasks -> ProcStates]
    <3>1. proc' = [t \in Tasks |->
                     CASE taskBinding'[t] \in {None, taskBinding[t]}           -> proc[t]
                       [] taskBinding'[t] \in Remote \ {None, taskBinding[t]}  -> "requested"
                       [] OTHER                                                -> "alive"]
      BY <1>11 DEF RunScheduler
    <3>2. ASSUME NEW t \in Tasks PROVE proc'[t] \in ProcStates
      BY <3>1, <1>typed DEF TypeOK, ProcStates
    <3> QED BY <3>1, <3>2
  <2> QED BY <1>11, <1>typed, <2>2, <2>3, <2>4 DEF RunScheduler, TypeOK
<1>12. ASSUME NEW t \in Tasks, NEW m \in Messages, NEW x \in ProcStates, Send(m),
              proc' \in {proc, [proc EXCEPT ![t] = x]}
       PROVE  BindingInv'
  <2>1. EdsTypeOK' /\ BindingsInverse' /\ NoPUSharing'
    BY <1>12, <1>typed, BindingsUnchanged DEF Send, edsVars, EdsTypeOK
  <2> QED BY <1>12, <1>typed, <2>1 DEF Send, TypeOK, ArgOK
<1>13. ASSUME NEW t \in Tasks, TaskSpawns(t) PROVE BindingInv'
  <2>1. SpawnMsg(t) \in Messages
    BY DEF SpawnMsg, Messages
  <2> QED BY <1>12, <1>13, <2>1 DEF TaskSpawns, ProcStates
<1>14. ASSUME NEW t \in Tasks, NEW s \in EndStates, TaskEnds(t, s) \/ RemoteTaskEnds(t, s)
       PROVE  BindingInv'
  <2>1. StateMsg(t, s) \in Messages
    BY DEF StateMsg, Messages, EndStates
  <2> QED BY <1>12, <1>14, <2>1, SMTT(30) DEF TaskEnds, RemoteTaskEnds, ProcStates
<1>15. ASSUME NEW t \in Tasks, NEW ok \in BOOLEAN, RemoteAnswers(t, ok) PROVE BindingInv'
  <2>1. DelegationMsg(t, ok) \in Messages
    BY DEF DelegationMsg, Messages
  <2> QED BY <1>12, <1>15, <2>1 DEF RemoteAnswers, ProcStates
<1>16. ASSUME NEW t \in Tasks, TaskCrashes(t) PROVE BindingInv'
  <2>1. EdsTypeOK' /\ BindingsInverse' /\ NoPUSharing'
    BY <1>16, <1>typed, BindingsUnchanged DEF TaskCrashes, edsVars, EdsTypeOK
  <2> QED BY <1>16, <1>typed, <2>1 DEF TaskCrashes, TypeOK, ArgOK, ProcStates
<1>17. ASSUME UNCHANGED vars PROVE BindingInv'
  <2>1. EdsTypeOK' /\ BindingsInverse' /\ NoPUSharing'
    BY <1>17, <1>typed, BindingsUnchanged, SMTT(30) DEF vars, edsVars, EdsTypeOK
  <2> QED BY <1>17, <1>typed, <2>1 DEF vars, TypeOK, ArgOK
<1>18. CASE IoThread
  BY <1>3, <1>4, <1>5, <1>6, <1>7, <1>8, <1>9, <1>11, <1>18 DEF IoThread
<1>19. CASE HealthThread
  BY <1>9, <1>10, <1>19 DEF HealthThread
<1>20. ASSUME NEW t \in Tasks, ProcessEnds(t) PROVE BindingInv'
  BY <1>14, <1>15, <1>20 DEF ProcessEnds, EndStates
<1> QED BY <1>1, <1>2, <1>11, <1>13, <1>16, <1>17, <1>18, <1>19, <1>20 DEF Next

(* The variables keep their types, for all jobs, tasks and PUs. *)
THEOREM TypeCorrect == Spec => []TypeOK
<1>1. BindingInv => TypeOK
  BY DEF BindingInv
<1> QED BY InitBindingInv, NextBindingInv, <1>1, PTL DEF Spec

(* task_bindings_ and resource_bindings_ are each other's inverse after every *)
(* handler, whatever the threads and the remote coordinators do.            *)
THEOREM BindingsAlwaysInverse == Spec => []BindingsInverse
<1>1. BindingInv => BindingsInverse
  BY DEF BindingInv
<1> QED BY InitBindingInv, NextBindingInv, <1>1, PTL DEF Spec

(* No PU is shared, and no PU with a task on it is taken for idle.           *)
THEOREM PUsNeverShared == Spec => []NoPUSharing
<1>1. BindingInv => NoPUSharing
  BY DEF BindingInv
<1> QED BY InitBindingInv, NextBindingInv, <1>1, PTL DEF Spec

-----------------------------------------------------------------------------

(* What the operations of the scheduler and of its environment do to the tables, *)
(* processes and messages.                                                     *)

(* No task writes an object that other jobs may refer to. *)
NoSharedObjects == \A t \in Tasks : Outputs[t] \cap Public = {}

(* Tasks write no data objects at all: jobs without data dependencies.      *)
NoOutputs == \A t \in Tasks : Outputs[t] = {}

-----------------------------------------------------------------------------
(* The invariants. *)

(* The task has been placed at some time: scheduled_to_resource is never    *)
(* reset.                                                                  *)
Started(t) == scheduledTo[t] # None

(* What the threads are at.  The lock stays with the health monitor while   *)
(* it declares a task FAILED; the web interface only schedules jobs none of *)
(* whose tasks has been placed, the I/O thread only others.                *)
ThreadInv ==
  /\ pc["http"] \in {"idle", "schedule"}
  /\ pc["health"] \in {"idle", "failure"}
  /\ lock = "health" <=> pc["health"] = "failure"
  /\ \A h \in Threads :
       pc[h] \in {"completion", "failure", "jobdone", "delegated"} => Started(arg[h])
  /\ pc["io"] = "schedule" => \E t \in Tasks : JobOf[t] = arg["io"] /\ Started(t)
  /\ pc["http"] = "schedule" =>
       /\ jobState[arg["http"]] # "ABSENT"
       /\ \A t \in Tasks : JobOf[t] = arg["http"] => ~Started(t)

(* What the tables say of tasks that are unknown, placed or produce objects. *)
TaskInv ==
  \A t \in Tasks :
    /\ taskBinding[t] # None => scheduledTo[t] = taskBinding[t]
    /\ jobState[JobOf[t]] = "ABSENT" => taskState[t] = "ABSENT"
    /\ taskState[t] = "ABSENT" => ~Started(t) /\ t \notin runnable[JobOf[t]]
    /\ proc[t] # "none" => Started(t)
    /\ \A j \in Jobs : t \in runnable[j] => JobOf[t] = j
    /\ \A o \in Objects : t \in producing[o] => o \in Outputs[t]

(* Messages are about tasks that were placed, except that a spawn message   *)
(* is about an unknown child of one.                                       *)
MessageInv ==
  \A t \in Tasks :
    /\ SpawnMsg(t) \in msgs => t \notin Submitted /\ taskState[t] = "ABSENT" /\ Started(Parent[t])
    /\ \A s \in EndStates : StateMsg(t, s) \in msgs => Started(t)
    /\ \A ok \in BOOLEAN : DelegationMsg(t, ok) \in msgs => Started(t)

PUsRegistered == \A r \in Resources : resState[r] # "ABSENT"

HistoryInv == BindingInv /\ ThreadInv /\ TaskInv /\ MessageInv /\ PUsRegistered

(* The refusal of a delegated task is on its way. *)
Refused(t) == DelegationMsg(t, FALSE) \in msgs

-----------------------------------------------------------------------------
(* The lazy graph reduction. *)

(* The reduction is the least closed pair of sets. *)
LEMMA ReductionIsLeast ==
  ASSUME NEW st, NEW prod, NEW j, NEW V \in SUBSET Tasks,
         NEW B \in SUBSET UNION {prod[o] : o \in Objects}, Closed(st, prod, j, V, B)
  PROVE  LET red == Reduction(st, prod, j)
         IN  red.visited \subseteq V /\ red.blocking \subseteq B
<1> DEFINE producers == UNION {prod[o] : o \in Objects}
           closed == {vb \in (SUBSET Tasks) \X (SUBSET producers) :
                        Closed(st, prod, j, vb[1], vb[2])}
<1>1. <<V, B>> \in closed
  OBVIOUS
<1>2. /\ \A t : (\A vb \in closed : t \in vb[1]) => t \in V
      /\ \A t : (\A vb \in closed : t \in vb[2]) => t \in B
  BY <1>1
<1>3. Reduction(st, prod, j) =
        [visited  |-> {t \in Tasks : \A vb \in closed : t \in vb[1]},
         blocking |-> {t \in producers : \A vb \in closed : t \in vb[2]}]
  BY DEF Reduction
<1> HIDE DEF closed, producers
<1> QED BY <1>2, <1>3, SMT

(* It only concerns tasks that are known, and as long as no object is       *)
(* shared only tasks of the job; what it sets to BLOCKING had not started,  *)
(* failed or completed.                                                    *)
LEMMA ReductionBounds ==
  ASSUME EdsTypeOK, NEW j \in Jobs
  PROVE  LET red == Reduction(taskState, producing, j)
             own(t) == (\A o \in Objects : producing[o] # {} => o \notin Public) => JobOf[t] = j
         IN  /\ \A t \in red.visited : t \in Tasks /\ taskState[t] # "ABSENT" /\ own(t)
             /\ \A t \in red.blocking : /\ t \in Tasks /\ own(t)
                                        /\ taskState[t] \in {"CREATED", "FAILED", "COMPLETED"}
<1> DEFINE own(t) == (\A o \in Objects : producing[o] # {} => o \notin Public) => JobOf[t] = j
           V == {t \in Tasks : taskState[t] # "ABSENT" /\ own(t)}
           P == UNION {producing[o] : o \in Objects}
           B == {t \in P : t \in V /\ taskState[t] \in {"CREATED", "FAILED", "COMPLETED"}}
<1>0. \A o \in Objects : producing[o] \subseteq Tasks
  BY DEF EdsTypeOK
<1>1. ASSUME NEW o \in Objects
      PROVE  \A t \in ProducingTasksForDataObjectID(taskState, producing, o, j) : t \in P /\ t \in V
  BY <1>0 DEF ProducingTasksForDataObjectID
<1>2. OutputProducers(taskState, producing, j) \subseteq B
  BY <1>1, ObjectsAssumption DEF OutputProducers
<1>3. RootOf(j) \in Tasks /\ JobOf[RootOf(j)] = j
  BY TaskTreeAssumption DEF RootOf
<1>4. RootQueued(taskState, j) => RootOf(j) \in V
  BY <1>3 DEF RootQueued
<1>5. ASSUME NEW t \in V
      PROVE  /\ EagerChildren(taskState, t) \subseteq V
             /\ Predecessors(taskState, producing, t, j) \subseteq B
  <2>1. EagerChildren(taskState, t) \subseteq V
    BY TaskTreeAssumption DEF EagerChildren, SpawnedBy
  <2>2. Deps[t] \ Concrete \subseteq Objects
    BY ObjectsAssumption
  <2>3. Predecessors(taskState, producing, t, j) \subseteq B
    BY <1>1, <2>2 DEF Predecessors
  <2> QED BY <2>1, <2>3
<1>6. Closed(taskState, producing, j, V, B)
  BY <1>2, <1>4, <1>5 DEF Closed
<1> HIDE DEF V, B
<1>7. LET red == Reduction(taskState, producing, j)
      IN  red.visited \subseteq V /\ red.blocking \subseteq B
  <2>1. V \in SUBSET Tasks /\ B \in SUBSET P
    BY DEF V, B
  <2> QED BY <1>6, <2>1, ReductionIsLeast
<1> QED BY <1>7 DEF V, B

-----------------------------------------------------------------------------
(* What the scheduler's operations do to the state. *)

(* A reduction for job j makes the tasks of R RUNNABLE and those of K       *)
(* BLOCKING, then the tasks of D are placed.                               *)
Schedules(j, D, R, K) ==
  /\ \A t \in R \cup K : taskState[t] \in {"CREATED", "BLOCKING", "FAILED", "COMPLETED"}
  /\ NoSharedObjects => \A t \in R \cup K : JobOf[t] = j
  /\ NoOutputs => K = {} /\ \A t \in R : taskState[t] \in {"CREATED", "BLOCKING"}
  /\ \A t \in D : /\ taskBinding[t] = None /\ taskBinding'[t] \in Resources
                  /\ t \in runnable[j] \/ (t \in R /\ JobOf[t] = j)
  /\ \A t \in Tasks \ D : taskBinding'[t] = taskBinding[t]
  /\ scheduledTo' = [t \in Tasks |-> IF t \in D THEN taskBinding'[t] ELSE scheduledTo[t]]
  /\ taskState' = [t \in Tasks |-> IF t \in D THEN "RUNNING" ELSE IF t \in R THEN "RUNNABLE"
                                   ELSE IF t \in K THEN "BLOCKING" ELSE taskState[t]]
  /\ runnable' = [k \in Jobs |-> (runnable[k] \cup {t \in R : JobOf[t] = k}) \ D]
  /\ jobState' = IF D = {} THEN jobState ELSE [jobState EXCEPT ![j] = "RUNNING"]
  /\ \A r \in Resources : resState'[r] = resState[r]
                            \/ (resState'[r] = "BUSY" /\ \E t \in D : taskBinding'[t] = r)
  /\ UNCHANGED <<producing, failedCheck>>

(* Every producing task of an object has it among its outputs. *)
ProducersWrite == \A o \in Objects : \A t \in producing[o] : o \in Outputs[t]

(* ScheduleJob fails one of two CHECKs, or schedules. *)
LEMMA ScheduleJobEffect ==
  ASSUME EdsTypeOK, ProducersWrite, NEW j \in Jobs, Alive, ScheduleJob(j)
  PROVE  \/ /\ Fail("LazyGraphReduction_producer")
            /\ \E o \in JobOutputs[j] :
                 ProducingTasksForDataObjectID(taskState, producing, o, j) = {}
         \/ /\ Fail("BindTaskToResource_unbound")
            /\ \E t \in Tasks : /\ taskBinding[t] # None
                                /\ \/ t \in runnable[j]
                                   \/ /\ taskState[t] \in {"CREATED", "BLOCKING", "FAILED", "COMPLETED"}
                                      /\ JobOf[t] = j
         \/ \E D, R, K \in SUBSET Tasks : Schedules(j, D, R, K)
<1> DEFINE unproduced == \E o \in JobOutputs[j] :
                           ProducingTasksForDataObjectID(taskState, producing, o, j) = {}
           red == Reduction(taskState, producing, j)
           ready == ComputeRunnableTasks(red)
           st == Reduced(taskState, red)
           R == NewlyRunnable(taskState, red)
           K == red.blocking
<1>1. CASE unproduced
  BY <1>1 DEF ScheduleJob
<1>2. CASE ~unproduced
  <2>1. PICK p \in Placements(ready[j]) :
          /\ HandleTaskPlacements(p, st, ready)
          /\ IF DOMAIN p = {} \/ failedCheck' # "none"
             THEN UNCHANGED jobState
             ELSE jobState' = [jobState EXCEPT ![j] = "RUNNING"]
          /\ UNCHANGED producing
    BY <1>2 DEF ScheduleJob
  <2>2. ready \in [Jobs -> SUBSET Tasks] /\ st \in [Tasks -> TaskStates]
    BY ReductionTyped
  <2>3. NoSharedObjects => \A o \in Objects : producing[o] # {} => o \notin Public
    BY DEF NoSharedObjects, ProducersWrite, EdsTypeOK
  <2>4. /\ R \in SUBSET Tasks /\ K \in SUBSET Tasks
        /\ \A t \in R \cup K : taskState[t] \in {"CREATED", "BLOCKING", "FAILED", "COMPLETED"}
        /\ NoSharedObjects => \A t \in R \cup K : JobOf[t] = j
        /\ NoOutputs => K = {} /\ \A t \in R : taskState[t] \in {"CREATED", "BLOCKING"}
    <3>1. \A t \in red.visited : t \in Tasks /\ (NoSharedObjects => JobOf[t] = j)
      BY <2>3, ReductionBounds
    <3>2. \A t \in K : /\ t \in Tasks /\ (NoSharedObjects => JobOf[t] = j)
                       /\ taskState[t] \in {"CREATED", "FAILED", "COMPLETED"}
      BY <2>3, ReductionBounds
    <3>3. \A t \in R : t \in red.visited
                         /\ (taskState[t] \in {"CREATED", "BLOCKING"} \/ t \in K)
      BY DEF NewlyRunnable, NotStarted
    <3>4. ASSUME NoOutputs PROVE K = {}
      <4>1. \A o \in Objects : producing[o] = {}
        BY <3>4 DEF NoOutputs, ProducersWrite, EdsTypeOK
      <4>2. UNION {producing[o] : o \in Objects} = {}
        BY <4>1
      <4> QED BY <4>2 DEF Reduction
    <3> HIDE DEF red, R, K
    <3> QED BY <3>1, <3>2, <3>3, <3>4
  <2>5. /\ ready = [k \in Jobs |-> runnable[k] \cup {t \in R : JobOf[t] = k}]
        /\ st = [t \in Tasks |-> IF t \in R THEN "RUNNABLE"
                                 ELSE IF t \in K THEN "BLOCKING" ELSE taskState[t]]
    BY DEF ComputeRunnableTasks, Reduced
  <2> HIDE DEF red, ready, st, R, K
  <2>6. /\ DOMAIN p \subseteq ready[j] /\ DOMAIN p \in SUBSET Tasks
        /\ \A t \in DOMAIN p : p[t] \in Resources
    BY <2>1, <2>2, SMT DEF Placements, IdleResources
  <2>7. \A t \in DOMAIN p : t \in runnable[j] \/ (t \in R /\ JobOf[t] = j)
    BY <2>5, <2>6
  <2>8. CASE \E t \in DOMAIN p : taskBinding[t] # None
    <3>1. Fail("BindTaskToResource_unbound")
      BY <2>1, <2>8, SMTT(30) DEF HandleTaskPlacements
    <3> QED BY <2>4, <2>6, <2>7, <2>8, <3>1
  <2>9. CASE \A t \in DOMAIN p : taskBinding[t] = None
    <3>1. /\ taskBinding' = [t \in Tasks |-> IF t \in DOMAIN p THEN p[t] ELSE taskBinding[t]]
          /\ resState' = [r \in Resources |->
                            IF \E t \in DOMAIN p : p[t] = r THEN "BUSY" ELSE resState[r]]
          /\ runnable' = [k \in Jobs |-> ready[k] \ DOMAIN p]
          /\ taskState' = [t \in Tasks |-> IF t \in DOMAIN p THEN "RUNNING" ELSE st[t]]
          /\ scheduledTo' = [t \in Tasks |-> IF t \in DOMAIN p THEN p[t] ELSE scheduledTo[t]]
          /\ UNCHANGED failedCheck
      BY <2>1, <2>9, SMTT(30) DEF HandleTaskPlacements
    <3> DEFINE D == DOMAIN p
    <3>2. \A t \in D : taskBinding'[t] = p[t] /\ taskBinding'[t] \in Resources
      BY <2>6, <3>1
    <3>3. \A t \in Tasks \ D : taskBinding'[t] = taskBinding[t]
      BY <3>1
    <3>4. scheduledTo' = [t \in Tasks |-> IF t \in D THEN taskBinding'[t] ELSE scheduledTo[t]]
      BY <3>1, <3>2
    <3>5. taskState' = [t \in Tasks |-> IF t \in D THEN "RUNNING" ELSE IF t \in R THEN "RUNNABLE"
                                        ELSE IF t \in K THEN "BLOCKING" ELSE taskState[t]]
      BY <2>5, <3>1
    <3>6. runnable' = [k \in Jobs |-> (runnable[k] \cup {t \in R : JobOf[t] = k}) \ D]
      BY <2>5, <3>1
    <3>7. jobState' = IF D = {} THEN jobState ELSE [jobState EXCEPT ![j] = "RUNNING"]
      BY <2>1, <3>1 DEF Alive
    <3>8. \A r \in Resources : resState'[r] = resState[r]
                                 \/ (resState'[r] = "BUSY" /\ \E t \in D : taskBinding'[t] = r)
      BY <3>1, <3>2
    <3>9. Schedules(j, D, R, K)
      BY <2>1, <2>4, <2>7, <2>9, <3>1, <3>2, <3>3, <3>4, <3>5, <3>6, <3>7, <3>8 DEF Schedules
    <3> QED BY <2>4, <2>6, <3>9
  <2> QED BY <2>8, <2>9
<1> QED BY <1>1, <1>2

(* The scheduler's steps release a PU only together with its task. *)
Unbound(t) ==
  /\ taskBinding' = [taskBinding EXCEPT ![t] = None]
  /\ resBindings' = resBindings \ {<<taskBinding[t], t>>}
  /\ UNCHANGED <<jobState, producing, scheduledTo, failedCheck>>

(* HandleTaskCompletion for a task that has been placed passes its CHECKs   *)
(* and leaves the PU, if there still is one, idle.                         *)
LEMMA CompletionEffect ==
  ASSUME EdsTypeOK, TaskInv, PUsRegistered, NEW t \in Tasks, Started(t),
         SimpleHandleTaskCompletion(t)
  PROVE  /\ Unbound(t)
         /\ taskState' = [taskState EXCEPT ![t] = "COMPLETED"]
         /\ runnable' = runnable
         /\ resState' = IF taskBinding[t] = None THEN resState
                        ELSE [resState EXCEPT ![taskBinding[t]] = "IDLE"]
<1>1. scheduledTo[t] \in Resources /\ Registered(scheduledTo[t])
  BY DEF Started, EdsTypeOK, Registered, PUsRegistered
<1>2. HandleTaskCompletion(t, ClearedLists(t))
  BY <1>1 DEF SimpleHandleTaskCompletion
<1>3. ClearedLists(t)[scheduledTo[t]] = {}
  BY <1>1 DEF ClearedLists, EdsTypeOK
<1>4. CASE taskBinding[t] # None
  <2>1. scheduledTo[t] = taskBinding[t]
    BY <1>4 DEF TaskInv
  <2>2. /\ UnbindTaskFromResource(t, taskBinding[t], ClearedLists(t))
        /\ taskState' = [taskState EXCEPT ![t] = "COMPLETED"]
        /\ UNCHANGED <<jobState, producing, runnable, scheduledTo, failedCheck>>
    BY <1>1, <1>2, <1>4, <2>1 DEF HandleTaskCompletion
  <2> QED BY <1>3, <1>4, <2>1, <2>2 DEF UnbindTaskFromResource, Unbound
<1>5. CASE taskBinding[t] = None
  <2>1. /\ taskState' = [taskState EXCEPT ![t] = "COMPLETED"]
        /\ UNCHANGED <<jobState, producing, runnable, taskBinding, resBindings,
                       resState, scheduledTo, failedCheck>>
    BY <1>1, <1>2, <1>5 DEF HandleTaskCompletion
  <2>2. <<taskBinding[t], t>> \notin resBindings
    BY <1>5, ResourcesAssumption DEF EdsTypeOK
  <2>3. taskBinding = [taskBinding EXCEPT ![t] = None]
    BY <1>5 DEF EdsTypeOK
  <2> QED BY <1>5, <2>1, <2>2, <2>3 DEF Unbound
<1> QED BY <1>4, <1>5

(* HandleTaskFailure does so if the task is bound. *)
LEMMA FailureEffect ==
  ASSUME EdsTypeOK, TaskInv, PUsRegistered, NEW t \in Tasks, Started(t),
         SimpleHandleTaskFailure(t)
  PROVE  \/ taskBinding[t] = None /\ Fail("HandleTaskFailure_binding")
         \/ /\ taskBinding[t] # None /\ Unbound(t)
            /\ taskState' = [taskState EXCEPT ![t] = "FAILED"]
            /\ runnable' = runnable
            /\ resState' = [resState EXCEPT ![taskBinding[t]] = "IDLE"]
<1>1. scheduledTo[t] \in Resources /\ Registered(scheduledTo[t])
  BY DEF Started, EdsTypeOK, Registered, PUsRegistered
<1>2. HandleTaskFailure(t, ClearedLists(t))
  BY <1>1 DEF SimpleHandleTaskFailure
<1>3. ClearedLists(t)[scheduledTo[t]] = {}
  BY <1>1 DEF ClearedLists, EdsTypeOK
<1>4. CASE taskBinding[t] # None
  <2>1. scheduledTo[t] = taskBinding[t]
    BY <1>4 DEF TaskInv
  <2>2. /\ UnbindTaskFromResource(t, taskBinding[t], ClearedLists(t))
        /\ taskState' = [taskState EXCEPT ![t] = "FAILED"]
        /\ UNCHANGED <<jobState, producing, runnable, scheduledTo, failedCheck>>
    BY <1>1, <1>2, <1>4, <2>1 DEF HandleTaskFailure
  <2> QED BY <1>3, <1>4, <2>1, <2>2 DEF UnbindTaskFromResource, Unbound
<1>5. CASE taskBinding[t] = None
  BY <1>2, <1>5, ResourcesAssumption DEF HandleTaskFailure, Registered
<1> QED BY <1>4, <1>5

(* HandleTaskDelegationFailure makes a bound task RUNNABLE again. *)
LEMMA DelegationFailureEffect ==
  ASSUME EdsTypeOK, PUsRegistered, NEW t \in Tasks, HandleTaskDelegationFailure(t)
  PROVE  \/ taskBinding[t] = None /\ Fail("HandleTaskDelegationFailure_binding")
         \/ /\ taskBinding[t] # None /\ Unbound(t)
            /\ taskState' = [taskState EXCEPT ![t] = "RUNNABLE"]
            /\ runnable' = [runnable EXCEPT ![JobOf[t]] = @ \cup {t}]
            /\ resState' \in {resState, [resState EXCEPT ![taskBinding[t]] = "IDLE"]}
<1>1. CASE taskBinding[t] # None
  <2>1. Registered(taskBinding[t])
    BY <1>1 DEF Registered, PUsRegistered, EdsTypeOK
  <2>2. UnbindTaskFromResource(t, taskBinding[t], running)
    BY <2>1 DEF HandleTaskDelegationFailure
  <2>3. resState' \in {resState, [resState EXCEPT ![taskBinding[t]] = "IDLE"]}
    <3>1. resState' = [resState EXCEPT ![taskBinding[t]] =
                         IF running[taskBinding[t]] = {} THEN "IDLE" ELSE resState[taskBinding[t]]]
      BY <2>2 DEF UnbindTaskFromResource
    <3>2. resState = [resState EXCEPT ![taskBinding[t]] = resState[taskBinding[t]]]
      BY DEF EdsTypeOK
    <3> QED BY <3>1, <3>2
  <2> QED BY <1>1, <2>1, <2>2, <2>3 DEF HandleTaskDelegationFailure, UnbindTaskFromResource, Unbound
<1>2. CASE taskBinding[t] = None
  BY <1>2, ResourcesAssumption DEF HandleTaskDelegationFailure, Registered
<1> QED BY <1>1, <1>2

(* Messages of different kinds, tasks or contents differ. *)
LEMMA MessagesDiffer ==
  \A t, u, s, v :
    /\ StateMsg(t, s) = StateMsg(u, v) => t = u /\ s = v
    /\ SpawnMsg(t) = SpawnMsg(u) => t = u
    /\ DelegationMsg(t, s) = DelegationMsg(u, v) => t = u /\ s = v
    /\ StateMsg(t, s) # SpawnMsg(u)
    /\ StateMsg(t, s) # DelegationMsg(u, v)
    /\ SpawnMsg(t) # DelegationMsg(u, v)
<1> TAKE t, u, s, v
<1>1. StateMsg(t, s) = StateMsg(u, v) => t = u /\ s = v
  BY DEF StateMsg
<1>2. SpawnMsg(t) = SpawnMsg(u) => t = u
  BY DEF SpawnMsg
<1>3. DelegationMsg(t, s) = DelegationMsg(u, v) => t = u /\ s = v
  BY DEF DelegationMsg
<1>4. StateMsg(t, s) # SpawnMsg(u)
  BY DEF StateMsg, SpawnMsg
<1>5. StateMsg(t, s) # DelegationMsg(u, v)
  BY DEF StateMsg, DelegationMsg
<1>6. SpawnMsg(t) # DelegationMsg(u, v)
  BY DEF SpawnMsg, DelegationMsg
<1> QED BY <1>1, <1>2, <1>3, <1>4, <1>5, <1>6

-----------------------------------------------------------------------------
(* What processes and remote coordinators do. *)

(* How the environment's steps change processes and messages. *)
LEMMA EnvironmentEffect ==
  ASSUME TypeOK, NEW t \in Tasks, ProcessEnds(t) \/ TaskSpawns(t) \/ TaskCrashes(t)
  PROVE  /\ UNCHANGED <<edsVars, pc, arg, lock>>
         /\ \/ /\ proc[t] = "alive" /\ proc' = [proc EXCEPT ![t] = "exited"]
               /\ \/ msgs' = msgs
                  \/ \E s \in {"COMPLETED", "ABORTED"} : msgs' = msgs \cup {StateMsg(t, s)}
            \/ /\ proc[t] = "requested"
               /\ \/ proc' = [proc EXCEPT ![t] = "accepted"] /\ msgs' = msgs \cup {DelegationMsg(t, TRUE)}
                  \/ proc' = [proc EXCEPT ![t] = "none"] /\ msgs' = msgs \cup {DelegationMsg(t, FALSE)}
            \/ /\ proc[t] = "accepted" /\ proc' = [proc EXCEPT ![t] = "none"]
               /\ \E s \in EndStates : msgs' = msgs \cup {StateMsg(t, s)}
            \/ /\ t \notin Submitted /\ proc[Parent[t]] = "alive" /\ taskState[t] = "ABSENT"
               /\ proc' = proc /\ msgs' = msgs \cup {SpawnMsg(t)}
<1>1. CASE TaskSpawns(t)
  BY <1>1 DEF TaskSpawns, Send
<1>2. CASE TaskCrashes(t)
  BY <1>2 DEF TaskCrashes
<1>3. CASE \E s \in {"COMPLETED", "ABORTED"} : TaskEnds(t, s)
  BY <1>3 DEF TaskEnds, Send
<1>4. CASE \E s \in EndStates : RemoteTaskEnds(t, s)
  BY <1>4 DEF RemoteTaskEnds, Send
<1>5. ASSUME NEW ok \in BOOLEAN, RemoteAnswers(t, ok)
      PROVE  /\ UNCHANGED <<edsVars, pc, arg, lock>> /\ proc[t] = "requested"
             /\ \/ proc' = [proc EXCEPT ![t] = "accepted"] /\ msgs' = msgs \cup {DelegationMsg(t, TRUE)}
                \/ proc' = [proc EXCEPT ![t] = "none"] /\ msgs' = msgs \cup {DelegationMsg(t, FALSE)}
  <2>1. CASE ok = TRUE
    BY <1>5, <2>1 DEF RemoteAnswers, Send
  <2>2. CASE ok = FALSE
    BY <1>5, <2>2 DEF RemoteAnswers, Send
  <2> QED BY <2>1, <2>2
<1> QED BY <1>1, <1>2, <1>3, <1>4, <1>5 DEF ProcessEnds

(* Where new messages come from. *)
LEMMA EnvironmentMessages ==
  ASSUME TypeOK, NEW t \in Tasks, ProcessEnds(t) \/ TaskSpawns(t) \/ TaskCrashes(t)
  PROVE  /\ msgs \subseteq msgs'
         /\ \A u \in Tasks \ {t} : proc'[u] = proc[u]
         /\ \A u \in Tasks :
              /\ Refused(u)' => Refused(u) \/ (u = t /\ proc[t] = "requested" /\ proc'[t] = "none")
              /\ \A s \in EndStates : StateMsg(u, s) \in msgs' =>
                   \/ StateMsg(u, s) \in msgs
                   \/ /\ u = t /\ proc[t] \in {"alive", "accepted"} /\ proc'[t] \in {"exited", "none"}
                      /\ s = "FAILED" => proc[t] = "accepted"
                      /\ msgs' = msgs \cup {StateMsg(t, s)}
              /\ SpawnMsg(u) \in msgs' =>
                   \/ SpawnMsg(u) \in msgs
                   \/ /\ u = t /\ t \notin Submitted /\ proc[Parent[t]] = "alive"
                      /\ taskState[t] = "ABSENT" /\ proc' = proc
<1>type. proc \in [Tasks -> ProcStates]
  BY DEF TypeOK
<1>state. ASSUME NEW s, NEW u, NEW v, NEW x
          PROVE  /\ StateMsg(u, x) = StateMsg(v, s) => u = v /\ x = s
                 /\ SpawnMsg(u) # StateMsg(v, s)
                 /\ DelegationMsg(u, x) # StateMsg(v, s)
  BY MessagesDiffer, SMT
<1>deleg. ASSUME NEW s, NEW u, NEW v, NEW x
          PROVE  /\ StateMsg(u, x) # DelegationMsg(v, s)
                 /\ SpawnMsg(u) # DelegationMsg(v, s)
                 /\ DelegationMsg(u, x) = DelegationMsg(v, s) => u = v /\ x = s
  BY MessagesDiffer, SMT
<1>spawn. ASSUME NEW u, NEW v, NEW x
          PROVE  /\ StateMsg(u, x) # SpawnMsg(v)
                 /\ SpawnMsg(u) = SpawnMsg(v) => u = v
                 /\ DelegationMsg(u, x) # SpawnMsg(v)
  BY MessagesDiffer
<1> DEFINE P == /\ msgs \subseteq msgs'
                /\ \A u \in Tasks \ {t} : proc'[u] = proc[u]
           R == \A u \in Tasks : DelegationMsg(u, FALSE) \in msgs' =>
                  \/ DelegationMsg(u, FALSE) \in msgs
                  \/ u = t /\ proc[t] = "requested" /\ proc'[t] = "none"
           E == \A u \in Tasks, s \in EndStates : StateMsg(u, s) \in msgs' =>
                   \/ StateMsg(u, s) \in msgs
                   \/ /\ u = t /\ proc[t] \in {"alive", "accepted"} /\ proc'[t] \in {"exited", "none"}
                      /\ s = "FAILED" => proc[t] = "accepted"
                      /\ msgs' = msgs \cup {StateMsg(t, s)}
           S == \A u \in Tasks : SpawnMsg(u) \in msgs' =>
                   \/ SpawnMsg(u) \in msgs
                   \/ /\ u = t /\ t \notin Submitted /\ proc[Parent[t]] = "alive"
                      /\ taskState[t] = "ABSENT" /\ proc' = proc
<1> SUFFICES P /\ R /\ E /\ S
  BY DEF Refused
<1>1. CASE /\ proc[t] = "alive" /\ proc' = [proc EXCEPT ![t] = "exited"]
           /\ \/ msgs' = msgs
              \/ \E s \in {"COMPLETED", "ABORTED"} : msgs' = msgs \cup {StateMsg(t, s)}
  <2>1. CASE msgs' = msgs
    BY <1>type, <1>1, <2>1
  <2>2. ASSUME NEW s \in {"COMPLETED", "ABORTED"}, msgs' = msgs \cup {StateMsg(t, s)}
        PROVE  P /\ R /\ E /\ S
    <3>1. P /\ proc'[t] = "exited"
      BY <1>type, <1>1, <2>2
    <3>2. R
      BY <1>state, <2>2
    <3>3. E
      BY <1>state, <1>1, <2>2, <3>1, SMTT(30)
    <3>4. S
      BY <1>state, <2>2, SMTT(30)
    <3> QED BY <3>1, <3>2, <3>3, <3>4
  <2> QED BY <1>1, <2>1, <2>2
<1>2. CASE /\ proc[t] = "requested" /\ proc' = [proc EXCEPT ![t] = "accepted"]
           /\ msgs' = msgs \cup {DelegationMsg(t, TRUE)}
  <2>1. P
    BY <1>type, <1>2
  <2>2. R
    BY <1>deleg, <1>2
  <2>3. E
    BY <1>deleg, <1>2
  <2>4. S
    BY <1>deleg, <1>2
  <2> QED BY <2>1, <2>2, <2>3, <2>4
<1>3. CASE /\ proc[t] = "requested" /\ proc' = [proc EXCEPT ![t] = "none"]
           /\ msgs' = msgs \cup {DelegationMsg(t, FALSE)}
  <2>1. P /\ proc'[t] = "none"
    BY <1>type, <1>3
  <2>2. R
    BY <1>deleg, <1>3, <2>1
  <2>3. E
    BY <1>deleg, <1>3
  <2>4. S
    BY <1>deleg, <1>3
  <2> QED BY <2>1, <2>2, <2>3, <2>4
<1>4. ASSUME NEW s \in EndStates, proc[t] = "accepted", proc' = [proc EXCEPT ![t] = "none"],
             msgs' = msgs \cup {StateMsg(t, s)}
      PROVE  P /\ R /\ E /\ S
  <2>1. P /\ proc'[t] = "none"
    BY <1>type, <1>4
  <2>2. R
    BY <1>state, <1>4
  <2>3. E
    BY <1>state, <1>4, <2>1, SMT
  <2>4. S
    BY <1>state, <1>4
  <2> QED BY <2>1, <2>2, <2>3, <2>4
<1>5. CASE /\ t \notin Submitted /\ proc[Parent[t]] = "alive" /\ taskState[t] = "ABSENT"
           /\ proc' = proc /\ msgs' = msgs \cup {SpawnMsg(t)}
  <2>1. P
    BY <1>5
  <2>2. R
    BY <1>spawn, <1>5
  <2>3. E
    BY <1>spawn, <1>5
  <2>4. S
    BY <1>spawn, <1>5
  <2> QED BY <2>1, <2>2, <2>3, <2>4
<1> QED BY <1>1, <1>2, <1>3, <1>4, <1>5, EnvironmentEffect

(* A step that at most delivers messages, moves threads and changes states   *)
(* of known tasks keeps TaskInv.                                            *)
LEMMA TaskInvKept ==
  ASSUME TaskInv, EdsTypeOK, NEW t \in Tasks, Started(t),
         taskState' \in [Tasks -> TaskStates],
         \A u \in Tasks : taskState'[u] = taskState[u] \/ (u = t /\ taskState'[u] # "ABSENT"),
         UNCHANGED <<jobState, producing, scheduledTo>>,
         \A u \in Tasks : taskBinding'[u] \in {taskBinding[u], None},
         \A u \in Tasks : proc'[u] \in {proc[u], "none"},
         \A j \in Jobs : \A u \in runnable'[j] : u \in runnable[j] \/ (u = t /\ j = JobOf[t])
  PROVE  TaskInv'
<1> SUFFICES ASSUME NEW u \in Tasks
             PROVE  /\ taskBinding'[u] # None => scheduledTo'[u] = taskBinding'[u]
                    /\ jobState'[JobOf[u]] = "ABSENT" => taskState'[u] = "ABSENT"
                    /\ taskState'[u] = "ABSENT" => ~Started(u)' /\ u \notin runnable'[JobOf[u]]
                    /\ proc'[u] # "none" => Started(u)'
                    /\ \A j \in Jobs : u \in runnable'[j] => JobOf[u] = j
                    /\ \A o \in Objects : u \in producing'[o] => o \in Outputs[u]
  BY DEF TaskInv
<1>1. JobOf[u] \in Jobs
  BY TaskTreeAssumption
<1> QED BY <1>1, SMT DEF TaskInv, Started

(* Placing tasks that are known and free keeps it too. *)
LEMMA TaskInvScheduled ==
  ASSUME TaskInv, EdsTypeOK, NEW j \in Jobs, NEW D \in SUBSET Tasks, NEW R \in SUBSET Tasks,
         NEW K \in SUBSET Tasks, Schedules(j, D, R, K),
         \A u \in Tasks \ D : proc'[u] = proc[u]
  PROVE  TaskInv' /\ \A t \in D : JobOf[t] = j /\ taskState[t] # "ABSENT" /\ Started(t)'
<1>1. \A t \in Tasks : JobOf[t] \in Jobs
  BY TaskTreeAssumption
<1>2. ASSUME NEW t \in D PROVE JobOf[t] = j /\ taskState[t] # "ABSENT" /\ Started(t)'
  <2>1. t \in runnable[j] \/ (t \in R /\ JobOf[t] = j)
    BY DEF Schedules
  <2>2. JobOf[t] = j
    BY <2>1 DEF TaskInv
  <2>3. t \in R => taskState[t] # "ABSENT"
    BY DEF Schedules
  <2>4. taskState[t] # "ABSENT"
    BY <2>1, <2>2, <2>3 DEF TaskInv
  <2>5. scheduledTo'[t] \in Resources
    BY DEF Schedules
  <2> QED BY <2>2, <2>4, <2>5, ResourcesAssumption DEF Started
<1>3. ASSUME NEW u \in Tasks
      PROVE  /\ taskBinding'[u] # None => scheduledTo'[u] = taskBinding'[u]
             /\ proc'[u] # "none" => Started(u)'
             /\ \A o \in Objects : u \in producing'[o] => o \in Outputs[u]
  <2>1. CASE u \in D
    BY <1>2, <2>1 DEF Schedules, TaskInv
  <2>2. CASE u \notin D
    <3>1. /\ taskBinding'[u] = taskBinding[u] /\ scheduledTo'[u] = scheduledTo[u]
          /\ proc'[u] = proc[u] /\ producing' = producing
      BY <2>2 DEF Schedules
    <3> QED BY <3>1 DEF TaskInv, Started
  <2> QED BY <2>1, <2>2
<1>4. ASSUME NEW u \in Tasks
      PROVE  /\ jobState'[JobOf[u]] = "ABSENT" => taskState'[u] = "ABSENT"
             /\ taskState'[u] = "ABSENT" => ~Started(u)' /\ u \notin runnable'[JobOf[u]]
  <2>1. u \notin R \cup K => (u \in D \/ taskState'[u] = taskState[u])
    BY DEF Schedules
  <2>2. u \in R \cup K => taskState[u] # "ABSENT"
    BY DEF Schedules
  <2>3. taskState'[u] = "ABSENT" => taskState[u] = "ABSENT" /\ u \notin R \cup K \cup D
    BY DEF Schedules
  <2>4. jobState'[JobOf[u]] = "ABSENT" => jobState[JobOf[u]] = "ABSENT"
    BY <1>1 DEF Schedules, EdsTypeOK
  <2>5. taskState'[u] = "ABSENT" => ~Started(u)' /\ u \notin runnable'[JobOf[u]]
    BY <1>1, <2>3 DEF Schedules, Started, TaskInv
  <2>6. jobState[JobOf[u]] = "ABSENT" => taskState'[u] = "ABSENT"
    BY <1>2, <2>1, <2>2 DEF TaskInv
  <2> QED BY <2>4, <2>5, <2>6
<1>5. ASSUME NEW u \in Tasks, NEW k \in Jobs, u \in runnable'[k]
      PROVE  JobOf[u] = k
  BY <1>5 DEF Schedules, TaskInv
<1> QED BY <1>2, <1>3, <1>4, <1>5 DEF TaskInv

(* A step that starts no task, sends nothing, and makes no unknown task     *)
(* known that a spawn message is about, keeps MessageInv.                   *)
LEMMA MessageInvKept ==
  ASSUME MessageInv, msgs' \subseteq msgs, \A t \in Tasks : Started(t) => Started(t)',
         \A t \in Tasks : SpawnMsg(t) \in msgs' /\ taskState[t] = "ABSENT" => taskState'[t] = "ABSENT"
  PROVE  MessageInv'
<1> SUFFICES ASSUME NEW t \in Tasks
             PROVE  /\ SpawnMsg(t) \in msgs' =>
                         t \notin Submitted /\ taskState'[t] = "ABSENT" /\ Started(Parent[t])'
                    /\ \A s \in EndStates : StateMsg(t, s) \in msgs' => Started(t)'
                    /\ \A ok \in BOOLEAN : DelegationMsg(t, ok) \in msgs' => Started(t)'
  BY DEF MessageInv, SpawnMsg, StateMsg, DelegationMsg
<1>1. t \notin Submitted => Parent[t] \in Tasks
  BY CoordinatorAssumption, TaskTreeAssumption
<1> QED BY <1>1 DEF MessageInv

(* What a thread is at after a step that leaves the other threads alone. *)
LEMMA ThreadInvGoto ==
  ASSUME ThreadInv, TypeOK, ArgOK, NEW h \in Threads, NEW s \in Steps, NEW a,
         Goto(h, s, a), \A t \in Tasks : Started(t)' = Started(t),
         \A j \in Jobs : jobState[j] # "ABSENT" => jobState'[j] # "ABSENT",
         lock' = "health" <=> pc'["health"] = "failure",
         h = "health" => s \in {"idle", "failure"},
         h = "http" => s = "idle",
         s \in {"completion", "failure", "jobdone", "delegated"} => a \in Tasks /\ Started(a),
         s = "schedule" => \E t \in Tasks : JobOf[t] = a /\ Started(t)
  PROVE  ThreadInv'
<1>1. /\ pc' = [pc EXCEPT ![h] = s] /\ arg' = [arg EXCEPT ![h] = a]
      /\ \A g \in Threads : pc'[g] = (IF g = h THEN s ELSE pc[g])
                              /\ arg'[g] = (IF g = h THEN a ELSE arg[g])
  BY DEF Goto, TypeOK
<1>2. {"io", "http", "health"} \subseteq Threads
  BY DEF Threads
<1>3. pc'["http"] \in {"idle", "schedule"} /\ pc'["health"] \in {"idle", "failure"}
  BY <1>1, <1>2 DEF ThreadInv
<1>4. ASSUME NEW g \in Threads,
             pc'[g] \in {"completion", "failure", "jobdone", "delegated"}
      PROVE  Started(arg[g])'
  <2>1. CASE g = h
    BY <1>1, <1>4, <2>1
  <2>2. CASE g # h
    <3>1. arg[g] \in Tasks /\ Started(arg[g]) /\ arg'[g] = arg[g]
      BY <1>1, <1>4, <2>2 DEF ThreadInv, ArgOK
    <3> QED BY <3>1
  <2> QED BY <2>1, <2>2
<1>5. ASSUME pc'["io"] = "schedule"
      PROVE  \E t \in Tasks : JobOf[t] = arg'["io"] /\ Started(t)'
  BY <1>1, <1>2, <1>5 DEF ThreadInv
<1>6. ASSUME pc'["http"] = "schedule"
      PROVE  /\ jobState'[arg'["http"]] # "ABSENT"
             /\ \A t \in Tasks : JobOf[t] = arg'["http"] => ~Started(t)'
  <2>1. h # "http" /\ pc["http"] = "schedule" /\ arg'["http"] = arg["http"]
    BY <1>1, <1>2, <1>6
  <2>2. arg["http"] \in Jobs
    BY <1>2, <2>1 DEF ArgOK
  <2> QED BY <2>1, <2>2 DEF ThreadInv
<1> QED BY <1>3, <1>4, <1>5, <1>6 DEF ThreadInv

(* Steps that change only messages and processes keep ThreadInv. *)
LEMMA ThreadInvUnchanged ==
  ASSUME ThreadInv, UNCHANGED <<pc, arg, lock, scheduledTo>>, TypeOK, ArgOK,
         \A j \in Jobs : jobState[j] # "ABSENT" => jobState'[j] # "ABSENT"
  PROVE  ThreadInv'
<1>1. pc["http"] = "schedule" => arg["http"] \in Jobs
  BY DEF ArgOK, Threads
<1> QED BY <1>1 DEF ThreadInv, Started

=============================================================================
