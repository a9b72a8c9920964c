----------------------- MODULE SchedulerRequestProofs -----------------------
(***************************************************************************)
(* Proofs about SchedulerService: the inductive invariants; that every     *)
(* request about tasks and nodes keeps them and is a step of Placement;    *)
(* and which CHECKs a request may fail.                                    *)
(***************************************************************************)
EXTENDS SchedulerService, FlowGraphManagerProofs

(* A step that names no prover is Zenon's.                                  *)
USE ZenonT(60)

-----------------------------------------------------------------------------
(* The invariants. *)

(* There is no object store; the tables hold what they should. *)
TablesOK ==
  /\ taskState \in [Tasks -> TaskStates]
  /\ jobState \in [Jobs -> JobStates]
  /\ producing = [o \in Objects |-> {}]
  /\ taskBinding \in [Tasks -> Resources \cup {None}]
  /\ resState \in [Resources -> ResourceStates]
  /\ running \in [Resources -> SUBSET Tasks]
  /\ \A p \in Resources : Cardinality(running[p]) <= MaxTasksPerPU
  /\ resBindings \subseteq Resources \X Tasks
  /\ BindingsInverse
  /\ removed \subseteq Tasks
  /\ incomplete \in [Jobs -> Nat] /\ toRemove \in [Jobs -> Nat]

(* What is said of a task in several tables.  A removed task keeps its      *)
(* binding.                                                                *)
TaskOK(t) ==
  /\ t \in removed => taskState[t] \in {"ABORTED", "ABSENT", "FAILED"}
  /\ taskBinding[t] # None => Registered(taskBinding[t]) /\ (t \in removed \/ taskState[t] = "RUNNING")
  /\ taskState[t] = "RUNNING" => taskBinding[t] # None /\ t \in running[taskBinding[t]]
  /\ HasNode(g, t) => taskState[t] \in {"RUNNABLE", "RUNNING"}
  /\ g.task[t] = "SCHEDULED" <=> taskState[t] = "RUNNING"
  /\ g.running[t] = RunsOn(t)

ServiceInv ==
  /\ TablesOK
  /\ GraphOK(g)
  /\ Leaves(g) = RegisteredPUs
  /\ \A t \in Tasks : TaskOK(t)
  /\ CountersMatch

-----------------------------------------------------------------------------
(* The counters. *)

LeftTasks(j) == {t \in Tasks : JobOf[t] = j /\ Known(t) /\ t \notin removed}
OpenTasks(j) == {t \in LeftTasks(j) : taskState[t] # "COMPLETED"}

JobCounted(j) ==
  /\ toRemove[j] = Cardinality(LeftTasks(j))
  /\ jobState[j] = "ABSENT" <=> toRemove[j] = 0
  /\ incomplete[j] >= Cardinality(OpenTasks(j))
  /\ j \in jobsToSchedule <=> incomplete[j] > 0

(* CountersMatch says of every job what JobCounted does. *)
LEMMA CountersByJob == CountersMatch <=> \A j \in Jobs : JobCounted(j)
BY DEF CountersMatch, JobCounted, LeftTasks, OpenTasks

(* ... in the next state too. *)
LEMMA CountersByJobNext == CountersMatch' <=> \A j \in Jobs : JobCounted(j)'
BY DEF CountersMatch, JobCounted, LeftTasks, OpenTasks

(* A job whose tasks stay as they are, but for states that do not matter *)
LEMMA JobStillCounted ==
  ASSUME NEW j \in Jobs, JobCounted(j),
         toRemove'[j] = toRemove[j], incomplete'[j] = incomplete[j],
         j \in jobsToSchedule' <=> j \in jobsToSchedule,
         jobState'[j] = "ABSENT" <=> jobState[j] = "ABSENT",
         \A t \in Tasks : JobOf[t] = j =>
           /\ taskState'[t] = "ABSENT" <=> taskState[t] = "ABSENT"
           /\ t \in removed' <=> t \in removed
           /\ t \notin removed => (taskState'[t] = "COMPLETED" <=> taskState[t] = "COMPLETED")
  PROVE  JobCounted(j)'
<1>1. LeftTasks(j)' = LeftTasks(j)
  BY DEF LeftTasks, Known
<1>2. OpenTasks(j)' = OpenTasks(j)
  <2>1. \A t \in LeftTasks(j) : taskState'[t] = "COMPLETED" <=> taskState[t] = "COMPLETED"
    BY DEF LeftTasks
  <2> QED BY <1>1, <2>1 DEF OpenTasks
<1> QED BY <1>1, <1>2 DEF JobCounted

-----------------------------------------------------------------------------
(* The abstract state. *)

Where == [t \in Tasks |-> RunsOn(t)]
Over == removed \cup {t \in Tasks : taskState[t] = "COMPLETED"}

(* One step of Placement, or none. *)
PlacementStep == [Abstract!Next]_<<Where, RegisteredPUs, Over>>

(* What a step may leave alone *)
LEMMA ServiceUnchanged ==
  ASSUME ServiceInv,
         UNCHANGED <<taskState, jobState, producing, taskBinding, resBindings, resState, running>>,
         UNCHANGED <<g, removed, incomplete, toRemove, jobsToSchedule>>
  PROVE  ServiceInv' /\ PlacementStep
<1>1. TablesOK'
  BY DEF ServiceInv, TablesOK, BindingsInverse
<1>2. (GraphOK(g) /\ Leaves(g) = RegisteredPUs)'
  BY DEF ServiceInv, RegisteredPUs, Registered
<1>3. (\A t \in Tasks : TaskOK(t))'
  BY DEF ServiceInv, TaskOK, Registered, RunsOn
<1>4. CountersMatch'
  BY DEF ServiceInv, CountersMatch, Known
<1>5. UNCHANGED <<Where, RegisteredPUs, Over>>
  BY DEF Where, RegisteredPUs, Over, Registered, RunsOn
<1>6. PlacementStep
  BY <1>5 DEF PlacementStep
<1> QED BY <1>1, <1>2, <1>3, <1>4, <1>6 DEF ServiceInv

(* A step of Placement in which a task stops or is over *)
LEMMA StopStep ==
  ASSUME NEW t \in Tasks, Where' = [Where EXCEPT ![t] = None], Over' \in {Over, Over \cup {t}},
         RegisteredPUs' = RegisteredPUs
  PROVE  PlacementStep
<1>1. Abstract!Stop
  BY DEF Abstract!Stop, Where, Over
<1> QED BY <1>1 DEF PlacementStep, Abstract!Next

(* A task that a step does not concern *)
LEMMA TaskStillOK ==
  ASSUME NEW t \in Tasks, TablesOK, TaskOK(t), t \in removed' <=> t \in removed,
         taskState'[t] = taskState[t], taskBinding'[t] = taskBinding[t],
         \A r \in Resources : t \in running[r] => t \in running'[r],
         g'.task[t] = g.task[t], g'.running[t] = g.running[t],
         taskBinding[t] # None => Registered(taskBinding[t])'
  PROVE  TaskOK(t)'
<1>1. taskBinding[t] \in Resources \cup {None}
  BY DEF TablesOK
<1> QED BY <1>1 DEF TaskOK, RunsOn, HasNode

(* UnbindTaskFromResource for registered PUs, whose lists do not change *)
LEMMA Unbound ==
  ASSUME TablesOK, NEW out \in SUBSET Tasks, \A t \in out : Registered(taskBinding[t]),
         Rebind(out, <<>>, running)
  PROVE  /\ taskBinding' = [t \in Tasks |-> IF t \in out THEN None ELSE taskBinding[t]]
         /\ BindingsInverse' /\ resBindings' \subseteq resBindings
         /\ running' = running
         /\ resState' \in [Resources -> ResourceStates]
         /\ \A r : Registered(r)' <=> Registered(r)
<1>1. /\ taskBinding' = [t \in Tasks |-> IF t \in out THEN None ELSE taskBinding[t]]
      /\ resBindings' = resBindings \ {<<taskBinding[t], t>> : t \in out}
      /\ running' = [r \in Resources |-> running[r]]
      /\ resState' = [r \in Resources |-> IF {t \in out : taskBinding[t] = r} # {} /\ running[r] = {}
                                          THEN "IDLE" ELSE resState[r]]
  <2>1. \A S : S \cup {} = S
    OBVIOUS
  <2>2. DOMAIN <<>> = {}
    BY SMT
  <2> QED BY <2>1, <2>2 DEF Rebind
<1>2. BindingsInverse'
  BY <1>1, ResourcesAssumption DEF TablesOK, BindingsInverse
<1>3. running' = running
  BY <1>1 DEF TablesOK
<1>4. resState' \in [Resources -> ResourceStates]
  BY <1>1 DEF TablesOK, ResourceStates
<1>5. \A r : Registered(r)' <=> Registered(r)
  BY <1>1 DEF Registered
<1> QED BY <1>1, <1>2, <1>3, <1>4, <1>5

-----------------------------------------------------------------------------
(* Requests about tasks. *)

(* TaskSubmitted *)
LEMMA SubmitKeeps ==
  ASSUME TasksCount, ServiceInv, NEW t \in Tasks, NEW request, TaskSubmitted(t, request)
  PROVE  ServiceInv' /\ PlacementStep
<1> DEFINE j == JobOf[t]
<1>1. /\ taskState[t] = "ABSENT" /\ t \notin removed
      /\ taskState' = [taskState EXCEPT ![t] = "CREATED"]
      /\ jobState' = IF jobState[j] = "ABSENT" THEN [jobState EXCEPT ![j] = "CREATED"] ELSE jobState
      /\ jobsToSchedule' = IF incomplete[j] = 0 THEN jobsToSchedule \cup {j} ELSE jobsToSchedule
      /\ incomplete' = [incomplete EXCEPT ![j] = @ + 1]
      /\ toRemove' = [toRemove EXCEPT ![j] = @ + 1]
      /\ UNCHANGED <<producing, taskBinding, resBindings, resState, running, g, removed>>
  BY DEF TaskSubmitted, Known, bindingVars
<1>2. j \in Jobs /\ TablesOK /\ GraphOK(g)
  BY TaskTreeAssumption DEF ServiceInv
<1>3. TablesOK'
  BY <1>1, <1>2, SMT DEF TablesOK, BindingsInverse, TaskStates, JobStates
<1>4. (GraphOK(g) /\ Leaves(g) = RegisteredPUs)'
  BY <1>1 DEF ServiceInv, RegisteredPUs, Registered
<1>5. ASSUME NEW u \in Tasks PROVE TaskOK(u)'
  <2>1. TaskOK(u)
    BY DEF ServiceInv
  <2>2. CASE u = t
    BY <1>1, <1>2, <2>1, <2>2 DEF TaskOK, RunsOn, HasNode, TablesOK
  <2>3. CASE u # t
    <3>1. taskState'[u] = taskState[u]
      BY <1>1, <1>2, <2>3 DEF TablesOK
    <3> QED BY <1>1, <2>1, <3>1 DEF TaskOK, RunsOn, Registered
  <2> QED BY <2>2, <2>3
<1>6. ASSUME NEW i \in Jobs PROVE JobCounted(i)'
  <2>1. JobCounted(i)
    BY CountersByJob DEF ServiceInv
  <2>2. CASE i # j
    BY <1>1, <1>2, <2>1, <2>2, JobStillCounted DEF TablesOK
  <2>3. CASE i = j
    <3>1. /\ LeftTasks(j)' = LeftTasks(j) \cup {t} /\ t \notin LeftTasks(j)
          /\ OpenTasks(j)' = OpenTasks(j) \cup {t} /\ t \notin OpenTasks(j)
      BY <1>1, <1>2 DEF LeftTasks, OpenTasks, Known, TablesOK
    <3>2. LeftTasks(j) \in SUBSET Tasks /\ OpenTasks(j) \in SUBSET Tasks
      BY DEF LeftTasks, OpenTasks
    <3>3. /\ Cardinality(LeftTasks(j)') = Cardinality(LeftTasks(j)) + 1
          /\ Cardinality(OpenTasks(j)') = Cardinality(OpenTasks(j)) + 1
          /\ Cardinality(LeftTasks(j)) \in Nat /\ Cardinality(OpenTasks(j)) \in Nat
      BY <3>1, <3>2 DEF TasksCount
    <3>4. /\ toRemove'[j] = toRemove[j] + 1 /\ incomplete'[j] = incomplete[j] + 1
          /\ incomplete[j] \in Nat /\ toRemove[j] \in Nat
          /\ jobState'[j] # "ABSENT"
      BY <1>1, <1>2 DEF TablesOK
    <3> QED BY <1>1, <2>1, <2>3, <3>3, <3>4, SMT DEF JobCounted
  <2> QED BY <2>2, <2>3
<1>7. UNCHANGED <<Where, RegisteredPUs, Over>>
  <2>1. \A u \in Tasks :
          RunsOn(u)' = RunsOn(u) /\ (taskState'[u] = "COMPLETED" <=> taskState[u] = "COMPLETED")
    BY <1>1, <1>2 DEF RunsOn, TablesOK
  <2>2. Where' = Where
    BY <2>1 DEF Where
  <2>3. Over' = Over
    BY <1>1, <2>1 DEF Over
  <2> QED BY <1>1, <2>2, <2>3 DEF RegisteredPUs, Registered
<1>8. CountersMatch'
  BY <1>6, CountersByJobNext
<1>9. ServiceInv'
  BY <1>3, <1>4, <1>5, <1>8 DEF ServiceInv
<1> QED BY <1>7, <1>9 DEF PlacementStep

(* A step that ends one task t, which leaves its PU and the graph.  Other   *)
(* tasks, and jobs but for that of t, keep what matters.                    *)
LEMMA TaskEnds ==
  ASSUME ServiceInv, NEW t \in Tasks, t \notin removed, removed' = removed,
         NEW s \in TaskStates, s \notin {"ABSENT", "RUNNABLE", "RUNNING"},
         taskState' = [taskState EXCEPT ![t] = s],
         jobState' \in [Jobs -> JobStates], UNCHANGED producing,
         NEW out, out = IF taskBinding[t] # None THEN {t} ELSE {},
         Rebind(out, <<>>, running),
         Becomes(g', g, Assigned(g.task, {t}, "none"), Assigned(g.running, {t}, None)),
         incomplete' \in [Jobs -> Nat], toRemove' \in [Jobs -> Nat],
         CountersMatch', s = "COMPLETED" \/ taskState[t] # "COMPLETED"
  PROVE  ServiceInv' /\ PlacementStep
<1>1. TablesOK /\ GraphOK(g) /\ TaskOK(t)
  BY DEF ServiceInv
<1>2. \A u \in out : u \in Tasks /\ Registered(taskBinding[u])
  BY <1>1 DEF TaskOK
<1>3. /\ taskBinding' = [u \in Tasks |-> IF u \in out THEN None ELSE taskBinding[u]]
      /\ BindingsInverse' /\ resBindings' \subseteq resBindings
      /\ running' = running
      /\ resState' \in [Resources -> ResourceStates]
      /\ \A r : Registered(r)' <=> Registered(r)
  BY <1>1, <1>2, Unbound, SMT
<1>4. taskBinding'[t] = None /\ taskState'[t] = s
  BY <1>1, <1>3 DEF TablesOK
<1>5. \A u \in Tasks : u # t => taskBinding'[u] = taskBinding[u] /\ taskState'[u] = taskState[u]
  BY <1>1, <1>3 DEF TablesOK
<1>6. TablesOK'
  BY <1>1, <1>3 DEF TablesOK
<1>7. \A u \in Tasks : /\ g'.task[u] = IF u = t THEN "none" ELSE g.task[u]
                       /\ g'.running[u] = IF u = t THEN None ELSE g.running[u]
  BY <1>1 DEF Becomes, Assigned, GraphOK
<1>8. (GraphOK(g) /\ Leaves(g) = RegisteredPUs)'
  <2>1. Leaves(g') = Leaves(g) /\ RegisteredPUs' = RegisteredPUs
    BY <1>3 DEF Becomes, Leaves, RegisteredPUs
  <2> QED BY <2>1 DEF Becomes, ServiceInv
<1>9. ASSUME NEW u \in Tasks PROVE TaskOK(u)'
  <2>1. CASE u = t
    BY <1>4, <1>7, <2>1 DEF TaskOK, RunsOn, HasNode
  <2>2. CASE u # t
    <3>1. TaskOK(u)
      BY DEF ServiceInv
    <3>2. taskBinding[u] # None => Registered(taskBinding[u])'
      BY <1>3, <1>5, <2>2, <3>1 DEF TaskOK
    <3> QED BY <1>1, <1>3, <1>5, <1>7, <2>2, <3>1, <3>2, TaskStillOK
  <2> QED BY <2>1, <2>2
<1>10. PlacementStep
  <2>1. \A u \in Tasks : RunsOn(u)' = IF u = t THEN None ELSE RunsOn(u)
    BY <1>4, <1>5 DEF RunsOn
  <2>2. Where' = [Where EXCEPT ![t] = None]
    BY <2>1 DEF Where
  <2>3. Over' \in {Over, Over \cup {t}}
    BY <1>4, <1>5 DEF Over
  <2>4. RegisteredPUs' = RegisteredPUs
    BY <1>3 DEF RegisteredPUs
  <2> QED BY <2>2, <2>3, <2>4, StopStep
<1> QED BY <1>6, <1>8, <1>9, <1>10 DEF ServiceInv

(* TaskCompleted *)
LEMMA CompletionKeeps ==
  ASSUME TasksCount, ServiceInv, failedCheck = "none", NEW t \in Tasks, TaskCompleted(t)
  PROVE  ServiceInv' /\ PlacementStep
<1> DEFINE j == JobOf[t]
           last == incomplete[j] = 1
           inGraph == taskState[t] \notin {"FAILED", "ABORTED"}
           where == IF taskBinding[t] # None THEN taskBinding[t] ELSE scheduledTo[t]
           g1 == IF inGraph THEN RemoveTaskNode(g, Now, {t}) ELSE g
           out == IF taskBinding[t] # None THEN {t} ELSE {}
           done == /\ Rebind(out, <<>>, running)
                   /\ taskState' = [taskState EXCEPT ![t] = "COMPLETED"]
                   /\ g' = IF last THEN RemoveUnscheduledAggNode(g1, j) ELSE g1
                   /\ jobState' = IF last THEN [jobState EXCEPT ![j] = "COMPLETED"] ELSE jobState
                   /\ jobsToSchedule' = IF last THEN jobsToSchedule \ {j} ELSE jobsToSchedule
                   /\ UNCHANGED <<producing, failedCheck>>
<1>1. /\ t \notin removed /\ taskState[t] \in {"RUNNING", "RUNNABLE", "FAILED"}
      /\ incomplete' = IF failedCheck' # "none" THEN incomplete ELSE [incomplete EXCEPT ![j] = @ - 1]
      /\ UNCHANGED <<toRemove, removed>>
      /\ HandleTaskCompletionAndReport(t, last)
  BY DEF TaskCompleted
<1>2. \/ FlowFail("HandleTaskCompletion_scheduled_to") \/ FlowFail("TaskCompleted_task_node")
      \/ FlowFail("HandleTaskFinalReport_equiv_classes") \/ done
  BY <1>1 DEF HandleTaskCompletionAndReport
<1>3. CASE ~done
  <2>1. /\ failedCheck' # "none"
        /\ UNCHANGED <<taskState, jobState, producing, taskBinding, resBindings, resState, running>>
        /\ UNCHANGED <<g, jobsToSchedule>>
    BY <1>2, <1>3 DEF FlowFail, Fail, flowVars, bindingVars
  <2> QED BY <1>1, <2>1, ServiceUnchanged
<1>4. CASE done
  <2>1. TablesOK /\ GraphOK(g) /\ TaskOK(t) /\ j \in Jobs /\ JobCounted(j)
    BY TaskTreeAssumption, CountersByJob DEF ServiceInv
  <2>2. Becomes(g1, g, Assigned(g.task, {t}, "none"), Assigned(g.running, {t}, None))
    <3>1. CASE inGraph
      BY <2>1, <3>1, TaskNodesRemoved
    <3>2. CASE ~inGraph
      <4>1. g.task[t] = "none" /\ g.running[t] = None
        BY <1>1, <2>1, <3>2 DEF TaskOK, HasNode, RunsOn
      <4>2. Assigned(g.task, {t}, "none") = g.task /\ Assigned(g.running, {t}, None) = g.running
        BY <2>1, <4>1 DEF Assigned, GraphOK
      <4> QED BY <2>1, <3>2, <4>2 DEF Becomes
    <3> QED BY <3>1, <3>2
  <2>3. g' = IF last THEN RemoveUnscheduledAggNode(g1, j) ELSE g1
    BY <1>4
  <2> HIDE DEF g1
  <2>4. Becomes(g', g, Assigned(g.task, {t}, "none"), Assigned(g.running, {t}, None))
    <3>1. Becomes(RemoveUnscheduledAggNode(g1, j), g1, g1.task, g1.running)
      BY <2>1, <2>2, AggNodeRemoved DEF Becomes
    <3> QED BY <2>2, <2>3, <3>1 DEF Becomes
  <2>5. incomplete' = [incomplete EXCEPT ![j] = @ - 1]
    BY <1>1, <1>4
  <2>6. t \in OpenTasks(j) /\ OpenTasks(j) \in SUBSET Tasks
    <3>1. t \in OpenTasks(j)
      BY <1>1 DEF OpenTasks, LeftTasks, Known
    <3> QED BY <3>1 DEF OpenTasks, LeftTasks
  <2>7. /\ Cardinality(OpenTasks(j)) \in Nat /\ Cardinality(OpenTasks(j) \ {t}) \in Nat
        /\ Cardinality(OpenTasks(j) \ {t}) = Cardinality(OpenTasks(j)) - 1
    BY <2>6 DEF TasksCount
  <2>8. incomplete[j] \in Nat \ {0} /\ incomplete' \in [Jobs -> Nat]
    BY <2>1, <2>5, <2>6, <2>7, SMT DEF JobCounted, TablesOK
  <2>9. ASSUME NEW i \in Jobs PROVE JobCounted(i)'
    <3>0. JobCounted(i)
      BY CountersByJob DEF ServiceInv
    <3>1. CASE i # j
      BY <1>1, <1>4, <2>1, <2>5, <3>0, <3>1, JobStillCounted DEF TablesOK
    <3>2. CASE i = j
      <4>1. LeftTasks(j)' = LeftTasks(j) /\ OpenTasks(j)' = OpenTasks(j) \ {t}
        BY <1>1, <1>4, <2>1 DEF LeftTasks, OpenTasks, Known, TablesOK
      <4>2. incomplete'[j] = incomplete[j] - 1
        BY <2>1, <2>5 DEF TablesOK
      <4>3. /\ jobState'[j] = "ABSENT" <=> jobState[j] = "ABSENT"
            /\ j \in jobsToSchedule' <=> incomplete[j] # 1
        <5>1. jobState[j] # "ABSENT"
          <6>1. t \in LeftTasks(j)
            BY <2>6 DEF OpenTasks
          <6>2. Cardinality(LeftTasks(j)) # 0
            BY <6>1 DEF LeftTasks, TasksCount
          <6> QED BY <2>1, <6>2 DEF JobCounted
        <5> QED BY <1>4, <2>1, <2>8, <5>1, SMT DEF JobCounted, TablesOK
      <4> QED BY <1>1, <2>1, <2>6, <2>7, <2>8, <3>2, <4>1, <4>2, <4>3, SMT DEF JobCounted
    <3> QED BY <3>1, <3>2
  <2>10. CountersMatch'
    BY <2>9, CountersByJobNext
  <2>11. jobState' \in [Jobs -> JobStates] /\ toRemove' \in [Jobs -> Nat]
    BY <1>1, <1>4, <2>1 DEF TablesOK, JobStates
  <2> QED BY <1>1, <1>4, <2>4, <2>8, <2>10, <2>11, TaskEnds DEF TaskStates
<1> QED BY <1>3, <1>4

(* RemoveTaskHelper: a task without a node has no running arc either. *)
LEMMA HelperRemoved ==
  ASSUME ServiceInv, NEW S \in SUBSET Tasks, NEW x
  PROVE  Becomes(RemoveTaskHelper(g, x, S), g, Assigned(g.task, S, "none"), Assigned(g.running, S, None))
<1> DEFINE here == {t \in S : HasNode(g, t)}
<1>1. GraphOK(g)
  BY DEF ServiceInv
<1>2. \A t \in S : t \notin here => g.task[t] = "none" /\ g.running[t] = None
  BY DEF ServiceInv, TaskOK, HasNode, RunsOn
<1>3. /\ Assigned(g.task, S, "none") = Assigned(g.task, here, "none")
      /\ Assigned(g.running, S, None) = Assigned(g.running, here, None)
  BY <1>1, <1>2 DEF Assigned, GraphOK
<1> QED BY <1>1, <1>3, TaskNodesRemoved DEF RemoveTaskHelper

(* TaskFailed *)
LEMMA FailureKeeps ==
  ASSUME ServiceInv, NEW t \in Tasks, TaskFailed(t)
  PROVE  ServiceInv' /\ PlacementStep
<1> DEFINE done == /\ Rebind({t}, <<>>, running)
                   /\ taskState' = [taskState EXCEPT ![t] = "FAILED"]
                   /\ g' = RemoveTaskHelper(g, Now, {t})
                   /\ UNCHANGED <<jobState, producing, jobsToSchedule>>
<1>1. /\ taskState[t] = "RUNNING"
      /\ UNCHANGED <<incomplete, toRemove, removed>>
      /\ FlowFail("HandleTaskFailure_binding") \/ done
  BY DEF TaskFailed, FlowHandleTaskFailure, serviceVars
<1>2. CASE ~done
  <2>1. /\ UNCHANGED <<taskState, jobState, producing, taskBinding, resBindings, resState, running>>
        /\ UNCHANGED <<g, jobsToSchedule>>
    BY <1>1, <1>2 DEF FlowFail, Fail, flowVars, bindingVars
  <2> QED BY <1>1, <2>1, ServiceUnchanged
<1>3. CASE done
  <2>1. TablesOK /\ TaskOK(t)
    BY DEF ServiceInv
  <2>2. t \notin removed /\ taskBinding[t] # None
    BY <1>1, <2>1 DEF TaskOK
  <2>3. Becomes(g', g, Assigned(g.task, {t}, "none"), Assigned(g.running, {t}, None))
    BY <1>3, HelperRemoved
  <2>4. ASSUME NEW i \in Jobs PROVE JobCounted(i)'
    <3>1. JobCounted(i)
      BY CountersByJob DEF ServiceInv
    <3> QED BY <1>1, <1>3, <2>1, <3>1, JobStillCounted DEF TablesOK
  <2>5. CountersMatch'
    BY <2>4, CountersByJobNext
  <2>6. /\ jobState' \in [Jobs -> JobStates] /\ toRemove' \in [Jobs -> Nat]
        /\ incomplete' \in [Jobs -> Nat]
    BY <1>1, <1>3, <2>1 DEF TablesOK
  <2>7. Rebind(IF taskBinding[t] # None THEN {t} ELSE {}, <<>>, running)
    BY <1>3, <2>2
  <2> QED BY <1>1, <1>3, <2>2, <2>3, <2>5, <2>6, <2>7, TaskEnds DEF TaskStates
<1> QED BY <1>2, <1>3

(* What TaskRemoved(t) does: t goes, and its whole job when it is the last. *)
Removed(t) ==
  LET j == JobOf[t]
      last == toRemove[j] = 1
  IN /\ j \in Jobs /\ t \in LeftTasks(j)
     /\ removed' = removed \cup {t}
     /\ taskState'[t] \in {"ABSENT", "ABORTED"}
     /\ \A u \in Tasks \ {t} :
          taskState'[u] = IF last /\ JobOf[u] = j THEN "ABSENT" ELSE taskState[u]
     /\ last => taskState'[t] = "ABSENT" /\ \A u \in LeftTasks(j) : u = t
     /\ taskState' \in [Tasks -> TaskStates]
     /\ toRemove[j] \in Nat \ {0}
     /\ toRemove' = [toRemove EXCEPT ![j] = @ - 1]
     /\ incomplete' = IF last THEN [incomplete EXCEPT ![j] = 0] ELSE incomplete
     /\ jobState' = IF last THEN [jobState EXCEPT ![j] = "ABSENT"] ELSE jobState
     /\ jobsToSchedule' = IF last /\ incomplete[j] > 0 THEN jobsToSchedule \ {j}
                          ELSE jobsToSchedule
     /\ UNCHANGED <<producing, taskBinding, resBindings, resState, running>>
     /\ Becomes(g', g, Assigned(g.task, {t}, "none"), Assigned(g.running, {t}, None))

(* TaskRemoved *)
LEMMA RemovalEffect ==
  ASSUME TasksCount, ServiceInv, NEW t \in Tasks, TaskRemoved(t)
  PROVE  Removed(t)
<1> DEFINE j == JobOf[t]
           last == toRemove[j] = 1
           g1 == RemoveTaskHelper(g, Now, {t})
           removeJob == last /\ incomplete[j] > 0
<1>1. /\ taskState[t] # "ABSENT" /\ t \notin removed /\ removed' = removed \cup {t}
      /\ taskState' = [u \in Tasks |-> IF last /\ JobOf[u] = j THEN "ABSENT" ELSE
                                       [taskState EXCEPT ![t] = "ABORTED"][u]]
      /\ jobState' = IF last THEN [jobState EXCEPT ![j] = "ABSENT"] ELSE jobState
      /\ g' = IF removeJob THEN RemoveUnscheduledAggNode(g1, j) ELSE g1
      /\ jobsToSchedule' = IF removeJob THEN jobsToSchedule \ {j} ELSE jobsToSchedule
      /\ toRemove' = [toRemove EXCEPT ![j] = @ - 1]
      /\ incomplete' = IF last THEN [incomplete EXCEPT ![j] = 0] ELSE incomplete
      /\ UNCHANGED <<producing, taskBinding, resBindings, resState, running>>
  BY DEF TaskRemoved, HandleTaskRemoval, Known, bindingVars
<1>2. TablesOK /\ GraphOK(g) /\ j \in Jobs /\ JobCounted(j)
  BY TaskTreeAssumption, CountersByJob DEF ServiceInv
<1>3. Becomes(g', g, Assigned(g.task, {t}, "none"), Assigned(g.running, {t}, None))
  <2>1. Becomes(g1, g, Assigned(g.task, {t}, "none"), Assigned(g.running, {t}, None))
    BY HelperRemoved
  <2>2. g' = IF removeJob THEN RemoveUnscheduledAggNode(g1, j) ELSE g1
    BY <1>1
  <2> HIDE DEF g1, removeJob
  <2>3. Becomes(RemoveUnscheduledAggNode(g1, j), g1, g1.task, g1.running)
    BY <1>2, <2>1, AggNodeRemoved DEF Becomes
  <2> QED BY <2>1, <2>2, <2>3 DEF Becomes
<1>4. t \in LeftTasks(j) /\ LeftTasks(j) \in SUBSET Tasks
  BY <1>1 DEF LeftTasks, Known
<1>5. toRemove[j] \in Nat \ {0} /\ (last => LeftTasks(j) \ {t} = {})
  <2>1. /\ Cardinality(LeftTasks(j)) \in Nat \ {0}
        /\ Cardinality(LeftTasks(j) \ {t}) = Cardinality(LeftTasks(j)) - 1
        /\ Cardinality(LeftTasks(j) \ {t}) = 0 => LeftTasks(j) \ {t} = {}
    BY <1>4 DEF TasksCount
  <2> QED BY <1>2, <2>1, SMT DEF JobCounted
<1>6. /\ \A u \in Tasks \ {t} :
           taskState'[u] = IF last /\ JobOf[u] = j THEN "ABSENT" ELSE taskState[u]
      /\ taskState'[t] \in {"ABSENT", "ABORTED"} /\ (last => taskState'[t] = "ABSENT")
      /\ taskState' \in [Tasks -> TaskStates]
  BY <1>1, <1>2 DEF TablesOK, TaskStates
<1> QED BY <1>1, <1>2, <1>3, <1>4, <1>5, <1>6 DEF Removed

(* The tables and the graph stay as they should be. *)
LEMMA RemovalTables ==
  ASSUME ServiceInv, NEW t \in Tasks, Removed(t)
  PROVE  TablesOK' /\ GraphOK(g)' /\ (Leaves(g) = RegisteredPUs)'
<1>1. TablesOK'
  BY SMT DEF ServiceInv, TablesOK, Removed, JobStates, BindingsInverse
<1>2. GraphOK(g') /\ Leaves(g') = Leaves(g) /\ RegisteredPUs' = RegisteredPUs
  BY DEF Removed, Becomes, Leaves, RegisteredPUs, Registered
<1> QED BY <1>1, <1>2 DEF ServiceInv

(* The task leaves its PU; every other task stays where it was. *)
LEMMA RemovalTasks ==
  ASSUME ServiceInv, NEW t \in Tasks, Removed(t), NEW u \in Tasks
  PROVE  TaskOK(u)' /\ RunsOn(u)' = IF u = t THEN None ELSE RunsOn(u)
<1>1. TaskOK(u) /\ TablesOK
  BY DEF ServiceInv
<1>2. /\ g'.task[u] = IF u = t THEN "none" ELSE g.task[u]
      /\ g'.running[u] = IF u = t THEN None ELSE g.running[u]
  BY DEF Removed, Becomes, Assigned, ServiceInv, GraphOK
<1>3. u \in removed' <=> u \in removed \/ u = t
  BY DEF Removed
<1>4. taskBinding' = taskBinding /\ running' = running /\ \A r : Registered(r)' <=> Registered(r)
  BY DEF Removed, Registered
<1>5. CASE u = t
  <2>1. taskState'[t] \in {"ABSENT", "ABORTED"}
    BY DEF Removed
  <2> QED BY <1>1, <1>2, <1>3, <1>4, <1>5, <2>1 DEF TaskOK, RunsOn, HasNode
<1>6. CASE u # t /\ taskState'[u] = taskState[u]
  <2>1. TaskOK(u)'
    BY <1>1, <1>2, <1>3, <1>4, <1>6, TaskStillOK DEF TaskOK
  <2> QED BY <1>4, <1>6, <2>1 DEF RunsOn
<1>7. CASE u # t /\ taskState'[u] # taskState[u]
  <2>1. taskState'[u] = "ABSENT" /\ (taskState[u] = "ABSENT" \/ u \in removed)
    BY <1>7 DEF Removed, LeftTasks, Known
  <2> QED BY <1>1, <1>2, <1>3, <1>4, <1>7, <2>1 DEF TaskOK, RunsOn, HasNode
<1> QED BY <1>5, <1>6, <1>7

(* The counters of its job count what is left of the job. *)
LEMMA RemovalCounts ==
  ASSUME TasksCount, ServiceInv, NEW t \in Tasks, Removed(t), NEW i \in Jobs
  PROVE  JobCounted(i)'
<1> DEFINE j == JobOf[t]
<1>1. JobCounted(i) /\ TablesOK
  BY CountersByJob DEF ServiceInv
<1>2. CASE i # j
  BY <1>1, <1>2, JobStillCounted, SMT DEF TablesOK, Removed
<1>3. CASE i = j /\ toRemove[j] # 1
  <2>1. LeftTasks(j)' = LeftTasks(j) \ {t} /\ t \in LeftTasks(j)
    BY <1>3 DEF LeftTasks, Known, Removed
  <2>2. OpenTasks(j)' \subseteq OpenTasks(j)
    <3>1. \A u \in LeftTasks(j)' : u \in LeftTasks(j) /\ taskState'[u] = taskState[u]
      BY <1>3, <2>1 DEF LeftTasks, Removed
    <3> QED BY <3>1 DEF OpenTasks
  <2>3. LeftTasks(j) \in SUBSET Tasks /\ OpenTasks(j)' \in SUBSET Tasks /\ OpenTasks(j) \in SUBSET Tasks
    BY <2>2 DEF OpenTasks, LeftTasks
  <2>4. /\ Cardinality(OpenTasks(j)') <= Cardinality(OpenTasks(j))
        /\ Cardinality(OpenTasks(j)') \in Nat /\ Cardinality(OpenTasks(j)) \in Nat
        /\ Cardinality(LeftTasks(j) \ {t}) = Cardinality(LeftTasks(j)) - 1
        /\ Cardinality(LeftTasks(j)) \in Nat \ {0}
    BY <2>1, <2>2, <2>3 DEF TasksCount
  <2>5. /\ toRemove'[j] = toRemove[j] - 1 /\ incomplete'[j] = incomplete[j]
        /\ toRemove[j] \in Nat /\ incomplete[j] \in Nat
        /\ jobState'[j] = jobState[j] /\ jobsToSchedule' = jobsToSchedule
    BY <1>1, <1>3 DEF TablesOK, Removed
  <2> QED BY <1>1, <1>3, <2>1, <2>4, <2>5, SMT DEF JobCounted
<1>4. CASE i = j /\ toRemove[j] = 1
  <2>1. LeftTasks(j)' = {} /\ OpenTasks(j)' = {} /\ Cardinality({}) = 0
    BY <1>4 DEF LeftTasks, OpenTasks, Known, TasksCount, Removed
  <2>2. /\ toRemove'[j] = 0 /\ incomplete'[j] = 0 /\ jobState'[j] = "ABSENT"
        /\ j \notin jobsToSchedule'
    BY <1>1, <1>4, SMT DEF TablesOK, JobCounted, Removed
  <2> QED BY <1>4, <2>1, <2>2, SMT DEF JobCounted
<1> QED BY <1>2, <1>3, <1>4

(* For Placement, a removal stops the task. *)
LEMMA RemovalPlaces ==
  ASSUME ServiceInv, NEW t \in Tasks, Removed(t)
  PROVE  PlacementStep
<1>1. Where' = [Where EXCEPT ![t] = None]
  BY RemovalTasks DEF Where
<1>2. Over' = Over \cup {t}
  <2>1. \A u \in Tasks : u # t => (u \in Over' <=> u \in Over)
    BY DEF Over, Removed, LeftTasks, Known
  <2>2. t \in Over'
    BY DEF Over, Removed
  <2>3. removed \subseteq Tasks /\ removed' \subseteq Tasks
    BY DEF ServiceInv, TablesOK, Removed
  <2>4. Over \subseteq Tasks /\ Over' \subseteq Tasks
    BY <2>3 DEF Over
  <2> QED BY <2>1, <2>2, <2>4
<1>3. RegisteredPUs' = RegisteredPUs
  BY DEF RegisteredPUs, Registered, Removed
<1>4. Over' \in {Over, Over \cup {t}}
  BY <1>2
<1> QED BY <1>1, <1>3, <1>4, StopStep

(* TaskRemoved *)
LEMMA RemovalKeeps ==
  ASSUME TasksCount, ServiceInv, NEW t \in Tasks, TaskRemoved(t)
  PROVE  ServiceInv' /\ PlacementStep
<1>1. Removed(t)
  BY RemovalEffect
<1>2. CountersMatch'
  BY <1>1, RemovalCounts, CountersByJobNext
<1> QED BY <1>1, <1>2, RemovalTables, RemovalTasks, RemovalPlaces DEF ServiceInv

-----------------------------------------------------------------------------
(* Requests about nodes. *)

(* NodeAdded *)
LEMMA NodeAddedKeeps ==
  ASSUME ServiceInv, NEW m \in Machines, NEW label, NodeAdded(m, label)
  PROVE  ServiceInv' /\ PlacementStep
<1> DEFINE done == /\ g' = AddResourceTopology(g, Now, m)
                   /\ resState' = [r \in Resources |-> IF r \in Below(m) THEN "IDLE" ELSE resState[r]]
                   /\ UNCHANGED <<taskState, jobState, producing, taskBinding, resBindings,
                                  running, jobsToSchedule>>
<1>1. /\ UNCHANGED <<incomplete, toRemove, removed>>
      /\ FlowFail("AddMachine_inserted") \/ done
  BY DEF NodeAdded, RegisterResource
<1>2. CASE ~done
  <2>1. /\ UNCHANGED <<taskState, jobState, producing, taskBinding, resBindings, resState, running>>
        /\ UNCHANGED <<g, jobsToSchedule>>
    BY <1>1, <1>2 DEF FlowFail, Fail, flowVars, bindingVars
  <2> QED BY <1>1, <2>1, ServiceUnchanged
<1>3. CASE done
  <2>1. TablesOK /\ GraphOK(g) /\ Leaves(g) = RegisteredPUs
    BY DEF ServiceInv
  <2>2. /\ GraphOK(g') /\ g'.task = g.task /\ g'.running = g.running
        /\ g'.res = g.res \cup Below(m)
    BY <1>3, <2>1, TopologyAdded, SMT
  <2>3. \A r \in Resources : resState'[r] = IF r \in Below(m) THEN "IDLE" ELSE resState[r]
    BY <1>3
  <2>4. \A r : Registered(r)' <=> Registered(r) \/ (r \in Resources /\ r \in Below(m))
    BY <2>3 DEF Registered
  <2>5. TablesOK'
    <3>1. resState' \in [Resources -> ResourceStates]
      BY <1>3, <2>1 DEF TablesOK, ResourceStates
    <3> QED BY <1>1, <1>3, <2>1, <3>1 DEF TablesOK, BindingsInverse
  <2>6. Leaves(g)' = RegisteredPUs'
    BY <2>1, <2>2, <2>4 DEF Leaves, RegisteredPUs
  <2>7. ASSUME NEW t \in Tasks PROVE TaskOK(t)'
    <3>1. TaskOK(t)
      BY DEF ServiceInv
    <3>2. taskBinding[t] # None => Registered(taskBinding[t])'
      <4>1. taskBinding' = taskBinding
        BY <1>3
      <4> QED BY <2>4, <3>1, <4>1 DEF TaskOK
    <3> QED BY <1>1, <1>3, <2>1, <2>2, <3>1, <3>2, TaskStillOK
  <2>8. CountersMatch'
    BY <1>1, <1>3 DEF ServiceInv, CountersMatch, Known
  <2>9. PlacementStep
    <3>1. UNCHANGED <<Where, Over>>
      BY <1>1, <1>3 DEF Where, Over, RunsOn
    <3>2. RegisteredPUs \subseteq RegisteredPUs' /\ RegisteredPUs' \subseteq Resources
      BY <2>4 DEF RegisteredPUs
    <3>3. Abstract!Arrive
      BY <3>1, <3>2 DEF Abstract!Arrive, Where, Over
    <3> QED BY <3>3 DEF PlacementStep, Abstract!Next
  <2> QED BY <2>2, <2>5, <2>6, <2>7, <2>8, <2>9 DEF ServiceInv
<1> QED BY <1>2, <1>3

(* NodeRemoved *)
LEMMA NodeRemovedKeeps ==
  ASSUME TasksCount, ServiceInv, NEW m \in Machines, NEW later, NodeRemoved(m, later)
  PROVE  ServiceInv' /\ PlacementStep
<1> DEFINE victims == {t \in Tasks : \E r \in Below(m) : <<r, t>> \in resBindings}
           node == IF config.reschedule THEN "UNSCHEDULED" ELSE "none"
           state == IF config.reschedule THEN "RUNNABLE" ELSE "FAILED"
           g1 == IF config.reschedule THEN TaskEvicted(g, Now, victims)
                 ELSE RemoveTaskHelper(g, Now, victims)
           done == /\ victims \cap Gone = {}
                   /\ config.reschedule => \A t \in victims : HasNode(g, t)
                   /\ g' = RemoveResourceTopology(g1, m)
                   /\ taskBinding' = [t \in Tasks |-> IF t \in victims THEN None ELSE taskBinding[t]]
                   /\ resBindings' = {b \in resBindings : b[1] \notin Below(m)}
                   /\ resState' = [r \in Resources |-> IF r \in Below(m) THEN "ABSENT" ELSE resState[r]]
                   /\ running' = [r \in Resources |-> IF r \in Below(m) THEN {} ELSE running[r]]
                   /\ taskState' = [t \in Tasks |-> IF t \notin victims THEN taskState[t] ELSE state]
                   /\ UNCHANGED <<jobState, producing, jobsToSchedule>>
<1>1. /\ UNCHANGED <<incomplete, toRemove, removed>>
      /\ DeregisterResource(m, later)
  BY DEF NodeRemoved
<1>2. \/ FlowFail("HandleTasksFromDeregisteredResource_td") \/ FlowFail("TaskEvicted_task_node")
      \/ FlowFail("RemoveMachine_erased") \/ done
  BY <1>1 DEF DeregisterResource, TaskEvictedFails
<1> HIDE DEF victims, node, state, g1, done
<1>3. CASE ~done
  <2>1. /\ UNCHANGED <<taskState, jobState, producing, taskBinding, resBindings, resState, running>>
        /\ UNCHANGED <<g, jobsToSchedule>>
    BY <1>2, <1>3 DEF FlowFail, Fail, flowVars, bindingVars
  <2> QED BY <1>1, <2>1, ServiceUnchanged
<1>4. CASE done
  <2>1. TablesOK /\ GraphOK(g) /\ Leaves(g) = RegisteredPUs
    BY DEF ServiceInv
  <2>2. victims \in SUBSET Tasks
    BY DEF victims
  <2>3. \A t \in Tasks : t \in victims <=> taskBinding[t] \in Below(m)
    <3>1. None \notin Below(m)
      BY EntitiesAssumption DEF Below, Entities
    <3> QED BY <2>1, <3>1 DEF victims, TablesOK, BindingsInverse
  <2>4. \A t \in victims : /\ taskState[t] # "ABSENT" /\ taskState[t] # "COMPLETED"
                           /\ t \in removed => ~config.reschedule
    BY <1>4, <2>2, <2>3, EntitiesAssumption DEF done, Gone, ServiceInv, TaskOK, Below, Entities
  <2>5. /\ g' = RemoveResourceTopology(g1, m)
        /\ \A t \in Tasks : taskState'[t] = IF t \in victims THEN state ELSE taskState[t]
        /\ \A t \in Tasks : taskBinding'[t] = IF t \in victims THEN None ELSE taskBinding[t]
        /\ \A r \in Resources : /\ resState'[r] = IF r \in Below(m) THEN "ABSENT" ELSE resState[r]
                                /\ running'[r] = IF r \in Below(m) THEN {} ELSE running[r]
    BY <1>4 DEF done
  <2>6. Becomes(g1, g, Assigned(g.task, victims, node), Assigned(g.running, victims, None))
    BY <2>1, <2>2, HelperRemoved, TasksEvicted DEF g1, node
  <2>7. TablesOK'
    <3>1. taskState' \in [Tasks -> TaskStates] /\ resState' \in [Resources -> ResourceStates]
      BY <1>4, <2>1 DEF done, state, TablesOK, TaskStates, ResourceStates
    <3>2. taskBinding' \in [Tasks -> Resources \cup {None}] /\ running' \in [Resources -> SUBSET Tasks]
      BY <1>4, <2>1 DEF done, TablesOK
    <3>3. resBindings' \subseteq Resources \X Tasks
      BY <1>4, <2>1 DEF done, TablesOK
    <3>4. BindingsInverse'
      <4>1. \A t \in Tasks, r \in Resources :
              <<r, t>> \in resBindings' <=> <<r, t>> \in resBindings /\ r \notin Below(m)
        BY <1>4 DEF done
      <4>2. SUFFICES ASSUME NEW t \in Tasks, NEW r \in Resources
                     PROVE  taskBinding'[t] = r <=> <<r, t>> \in resBindings'
        BY DEF BindingsInverse
      <4>3. taskBinding[t] = r <=> <<r, t>> \in resBindings
        BY <2>1 DEF TablesOK, BindingsInverse
      <4>4. taskBinding'[t] = IF taskBinding[t] \in Below(m) THEN None ELSE taskBinding[t]
        BY <2>3, <2>5
      <4> QED BY <4>1, <4>3, <4>4, ResourcesAssumption
    <3>5. \A p \in Resources : Cardinality(running'[p]) <= MaxTasksPerPU
      BY <2>1, <2>5, TopologyAssumption, SMT DEF TablesOK, TasksCount
    <3> QED BY <1>1, <1>4, <2>1, <3>1, <3>2, <3>3, <3>4, <3>5 DEF done, TablesOK
  <2>8. \A t \in Tasks : /\ g1.task[t] = IF t \in victims THEN node ELSE g.task[t]
                         /\ g1.running[t] = IF t \in victims THEN None ELSE g.running[t]
    BY <2>1, <2>6 DEF Becomes, Assigned, GraphOK
  <2>9. \A t \in Tasks : g1.running[t] \notin Below(m)
    <3>1. None \notin Below(m)
      BY EntitiesAssumption DEF Below, Entities
    <3> QED BY <2>3, <2>8, <3>1 DEF ServiceInv, TaskOK, RunsOn
  <2>10. GraphOK(g') /\ g'.task = g1.task /\ g'.running = g1.running /\ g'.res = g.res \ Below(m)
    BY <2>5, <2>6, <2>9, TopologyRemoved, SMT DEF Becomes
  <2>11. \A r : Registered(r)' <=> Registered(r) /\ r \notin Below(m)
    BY <2>5 DEF Registered
  <2>12. Leaves(g)' = RegisteredPUs'
    BY <2>1, <2>10, <2>11 DEF Leaves, RegisteredPUs
  <2>13. ASSUME NEW t \in Tasks PROVE TaskOK(t)'
    <3>1. TaskOK(t)
      BY DEF ServiceInv
    <3>2. CASE t \in victims
      BY <1>1, <2>4, <2>5, <2>8, <2>10, <3>2 DEF node, state, TaskOK, RunsOn, HasNode
    <3>3. CASE t \notin victims
      <4>1. taskBinding'[t] = taskBinding[t] /\ taskBinding[t] \notin Below(m)
        BY <2>3, <2>5, <3>3
      <4>2. taskBinding[t] # None => Registered(taskBinding[t])'
        BY <2>11, <3>1, <4>1 DEF TaskOK
      <4>3. taskState[t] = "RUNNING" => taskBinding[t] # None /\ t \in running'[taskBinding[t]]
        BY <2>1, <2>5, <3>1, <4>1 DEF TaskOK, TablesOK
      <4>4. taskState'[t] = taskState[t] /\ g'.task[t] = g.task[t] /\ g'.running[t] = g.running[t]
        BY <2>5, <2>8, <2>10, <3>3
      <4> QED BY <1>1, <3>1, <4>1, <4>2, <4>3, <4>4 DEF TaskOK, RunsOn, HasNode
    <3> QED BY <3>2, <3>3
  <2>14. CountersMatch'
    <3>1. ASSUME NEW i \in Jobs PROVE JobCounted(i)'
      <4>1. JobCounted(i)
        BY CountersByJob DEF ServiceInv
      <4>2. UNCHANGED <<jobState, jobsToSchedule>>
        BY <1>4 DEF done
      <4> QED BY <1>1, <2>4, <2>5, <4>1, <4>2, JobStillCounted DEF state
    <3> QED BY <3>1, CountersByJobNext
  <2>15. PlacementStep
    <3>1. RegisteredPUs' \subseteq RegisteredPUs
      BY <2>11 DEF RegisteredPUs
    <3>2. Over' = Over
      BY <1>1, <2>4, <2>5 DEF state, Over
    <3>3. ASSUME NEW t \in Tasks
          PROVE  RunsOn(t)' = IF RunsOn(t) \in RegisteredPUs' THEN RunsOn(t) ELSE None
      <4>1. TaskOK(t)
        BY DEF ServiceInv
      <4>2. CASE t \in victims
        <5>1. RunsOn(t)' = None
          BY <2>5, <4>2 DEF state, RunsOn
        <5>2. RunsOn(t) \in {None, taskBinding[t]} /\ taskBinding[t] \notin RegisteredPUs'
          BY <2>3, <2>11, <4>2 DEF RunsOn, RegisteredPUs
        <5> QED BY <5>1, <5>2, ResourcesAssumption DEF RegisteredPUs
      <4>3. CASE t \notin victims
        <5>1. RunsOn(t)' = RunsOn(t)
          BY <2>5, <4>3 DEF RunsOn
        <5>2. RunsOn(t) # None => RunsOn(t) \in RegisteredPUs'
          BY <2>3, <2>11, <4>1, <4>3 DEF RunsOn, RegisteredPUs, TaskOK, Registered
        <5> QED BY <5>1, <5>2
      <4> QED BY <4>2, <4>3
    <3>4. Where' = [t \in Tasks |-> IF Where[t] \in RegisteredPUs' THEN Where[t] ELSE None]
      BY <3>3 DEF Where
    <3>5. Abstract!Leave
      BY <3>1, <3>2, <3>4 DEF Abstract!Leave, Where, Over
    <3> QED BY <3>5 DEF PlacementStep, Abstract!Next
  <2> QED BY <2>7, <2>10, <2>12, <2>13, <2>14, <2>15 DEF ServiceInv
<1> QED BY <1>3, <1>4

-----------------------------------------------------------------------------
(* The capacities of the aggregators. *)

(* The tasks that never get a node again *)
Done == removed \cup {t \in Tasks : taskState[t] \in {"COMPLETED", "FAILED"}}

AggsInv == AggsOK(g, config.preemption, Done)

(* Costs and flags as the cost model sees them *)
LEMMA PreemptionSeen == ASSUME NEW gr, NEW c, NEW w PROVE View(gr, c, w).preemption = config.preemption
BY DEF View

(* A request that fails a CHECK, or says nothing of the graph *)
LEMMA AggsUnchanged ==
  ASSUME TasksCount, AggsInv, UNCHANGED <<g, config>>, Done \subseteq Done'
  PROVE  AggsInv'
BY AggsWithMoreDone DEF AggsInv

(* TaskSubmitted *)
LEMMA SubmitKeepsAggs ==
  ASSUME TasksCount, ServiceInv, AggsInv, NEW t \in Tasks, NEW request, TaskSubmitted(t, request)
  PROVE  AggsInv'
<1>1. /\ taskState[t] = "ABSENT" /\ taskState' = [taskState EXCEPT ![t] = "CREATED"]
      /\ UNCHANGED <<removed, g, config>>
  BY DEF TaskSubmitted, Known
<1>2. Done \subseteq Done'
  BY <1>1 DEF Done, ServiceInv, TablesOK
<1> QED BY <1>1, <1>2, AggsUnchanged

(* TaskCompleted: the last task of a job takes the job's aggregator along. *)
LEMMA CompletionKeepsAggs ==
  ASSUME TasksCount, TasksAddUp, ServiceInv, AggsInv, NEW t \in Tasks, TaskCompleted(t)
  PROVE  AggsInv'
<1> DEFINE j == JobOf[t]
           last == incomplete[j] = 1
           inGraph == taskState[t] \notin {"FAILED", "ABORTED"}
           g1 == IF inGraph THEN RemoveTaskNode(g, Now, {t}) ELSE g
           done == /\ taskState' = [taskState EXCEPT ![t] = "COMPLETED"]
                   /\ g' = IF last THEN RemoveUnscheduledAggNode(g1, j) ELSE g1
                   /\ inGraph => HasNode(g, t)
<1>1. /\ t \notin removed /\ taskState[t] \in {"RUNNING", "RUNNABLE", "FAILED"}
      /\ UNCHANGED <<removed, config>>
      /\ HandleTaskCompletionAndReport(t, last)
  BY DEF TaskCompleted
<1>2. \/ FlowFail("HandleTaskCompletion_scheduled_to") \/ FlowFail("TaskCompleted_task_node")
      \/ FlowFail("HandleTaskFinalReport_equiv_classes") \/ done
  BY <1>1 DEF HandleTaskCompletionAndReport, TaskCompletedFails
<1>3. CASE ~done
  <2>1. UNCHANGED <<taskState, g>>
    BY <1>2, <1>3 DEF FlowFail, Fail, flowVars
  <2> QED BY <1>1, <2>1, AggsUnchanged DEF Done
<1>4. CASE done
  <2>1. TablesOK /\ GraphOK(g) /\ TaskOK(t) /\ j \in Jobs /\ JobCounted(j)
    BY TaskTreeAssumption, CountersByJob DEF ServiceInv
  <2>2. Done' = Done \cup {t}
    BY <1>1, <1>4, <2>1 DEF Done, TablesOK
  <2>3. GraphOK(g1) /\ \A u \in Tasks : g1.task[u] = IF u = t THEN "none" ELSE g.task[u]
    <3>1. CASE inGraph
      <4>1. Becomes(g1, g, Assigned(g.task, {t}, "none"), Assigned(g.running, {t}, None))
        BY <2>1, <3>1, TaskNodesRemoved
      <4> HIDE DEF g1
      <4> QED BY <2>1, <4>1 DEF Becomes, Assigned, GraphOK
    <3>2. CASE ~inGraph
      BY <1>1, <2>1, <3>2 DEF TaskOK, HasNode
    <3> QED BY <3>1, <3>2
  <2>4. AggsOK(g1, config.preemption, Done')
    <3>1. CASE inGraph
      <4>1. Now.preemption = config.preemption /\ HasNode(g, t)
        BY <1>4, <3>1, PreemptionSeen DEF Now
      <4>2. AggsOK(g, Now.preemption, Done) /\ {t} \in SUBSET Tasks /\ {t} \subseteq Done'
            /\ Done \subseteq Done' /\ \A u \in {t} : HasNode(g, u)
        BY <2>2, <4>1 DEF AggsInv
      <4>3. AggsOK(RemoveTaskNode(g, Now, {t}), Now.preemption, Done')
        BY <2>1, <4>2, RemovingNodesKeepsAggs
      <4> QED BY <3>1, <4>1, <4>3
    <3>2. CASE ~inGraph
      BY <2>2, <3>2, AggsWithMoreDone DEF AggsInv
    <3> QED BY <3>1, <3>2
  <2>5. g' = IF last THEN RemoveUnscheduledAggNode(g1, j) ELSE g1
    BY <1>4
  <2> HIDE DEF g1
  <2>6. last => TaskNodes(g1, j) = {}
    <3> SUFFICES ASSUME last, NEW u \in TaskNodes(g1, j) PROVE FALSE
      OBVIOUS
    <3>1. u \in Tasks /\ JobOf[u] = j /\ u # t /\ HasNode(g, u)
      BY <2>3 DEF TaskNodes, HasNode
    <3>2. u \in OpenTasks(j) /\ t \in OpenTasks(j) /\ OpenTasks(j) \in SUBSET Tasks
      <4>1. taskState[u] \in {"RUNNABLE", "RUNNING"} /\ u \notin removed
        BY <3>1 DEF ServiceInv, TaskOK
      <4>2. u \in OpenTasks(j)
        BY <3>1, <4>1 DEF OpenTasks, LeftTasks, Known
      <4>3. t \in OpenTasks(j)
        BY <1>1 DEF OpenTasks, LeftTasks, Known
      <4> QED BY <4>2, <4>3 DEF OpenTasks, LeftTasks
    <3>3. /\ Cardinality(OpenTasks(j) \ {t}) = Cardinality(OpenTasks(j)) - 1
          /\ Cardinality(OpenTasks(j) \ {t}) \in Nat \ {0} /\ Cardinality(OpenTasks(j)) \in Nat
      <4>1. OpenTasks(j) \ {t} \in SUBSET Tasks /\ OpenTasks(j) \ {t} # {}
        BY <3>1, <3>2
      <4> QED BY <3>2, <4>1 DEF TasksCount
    <3> QED BY <2>1, <3>3, SMT DEF JobCounted
  <2>7. AggsOK(g', config.preemption, Done')
    BY <2>1, <2>3, <2>4, <2>5, <2>6, AggRemoved
  <2> QED BY <1>1, <2>7 DEF AggsInv
<1> QED BY <1>3, <1>4

(* TaskFailed *)
LEMMA FailureKeepsAggs ==
  ASSUME TasksCount, TasksAddUp, ServiceInv, AggsInv, NEW t \in Tasks, TaskFailed(t)
  PROVE  AggsInv'
<1> DEFINE done == taskState' = [taskState EXCEPT ![t] = "FAILED"] /\ g' = RemoveTaskHelper(g, Now, {t})
<1>1. UNCHANGED <<removed, config>> /\ (FlowFail("HandleTaskFailure_binding") \/ done)
  BY DEF TaskFailed, FlowHandleTaskFailure
<1>2. CASE ~done
  <2>1. UNCHANGED <<taskState, g>>
    BY <1>1, <1>2 DEF FlowFail, Fail, flowVars
  <2> QED BY <1>1, <2>1, AggsUnchanged DEF Done
<1>3. CASE done
  <2>1. TablesOK /\ GraphOK(g) /\ Now.preemption = config.preemption
    BY PreemptionSeen DEF ServiceInv, Now
  <2>2. {t} \subseteq Done' /\ Done \subseteq Done' /\ {t} \in SUBSET Tasks
    BY <1>1, <1>3, <2>1 DEF Done, TablesOK
  <2>3. AggsOK(g, Now.preemption, Done)
    BY <2>1 DEF AggsInv
  <2>4. AggsOK(RemoveTaskHelper(g, Now, {t}), Now.preemption, Done')
    BY <2>1, <2>2, <2>3, HelperKeepsAggs
  <2> QED BY <1>1, <1>3, <2>1, <2>4 DEF AggsInv
<1> QED BY <1>2, <1>3

(* TaskRemoved, likewise *)
LEMMA RemovalKeepsAggs ==
  ASSUME TasksCount, TasksAddUp, ServiceInv, AggsInv, NEW t \in Tasks, TaskRemoved(t)
  PROVE  AggsInv'
<1> DEFINE j == JobOf[t]
           last == toRemove[j] = 1
           g1 == RemoveTaskHelper(g, Now, {t})
<1>1. /\ g' = IF last /\ incomplete[j] > 0 THEN RemoveUnscheduledAggNode(g1, j) ELSE g1
      /\ config' = config
  BY DEF TaskRemoved, HandleTaskRemoval
<1>2. Removed(t)
  BY RemovalEffect
<1>3. GraphOK(g) /\ j \in Jobs /\ Now.preemption = config.preemption
  <2>1. GraphOK(g) /\ j \in Jobs
    BY TaskTreeAssumption DEF ServiceInv
  <2> QED BY <2>1, PreemptionSeen DEF Now
<1>4. {t} \subseteq Done' /\ Done \subseteq Done' /\ {t} \in SUBSET Tasks
  <2>1. removed' = removed \cup {t}
    BY <1>2 DEF Removed
  <2>2. ASSUME NEW u \in Tasks \ {t}, taskState[u] \in {"COMPLETED", "FAILED"}
        PROVE  u \in Done'
    <3>1. CASE last /\ JobOf[u] = j
      <4>1. u \notin LeftTasks(j)
        BY <1>2, <2>2, <3>1 DEF Removed
      <4> QED BY <2>1, <2>2, <3>1, <4>1 DEF LeftTasks, Known, Done
    <3>2. CASE ~(last /\ JobOf[u] = j)
      BY <1>2, <2>2, <3>2 DEF Removed, Done
    <3> QED BY <3>1, <3>2
  <2> QED BY <2>1, <2>2 DEF Done
<1>5. AggsOK(g1, config.preemption, Done')
  <2>1. AggsOK(g, Now.preemption, Done)
    BY <1>3 DEF AggsInv
  <2> QED BY <1>3, <1>4, <2>1, HelperKeepsAggs
<1>6. GraphOK(g1) /\ \A u \in Tasks : g1.task[u] = IF u = t THEN "none" ELSE g.task[u]
  <2>1. Becomes(g1, g, Assigned(g.task, {t}, "none"), Assigned(g.running, {t}, None))
    BY <1>4, HelperRemoved
  <2> HIDE DEF g1
  <2> QED BY <1>3, <2>1 DEF Becomes, Assigned, GraphOK
<1> HIDE DEF g1
<1>7. last => TaskNodes(g1, j) = {}
  <2> SUFFICES ASSUME last, NEW u \in TaskNodes(g1, j) PROVE FALSE
    OBVIOUS
  <2>1. u \in Tasks /\ JobOf[u] = j /\ u # t /\ HasNode(g, u)
    BY <1>6 DEF TaskNodes, HasNode
  <2>2. taskState[u] \in {"RUNNABLE", "RUNNING"} /\ u \notin removed
    BY <2>1 DEF ServiceInv, TaskOK
  <2>3. u \in LeftTasks(j)
    BY <2>1, <2>2 DEF LeftTasks, Known
  <2> QED BY <1>2, <2>1, <2>3 DEF Removed
<1>8. AggsOK(g', config.preemption, Done')
  BY <1>1, <1>3, <1>5, <1>6, <1>7, AggRemoved
<1> QED BY <1>1, <1>8 DEF AggsInv

(* NodeAdded *)
LEMMA NodeAddedKeepsAggs ==
  ASSUME TasksCount, ServiceInv, AggsInv, NEW m \in Machines, NEW label, NodeAdded(m, label)
  PROVE  AggsInv'
<1>1. UNCHANGED <<removed, config, taskState>> /\ g' \in {g, AddResourceTopology(g, Now, m)}
  BY DEF NodeAdded, RegisterResource, FlowFail, Fail, flowVars
<1>2. Done' = Done /\ GraphOK(g)
  BY <1>1 DEF Done, ServiceInv
<1>3. AggsOK(AddResourceTopology(g, Now, m), config.preemption, Done)
  BY <1>2, AddingTopologyKeepsAggs, AggsUntouched DEF AggsInv
<1> QED BY <1>1, <1>2, <1>3 DEF AggsInv

(* NodeRemoved: tasks that ran below m become open, or fail. *)
LEMMA NodeRemovedKeepsAggs ==
  ASSUME TasksCount, TasksAddUp, ServiceInv, AggsInv, NEW m \in Machines, NEW later,
         NodeRemoved(m, later)
  PROVE  AggsInv'
<1> DEFINE victims == {t \in Tasks : \E r \in Below(m) : <<r, t>> \in resBindings}
           state == IF config.reschedule THEN "RUNNABLE" ELSE "FAILED"
           g1 == IF config.reschedule THEN TaskEvicted(g, Now, victims)
                 ELSE RemoveTaskHelper(g, Now, victims)
           done == /\ config.reschedule => \A t \in victims : g.running[t] # None
                   /\ g' = RemoveResourceTopology(g1, m)
                   /\ taskState' = [t \in Tasks |-> IF t \notin victims THEN taskState[t] ELSE state]
<1>1. UNCHANGED <<removed, config>> /\ DeregisterResource(m, later)
  BY DEF NodeRemoved
<1>2. \/ FlowFail("HandleTasksFromDeregisteredResource_td") \/ FlowFail("TaskEvicted_task_node")
      \/ FlowFail("RemoveMachine_erased") \/ done
  BY <1>1 DEF DeregisterResource, TaskEvictedFails
<1>3. victims \in SUBSET Tasks
  OBVIOUS
<1> HIDE DEF victims
<1>4. CASE ~done
  <2>1. UNCHANGED <<taskState, g>>
    BY <1>2, <1>4 DEF FlowFail, Fail, flowVars
  <2> QED BY <1>1, <2>1, AggsUnchanged DEF Done
<1>5. CASE done
  <2>1. GraphOK(g) /\ Now.preemption = config.preemption
    BY PreemptionSeen DEF ServiceInv, Now
  <2>2. config.reschedule => \A t \in victims : g.task[t] = "SCHEDULED" /\ taskState[t] = "RUNNING"
    BY <1>3, <1>5 DEF ServiceInv, TaskOK, RunsOn
  <2>3. Done \subseteq Done' /\ (~config.reschedule => victims \subseteq Done')
    BY <1>1, <1>3, <1>5, <2>2 DEF Done
  <2>4. AggsOK(g, Now.preemption, Done)
    BY <2>1 DEF AggsInv
  <2>5. GraphOK(g1) /\ AggsOK(g1, Now.preemption, Done')
    <3>1. CASE config.reschedule
      <4>1. AggsOK(TaskEvicted(g, Now, victims), Now.preemption, Done)
        BY <1>3, <2>1, <2>2, <2>4, <3>1, EvictionKeepsAggs
      <4>2. GraphOK(TaskEvicted(g, Now, victims))
        BY <1>3, <2>1, TasksEvicted DEF Becomes
      <4> QED BY <2>3, <3>1, <4>1, <4>2, AggsWithMoreDone
    <3>2. CASE ~config.reschedule
      <4>1. AggsOK(RemoveTaskHelper(g, Now, victims), Now.preemption, Done')
        BY <1>3, <2>1, <2>3, <2>4, <3>2, HelperKeepsAggs
      <4>2. GraphOK(RemoveTaskHelper(g, Now, victims))
        BY <1>3, HelperRemoved DEF Becomes
      <4> QED BY <3>2, <4>1, <4>2
    <3> QED BY <3>1, <3>2
  <2>6. g' = RemoveResourceTopology(g1, m)
    BY <1>5
  <2> HIDE DEF g1
  <2>7. AggsOK(g', Now.preemption, Done')
    BY <2>5, <2>6, RemovingTopologyKeepsAggs, AggsUntouched
  <2> QED BY <1>1, <2>1, <2>7 DEF AggsInv
<1> QED BY <1>4, <1>5

-----------------------------------------------------------------------------
(* What the tables remember of a task. *)

(* A task on a PU's list runs there or is done, and a task that was placed  *)
(* once keeps its node while it may run; it is not submitted again.        *)
TaskPast(t) ==
  /\ \A r \in Resources : t \in running[r] => t \in Done \/ (taskState[t] = "RUNNING" /\ taskBinding[t] = r)
  /\ scheduledTo[t] # None => /\ taskState[t] \in {"RUNNABLE", "RUNNING"} => HasNode(g, t)
                              /\ taskState[t] \in {"ABSENT", "CREATED", "BLOCKING"} => t \in removed

PastInv == \A t \in Tasks : TaskPast(t)

(* The task has what it had; at most, it is removed or leaves a list. *)
SamePast(t) ==
  /\ taskState'[t] = taskState[t] /\ taskBinding'[t] = taskBinding[t]
  /\ scheduledTo'[t] = scheduledTo[t] /\ g'.task[t] = g.task[t]
  /\ \A r \in Resources : t \in running'[r] => t \in running[r]
  /\ t \in removed => t \in removed'

(* Such a task is as it should be. *)
LEMMA PastStays ==
  ASSUME NEW t \in Tasks, TaskPast(t), SamePast(t)
  PROVE  TaskPast(t)'
<1>1. t \in Done => t \in Done'
  BY DEF Done, SamePast
<1> QED BY <1>1 DEF TaskPast, SamePast, HasNode

(* So is a task that is done. *)
LEMMA PastOver ==
  ASSUME NEW t \in Tasks, TaskOK(t)', t \in Done'
  PROVE  TaskPast(t)'
BY DEF TaskPast, TaskOK, Done

(* A step that concerns none of this *)
LEMMA PastUnchanged ==
  ASSUME PastInv, UNCHANGED <<taskState, taskBinding, running, scheduledTo, g, removed>>
  PROVE  PastInv'
<1>1. \A t \in Tasks : SamePast(t)
  BY DEF SamePast
<1> QED BY <1>1, PastStays DEF PastInv

(* TaskSubmitted *)
LEMMA SubmitKeepsPast ==
  ASSUME ServiceInv, PastInv, NEW t \in Tasks, NEW request, TaskSubmitted(t, request)
  PROVE  PastInv'
<1>1. /\ taskState[t] = "ABSENT" /\ t \notin removed
      /\ taskState' = [taskState EXCEPT ![t] = "CREATED"]
      /\ UNCHANGED <<taskBinding, running, scheduledTo, g, removed>>
  BY DEF TaskSubmitted, Known, bindingVars
<1>2. ASSUME NEW u \in Tasks PROVE TaskPast(u)'
  <2>1. TaskPast(u) /\ TablesOK
    BY DEF PastInv, ServiceInv
  <2>2. CASE u = t
    <3>1. scheduledTo[t] = None /\ \A r \in Resources : t \notin running[r]
      BY <1>1, <2>1, <2>2 DEF TaskPast, Done
    <3> QED BY <1>1, <2>2, <3>1 DEF TaskPast
  <2>3. CASE u # t
    <3>1. SamePast(u)
      BY <1>1, <2>1, <2>3 DEF SamePast, TablesOK
    <3> QED BY <2>1, <3>1, PastStays
  <2> QED BY <2>2, <2>3
<1> QED BY <1>2 DEF PastInv

(* A step that ends task t, and leaves what other tasks have *)
LEMMA EndKeepsPast ==
  ASSUME PastInv, NEW t \in Tasks, ServiceInv', t \in Done', \A u \in Tasks \ {t} : SamePast(u)
  PROVE  PastInv'
<1>1. ASSUME NEW u \in Tasks PROVE TaskPast(u)'
  <2>1. TaskPast(u) /\ TaskOK(u)'
    BY DEF PastInv, ServiceInv
  <2> QED BY <2>1, PastStays, PastOver
<1> QED BY <1>1 DEF PastInv

(* TaskCompleted and TaskFailed: t leaves its PU and the graph. *)
LEMMA UnbindingKeepsPast ==
  ASSUME ServiceInv, ServiceInv', PastInv, NEW t \in Tasks, NEW s, s \in {"COMPLETED", "FAILED"},
         NEW out, out = IF taskBinding[t] # None THEN {t} ELSE {}, Rebind(out, <<>>, running),
         taskState' = [taskState EXCEPT ![t] = s], UNCHANGED <<removed, scheduledTo>>,
         \A u \in Tasks \ {t} : g'.task[u] = g.task[u]
  PROVE  PastInv'
<1>1. TablesOK /\ TaskOK(t)
  BY DEF ServiceInv
<1>2. \A u \in out : u \in Tasks /\ Registered(taskBinding[u])
  BY <1>1 DEF TaskOK
<1>3. /\ taskBinding' = [u \in Tasks |-> IF u \in out THEN None ELSE taskBinding[u]]
      /\ running' = running
  BY <1>1, <1>2, Unbound, SMT
<1>4. taskState'[t] = s /\ \A u \in Tasks \ {t} : taskState'[u] = taskState[u]
  BY <1>1 DEF TablesOK
<1>5. \A u \in Tasks \ {t} : SamePast(u)
  BY <1>3, <1>4 DEF SamePast
<1>6. t \in Done'
  BY <1>4 DEF Done
<1> QED BY <1>5, <1>6, EndKeepsPast

(* TaskCompleted *)
LEMMA CompletionKeepsPast ==
  ASSUME ServiceInv, ServiceInv', PastInv, NEW t \in Tasks, TaskCompleted(t)
  PROVE  PastInv'
<1> DEFINE j == JobOf[t]
           last == incomplete[j] = 1
           inGraph == taskState[t] \notin {"FAILED", "ABORTED"}
           g1 == IF inGraph THEN RemoveTaskNode(g, Now, {t}) ELSE g
           out == IF taskBinding[t] # None THEN {t} ELSE {}
           done == /\ Rebind(out, <<>>, running)
                   /\ taskState' = [taskState EXCEPT ![t] = "COMPLETED"]
                   /\ g' = IF last THEN RemoveUnscheduledAggNode(g1, j) ELSE g1
                   /\ UNCHANGED scheduledTo
<1>1. removed' = removed /\ HandleTaskCompletionAndReport(t, last)
  BY DEF TaskCompleted
<1>2. \/ FlowFail("HandleTaskCompletion_scheduled_to") \/ FlowFail("TaskCompleted_task_node")
      \/ FlowFail("HandleTaskFinalReport_equiv_classes") \/ done
  BY <1>1 DEF HandleTaskCompletionAndReport
<1>3. CASE ~done
  <2>1. UNCHANGED <<taskState, taskBinding, running, scheduledTo, g>>
    BY <1>2, <1>3 DEF FlowFail, Fail, flowVars, bindingVars
  <2> QED BY <1>1, <2>1, PastUnchanged
<1>4. CASE done
  <2>1. GraphOK(g) /\ j \in Jobs
    BY TaskTreeAssumption DEF ServiceInv
  <2>2. GraphOK(g1) /\ \A u \in Tasks \ {t} : g1.task[u] = g.task[u]
    <3>1. CASE inGraph
      <4>1. Becomes(g1, g, Assigned(g.task, {t}, "none"), Assigned(g.running, {t}, None))
        BY <2>1, <3>1, TaskNodesRemoved
      <4> HIDE DEF g1
      <4> QED BY <2>1, <4>1 DEF Becomes, Assigned, GraphOK
    <3>2. CASE ~inGraph
      BY <2>1, <3>2
    <3> QED BY <3>1, <3>2
  <2>3. g' = IF last THEN RemoveUnscheduledAggNode(g1, j) ELSE g1
    BY <1>4
  <2> HIDE DEF g1
  <2>4. RemoveUnscheduledAggNode(g1, j).task = g1.task
    BY <2>1, <2>2, AggNodeRemoved DEF Becomes
  <2>5. \A u \in Tasks \ {t} : g'.task[u] = g.task[u]
    BY <2>2, <2>3, <2>4
  <2> QED BY <1>1, <1>4, <2>5, UnbindingKeepsPast
<1> QED BY <1>3, <1>4

(* TaskFailed *)
LEMMA FailureKeepsPast ==
  ASSUME ServiceInv, ServiceInv', PastInv, NEW t \in Tasks, TaskFailed(t)
  PROVE  PastInv'
<1> DEFINE done == /\ Rebind({t}, <<>>, running)
                   /\ taskState' = [taskState EXCEPT ![t] = "FAILED"]
                   /\ g' = RemoveTaskHelper(g, Now, {t})
                   /\ UNCHANGED scheduledTo
<1>1. /\ taskState[t] = "RUNNING" /\ removed' = removed
      /\ FlowFail("HandleTaskFailure_binding") \/ done
  BY DEF TaskFailed, FlowHandleTaskFailure
<1>2. CASE ~done
  <2>1. UNCHANGED <<taskState, taskBinding, running, scheduledTo, g>>
    BY <1>1, <1>2 DEF FlowFail, Fail, flowVars, bindingVars
  <2> QED BY <1>1, <2>1, PastUnchanged
<1>3. CASE done
  <2>1. GraphOK(g) /\ taskBinding[t] # None
    BY <1>1 DEF ServiceInv, TaskOK
  <2>2. Becomes(g', g, Assigned(g.task, {t}, "none"), Assigned(g.running, {t}, None))
    BY <1>3, HelperRemoved
  <2>3. \A u \in Tasks \ {t} : g'.task[u] = g.task[u]
    BY <2>1, <2>2 DEF Becomes, Assigned, GraphOK
  <2>4. Rebind(IF taskBinding[t] # None THEN {t} ELSE {}, <<>>, running)
    BY <1>3, <2>1
  <2> QED BY <1>1, <1>3, <2>3, <2>4, UnbindingKeepsPast
<1> QED BY <1>2, <1>3

(* TaskRemoved: when the job goes, its other tasks were removed before. *)
LEMMA RemovalKeepsPast ==
  ASSUME TasksCount, ServiceInv, ServiceInv', PastInv, NEW t \in Tasks, TaskRemoved(t)
  PROVE  PastInv'
<1> DEFINE j == JobOf[t]
           last == toRemove[j] = 1
<1>1. Removed(t) /\ scheduledTo' = scheduledTo
  BY RemovalEffect DEF TaskRemoved, HandleTaskRemoval, bindingVars
<1>2. GraphOK(g)
  BY DEF ServiceInv
<1>3. removed' = removed \cup {t} /\ UNCHANGED <<taskBinding, running>>
  BY <1>1 DEF Removed
<1>4. ASSUME NEW u \in Tasks PROVE TaskPast(u)'
  <2>1. TaskPast(u) /\ TaskOK(u)'
    BY DEF PastInv, ServiceInv
  <2>2. CASE u \in removed'
    BY <2>1, <2>2, PastOver DEF Done
  <2>3. CASE u \notin removed'
    <3>1. u # t /\ u \notin removed
      BY <1>3, <2>3
    <3>2. taskState'[u] = taskState[u]
      <4>1. CASE last /\ JobOf[u] = j
        <5>1. u \notin LeftTasks(j) /\ taskState'[u] = "ABSENT"
          BY <1>1, <3>1, <4>1 DEF Removed
        <5> QED BY <3>1, <4>1, <5>1 DEF LeftTasks, Known
      <4>2. CASE ~(last /\ JobOf[u] = j)
        BY <1>1, <3>1, <4>2 DEF Removed
      <4> QED BY <4>1, <4>2
    <3>3. g'.task[u] = g.task[u]
      BY <1>1, <1>2, <3>1 DEF Removed, Becomes, Assigned, GraphOK
    <3>4. SamePast(u)
      BY <1>1, <1>3, <3>2, <3>3 DEF SamePast
    <3> QED BY <2>1, <3>4, PastStays
  <2> QED BY <2>2, <2>3
<1> QED BY <1>4 DEF PastInv

(* NodeAdded *)
LEMMA NodeAddedKeepsPast ==
  ASSUME ServiceInv, PastInv, NEW m \in Machines, NEW label, NodeAdded(m, label)
  PROVE  PastInv'
<1>1. /\ UNCHANGED <<removed, taskState, taskBinding, running, scheduledTo>>
      /\ g' \in {g, AddResourceTopology(g, Now, m)}
  BY DEF NodeAdded, RegisterResource, FlowFail, Fail, flowVars, bindingVars
<1>2. g'.task = g.task
  <2>1. GraphOK(g)
    BY DEF ServiceInv
  <2>2. AddResourceTopology(g, Now, m).task = g.task
    BY <2>1, TopologyAdded, SMT
  <2> QED BY <1>1, <2>2
<1>3. \A t \in Tasks : SamePast(t)
  BY <1>1, <1>2 DEF SamePast
<1> QED BY <1>3, PastStays DEF PastInv

(* NodeRemoved: the tasks that ran below m are on no list any more. *)
LEMMA NodeRemovedKeepsPast ==
  ASSUME ServiceInv, ServiceInv', PastInv, NEW m \in Machines, NEW later, NodeRemoved(m, later)
  PROVE  PastInv'
<1> DEFINE victims == {t \in Tasks : \E r \in Below(m) : <<r, t>> \in resBindings}
           node == IF config.reschedule THEN "UNSCHEDULED" ELSE "none"
           state == IF config.reschedule THEN "RUNNABLE" ELSE "FAILED"
           g1 == IF config.reschedule THEN TaskEvicted(g, Now, victims)
                 ELSE RemoveTaskHelper(g, Now, victims)
           done == /\ g' = RemoveResourceTopology(g1, m)
                   /\ taskBinding' = [t \in Tasks |-> IF t \in victims THEN None ELSE taskBinding[t]]
                   /\ running' = [r \in Resources |-> IF r \in Below(m) THEN {} ELSE running[r]]
                   /\ taskState' = [t \in Tasks |-> IF t \notin victims THEN taskState[t] ELSE state]
                   /\ scheduledTo' = scheduledTo
<1>1. removed' = removed /\ DeregisterResource(m, later)
  BY DEF NodeRemoved
<1>2. \/ FlowFail("HandleTasksFromDeregisteredResource_td") \/ FlowFail("TaskEvicted_task_node")
      \/ FlowFail("RemoveMachine_erased") \/ done
  BY <1>1 DEF DeregisterResource
<1> HIDE DEF victims, node, state, g1, done
<1>3. CASE ~done
  <2>1. UNCHANGED <<taskState, taskBinding, running, scheduledTo, g>>
    BY <1>2, <1>3 DEF FlowFail, Fail, flowVars, bindingVars
  <2> QED BY <1>1, <2>1, PastUnchanged
<1>4. CASE done
  <2>1. TablesOK /\ GraphOK(g) /\ victims \in SUBSET Tasks
    BY DEF ServiceInv, victims
  <2>2. \A t \in Tasks : t \in victims <=> taskBinding[t] \in Below(m)
    <3>1. None \notin Below(m)
      BY EntitiesAssumption DEF Below, Entities
    <3> QED BY <2>1, <3>1 DEF victims, TablesOK, BindingsInverse
  <2>3. Becomes(g1, g, Assigned(g.task, victims, node), Assigned(g.running, victims, None))
    BY <2>1, HelperRemoved, TasksEvicted DEF g1, node
  <2>4. GraphOK(g1) /\ \A t \in Tasks : /\ g1.task[t] = IF t \in victims THEN node ELSE g.task[t]
                                        /\ g1.running[t] = IF t \in victims THEN None ELSE g.running[t]
    BY <2>1, <2>3 DEF Becomes, Assigned, GraphOK
  <2>5. \A t \in Tasks : g1.running[t] \notin Below(m)
    <3>1. None \notin Below(m)
      BY EntitiesAssumption DEF Below, Entities
    <3> QED BY <2>2, <2>4, <3>1 DEF ServiceInv, TaskOK, RunsOn
  <2>6. g'.task = g1.task
    BY <1>4, <2>4, <2>5, TopologyRemoved, SMT DEF done
  <2>7. /\ \A t \in Tasks : taskState'[t] = IF t \in victims THEN state ELSE taskState[t]
        /\ \A t \in Tasks : taskBinding'[t] = IF t \in victims THEN None ELSE taskBinding[t]
        /\ \A r \in Resources : running'[r] = IF r \in Below(m) THEN {} ELSE running[r]
        /\ scheduledTo' = scheduledTo
    BY <1>4 DEF done
  <2>8. ASSUME NEW t \in Tasks PROVE TaskPast(t)'
    <3>1. TaskPast(t) /\ TaskOK(t)'
      BY DEF PastInv, ServiceInv
    <3>2. CASE t \notin victims
      <4>1. SamePast(t)
        BY <1>1, <2>4, <2>6, <2>7, <3>2 DEF SamePast
      <4> QED BY <3>1, <4>1, PastStays
    <3>3. CASE t \in victims /\ t \in Done'
      BY <3>1, <3>3, PastOver
    <3>4. CASE t \in victims /\ t \notin Done'
      <4>1. taskState'[t] = "RUNNABLE" /\ HasNode(g', t)
        BY <2>4, <2>6, <2>7, <3>4 DEF state, node, Done, HasNode
      <4>2. ASSUME NEW r \in Resources, t \in running'[r] PROVE FALSE
        <5>1. r \notin Below(m) /\ t \in running[r]
          BY <2>7, <4>2
        <5>2. taskBinding[t] # r
          BY <2>2, <3>4, <5>1
        <5>3. t \in Done
          BY <3>1, <5>1, <5>2 DEF TaskPast
        <5>4. taskBinding[t] \in Below(m) /\ taskBinding[t] # None /\ t \notin removed
          BY <1>1, <2>2, <3>4, EntitiesAssumption DEF Done, Below, Entities
        <5>5. taskState[t] = "RUNNING"
          BY <5>4 DEF ServiceInv, TaskOK
        <5> QED BY <5>3, <5>4, <5>5 DEF Done
      <4> QED BY <4>1, <4>2 DEF TaskPast
    <3> QED BY <3>2, <3>3, <3>4
  <2> QED BY <2>8 DEF PastInv
<1> QED BY <1>3, <1>4

-----------------------------------------------------------------------------
(* The CHECKs that requests fail. *)

(* The CHECKs that OwnFailuresExplained speaks of *)
OwnChecks == {"HandleTaskFailure_binding", "TaskCompleted_task_node", "HandleTaskCompletion_scheduled_to",
              "HandleTasksFromDeregisteredResource_td", "TaskEvicted_task_node",
              "UpdateArcsForScheduledTask_arc"}

(* A step that fails none of them *)
LEMMA OtherFailure == ASSUME failedCheck' \notin OwnChecks PROVE OwnFailuresExplained'
BY DEF OwnFailuresExplained, OwnChecks

(* TaskCompleted: a task without a binding completes too late, or not; a    *)
(* task that may still run has a node, and its aggregator can shrink.      *)
LEMMA CompletionExplained ==
  ASSUME TasksCount, ServiceInv, AggsInv, PastInv, failedCheck = "none", NEW t \in Tasks,
         TaskCompleted(t)
  PROVE  OwnFailuresExplained'
<1> DEFINE inGraph == taskState[t] \notin {"FAILED", "ABORTED"}
           where == IF taskBinding[t] # None THEN taskBinding[t] ELSE scheduledTo[t]
<1>1. scheduledTo[t] # None /\ taskState[t] \in {"RUNNING", "RUNNABLE", "FAILED"}
  BY DEF TaskCompleted
<1>2. TaskOK(t) /\ TaskPast(t)
  BY DEF ServiceInv, PastInv
<1>3. ~(inGraph /\ TaskCompletedFails(g, Now, t))
  <2> SUFFICES ASSUME inGraph PROVE ~TaskCompletedFails(g, Now, t)
    OBVIOUS
  <2>1. HasNode(g, t)
    BY <1>1, <1>2 DEF TaskPast
  <2>2. config.preemption => ~AggFails(g, JobOf[t], -1)
    BY <2>1, AggMayShrink DEF AggsInv
  <2>3. Now.preemption = config.preemption
    BY PreemptionSeen DEF Now
  <2> QED BY <2>1, <2>2, <2>3 DEF TaskCompletedFails
<1>4. \/ FlowFail("HandleTaskCompletion_scheduled_to") /\ ~Registered(where)
      \/ FlowFail("HandleTaskFinalReport_equiv_classes")
      \/ failedCheck' = failedCheck
  BY <1>3 DEF TaskCompleted, HandleTaskCompletionAndReport
<1>5. CASE FlowFail("HandleTaskCompletion_scheduled_to") /\ ~Registered(where)
  <2>1. /\ failedCheck' = "HandleTaskCompletion_scheduled_to"
        /\ UNCHANGED <<taskState, taskBinding, scheduledTo, resState>>
    BY <1>5 DEF FlowFail, Fail, bindingVars
  <2>2. taskBinding[t] = None /\ ~Registered(scheduledTo[t]) /\ taskState[t] \in {"RUNNABLE", "FAILED"}
    BY <1>1, <1>2, <1>5 DEF TaskOK
  <2>3. \E u \in Tasks : /\ taskState'[u] \in {"RUNNABLE", "FAILED"} /\ taskBinding'[u] = None
                         /\ scheduledTo'[u] # None /\ ~Registered(scheduledTo[u])'
    BY <1>1, <2>1, <2>2 DEF Registered
  <2> QED BY <2>1, <2>3 DEF OwnFailuresExplained
<1>6. CASE failedCheck' \notin OwnChecks
  BY <1>6, OtherFailure
<1> QED BY <1>4, <1>5, <1>6 DEF FlowFail, Fail, OwnChecks

(* TaskFailed: a task that runs is bound to a registered PU. *)
LEMMA FailureExplained ==
  ASSUME ServiceInv, failedCheck = "none", NEW t \in Tasks, TaskFailed(t)
  PROVE  OwnFailuresExplained'
<1>1. TaskOK(t) /\ taskState[t] = "RUNNING"
  BY DEF ServiceInv, TaskFailed
<1>2. Registered(taskBinding[t])
  BY <1>1 DEF TaskOK
<1>3. failedCheck' = failedCheck
  BY <1>2 DEF TaskFailed, FlowHandleTaskFailure
<1> QED BY <1>3, OtherFailure DEF OwnChecks

(* NodeRemoved: only a task that was removed may be bound without a node. *)
LEMMA NodeRemovedExplained ==
  ASSUME ServiceInv, AggsInv, failedCheck = "none", NEW m \in Machines, NEW later, NodeRemoved(m, later)
  PROVE  OwnFailuresExplained'
<1> DEFINE victims == {t \in Tasks : \E r \in Below(m) : <<r, t>> \in resBindings}
<1>1. UNCHANGED <<removed, config>> /\ DeregisterResource(m, later)
  BY DEF NodeRemoved
<1>2. \/ FlowFail("HandleTasksFromDeregisteredResource_td") /\ victims \cap Gone # {}
      \/ /\ FlowFail("TaskEvicted_task_node") /\ victims \cap Gone = {} /\ config.reschedule
         /\ \E t \in victims : TaskEvictedFails(g, Now, t)
      \/ FlowFail("RemoveMachine_erased")
      \/ failedCheck' = failedCheck
  BY <1>1 DEF DeregisterResource
<1>3. \A t \in victims : t \in Tasks /\ taskBinding[t] # None
  <2>1. TablesOK /\ None \notin Below(m)
    BY EntitiesAssumption DEF ServiceInv, Below, Entities
  <2> QED BY <2>1 DEF TablesOK, BindingsInverse
<1> HIDE DEF victims
<1>4. ASSUME NEW check, FlowFail(check)
      PROVE  failedCheck' = check /\ UNCHANGED <<taskState, taskBinding, removed, config>> /\ Gone' = Gone
  BY <1>1, <1>4 DEF FlowFail, Fail, bindingVars, Gone
<1>5. CASE FlowFail("HandleTasksFromDeregisteredResource_td") /\ victims \cap Gone # {}
  <2>1. /\ failedCheck' = "HandleTasksFromDeregisteredResource_td"
        /\ \E t \in Gone' : taskBinding'[t] # None
    BY <1>3, <1>4, <1>5
  <2> QED BY <2>1 DEF OwnFailuresExplained
<1>6. CASE /\ FlowFail("TaskEvicted_task_node") /\ victims \cap Gone = {} /\ config.reschedule
           /\ \E t \in victims : TaskEvictedFails(g, Now, t)
  <2>1. PICK t \in victims : TaskEvictedFails(g, Now, t)
    BY <1>6
  <2>2. t \in Tasks /\ taskBinding[t] # None /\ TaskOK(t) /\ t \notin Gone
    BY <1>3, <1>6 DEF ServiceInv
  <2>3. t \in removed
    <3> SUFFICES ASSUME t \notin removed PROVE FALSE
      OBVIOUS
    <3>1. HasNode(g, t) /\ g.running[t] # None
      BY <2>2 DEF TaskOK, RunsOn, HasNode
    <3>2. AggsOK(g, Now.preemption, Done)
      BY PreemptionSeen DEF AggsInv, Now
    <3> QED BY <2>1, <2>2, <3>1, <3>2, MayBeEvicted
  <2>4. /\ failedCheck' = "TaskEvicted_task_node" /\ config'.reschedule
        /\ \E u \in removed' \ Gone' : taskBinding'[u] # None
    BY <1>4, <1>6, <2>2, <2>3
  <2> QED BY <2>4 DEF OwnFailuresExplained
<1>7. CASE FlowFail("RemoveMachine_erased") \/ failedCheck' = failedCheck
  <2>1. failedCheck' \in {"none", "RemoveMachine_erased"}
    BY <1>4, <1>7
  <2> QED BY <2>1, OtherFailure DEF OwnChecks
<1> QED BY <1>2, <1>5, <1>6, <1>7

=============================================================================
