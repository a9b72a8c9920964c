----------------------- MODULE CoordinatorStateProofs -----------------------
(***************************************************************************)
(* Proofs about Coordinator, continued: what is known about tasks, threads *)
(* and messages whatever jobs share and however late messages are; that a  *)
(* binding matches its task's state and a runnable task is queued.         *)
(***************************************************************************)
EXTENDS CoordinatorProofs

(* A step that names no prover is Zenon's.                                  *)
USE ZenonT(60)

(* What is known of tasks, threads and messages holds initially. *)
LEMMA InitHistoryInv == Init => HistoryInv
<1> SUFFICES ASSUME Init PROVE HistoryInv
  OBVIOUS
<1>1. BindingInv
  BY InitBindingInv
<1> USE DEF Init, EdsInit, NothingSubmitted
<1>2. ThreadInv
  BY CoordinatorAssumption DEF ThreadInv, Threads
<1>3. TaskInv
  BY TaskTreeAssumption DEF TaskInv, Started
<1>4. MessageInv /\ PUsRegistered
  BY DEF MessageInv, PUsRegistered
<1> QED BY <1>1, <1>2, <1>3, <1>4 DEF HistoryInv

(* Every step keeps HistoryInv. *)
LEMMA NextHistoryInv == HistoryInv /\ [Next]_vars => HistoryInv'
<1> SUFFICES ASSUME HistoryInv, [Next]_vars PROVE HistoryInv'
  OBVIOUS
<1>inv. /\ BindingInv /\ TypeOK /\ EdsTypeOK /\ ArgOK
        /\ ThreadInv /\ TaskInv /\ MessageInv /\ PUsRegistered
  BY DEF HistoryInv, BindingInv, TypeOK
<1>next. BindingInv' /\ TypeOK' /\ EdsTypeOK'
  BY <1>inv, NextBindingInv DEF BindingInv, TypeOK
<1>threads. "io" \in Threads /\ "http" \in Threads /\ "health" \in Threads
  BY DEF Threads
<1>steps. {"idle", "completion", "failure", "jobdone", "delegated", "schedule"} = Steps
  BY DEF Steps
<1>jobof. \A t \in Tasks : JobOf[t] \in Jobs
  BY TaskTreeAssumption, SMTT(30)
<1> SUFFICES ThreadInv' /\ TaskInv' /\ MessageInv' /\ PUsRegistered'
  BY <1>next DEF HistoryInv
<1>1. ASSUME NEW j \in Jobs, SubmitJob(j)
      PROVE  ThreadInv' /\ TaskInv' /\ MessageInv' /\ PUsRegistered'
  <2>0. /\ scheduledTo' = scheduledTo /\ taskBinding' = taskBinding /\ runnable' = runnable
        /\ proc' = proc /\ msgs' = msgs /\ lock' = lock /\ resState' = resState
        /\ jobState' = [jobState EXCEPT ![j] = "CREATED"]
        /\ \A t \in Tasks : taskState'[t] = IF t \in Submitted /\ JobOf[t] = j
                                            THEN "CREATED" ELSE taskState[t]
        /\ \A o \in Objects : \A t \in producing'[o] : t \in producing[o] \/ o \in Outputs[t]
        /\ jobState[j] = "ABSENT"
    BY <1>1, <1>inv DEF SubmitJob, bindingVars
  <2>1. \A t \in Tasks : JobOf[t] = j => taskState[t] = "ABSENT" /\ ~Started(t)
    BY <1>inv, <2>0 DEF TaskInv
  <2>2. \A h \in Threads : /\ pc'[h] = (IF h = "http" THEN "schedule" ELSE pc[h])
                           /\ arg'[h] = (IF h = "http" THEN j ELSE arg[h])
    BY <1>1, <1>inv, <1>threads DEF SubmitJob, Goto, TypeOK
  <2>3. ThreadInv'
    BY <1>inv, <1>threads, <2>0, <2>1, <2>2 DEF ThreadInv, Started, EdsTypeOK
  <2>4. TaskInv'
    BY <1>inv, <1>jobof, <2>0, <2>1, SMT DEF TaskInv, Started, EdsTypeOK
  <2>5. MessageInv'
    <3>1. \A t \in Tasks : SpawnMsg(t) \in msgs' /\ taskState[t] = "ABSENT" => taskState'[t] = "ABSENT"
      BY <1>inv, <2>0 DEF MessageInv
    <3> QED BY <1>inv, <2>0, <3>1, MessageInvKept, SMTT(30) DEF Started
  <2> QED BY <1>inv, <2>0, <2>3, <2>4, <2>5 DEF PUsRegistered
<1>2. ASSUME NEW j \in Jobs, KillRunningJob(j)
      PROVE  ThreadInv' /\ TaskInv' /\ MessageInv' /\ PUsRegistered'
  <2>0. /\ scheduledTo' = scheduledTo /\ taskBinding' = taskBinding /\ runnable' = runnable
        /\ proc' = proc /\ msgs' = msgs /\ lock' = lock /\ resState' = resState
        /\ producing' = producing /\ pc' = pc /\ arg' = arg
        /\ jobState' = [jobState EXCEPT ![j] = "ABORTED"] /\ jobState[j] # "ABSENT"
        /\ \A t \in Tasks : taskState'[t] = taskState[t]
             \/ (taskState[t] \in {"RUNNABLE", "BLOCKING"} /\ taskState'[t] = "ABORTED")
    BY <1>2 DEF KillRunningJob, bindingVars
  <2>1. \A k \in Jobs : jobState[k] # "ABSENT" <=> jobState'[k] # "ABSENT"
    BY <1>inv, <2>0 DEF EdsTypeOK
  <2>2. \A t \in Tasks : taskState'[t] = "ABSENT" <=> taskState[t] = "ABSENT"
    BY <2>0
  <2>3. ThreadInv'
    BY <1>inv, <2>0, <2>1, ThreadInvUnchanged
  <2>4. TaskInv'
    BY <1>inv, <1>jobof, <2>0, <2>1, <2>2 DEF TaskInv, Started
  <2>5. MessageInv'
    BY <1>inv, <2>0, <2>2, MessageInvKept DEF Started
  <2> QED BY <1>inv, <2>0, <2>3, <2>4, <2>5 DEF PUsRegistered
<1>3. ASSUME NEW t \in Tasks, NEW s \in EndStates, HandleTaskStateChange(t, s)
      PROVE  ThreadInv' /\ TaskInv' /\ MessageInv' /\ PUsRegistered'
  <2>0. /\ scheduledTo' = scheduledTo /\ taskBinding' = taskBinding /\ runnable' = runnable
        /\ proc' = proc /\ lock' = lock /\ resState' = resState
        /\ producing' = producing /\ jobState' = jobState
        /\ StateMsg(t, s) \in msgs /\ msgs' \subseteq msgs /\ pc["io"] = "idle"
    BY <1>3 DEF HandleTaskStateChange, Arrives, bindingVars
  <2>1. \/ UNCHANGED <<taskState, pc, arg>>
        \/ /\ taskState' = [taskState EXCEPT ![t] = s]
           /\ \/ Goto("io", "completion", t)
              \/ Goto("io", "failure", t)
    BY <1>3 DEF HandleTaskStateChange
  <2>2. Started(t) /\ taskState[t] # "ABSENT"
    BY <1>inv, <2>0 DEF MessageInv, TaskInv
  <2>3. \A u \in Tasks : taskState'[u] = taskState[u] \/ (u = t /\ taskState'[u] # "ABSENT")
    BY <1>inv, <2>1 DEF EdsTypeOK, EndStates
  <2>4. ThreadInv'
    <3>1. CASE UNCHANGED <<pc, arg>>
      BY <1>inv, <2>0, <3>1, ThreadInvUnchanged
    <3>2. ASSUME NEW x \in {"completion", "failure"}, Goto("io", x, t) PROVE ThreadInv'
      <4>1. pc'["health"] = pc["health"]
        BY <1>inv, <1>threads, <3>2 DEF Goto, TypeOK
      <4>2. lock' = "health" <=> pc'["health"] = "failure"
        BY <1>inv, <2>0, <4>1 DEF ThreadInv
      <4> QED BY <1>inv, <1>threads, <1>steps, <2>0, <2>2, <3>2, <4>2, ThreadInvGoto DEF Started
    <3> QED BY <2>1, <3>1, <3>2
  <2>5. TaskInv'
    BY <1>inv, <1>next, <2>0, <2>2, <2>3, TaskInvKept, SMTT(30) DEF EdsTypeOK
  <2>6. MessageInv'
    BY <1>inv, <2>0, <2>2, <2>3, MessageInvKept, SMTT(30) DEF Started
  <2> QED BY <1>inv, <2>0, <2>4, <2>5, <2>6 DEF PUsRegistered
<1>4. ASSUME NEW c \in Tasks, HandleTaskSpawn(c)
      PROVE  ThreadInv' /\ TaskInv' /\ MessageInv' /\ PUsRegistered'
  <2>0. /\ scheduledTo' = scheduledTo /\ taskBinding' = taskBinding /\ runnable' = runnable
        /\ proc' = proc /\ lock' = lock /\ resState' = resState /\ jobState' = jobState
        /\ SpawnMsg(c) \in msgs /\ msgs' = msgs \ {SpawnMsg(c)}
        /\ taskState' = [taskState EXCEPT ![c] = "CREATED"]
        /\ Goto("io", "schedule", JobOf[c])
        /\ \A o \in Objects : \A t \in producing'[o] :
             t \in producing[o] \/ (t = c /\ o \in Outputs[c])
    BY <1>4, <1>inv, SMTT(30) DEF HandleTaskSpawn, Arrives, bindingVars
  <2>1. /\ c \notin Submitted /\ taskState[c] = "ABSENT"
        /\ Parent[c] \in Tasks /\ Started(Parent[c]) /\ JobOf[Parent[c]] = JobOf[c]
    BY <1>inv, <2>0, CoordinatorAssumption, TaskTreeAssumption, SMT DEF MessageInv
  <2>2. jobState[JobOf[c]] # "ABSENT"
    BY <1>inv, <2>1 DEF TaskInv
  <2>3. ThreadInv'
    <3>1. pc'["health"] = pc["health"]
      BY <1>inv, <1>threads, <2>0 DEF Goto, TypeOK
    <3>2. lock' = "health" <=> pc'["health"] = "failure"
      BY <1>inv, <2>0, <3>1 DEF ThreadInv
    <3> QED BY <1>inv, <1>threads, <1>steps, <2>0, <2>1, <3>2, ThreadInvGoto DEF Started
  <2>4. TaskInv'
    BY <1>inv, <2>0, <2>1, <2>2, SMT DEF TaskInv, Started, EdsTypeOK
  <2>5. MessageInv'
    <3>1. \A t \in Tasks : SpawnMsg(t) \in msgs' => t # c
      BY <2>0
    <3> QED BY <1>inv, <2>0, <3>1, MessageInvKept DEF Started, EdsTypeOK
  <2> QED BY <1>inv, <2>0, <2>3, <2>4, <2>5 DEF PUsRegistered
<1>5. ASSUME NEW t \in Tasks, NEW ok \in BOOLEAN, HandleTaskDelegationResponse(t, ok)
      PROVE  ThreadInv' /\ TaskInv' /\ MessageInv' /\ PUsRegistered'
  <2>0. DelegationMsg(t, ok) \in msgs /\ msgs' \subseteq msgs /\ proc' = proc
    BY <1>5 DEF HandleTaskDelegationResponse, Arrives
  <2>1. Started(t) /\ taskState[t] # "ABSENT"
    BY <1>inv, <2>0 DEF MessageInv, TaskInv
  <2>2. CASE ok
    <3>1. /\ taskState' = [taskState EXCEPT ![t] = "DELEGATED"]
          /\ Goto("io", "delegated", t)
          /\ UNCHANGED <<jobState, producing, runnable, bindingVars, failedCheck, lock>>
      BY <1>5, <2>2 DEF HandleTaskDelegationResponse
    <3>2. /\ scheduledTo' = scheduledTo /\ taskBinding' = taskBinding /\ resState' = resState
          /\ runnable' = runnable /\ lock' = lock /\ producing' = producing /\ jobState' = jobState
      BY <3>1 DEF bindingVars
    <3>3. \A u \in Tasks : taskState'[u] = taskState[u] \/ (u = t /\ taskState'[u] # "ABSENT")
      BY <1>inv, <3>1 DEF EdsTypeOK
    <3>4. lock' = "health" <=> pc'["health"] = "failure"
      BY <1>inv, <1>threads, <3>1, <3>2, SMTT(30) DEF ThreadInv, Goto, TypeOK
    <3>5. ThreadInv'
      BY <1>inv, <1>threads, <1>steps, <2>1, <3>1, <3>2, <3>4, ThreadInvGoto DEF Started
    <3>6. TaskInv'
      BY <1>inv, <1>next, <2>0, <2>1, <3>2, <3>3, TaskInvKept DEF EdsTypeOK
    <3>7. MessageInv'
      BY <1>inv, <2>0, <2>1, <3>2, <3>3, MessageInvKept, SMTT(30) DEF Started
    <3> QED BY <1>inv, <3>2, <3>5, <3>6, <3>7 DEF PUsRegistered
  <2>3. CASE ~ok
    <3>1. /\ HandleTaskDelegationFailure(t) /\ MayLock("io")
          /\ Goto("io", "schedule", JobOf[t]) /\ lock' = "io"
      BY <1>5, <2>3 DEF HandleTaskDelegationResponse
    <3>2. \/ Fail("HandleTaskDelegationFailure_binding")
          \/ /\ Unbound(t) /\ taskState' = [taskState EXCEPT ![t] = "RUNNABLE"]
             /\ runnable' = [runnable EXCEPT ![JobOf[t]] = @ \cup {t}]
             /\ resState' \in {resState, [resState EXCEPT ![taskBinding[t]] = "IDLE"]}
      BY <1>inv, <3>1, DelegationFailureEffect
    <3>3. /\ UNCHANGED <<jobState, producing, scheduledTo>>
          /\ \A u \in Tasks : taskState'[u] = taskState[u] \/ (u = t /\ taskState'[u] # "ABSENT")
          /\ \A u \in Tasks : taskBinding'[u] \in {taskBinding[u], None}
          /\ \A j \in Jobs : \A u \in runnable'[j] : u \in runnable[j] \/ (u = t /\ j = JobOf[t])
          /\ \A r \in Resources : resState'[r] \in {resState[r], "IDLE"}
      <4>1. CASE Fail("HandleTaskDelegationFailure_binding")
        BY <4>1 DEF Fail, bindingVars
      <4>2. CASE ~Fail("HandleTaskDelegationFailure_binding")
        BY <1>inv, <3>2, <4>2, SMT DEF Unbound, EdsTypeOK
      <4> QED BY <4>1, <4>2
    <3>4. lock # "health" /\ pc'["health"] = pc["health"]
      BY <1>inv, <1>threads, <3>1, CoordinatorAssumption, SMTT(30) DEF MayLock, Goto, TypeOK
    <3>5. ThreadInv'
      <4>1. lock' = "health" <=> pc'["health"] = "failure"
        BY <1>inv, <3>1, <3>4 DEF ThreadInv
      <4> QED BY <1>inv, <1>threads, <1>steps, <2>1, <3>1, <3>3, <4>1, ThreadInvGoto DEF Started
    <3>6. TaskInv'
      BY <1>inv, <1>next, <2>0, <2>1, <3>3, TaskInvKept DEF EdsTypeOK
    <3>7. MessageInv'
      BY <1>inv, <2>0, <2>1, <3>3, MessageInvKept DEF Started
    <3> QED BY <1>inv, <3>3, <3>5, <3>6, <3>7 DEF PUsRegistered
  <2> QED BY <2>2, <2>3
<1>6. ASSUME TaskCompletion
      PROVE  ThreadInv' /\ TaskInv' /\ MessageInv' /\ PUsRegistered'
  <2> DEFINE t == arg["io"]
  <2>0. t \in Tasks /\ Started(t) /\ SimpleHandleTaskCompletion(t) /\ Goto("io", "jobdone", t)
          /\ lock' = lock /\ msgs' = msgs
          /\ proc' = IF taskBinding[t] # None THEN [proc EXCEPT ![t] = "none"] ELSE proc
    BY <1>6, <1>inv, <1>threads DEF TaskCompletion, ArgOK, ThreadInv
  <2> HIDE DEF t
  <2>1. /\ Unbound(t) /\ runnable' = runnable
        /\ taskState' = [taskState EXCEPT ![t] = "COMPLETED"]
        /\ resState' = IF taskBinding[t] = None THEN resState
                       ELSE [resState EXCEPT ![taskBinding[t]] = "IDLE"]
    BY <1>inv, <2>0, CompletionEffect
  <2>2. /\ UNCHANGED <<jobState, producing, scheduledTo>>
        /\ \A u \in Tasks : taskState'[u] = taskState[u] \/ (u = t /\ taskState'[u] # "ABSENT")
        /\ \A u \in Tasks : taskBinding'[u] \in {taskBinding[u], None}
        /\ \A u \in Tasks : proc'[u] \in {proc[u], "none"}
        /\ \A r \in Resources : resState'[r] \in {resState[r], "IDLE"}
    BY <1>inv, <2>0, <2>1 DEF Unbound, EdsTypeOK, TypeOK
  <2>3. lock' = "health" <=> pc'["health"] = "failure"
    BY <1>inv, <1>threads, <2>0, SMTT(30) DEF ThreadInv, Goto, TypeOK
  <2>4. ThreadInv'
    BY <1>inv, <1>threads, <1>steps, <2>0, <2>2, <2>3, ThreadInvGoto DEF Started
  <2>5. TaskInv'
    BY <1>inv, <1>next, <2>0, <2>1, <2>2, TaskInvKept DEF EdsTypeOK
  <2>6. taskState[t] # "ABSENT"
    BY <1>inv, <2>0 DEF TaskInv
  <2>7. MessageInv'
    BY <1>inv, <2>0, <2>2, <2>6, MessageInvKept DEF Started
  <2> QED BY <1>inv, <2>2, <2>4, <2>5, <2>7 DEF PUsRegistered
<1>7. ASSUME NEW x \in {"idle", "schedule"}, NEW a, Goto("io", x, a), MayLock("io"),
             x = "schedule" => \E t \in Tasks : JobOf[t] = a /\ Started(t),
             \A k \in Jobs : jobState'[k] = jobState[k] \/ jobState'[k] = "COMPLETED",
             \A k \in Jobs : jobState[k] = "ABSENT" => jobState'[k] = "ABSENT",
             \A k \in Jobs : runnable'[k] \subseteq runnable[k],
             UNCHANGED <<taskState, producing, bindingVars, lock, proc, msgs>>
      PROVE  ThreadInv' /\ TaskInv' /\ MessageInv' /\ PUsRegistered'
  <2>0. /\ taskState' = taskState /\ producing' = producing /\ taskBinding' = taskBinding
        /\ resState' = resState /\ scheduledTo' = scheduledTo /\ lock' = lock
        /\ proc' = proc /\ msgs' = msgs
    BY <1>7 DEF bindingVars
  <2>1. lock' = "health" <=> pc'["health"] = "failure"
    BY <1>inv, <1>threads, <1>7, <2>0 DEF ThreadInv, Goto, TypeOK
  <2>2. \A k \in Jobs : jobState[k] # "ABSENT" <=> jobState'[k] # "ABSENT"
    BY <1>7
  <2>3. ThreadInv'
    BY <1>inv, <1>threads, <1>steps, <1>7, <2>0, <2>1, <2>2, ThreadInvGoto, SMTT(30) DEF Started
  <2>4. TaskInv'
    BY <1>inv, <1>jobof, <1>7, <2>0, <2>2, SMTT(30) DEF TaskInv, Started
  <2>5. MessageInv'
    BY <1>inv, <2>0, MessageInvKept DEF Started
  <2> QED BY <1>inv, <2>0, <2>3, <2>4, <2>5 DEF PUsRegistered
<1>8. ASSUME TaskDelegationSuccess
      PROVE  ThreadInv' /\ TaskInv' /\ MessageInv' /\ PUsRegistered'
  <2>1. /\ Goto("io", "idle", None) /\ MayLock("io")
        /\ runnable' = [runnable EXCEPT ![JobOf[arg["io"]]] = @ \ {arg["io"]}]
        /\ jobState' = jobState
        /\ UNCHANGED <<taskState, producing, bindingVars, lock, proc, msgs>>
    BY <1>8 DEF TaskDelegationSuccess, HandleTaskDelegationSuccess
  <2>2. \A k \in Jobs : runnable'[k] \subseteq runnable[k]
    BY <1>inv, <2>1 DEF EdsTypeOK
  <2> QED BY <1>7, <2>1, <2>2
<1>9. ASSUME JobCompletion
      PROVE  ThreadInv' /\ TaskInv' /\ MessageInv' /\ PUsRegistered'
  <2> DEFINE t == arg["io"]
  <2>1. t \in Tasks /\ Started(t) /\ MayLock("io") /\ Goto("io", "schedule", JobOf[t])
    BY <1>9, <1>inv, <1>threads DEF JobCompletion, ArgOK, ThreadInv
  <2>2. /\ \/ UNCHANGED <<jobState, runnable>>
           \/ /\ jobState' = [jobState EXCEPT ![JobOf[t]] = "COMPLETED"]
              /\ runnable' = [runnable EXCEPT ![JobOf[t]] = {}]
        /\ UNCHANGED <<taskState, producing, bindingVars, lock, proc, msgs>>
    BY <1>9 DEF JobCompletion, HandleJobCompletion, edsVars, bindingVars
  <2> HIDE DEF t
  <2>3. jobState[JobOf[t]] # "ABSENT"
    BY <1>inv, <2>1 DEF TaskInv
  <2>4. /\ \A k \in Jobs : jobState'[k] = jobState[k] \/ jobState'[k] = "COMPLETED"
        /\ \A k \in Jobs : jobState[k] = "ABSENT" => jobState'[k] = "ABSENT"
        /\ \A k \in Jobs : runnable'[k] \subseteq runnable[k]
    BY <1>inv, <2>2, <2>3 DEF EdsTypeOK
  <2> QED BY <1>7, <2>1, <2>2, <2>4
<1>10. ASSUME NEW h \in {"io", "health"}, TaskFailure(h)
       PROVE  ThreadInv' /\ TaskInv' /\ MessageInv' /\ PUsRegistered'
  <2> DEFINE t == arg[h]
  <2>0. /\ h \in Threads /\ t \in Tasks /\ Started(t) /\ SimpleHandleTaskFailure(t) /\ MayLock(h)
        /\ (IF h = "io" THEN Goto(h, "schedule", JobOf[t]) ELSE Goto(h, "idle", None))
        /\ lock' = None /\ msgs' = msgs /\ proc' = [proc EXCEPT ![t] = "none"]
    BY <1>10, <1>inv, <1>threads DEF TaskFailure, ArgOK, ThreadInv
  <2> HIDE DEF t
  <2>1. \/ Fail("HandleTaskFailure_binding")
        \/ /\ Unbound(t) /\ runnable' = runnable
           /\ taskState' = [taskState EXCEPT ![t] = "FAILED"]
           /\ resState' = [resState EXCEPT ![taskBinding[t]] = "IDLE"]
    BY <1>inv, <2>0, FailureEffect, SMTT(30)
  <2>2. /\ UNCHANGED <<jobState, producing, scheduledTo>> /\ runnable' = runnable
        /\ \A u \in Tasks : taskState'[u] = taskState[u] \/ (u = t /\ taskState'[u] # "ABSENT")
        /\ \A u \in Tasks : taskBinding'[u] \in {taskBinding[u], None}
        /\ \A u \in Tasks : proc'[u] \in {proc[u], "none"}
        /\ \A r \in Resources : resState'[r] \in {resState[r], "IDLE"}
    <3>1. \A u \in Tasks : proc'[u] \in {proc[u], "none"}
      BY <1>inv, <2>0 DEF TypeOK
    <3>2. CASE Fail("HandleTaskFailure_binding")
      BY <3>1, <3>2 DEF Fail, bindingVars
    <3>3. CASE ~Fail("HandleTaskFailure_binding")
      BY <1>inv, <2>1, <3>1, <3>3, SMTT(30) DEF Unbound, EdsTypeOK
    <3> QED BY <3>2, <3>3
  <2>3. lock' = "health" <=> pc'["health"] = "failure"
    <3>1. lock' # "health"
      BY <2>0, CoordinatorAssumption
    <3>2. CASE h = "io"
      BY <1>inv, <1>threads, <2>0, <3>1, <3>2, CoordinatorAssumption
        DEF MayLock, ThreadInv, Goto, TypeOK
    <3>3. CASE h = "health"
      BY <1>inv, <1>threads, <2>0, <3>1, <3>3 DEF Goto, TypeOK
    <3> QED BY <3>2, <3>3
  <2>4. ThreadInv'
    <3>1. CASE h = "io"
      BY <1>inv, <1>threads, <1>steps, <2>0, <2>2, <2>3, <3>1, ThreadInvGoto DEF Started
    <3>2. CASE h = "health"
      BY <1>inv, <1>threads, <1>steps, <2>0, <2>2, <2>3, <3>2, ThreadInvGoto DEF Started
    <3> QED BY <3>1, <3>2
  <2>5. TaskInv'
    BY <1>inv, <1>next, <2>0, <2>2, TaskInvKept DEF EdsTypeOK
  <2>6. taskState[t] # "ABSENT"
    BY <1>inv, <2>0 DEF TaskInv
  <2>7. MessageInv'
    BY <1>inv, <2>0, <2>2, <2>6, MessageInvKept DEF Started
  <2> QED BY <1>inv, <2>2, <2>4, <2>5, <2>7 DEF PUsRegistered
<1>11. ASSUME NEW t \in Tasks, CheckRunningTasksHealth(t)
       PROVE  ThreadInv' /\ TaskInv' /\ MessageInv' /\ PUsRegistered'
  <2>0. /\ proc[t] = "exited" /\ Goto("health", "failure", t) /\ lock' = "health"
        /\ UNCHANGED <<taskState, jobState, producing, runnable, taskBinding, resState, scheduledTo>>
        /\ proc' = proc /\ msgs' = msgs
    BY <1>11, SMTT(30) DEF CheckRunningTasksHealth, edsVars
  <2>1. Started(t)
    BY <1>inv, <2>0 DEF TaskInv
  <2>2. lock' = "health" <=> pc'["health"] = "failure"
    BY <1>inv, <1>threads, <2>0 DEF Goto, TypeOK
  <2>3. ThreadInv'
    BY <1>inv, <1>threads, <1>steps, <2>0, <2>1, <2>2, ThreadInvGoto, SMTT(30) DEF Started
  <2>4. TaskInv'
    BY <1>inv, <2>0 DEF TaskInv, Started
  <2>5. MessageInv'
    BY <1>inv, <2>0, MessageInvKept DEF Started
  <2> QED BY <1>inv, <2>0, <2>3, <2>4, <2>5 DEF PUsRegistered
<1>12. ASSUME NEW h \in {"io", "http"}, RunScheduler(h)
       PROVE  ThreadInv' /\ TaskInv' /\ MessageInv' /\ PUsRegistered'
  <2>0. /\ h \in Threads /\ pc[h] = "schedule" /\ MayLock(h) /\ arg[h] \in Jobs
        /\ ScheduleJob(arg[h]) /\ Goto(h, "idle", None)
        /\ lock' = None /\ msgs' = msgs
        /\ \A t \in Tasks : taskBinding'[t] = taskBinding[t] => proc'[t] = proc[t]
    <3>1. h \in Threads
      BY <1>threads
    <3>2. \A t \in Tasks : taskBinding'[t] = taskBinding[t] => proc'[t] = proc[t]
      <4>1. proc' = [t \in Tasks |->
                       CASE taskBinding'[t] \in {None, taskBinding[t]}           -> proc[t]
                         [] taskBinding'[t] \in Remote \ {None, taskBinding[t]}  -> "requested"
                         [] OTHER                                                -> "alive"]
        BY <1>12 DEF RunScheduler
      <4> QED BY <4>1
    <3> QED BY <1>12, <1>inv, <3>1, <3>2 DEF RunScheduler, ArgOK
  <2>1. lock # "health" /\ lock' # "health" /\ pc'["health"] = pc["health"]
    BY <1>inv, <1>threads, <2>0, CoordinatorAssumption DEF MayLock, Goto, TypeOK
  <2>2. lock' = "health" <=> pc'["health"] = "failure"
    BY <1>inv, <2>1 DEF ThreadInv
  <2>3. ASSUME NEW check, Fail(check)
        PROVE  ThreadInv' /\ TaskInv' /\ MessageInv' /\ PUsRegistered'
    <3>1. UNCHANGED <<taskState, jobState, producing, runnable, taskBinding, resState, scheduledTo>>
      BY <2>3 DEF Fail, bindingVars
    <3>2. ThreadInv'
      BY <1>inv, <1>steps, <2>0, <2>2, <3>1, ThreadInvGoto, SMTT(30) DEF Started
    <3>3. TaskInv'
      BY <1>inv, <2>0, <3>1 DEF TaskInv, Started
    <3>4. MessageInv'
      BY <1>inv, <2>0, <3>1, MessageInvKept DEF Started
    <3> QED BY <1>inv, <3>1, <3>2, <3>3, <3>4 DEF PUsRegistered
  <2>4. ASSUME NEW D \in SUBSET Tasks, NEW R \in SUBSET Tasks, NEW K \in SUBSET Tasks,
               Schedules(arg[h], D, R, K)
        PROVE  ThreadInv' /\ TaskInv' /\ MessageInv' /\ PUsRegistered'
    <3>1. \A u \in Tasks \ D : proc'[u] = proc[u]
      BY <2>0, <2>4 DEF Schedules
    <3>2. TaskInv' /\ \A t \in D : JobOf[t] = arg[h] /\ taskState[t] # "ABSENT" /\ Started(t)'
      BY <1>inv, <2>0, <2>4, <3>1, TaskInvScheduled
    <3>3. \A t \in Tasks : Started(t) => Started(t)'
      BY <2>4, <3>2 DEF Schedules, Started
    <3>4. \A t \in Tasks \ D : Started(t)' = Started(t)
      BY <2>4 DEF Schedules, Started
    <3>5. MessageInv'
      <4>1. \A t \in Tasks : taskState[t] = "ABSENT" => taskState'[t] = "ABSENT"
        BY <2>4, <3>2 DEF Schedules
      <4> QED BY <1>inv, <2>0, <3>3, <4>1, MessageInvKept
    <3>6. PUsRegistered'
      BY <1>inv, <2>4, SMT DEF Schedules, PUsRegistered
    <3>7. \A g \in Threads : pc'[g] = (IF g = h THEN "idle" ELSE pc[g]) /\ (g # h => arg'[g] = arg[g])
      BY <1>inv, <2>0 DEF Goto, TypeOK
    <3>8. \A k \in Jobs : jobState[k] # "ABSENT" => jobState'[k] # "ABSENT"
      BY <1>inv, <2>4 DEF Schedules, EdsTypeOK
    <3>9. ThreadInv'
      <4>1. pc'["http"] \in {"idle", "schedule"} /\ pc'["health"] \in {"idle", "failure"}
        BY <1>inv, <1>threads, <3>7 DEF ThreadInv
      <4>2. ASSUME NEW g \in Threads, pc'[g] \in {"completion", "failure", "jobdone", "delegated"}
            PROVE  Started(arg[g])'
        <5>1. g # h /\ arg'[g] = arg[g] /\ arg[g] \in Tasks /\ Started(arg[g])
          BY <1>inv, <3>7, <4>2 DEF ThreadInv, ArgOK
        <5> QED BY <3>3, <5>1 DEF Started
      <4>3. ASSUME pc'["io"] = "schedule"
            PROVE  \E t \in Tasks : JobOf[t] = arg'["io"] /\ Started(t)'
        <5>1. "io" # h /\ arg'["io"] = arg["io"] /\ pc["io"] = "schedule"
          BY <1>threads, <3>7, <4>3
        <5> QED BY <1>inv, <3>3, <5>1 DEF ThreadInv
      <4>4. ASSUME pc'["http"] = "schedule"
            PROVE  /\ jobState'[arg'["http"]] # "ABSENT"
                   /\ \A t \in Tasks : JobOf[t] = arg'["http"] => ~Started(t)'
        <5>1. h = "io" /\ arg'["http"] = arg["http"] /\ pc["http"] = "schedule"
          BY <1>threads, <3>7, <4>4
        <5>2. arg["http"] \in Jobs /\ arg["http"] # arg["io"]
          BY <1>inv, <1>threads, <2>0, <5>1 DEF ThreadInv, ArgOK
        <5> QED BY <1>inv, <3>2, <3>4, <3>8, <5>1, <5>2 DEF ThreadInv
      <4> QED BY <2>2, <4>1, <4>2, <4>3, <4>4 DEF ThreadInv
    <3> QED BY <3>2, <3>5, <3>6, <3>9
  <2>5. ProducersWrite
    BY <1>inv DEF ProducersWrite, TaskInv, EdsTypeOK
  <2>6. Alive
    BY <2>0 DEF MayLock
  <2>7. \/ \E check : Fail(check)
        \/ \E D, R, K \in SUBSET Tasks : Schedules(arg[h], D, R, K)
    BY <1>inv, <2>0, <2>5, <2>6, ScheduleJobEffect
  <2> QED BY <2>3, <2>4, <2>7
<1>13. ASSUME NEW m, UNCHANGED <<edsVars, pc, arg, lock>>, msgs' \in {msgs, msgs \cup {m}},
              \A t \in Tasks : proc'[t] = "none" \/ proc[t] # "none",
              m \in msgs' \ msgs =>
                \/ \E t \in Tasks : m = SpawnMsg(t) /\ t \notin Submitted
                                      /\ taskState[t] = "ABSENT" /\ Started(Parent[t])
                \/ \E t \in Tasks : Started(t) /\ \/ \E s \in EndStates : m = StateMsg(t, s)
                                                  \/ \E ok \in BOOLEAN : m = DelegationMsg(t, ok)
       PROVE  ThreadInv' /\ TaskInv' /\ MessageInv' /\ PUsRegistered'
  <2>0. UNCHANGED <<taskState, jobState, producing, runnable, taskBinding, resState, scheduledTo>>
    BY <1>13 DEF edsVars
  <2>1. ThreadInv'
    BY <1>13, <1>inv, <2>0, ThreadInvUnchanged
  <2>2. TaskInv'
    BY <1>13, <1>inv, <2>0, SMTT(30) DEF TaskInv, Started
  <2>3. MessageInv'
    <3>0. \A x \in msgs' \ msgs : x = m /\ m \in msgs' \ msgs
      BY <1>13
    <3>1. ASSUME NEW t \in Tasks, SpawnMsg(t) \in msgs' \ msgs
          PROVE  t \notin Submitted /\ taskState[t] = "ABSENT" /\ Started(Parent[t])
      <4>1. SpawnMsg(t) = m /\ m \in msgs' \ msgs
        BY <3>0, <3>1
      <4>2. \A u, v : /\ m = SpawnMsg(u) => t = u
                      /\ m # StateMsg(u, v) /\ m # DelegationMsg(u, v)
        BY <4>1, MessagesDiffer
      <4> QED BY <1>13, <4>1, <4>2
    <3>2. ASSUME NEW t \in Tasks, NEW s \in EndStates, StateMsg(t, s) \in msgs' \ msgs
          PROVE  Started(t)
      <4>1. StateMsg(t, s) = m /\ m \in msgs' \ msgs
        BY <3>0, <3>2
      <4>2. \A u, v : /\ m = StateMsg(u, v) => t = u
                      /\ m # SpawnMsg(u) /\ m # DelegationMsg(u, v)
        BY <4>1, MessagesDiffer, SMT
      <4> QED BY <1>13, <4>1, <4>2
    <3>3. ASSUME NEW t \in Tasks, NEW ok \in BOOLEAN, DelegationMsg(t, ok) \in msgs' \ msgs
          PROVE  Started(t)
      <4>1. DelegationMsg(t, ok) = m /\ m \in msgs' \ msgs
        BY <3>0, <3>3
      <4>2. \A u, v : /\ m = DelegationMsg(u, v) => t = u
                      /\ m # SpawnMsg(u) /\ m # StateMsg(u, v)
        BY <4>1, MessagesDiffer, SMT
      <4> QED BY <1>13, <4>1, <4>2
    <3> QED BY <1>inv, <2>0, <3>1, <3>2, <3>3 DEF MessageInv, Started, SpawnMsg, StateMsg, DelegationMsg
  <2> QED BY <1>inv, <2>0, <2>1, <2>2, <2>3, SMTT(30) DEF PUsRegistered
<1>14. ASSUME NEW t \in Tasks, TaskSpawns(t)
       PROVE  ThreadInv' /\ TaskInv' /\ MessageInv' /\ PUsRegistered'
  <2>1. t \notin Submitted /\ taskState[t] = "ABSENT" /\ proc[Parent[t]] = "alive"
    BY <1>14 DEF TaskSpawns
  <2>2. Parent[t] \in Tasks
    BY <2>1, CoordinatorAssumption, TaskTreeAssumption
  <2>3. Started(Parent[t])
    BY <1>inv, <2>1, <2>2 DEF TaskInv
  <2>4. UNCHANGED <<edsVars, pc, arg, lock>> /\ proc' = proc /\ msgs' = msgs \cup {SpawnMsg(t)}
    BY <1>14 DEF TaskSpawns, Send
  <2> QED BY <1>13, <2>1, <2>3, <2>4
<1>15. ASSUME NEW t \in Tasks, ProcessEnds(t) \/ TaskCrashes(t)
       PROVE  ThreadInv' /\ TaskInv' /\ MessageInv' /\ PUsRegistered'
  <2>1. PICK m : /\ UNCHANGED <<edsVars, pc, arg, lock>> /\ msgs' \in {msgs, msgs \cup {m}}
                 /\ proc[t] # "none" /\ \E x : proc' = [proc EXCEPT ![t] = x]
                 /\ m \in msgs' \ msgs => \/ \E s \in EndStates : m = StateMsg(t, s)
                                          \/ \E ok \in BOOLEAN : m = DelegationMsg(t, ok)
    <3>1. ASSUME NEW s \in EndStates, TaskEnds(t, s) \/ RemoteTaskEnds(t, s)
          PROVE  /\ UNCHANGED <<edsVars, pc, arg, lock>> /\ msgs' = msgs \cup {StateMsg(t, s)}
                 /\ proc[t] # "none" /\ \E x : proc' = [proc EXCEPT ![t] = x]
      BY <3>1 DEF TaskEnds, RemoteTaskEnds, Send
    <3>2. ASSUME NEW ok \in BOOLEAN, RemoteAnswers(t, ok)
          PROVE  /\ UNCHANGED <<edsVars, pc, arg, lock>> /\ msgs' = msgs \cup {DelegationMsg(t, ok)}
                 /\ proc[t] # "none" /\ \E x : proc' = [proc EXCEPT ![t] = x]
      BY <3>2 DEF RemoteAnswers, Send
    <3>3. ASSUME TaskCrashes(t)
          PROVE  /\ UNCHANGED <<edsVars, pc, arg, lock>> /\ msgs' = msgs
                 /\ proc[t] # "none" /\ \E x : proc' = [proc EXCEPT ![t] = x]
      BY <3>3 DEF TaskCrashes
    <3>4. "COMPLETED" \in EndStates /\ "ABORTED" \in EndStates
      BY DEF EndStates
    <3> QED BY <1>15, <3>1, <3>2, <3>3, <3>4 DEF ProcessEnds
  <2>2. Started(t)
    BY <1>inv, <2>1 DEF TaskInv
  <2>3. \A u \in Tasks : proc'[u] = "none" \/ proc[u] # "none"
    BY <1>inv, <2>1 DEF TypeOK
  <2> QED BY <1>13, <2>1, <2>2, <2>3
<1>16. ASSUME UNCHANGED vars
       PROVE  ThreadInv' /\ TaskInv' /\ MessageInv' /\ PUsRegistered'
  <2>1. UNCHANGED <<edsVars, pc, arg, lock>> /\ proc' = proc /\ msgs' = msgs
    BY <1>16 DEF vars
  <2> QED BY <1>13, <2>1
<1>17. CASE IoThread
  BY <1>3, <1>4, <1>5, <1>6, <1>8, <1>9, <1>10, <1>12, <1>17 DEF IoThread
<1>18. CASE HealthThread
  BY <1>10, <1>11, <1>18 DEF HealthThread
<1> QED BY <1>1, <1>2, <1>12, <1>14, <1>15, <1>16, <1>17, <1>18 DEF Next

-----------------------------------------------------------------------------

(* Task states, bindings and runnable sets agree, and so do processes and bindings. *)

(* The I/O thread has set a delegated task's state and not yet taken it out *)
(* of the runnable set.                                                    *)
DelegatedNotRunnable == pc["io"] = "delegated" => taskState[arg["io"]] # "RUNNABLE"

(* With NoSharedObjects: descriptors, bindings and runnable sets agree.     *)
StateInv ==
  /\ HistoryInv
  /\ BindingMatchesState
  /\ RunnableTaskIsQueued
  /\ DelegatedNotRunnable

(* The end of t has been reported and its completion is not handled yet. *)
Reported(t) ==
  \/ \E s \in EndStates : StateMsg(t, s) \in msgs
  \/ pc["io"] \in {"completion", "failure"} /\ arg["io"] = t

(* A task that has a process or whose refusal is on its way is bound.       *)
ProcessInv ==
  /\ \A t \in Tasks : /\ proc[t] # "none" => taskBinding[t] # None
                      /\ Refused(t) => taskBinding[t] # None /\ proc[t] = "none"
  /\ pc["health"] = "failure" => proc[arg["health"]] = "exited"

-----------------------------------------------------------------------------
(* Task states, bindings and runnable sets. *)

(* A task that a thread handles stays so while that thread does not move. *)
LEMMA HandledByOthers ==
  ASSUME TypeOK, NEW h \in Threads, NEW s, NEW a, Goto(h, s, a), NEW t,
         pc[h] \notin {"completion", "failure"} \/ arg[h] # t, BeingHandled(t)
  PROVE  BeingHandled(t)'
BY DEF BeingHandled, Goto, TypeOK

(* A step that changes the state of one task, t, to x, and leaves the others *)
(* alone.  If t stays bound, the thread that changed its state handles it.   *)
LEMMA StateChangeKeeps ==
  ASSUME EdsTypeOK, EdsTypeOK', BindingMatchesState, RunnableTaskIsQueued,
         NEW t \in Tasks, NEW x \in TaskStates, taskState' = [taskState EXCEPT ![t] = x],
         \A u \in Tasks \ {t} : taskBinding'[u] = taskBinding[u],
         \A u \in Tasks \ {t} : BeingHandled(u) => BeingHandled(u)',
         taskBinding'[t] \in {None, taskBinding[t]},
         x # "RUNNING",
         taskBinding'[t] # None => x = "DELEGATED" \/ BeingHandled(t)',
         \A j \in Jobs, u \in Tasks : u # t => (u \in runnable'[j] <=> u \in runnable[j]),
         \A j \in Jobs : t \in runnable'[j] => JobOf[t] = j /\ taskBinding'[t] = None,
         x = "RUNNABLE" => t \in runnable'[JobOf[t]]
  PROVE  BindingMatchesState' /\ RunnableTaskIsQueued'
<1>1. \A u \in Tasks : JobOf[u] \in Jobs
  BY TaskTreeAssumption
<1>2. \A u \in Tasks : taskState'[u] = IF u = t THEN x ELSE taskState[u]
  BY DEF EdsTypeOK
<1>3. BindingMatchesState'
  <2> SUFFICES ASSUME NEW u \in Tasks
               PROVE  /\ taskState'[u] = "RUNNING" => taskBinding'[u] # None
                      /\ taskBinding'[u] # None =>
                           taskState'[u] \in {"RUNNING", "DELEGATED"} \/ BeingHandled(u)'
    BY DEF BindingMatchesState
  <2> QED BY <1>2 DEF BindingMatchesState
<1>4. RunnableTaskIsQueued'
  BY <1>1, <1>2, SMT DEF RunnableTaskIsQueued
<1> QED BY <1>3, <1>4

(* With all states, bindings and runnable sets as they were. *)
LEMMA StatesUnchanged ==
  ASSUME BindingMatchesState, RunnableTaskIsQueued,
         UNCHANGED <<taskState, taskBinding, runnable>>,
         \A u \in Tasks : BeingHandled(u) => BeingHandled(u)' \/ taskBinding[u] = None
  PROVE  BindingMatchesState' /\ RunnableTaskIsQueued'
<1>1. BindingMatchesState'
  <2> SUFFICES ASSUME NEW u \in Tasks
               PROVE  /\ taskState'[u] = "RUNNING" => taskBinding'[u] # None
                      /\ taskBinding'[u] # None =>
                           taskState'[u] \in {"RUNNING", "DELEGATED"} \/ BeingHandled(u)'
    BY DEF BindingMatchesState
  <2> QED BY DEF BindingMatchesState
<1>2. RunnableTaskIsQueued'
  BY DEF RunnableTaskIsQueued
<1> QED BY <1>1, <1>2

(* Every step keeps StateInv if no objects are shared. *)
LEMMA NextStateInv == NoSharedObjects /\ StateInv /\ [Next]_vars => StateInv'
<1> SUFFICES ASSUME NoSharedObjects, StateInv, [Next]_vars PROVE StateInv'
  OBVIOUS
<1> DEFINE G == BindingMatchesState' /\ RunnableTaskIsQueued' /\ DelegatedNotRunnable'
<1>inv. /\ BindingInv /\ TypeOK /\ EdsTypeOK /\ ArgOK /\ ThreadInv /\ TaskInv /\ MessageInv
        /\ PUsRegistered /\ BindingMatchesState /\ RunnableTaskIsQueued /\ DelegatedNotRunnable
  BY DEF StateInv, HistoryInv, BindingInv, TypeOK
<1>next. HistoryInv' /\ TypeOK' /\ EdsTypeOK' /\ ArgOK'
  BY NextHistoryInv DEF StateInv, HistoryInv, BindingInv, TypeOK
<1>threads. "io" \in Threads /\ "http" \in Threads /\ "health" \in Threads
  BY DEF Threads
<1>jobof. \A t \in Tasks : JobOf[t] \in Jobs
  BY TaskTreeAssumption, SMTT(30)
<1>states. /\ EndStates \subseteq TaskStates /\ "DELEGATED" \in TaskStates
           /\ "RUNNABLE" \in TaskStates /\ "RUNNING" \notin EndStates /\ "RUNNABLE" \notin EndStates
           /\ "COMPLETED" \in EndStates /\ "FAILED" \in EndStates
  BY DEF EndStates, TaskStates
<1> SUFFICES G
  BY <1>next DEF StateInv
<1> HIDE DEF G
<1>1. ASSUME NEW j \in Jobs, SubmitJob(j) PROVE G
  <2>0. /\ taskBinding' = taskBinding /\ runnable' = runnable
        /\ \A t \in Tasks : taskState'[t] = taskState[t]
             \/ (JobOf[t] = j /\ taskState'[t] = "CREATED")
        /\ jobState[j] = "ABSENT"
        /\ pc["http"] = "idle" /\ Goto("http", "schedule", j)
    BY <1>1, <1>inv DEF SubmitJob, bindingVars
  <2>1. \A t \in Tasks : JobOf[t] = j => taskState[t] = "ABSENT" /\ taskBinding[t] = None
    BY <1>inv, <2>0 DEF TaskInv, Started
  <2>2. \A t \in Tasks : BeingHandled(t) => BeingHandled(t)'
    BY <1>inv, <1>threads, <2>0, HandledByOthers
  <2>3. BindingMatchesState'
    <3> SUFFICES ASSUME NEW u \in Tasks
                 PROVE  /\ taskState'[u] = "RUNNING" => taskBinding'[u] # None
                        /\ taskBinding'[u] # None =>
                             taskState'[u] \in {"RUNNING", "DELEGATED"} \/ BeingHandled(u)'
      BY DEF BindingMatchesState
    <3> QED BY <1>inv, <2>0, <2>1, <2>2 DEF BindingMatchesState
  <2>4. RunnableTaskIsQueued'
    BY <1>inv, <2>0 DEF RunnableTaskIsQueued
  <2>5. DelegatedNotRunnable'
    <3>1. pc'["io"] = pc["io"] /\ arg'["io"] = arg["io"]
      BY <1>inv, <1>threads, <2>0 DEF Goto, TypeOK
    <3>2. pc["io"] = "delegated" => arg["io"] \in Tasks
      BY <1>inv, <1>threads DEF ArgOK
    <3> QED BY <1>inv, <2>0, <3>1, <3>2 DEF DelegatedNotRunnable
  <2> QED BY <2>3, <2>4, <2>5 DEF G
<1>2. ASSUME NEW j \in Jobs, KillRunningJob(j) PROVE G
  <2>0. /\ taskBinding' = taskBinding /\ runnable' = runnable /\ pc' = pc /\ arg' = arg
        /\ \A t \in Tasks : taskState'[t] = taskState[t]
             \/ (taskState[t] \in {"RUNNABLE", "BLOCKING"} /\ taskState'[t] = "ABORTED")
    BY <1>2 DEF KillRunningJob, bindingVars
  <2>1. BindingMatchesState'
    BY <1>inv, <2>0 DEF BindingMatchesState, BeingHandled
  <2>2. RunnableTaskIsQueued'
    BY <1>inv, <2>0 DEF RunnableTaskIsQueued
  <2>3. pc["io"] = "delegated" => arg["io"] \in Tasks
    BY <1>inv, <1>threads DEF ArgOK
  <2>4. DelegatedNotRunnable'
    BY <1>inv, <2>0, <2>3 DEF DelegatedNotRunnable
  <2> QED BY <2>1, <2>2, <2>4 DEF G
<1>3. ASSUME NEW t \in Tasks, NEW s \in EndStates, HandleTaskStateChange(t, s) PROVE G
  <2>0. /\ taskBinding' = taskBinding /\ runnable' = runnable
        /\ StateMsg(t, s) \in msgs /\ pc["io"] = "idle"
    BY <1>3 DEF HandleTaskStateChange, Arrives, bindingVars
  <2>1. CASE UNCHANGED <<taskState, pc, arg>>
    <3>1. \A u \in Tasks : BeingHandled(u) => BeingHandled(u)'
      BY <2>1 DEF BeingHandled
    <3>2. DelegatedNotRunnable'
      BY <1>inv, <2>1 DEF DelegatedNotRunnable
    <3> QED BY <1>inv, <2>0, <2>1, <3>1, <3>2, StatesUnchanged DEF G
  <2>2. ASSUME NEW x \in {"completion", "failure"}, Goto("io", x, t),
               taskState' = [taskState EXCEPT ![t] = s]
        PROVE  G
    <3>1. \A u \in Tasks : BeingHandled(u) => BeingHandled(u)'
      BY <1>inv, <1>threads, <2>0, <2>2, HandledByOthers
    <3>2. pc'["io"] = x /\ arg'["io"] = t
      BY <1>inv, <1>threads, <2>2 DEF Goto, TypeOK
    <3>3. BeingHandled(t)'
      BY <1>threads, <3>2 DEF BeingHandled
    <3>4. BindingMatchesState' /\ RunnableTaskIsQueued'
      <4>1. \A j \in Jobs : t \in runnable'[j] => JobOf[t] = j /\ taskBinding'[t] = None
        BY <1>inv, <2>0 DEF RunnableTaskIsQueued
      <4> QED BY <1>inv, <1>next, <1>states, <2>0, <2>2, <3>1, <3>3, <4>1, StateChangeKeeps
    <3>5. DelegatedNotRunnable'
      BY <3>2 DEF DelegatedNotRunnable
    <3> QED BY <3>4, <3>5 DEF G
  <2> QED BY <1>3, <2>1, <2>2 DEF HandleTaskStateChange
<1>4. ASSUME NEW c \in Tasks, HandleTaskSpawn(c) PROVE G
  <2>0. /\ taskBinding' = taskBinding /\ runnable' = runnable
        /\ SpawnMsg(c) \in msgs /\ pc["io"] = "idle"
        /\ taskState' = [taskState EXCEPT ![c] = "CREATED"]
        /\ Goto("io", "schedule", JobOf[c])
    BY <1>4, SMTT(30) DEF HandleTaskSpawn, Arrives, bindingVars
  <2>1. taskState[c] = "ABSENT" /\ taskBinding[c] = None
    BY <1>inv, <2>0 DEF MessageInv, TaskInv, Started
  <2>2. \A u \in Tasks : BeingHandled(u) => BeingHandled(u)'
    BY <1>inv, <1>threads, <2>0, HandledByOthers
  <2>3. BindingMatchesState' /\ RunnableTaskIsQueued'
    <3>1. \A j \in Jobs : c \in runnable'[j] => JobOf[c] = j /\ taskBinding'[c] = None
      BY <1>inv, <2>0 DEF RunnableTaskIsQueued
    <3>2. "CREATED" \in TaskStates
      BY DEF TaskStates
    <3> QED BY <1>inv, <1>next, <2>0, <2>1, <2>2, <3>1, <3>2, StateChangeKeeps
  <2>4. DelegatedNotRunnable'
    BY <1>inv, <1>threads, <2>0 DEF DelegatedNotRunnable, Goto, TypeOK
  <2> QED BY <2>3, <2>4 DEF G
<1>5. ASSUME NEW t \in Tasks, NEW ok \in BOOLEAN, HandleTaskDelegationResponse(t, ok) PROVE G
  <2>0. pc["io"] = "idle"
    BY <1>5 DEF HandleTaskDelegationResponse, Arrives
  <2>1. CASE ok
    <3>1. /\ taskState' = [taskState EXCEPT ![t] = "DELEGATED"]
          /\ Goto("io", "delegated", t)
          /\ taskBinding' = taskBinding /\ runnable' = runnable
      BY <1>5, <2>1 DEF HandleTaskDelegationResponse, bindingVars
    <3>2. \A u \in Tasks : BeingHandled(u) => BeingHandled(u)'
      BY <1>inv, <1>threads, <2>0, <3>1, HandledByOthers
    <3>3. \A j \in Jobs : t \in runnable'[j] => JobOf[t] = j /\ taskBinding'[t] = None
      BY <1>inv, <3>1 DEF RunnableTaskIsQueued
    <3>4. BindingMatchesState' /\ RunnableTaskIsQueued'
      BY <1>inv, <1>next, <1>states, <3>1, <3>2, <3>3, StateChangeKeeps
    <3>5. DelegatedNotRunnable'
      BY <1>inv, <1>threads, <3>1 DEF DelegatedNotRunnable, Goto, TypeOK, EdsTypeOK
    <3> QED BY <3>4, <3>5 DEF G
  <2>2. CASE ~ok
    <3>1. HandleTaskDelegationFailure(t) /\ Goto("io", "schedule", JobOf[t])
      BY <1>5, <2>2 DEF HandleTaskDelegationResponse
    <3>2. \A u \in Tasks : BeingHandled(u) => BeingHandled(u)'
      BY <1>inv, <1>threads, <2>0, <3>1, HandledByOthers
    <3>3. DelegatedNotRunnable'
      BY <1>inv, <1>threads, <3>1 DEF DelegatedNotRunnable, Goto, TypeOK
    <3>4. CASE Fail("HandleTaskDelegationFailure_binding")
      BY <1>inv, <3>2, <3>3, <3>4, StatesUnchanged DEF G, Fail, bindingVars
    <3>5. CASE /\ Unbound(t)
               /\ taskState' = [taskState EXCEPT ![t] = "RUNNABLE"]
               /\ runnable' = [runnable EXCEPT ![JobOf[t]] = @ \cup {t}]
      <4>1. /\ taskBinding'[t] = None
            /\ \A u \in Tasks \ {t} : taskBinding'[u] = taskBinding[u]
        BY <1>inv, <3>5 DEF Unbound, EdsTypeOK
      <4>2. /\ \A j \in Jobs, u \in Tasks : u # t => (u \in runnable'[j] <=> u \in runnable[j])
            /\ \A j \in Jobs : t \in runnable'[j] => JobOf[t] = j
            /\ t \in runnable'[JobOf[t]]
        BY <1>inv, <1>jobof, <3>5 DEF EdsTypeOK, RunnableTaskIsQueued
      <4>3. BindingMatchesState' /\ RunnableTaskIsQueued'
        BY <1>inv, <1>next, <1>states, <3>2, <3>5, <4>1, <4>2, StateChangeKeeps
      <4> QED BY <3>3, <4>3 DEF G
    <3> QED BY <1>inv, <3>1, <3>4, <3>5, DelegationFailureEffect
  <2> QED BY <2>1, <2>2
<1>6. ASSUME NEW h \in Threads, NEW t \in Tasks, t = arg[h], pc[h] \in {"completion", "failure"},
             NEW x \in {"COMPLETED", "FAILED"}, NEW s, NEW a, s # "delegated", Goto(h, s, a),
             Unbound(t), taskState' = [taskState EXCEPT ![t] = x], runnable' = runnable
      PROVE  G
  <2>1. /\ taskBinding'[t] = None
        /\ \A u \in Tasks \ {t} : taskBinding'[u] = taskBinding[u]
    BY <1>inv, <1>6 DEF Unbound, EdsTypeOK
  <2>2. \A u \in Tasks \ {t} : BeingHandled(u) => BeingHandled(u)'
    BY <1>inv, <1>6, HandledByOthers
  <2>3. \A j \in Jobs : t \in runnable'[j] => JobOf[t] = j
    BY <1>inv, <1>6 DEF RunnableTaskIsQueued
  <2>4. BindingMatchesState' /\ RunnableTaskIsQueued'
    BY <1>inv, <1>next, <1>states, <1>6, <2>1, <2>2, <2>3, StateChangeKeeps
  <2>5. DelegatedNotRunnable'
    <3>1. pc'["io"] = "delegated" => pc["io"] = "delegated" /\ arg'["io"] = arg["io"] /\ arg["io"] \in Tasks
      BY <1>inv, <1>threads, <1>6 DEF Goto, TypeOK, ArgOK
    <3>2. \A u \in Tasks : taskState'[u] = "RUNNABLE" => taskState[u] = "RUNNABLE"
      BY <1>inv, <1>6 DEF EdsTypeOK
    <3> QED BY <1>inv, <3>1, <3>2 DEF DelegatedNotRunnable
  <2> QED BY <2>4, <2>5 DEF G
<1>7. ASSUME TaskCompletion PROVE G
  <2>1. /\ arg["io"] \in Tasks /\ Started(arg["io"]) /\ pc["io"] = "completion"
        /\ SimpleHandleTaskCompletion(arg["io"]) /\ Goto("io", "jobdone", arg["io"])
    BY <1>7, <1>inv, <1>threads DEF TaskCompletion, ArgOK, ThreadInv
  <2>2. /\ Unbound(arg["io"]) /\ runnable' = runnable
        /\ taskState' = [taskState EXCEPT ![arg["io"]] = "COMPLETED"]
    BY <1>inv, <2>1, CompletionEffect
  <2> QED BY <1>threads, <1>6, <2>1, <2>2
<1>8. ASSUME NEW h \in {"io", "health"}, TaskFailure(h) PROVE G
  <2>1. PICK s, a : Goto(h, s, a) /\ s # "delegated"
    BY <1>8, SMT DEF TaskFailure
  <2>2. h \in Threads
    BY <1>threads
  <2>3. arg[h] \in Tasks /\ Started(arg[h]) /\ pc[h] = "failure" /\ SimpleHandleTaskFailure(arg[h])
    BY <1>8, <1>inv, <2>2 DEF TaskFailure, ArgOK, ThreadInv
  <2>4. CASE taskBinding[arg[h]] = None /\ Fail("HandleTaskFailure_binding")
    <3>1. UNCHANGED <<taskState, taskBinding, runnable>>
      BY <2>4 DEF Fail, bindingVars
    <3>2. \A u \in Tasks : BeingHandled(u) => BeingHandled(u)' \/ taskBinding[u] = None
      BY <1>inv, <2>1, <2>2, <2>4, HandledByOthers
    <3>3. BindingMatchesState' /\ RunnableTaskIsQueued'
      BY <1>inv, <3>1, <3>2, StatesUnchanged
    <3>4. pc'["io"] = "delegated" => pc["io"] = "delegated" /\ arg'["io"] = arg["io"]
      BY <1>inv, <1>threads, <2>1 DEF Goto, TypeOK
    <3>5. DelegatedNotRunnable'
      BY <1>inv, <3>1, <3>4 DEF DelegatedNotRunnable
    <3> QED BY <3>3, <3>5 DEF G
  <2>5. CASE /\ Unbound(arg[h]) /\ runnable' = runnable
             /\ taskState' = [taskState EXCEPT ![arg[h]] = "FAILED"]
    BY <1>6, <2>1, <2>2, <2>3, <2>5
  <2> QED BY <1>inv, <2>3, <2>4, <2>5, FailureEffect
<1>9. ASSUME TaskDelegationSuccess PROVE G
  <2> DEFINE t == arg["io"]
  <2>1. /\ Goto("io", "idle", None) /\ pc["io"] = "delegated"
        /\ runnable' = [runnable EXCEPT ![JobOf[t]] = @ \ {t}]
        /\ UNCHANGED <<taskState, taskBinding>>
    BY <1>9 DEF TaskDelegationSuccess, HandleTaskDelegationSuccess, bindingVars
  <2>2. t \in Tasks /\ taskState[t] # "RUNNABLE"
    BY <1>inv, <1>threads, <2>1 DEF ArgOK, DelegatedNotRunnable
  <2> HIDE DEF t
  <2>3. \A u \in Tasks : BeingHandled(u) => BeingHandled(u)'
    BY <1>inv, <1>threads, <2>1, HandledByOthers
  <2>4. BindingMatchesState'
    <3> SUFFICES ASSUME NEW u \in Tasks
                 PROVE  /\ taskState'[u] = "RUNNING" => taskBinding'[u] # None
                        /\ taskBinding'[u] # None =>
                             taskState'[u] \in {"RUNNING", "DELEGATED"} \/ BeingHandled(u)'
      BY DEF BindingMatchesState
    <3> QED BY <1>inv, <2>1, <2>3 DEF BindingMatchesState
  <2>5. RunnableTaskIsQueued'
    BY <1>inv, <1>jobof, <2>1, <2>2 DEF RunnableTaskIsQueued, EdsTypeOK
  <2>6. DelegatedNotRunnable'
    BY <1>inv, <1>threads, <2>1 DEF DelegatedNotRunnable, Goto, TypeOK
  <2> QED BY <2>4, <2>5, <2>6 DEF G
<1>10. ASSUME JobCompletion PROVE G
  <2> DEFINE j == JobOf[arg["io"]]
  <2>1. /\ Goto("io", "schedule", j) /\ pc["io"] = "jobdone" /\ UNCHANGED <<taskState, taskBinding>>
        /\ \/ runnable' = runnable
           \/ HasJobCompleted(j) /\ runnable' = [runnable EXCEPT ![j] = {}]
    <3>1. CASE HasJobCompleted(j)
      BY <1>10, <3>1 DEF JobCompletion, HandleJobCompletion, bindingVars
    <3>2. CASE ~HasJobCompleted(j)
      BY <1>10, <3>2 DEF JobCompletion, edsVars, bindingVars
    <3> QED BY <3>1, <3>2
  <2> HIDE DEF j
  <2>2. \A u \in Tasks : BeingHandled(u) => BeingHandled(u)'
    BY <1>inv, <1>threads, <2>1, HandledByOthers
  <2>3. BindingMatchesState'
    <3> SUFFICES ASSUME NEW u \in Tasks
                 PROVE  /\ taskState'[u] = "RUNNING" => taskBinding'[u] # None
                        /\ taskBinding'[u] # None =>
                             taskState'[u] \in {"RUNNING", "DELEGATED"} \/ BeingHandled(u)'
      BY DEF BindingMatchesState
    <3> QED BY <1>inv, <2>1, <2>2 DEF BindingMatchesState
  <2>4. RunnableTaskIsQueued'
    <3>1. CASE runnable' = runnable
      BY <1>inv, <2>1, <3>1 DEF RunnableTaskIsQueued
    <3>2. CASE HasJobCompleted(j) /\ runnable' = [runnable EXCEPT ![j] = {}]
      <4>1. \A t \in Tasks : taskState[t] = "RUNNABLE" => JobOf[t] # j
        BY <3>2 DEF HasJobCompleted
      <4> QED BY <1>inv, <1>jobof, <2>1, <3>2, <4>1 DEF RunnableTaskIsQueued, EdsTypeOK
    <3> QED BY <2>1, <3>1, <3>2
  <2>5. DelegatedNotRunnable'
    BY <1>inv, <1>threads, <2>1 DEF DelegatedNotRunnable, Goto, TypeOK
  <2> QED BY <2>3, <2>4, <2>5 DEF G
<1>11. ASSUME NEW h \in Threads, NEW s, NEW a, s # "delegated", Goto(h, s, a),
              pc[h] \notin {"completion", "failure"}, UNCHANGED <<taskState, taskBinding, runnable>>
       PROVE  G
  <2>1. \A u \in Tasks : BeingHandled(u) => BeingHandled(u)'
    BY <1>inv, <1>11, HandledByOthers
  <2>2. BindingMatchesState' /\ RunnableTaskIsQueued'
    BY <1>inv, <1>11, <2>1, StatesUnchanged
  <2>3. pc'["io"] = "delegated" => pc["io"] = "delegated" /\ arg'["io"] = arg["io"]
    BY <1>inv, <1>threads, <1>11 DEF Goto, TypeOK
  <2>4. DelegatedNotRunnable'
    BY <1>inv, <1>11, <2>3 DEF DelegatedNotRunnable
  <2> QED BY <2>2, <2>4 DEF G
<1>12. ASSUME NEW t \in Tasks, CheckRunningTasksHealth(t) PROVE G
  <2>1. /\ Goto("health", "failure", t) /\ pc["health"] = "idle"
        /\ UNCHANGED <<taskState, taskBinding, runnable>>
    BY <1>12, SMTT(30) DEF CheckRunningTasksHealth, edsVars
  <2> QED BY <1>threads, <1>11, <2>1
<1>13. ASSUME NEW h \in {"io", "http"}, RunScheduler(h) PROVE G
  <2>0. /\ h \in Threads /\ pc[h] = "schedule" /\ MayLock(h) /\ arg[h] \in Jobs
        /\ ScheduleJob(arg[h]) /\ Goto(h, "idle", None)
    <3>1. h \in Threads
      BY <1>threads
    <3> QED BY <1>13, <1>inv, <3>1 DEF RunScheduler, ArgOK
  <2>1. pc["health"] = "idle"
    BY <1>inv, <2>0, CoordinatorAssumption DEF MayLock, ThreadInv
  <2>2. \A u \in Tasks : BeingHandled(u) => BeingHandled(u)'
    BY <1>inv, <2>0, HandledByOthers
  <2>3. h = "io" => \A u \in Tasks : ~BeingHandled(u)
    BY <1>inv, <2>0, <2>1 DEF BeingHandled, ThreadInv, Threads
  <2>4. h = "http" => \A u \in Tasks : JobOf[u] = arg[h] => ~Started(u) /\ taskBinding[u] = None
    BY <1>inv, <2>0, SMT DEF ThreadInv, TaskInv, Started
  <2>5. \A u \in Tasks : /\ taskState[u] \in {"CREATED", "BLOCKING", "FAILED", "COMPLETED"}
                         /\ JobOf[u] = arg[h]
                         => taskBinding[u] = None
    BY <1>inv, <2>3, <2>4 DEF BindingMatchesState
  <2>6. ASSUME NEW check, Fail(check) PROVE G
    <3>1. UNCHANGED <<taskState, taskBinding, runnable>>
      BY <2>6 DEF Fail, bindingVars
    <3> QED BY <1>11, <2>0, <3>1
  <2>7. ASSUME NEW D \in SUBSET Tasks, NEW R \in SUBSET Tasks, NEW K \in SUBSET Tasks,
               Schedules(arg[h], D, R, K)
        PROVE  G
    <3>1. \A u \in R \cup K : taskBinding[u] = None /\ JobOf[u] = arg[h]
      BY <2>5, <2>7 DEF Schedules
    <3>2. \A u \in D : taskBinding'[u] # None /\ taskState'[u] = "RUNNING" /\ JobOf[u] = arg[h]
      <4>1. \A u \in D : /\ taskBinding'[u] \in Resources
                         /\ u \in runnable[arg[h]] \/ (u \in R /\ JobOf[u] = arg[h])
        BY <2>7 DEF Schedules
      <4>2. \A u \in Tasks : u \in runnable[arg[h]] => JobOf[u] = arg[h]
        BY <1>inv, <2>0 DEF TaskInv
      <4>3. \A u \in D : taskState'[u] = "RUNNING"
        BY <2>7 DEF Schedules
      <4> QED BY <4>1, <4>2, <4>3, ResourcesAssumption
    <3>3. \A u \in Tasks \ D : /\ taskBinding'[u] = taskBinding[u]
                               /\ u \notin R \cup K => taskState'[u] = taskState[u]
                               /\ u \in R => taskState'[u] = "RUNNABLE"
                               /\ taskState'[u] \in {"RUNNABLE", "BLOCKING", taskState[u]}
                               /\ \A j \in Jobs : u \in runnable'[j] <=>
                                    u \in runnable[j] \/ (u \in R /\ JobOf[u] = j)
      BY <2>7 DEF Schedules
    <3>4. BindingMatchesState'
      <4> SUFFICES ASSUME NEW u \in Tasks
                   PROVE  /\ taskState'[u] = "RUNNING" => taskBinding'[u] # None
                          /\ taskBinding'[u] # None =>
                               taskState'[u] \in {"RUNNING", "DELEGATED"} \/ BeingHandled(u)'
        BY DEF BindingMatchesState
      <4>1. CASE u \in D
        BY <3>2, <4>1
      <4>2. CASE u \in (R \cup K) \ D
        BY <1>inv, <2>7, <3>1, <3>3, <4>2 DEF Schedules
      <4>3. CASE u \notin R \cup K \cup D
        BY <1>inv, <2>2, <3>3, <4>3 DEF BindingMatchesState
      <4> QED BY <4>1, <4>2, <4>3
    <3>5. RunnableTaskIsQueued'
      <4> SUFFICES ASSUME NEW u \in Tasks
                   PROVE  /\ taskState'[u] = "RUNNABLE" => u \in runnable'[JobOf[u]]
                          /\ \A j \in Jobs : u \in runnable'[j] =>
                               JobOf[u] = j /\ taskBinding'[u] = None
        BY DEF RunnableTaskIsQueued
      <4>1. CASE u \in D
        <5>1. \A j \in Jobs : u \notin runnable'[j]
          BY <2>7, <4>1 DEF Schedules
        <5> QED BY <3>2, <4>1, <5>1
      <4>2. CASE u \in Tasks \ D /\ u \in R
        BY <1>inv, <1>jobof, <3>1, <3>3, <4>2 DEF RunnableTaskIsQueued
      <4>3. CASE u \in Tasks \ D /\ u \in K \ R
        <5>1. taskState'[u] = "BLOCKING"
          BY <2>7, <4>3 DEF Schedules
        <5> QED BY <1>inv, <3>1, <3>3, <4>3, <5>1 DEF RunnableTaskIsQueued
      <4>4. CASE u \notin R \cup K \cup D
        BY <1>inv, <1>jobof, <3>3, <4>4 DEF RunnableTaskIsQueued
      <4> QED BY <4>1, <4>2, <4>3, <4>4
    <3>6. DelegatedNotRunnable'
      <4> SUFFICES ASSUME pc'["io"] = "delegated" PROVE taskState'[arg'["io"]] # "RUNNABLE"
        BY DEF DelegatedNotRunnable
      <4>1. h = "http" /\ pc["io"] = "delegated" /\ arg'["io"] = arg["io"]
        BY <1>inv, <1>threads, <2>0 DEF Goto, TypeOK
      <4>2. arg["io"] \in Tasks /\ Started(arg["io"]) /\ taskState[arg["io"]] # "RUNNABLE"
        BY <1>inv, <1>threads, <4>1 DEF ArgOK, ThreadInv, DelegatedNotRunnable
      <4>3. arg["io"] \notin R \cup K \cup D
        BY <2>4, <3>1, <3>2, <4>1, <4>2
      <4> QED BY <3>3, <4>1, <4>2, <4>3
    <3> QED BY <3>4, <3>5, <3>6 DEF G
  <2>8. ProducersWrite
    BY <1>inv DEF ProducersWrite, TaskInv, EdsTypeOK
  <2>9. Alive
    BY <2>0 DEF MayLock
  <2>10. \/ \E check : Fail(check)
         \/ \E D, R, K \in SUBSET Tasks : Schedules(arg[h], D, R, K)
    BY <1>inv, <2>0, <2>8, <2>9, ScheduleJobEffect
  <2> QED BY <2>6, <2>7, <2>10
<1>14. ASSUME UNCHANGED <<edsVars, pc, arg>> PROVE G
  <2>1. UNCHANGED <<taskState, taskBinding, runnable, pc, arg>>
    BY <1>14 DEF edsVars
  <2>2. \A u \in Tasks : BeingHandled(u) => BeingHandled(u)'
    BY <2>1 DEF BeingHandled
  <2> QED BY <1>inv, <2>1, <2>2, StatesUnchanged DEF G, DelegatedNotRunnable
<1>15. ASSUME NEW t \in Tasks, ProcessEnds(t) \/ TaskSpawns(t) \/ TaskCrashes(t) PROVE G
  BY <1>14, <1>15 DEF ProcessEnds, TaskSpawns, TaskCrashes, TaskEnds, RemoteAnswers,
                      RemoteTaskEnds, Send
<1>16. ASSUME UNCHANGED vars PROVE G
  BY <1>14, <1>16 DEF vars
<1>17. CASE IoThread
  BY <1>3, <1>4, <1>5, <1>7, <1>8, <1>9, <1>10, <1>13, <1>17 DEF IoThread
<1>18. CASE HealthThread
  BY <1>8, <1>12, <1>18 DEF HealthThread
<1> QED BY <1>1, <1>2, <1>13, <1>15, <1>16, <1>17, <1>18 DEF Next

(* Initially no task is known. *)
LEMMA InitStateInv == Init => StateInv
<1> SUFFICES ASSUME Init PROVE StateInv
  OBVIOUS
<1>1. HistoryInv
  BY InitHistoryInv
<1> USE DEF Init, EdsInit, NothingSubmitted
<1>2. BindingMatchesState /\ RunnableTaskIsQueued /\ DelegatedNotRunnable
  BY DEF BindingMatchesState, RunnableTaskIsQueued, DelegatedNotRunnable, Threads
<1> QED BY <1>1, <1>2 DEF StateInv

(* Descriptors and bindings agree after every step, whatever the threads,    *)
(* remote coordinators and late messages do, if jobs share no objects.      *)
THEOREM BindingsAlwaysMatchStates ==
  ASSUME NoSharedObjects
  PROVE  Spec => []BindingMatchesState
<1>1. StateInv => BindingMatchesState
  BY DEF StateInv
<1>2. StateInv /\ [Next]_vars => StateInv'
  BY NextStateInv
<1> QED BY InitStateInv, <1>1, <1>2, PTL DEF Spec

(* ... and no RUNNABLE task is lost from the set ScheduleJob looks at, nor   *)
(* is a bound task in it.                                                  *)
THEOREM RunnableTasksAlwaysQueued ==
  ASSUME NoSharedObjects
  PROVE  Spec => []RunnableTaskIsQueued
<1>1. StateInv => RunnableTaskIsQueued
  BY DEF StateInv
<1>2. StateInv /\ [Next]_vars => StateInv'
  BY NextStateInv
<1> QED BY InitStateInv, <1>1, <1>2, PTL DEF Spec

-----------------------------------------------------------------------------
(* Processes. *)

(* The processes and bindings after ScheduleJob. *)
LEMMA RunSchedulerEffect ==
  ASSUME HistoryInv, NEW h \in {"io", "http"}, RunScheduler(h)
  PROVE  /\ pc[h] = "schedule" /\ arg[h] \in Jobs /\ msgs' = msgs /\ pc["health"] = "idle"
         /\ Goto(h, "idle", None)
         /\ \/ /\ \/ Fail("LazyGraphReduction_producer") /\
                       \E o \in JobOutputs[arg[h]] :
                         ProducingTasksForDataObjectID(taskState, producing, o, arg[h]) = {}
                  \/ Fail("BindTaskToResource_unbound") /\
                       \E t \in Tasks : /\ taskBinding[t] # None
                                        /\ \/ t \in runnable[arg[h]]
                                           \/ /\ taskState[t] \in {"CREATED", "BLOCKING", "FAILED", "COMPLETED"}
                                              /\ JobOf[t] = arg[h]
               /\ \A u \in Tasks : proc'[u] = proc[u]
            \/ \E D, R, K \in SUBSET Tasks :
                 /\ Schedules(arg[h], D, R, K)
                 /\ \A u \in Tasks \ D : proc'[u] = proc[u]
                 /\ \A u \in D : \/ proc'[u] = "alive"
                                 \/ proc'[u] = "requested" /\ taskBinding'[u] \in Remote
<1>inv. TypeOK /\ EdsTypeOK /\ ArgOK /\ ThreadInv /\ TaskInv
  BY DEF HistoryInv, BindingInv, TypeOK
<1>0. h \in Threads
  BY DEF Threads
<1>1. /\ pc[h] = "schedule" /\ MayLock(h) /\ arg[h] \in Jobs /\ msgs' = msgs
      /\ ScheduleJob(arg[h]) /\ Goto(h, "idle", None) /\ Alive
  BY <1>inv, <1>0 DEF RunScheduler, ArgOK, MayLock
<1>2. pc["health"] = "idle"
  BY <1>inv, <1>1, CoordinatorAssumption DEF MayLock, ThreadInv
<1>3. proc' = [t \in Tasks |->
                 CASE taskBinding'[t] \in {None, taskBinding[t]}           -> proc[t]
                   [] taskBinding'[t] \in Remote \ {None, taskBinding[t]}  -> "requested"
                   [] OTHER                                                -> "alive"]
  BY DEF RunScheduler
<1>4. \A u \in Tasks : /\ taskBinding'[u] = taskBinding[u] => proc'[u] = proc[u]
                       /\ taskBinding'[u] \notin {None, taskBinding[u]} =>
                            proc'[u] = "alive" \/ (proc'[u] = "requested" /\ taskBinding'[u] \in Remote)
  BY <1>3, SMTT(30)
<1>5. ProducersWrite
  BY <1>inv DEF ProducersWrite, TaskInv, EdsTypeOK
<1>6. ASSUME NEW check, Fail(check) PROVE \A u \in Tasks : proc'[u] = proc[u]
  BY <1>4, <1>6 DEF Fail, bindingVars
<1>7. ASSUME NEW D \in SUBSET Tasks, NEW R \in SUBSET Tasks, NEW K \in SUBSET Tasks,
             Schedules(arg[h], D, R, K)
      PROVE  /\ \A u \in Tasks \ D : proc'[u] = proc[u]
             /\ \A u \in D : \/ proc'[u] = "alive"
                             \/ proc'[u] = "requested" /\ taskBinding'[u] \in Remote
  <2>1. /\ \A u \in Tasks \ D : taskBinding'[u] = taskBinding[u]
        /\ \A u \in D : taskBinding[u] = None /\ taskBinding'[u] \in Resources
    BY <1>7 DEF Schedules
  <2>2. \A u \in D : taskBinding'[u] \notin {None, taskBinding[u]}
    BY <2>1, ResourcesAssumption
  <2> QED BY <1>4, <2>1, <2>2
<1>8. \/ Fail("LazyGraphReduction_producer") /\
           \E o \in JobOutputs[arg[h]] :
             ProducingTasksForDataObjectID(taskState, producing, o, arg[h]) = {}
      \/ Fail("BindTaskToResource_unbound") /\
           \E t \in Tasks : /\ taskBinding[t] # None
                            /\ \/ t \in runnable[arg[h]]
                               \/ /\ taskState[t] \in {"CREATED", "BLOCKING", "FAILED", "COMPLETED"}
                                  /\ JobOf[t] = arg[h]
      \/ \E D, R, K \in SUBSET Tasks : Schedules(arg[h], D, R, K)
  BY <1>inv, <1>1, <1>5, ScheduleJobEffect
<1> QED BY <1>1, <1>2, <1>6, <1>7, <1>8

(* Every step keeps ProcessInv, unless the end of a refused task is handled. *)
LEMMA NextProcessInv ==
  ASSUME StateInv, ProcessInv, [Next]_vars,
         pc["io"] \in {"completion", "failure"} => ~Refused(arg["io"])
  PROVE  ProcessInv'
<1>inv. /\ TypeOK /\ EdsTypeOK /\ ArgOK /\ ThreadInv /\ TaskInv /\ HistoryInv /\ PUsRegistered
  BY DEF StateInv, HistoryInv, BindingInv, TypeOK
<1>proc. /\ \A u \in Tasks : /\ proc[u] # "none" => taskBinding[u] # None
                             /\ Refused(u) => taskBinding[u] # None /\ proc[u] = "none"
         /\ pc["health"] = "failure" => proc[arg["health"]] = "exited"
  BY DEF ProcessInv
<1>threads. /\ "io" \in Threads /\ "http" \in Threads /\ "health" \in Threads
            /\ "io" # "health" /\ "http" # "health"
  BY DEF Threads
<1>idle. \A h \in {"io", "http"} : MayLock(h) => pc["health"] = "idle"
  BY <1>inv, CoordinatorAssumption DEF MayLock, ThreadInv
<1>goto. ASSUME NEW h \in Threads, NEW s, NEW a, h # "health", Goto(h, s, a)
         PROVE  pc'["health"] = pc["health"] /\ arg'["health"] = arg["health"]
  BY <1>goto, <1>inv, <1>threads, SMTT(30) DEF Goto, TypeOK
<1>1. ASSUME UNCHANGED <<taskBinding, proc>>, msgs' \subseteq msgs,
             pc'["health"] = "failure" => proc[arg'["health"]] = "exited"
      PROVE  ProcessInv'
  BY <1>1, <1>proc DEF ProcessInv, Refused
<1>2. ASSUME NEW j \in Jobs, SubmitJob(j) \/ KillRunningJob(j) PROVE ProcessInv'
  <2>1. UNCHANGED <<taskBinding, proc, msgs>> /\ (Goto("http", "schedule", j) \/ UNCHANGED <<pc, arg>>)
    BY <1>2 DEF SubmitJob, KillRunningJob, bindingVars
  <2> QED BY <1>1, <1>goto, <1>proc, <1>threads, <2>1
<1>3. ASSUME NEW t \in Tasks, NEW s \in EndStates, HandleTaskStateChange(t, s) PROVE ProcessInv'
  <2>1. /\ UNCHANGED <<taskBinding, proc>> /\ msgs' \subseteq msgs
        /\ UNCHANGED <<pc, arg>> \/ \E x : Goto("io", x, t)
    BY <1>3 DEF HandleTaskStateChange, Arrives, bindingVars
  <2> QED BY <1>1, <1>goto, <1>proc, <1>threads, <2>1
<1>4. ASSUME NEW c \in Tasks, HandleTaskSpawn(c) PROVE ProcessInv'
  <2>1. UNCHANGED <<taskBinding, proc>> /\ msgs' \subseteq msgs /\ Goto("io", "schedule", JobOf[c])
    BY <1>4 DEF HandleTaskSpawn, Arrives, bindingVars
  <2> QED BY <1>1, <1>goto, <1>proc, <1>threads, <2>1
<1>5. ASSUME NEW t \in Tasks, NEW ok \in BOOLEAN, HandleTaskDelegationResponse(t, ok) PROVE ProcessInv'
  <2>0. proc' = proc /\ msgs' = msgs \ {DelegationMsg(t, ok)} /\ DelegationMsg(t, ok) \in msgs
    BY <1>5 DEF HandleTaskDelegationResponse, Arrives
  <2>1. CASE ok = TRUE
    <3>1. UNCHANGED taskBinding /\ Goto("io", "delegated", t)
      BY <1>5, <2>1 DEF HandleTaskDelegationResponse, bindingVars
    <3> QED BY <1>1, <1>goto, <1>proc, <1>threads, <2>0, <3>1
  <2>2. CASE ok = FALSE
    <3>1. HandleTaskDelegationFailure(t) /\ Goto("io", "schedule", JobOf[t]) /\ Refused(t)
      BY <1>5, <2>0, <2>2 DEF HandleTaskDelegationResponse, Refused
    <3>2. Unbound(t)
      BY <1>inv, <1>proc, <3>1, DelegationFailureEffect
    <3>3. \A u \in Tasks : Refused(u)' => Refused(u) /\ u # t
      BY <2>0, <2>2 DEF Refused
    <3>4. \A u \in Tasks \ {t} : taskBinding'[u] = taskBinding[u]
      BY <1>inv, <3>2 DEF Unbound, EdsTypeOK
    <3> QED BY <1>goto, <1>proc, <1>threads, <2>0, <3>1, <3>3, <3>4, SMTT(30) DEF ProcessInv
  <2> QED BY <2>1, <2>2
<1>6. ASSUME NEW t \in Tasks, ~Refused(t), msgs' = msgs, proc'[t] = "none",
             \A u \in Tasks \ {t} : taskBinding'[u] = taskBinding[u] /\ proc'[u] = proc[u],
             pc'["health"] = "idle"
      PROVE  ProcessInv'
  BY <1>6, <1>proc DEF ProcessInv, Refused
<1>7. ASSUME TaskCompletion PROVE ProcessInv'
  <2> DEFINE t == arg["io"]
  <2>1. /\ t \in Tasks /\ Started(t) /\ SimpleHandleTaskCompletion(t) /\ msgs' = msgs /\ ~Refused(t)
        /\ proc' = IF taskBinding[t] # None THEN [proc EXCEPT ![t] = "none"] ELSE proc
        /\ Goto("io", "jobdone", t) /\ MayLock("io")
    BY <1>7, <1>inv, <1>threads DEF TaskCompletion, ArgOK, ThreadInv
  <2> HIDE DEF t
  <2>2. Unbound(t)
    BY <1>inv, <2>1, CompletionEffect
  <2>3. proc'[t] = "none" /\ \A u \in Tasks \ {t} : taskBinding'[u] = taskBinding[u] /\ proc'[u] = proc[u]
    BY <1>inv, <1>proc, <2>1, <2>2 DEF Unbound, EdsTypeOK, TypeOK
  <2>4. pc'["health"] = "idle"
    BY <1>goto, <1>idle, <1>threads, <2>1
  <2> QED BY <1>6, <2>1, <2>3, <2>4
<1>8. ASSUME NEW h \in {"io", "health"}, TaskFailure(h) PROVE ProcessInv'
  <2> DEFINE t == arg[h]
  <2>1. /\ t \in Tasks /\ Started(t) /\ SimpleHandleTaskFailure(t) /\ msgs' = msgs
        /\ proc' = [proc EXCEPT ![t] = "none"] /\ MayLock(h) /\ pc[h] = "failure"
        /\ IF h = "io" THEN Goto(h, "schedule", JobOf[t]) ELSE Goto(h, "idle", None)
    BY <1>8, <1>inv, <1>threads DEF TaskFailure, ArgOK, ThreadInv
  <2>2. ~Refused(t)
    BY <1>proc, <2>1
  <2> HIDE DEF t
  <2>3. \A u \in Tasks \ {t} : taskBinding'[u] = taskBinding[u]
    <3>1. taskBinding' = taskBinding \/ Unbound(t)
      BY <1>inv, <2>1, FailureEffect DEF Fail, bindingVars
    <3> QED BY <1>inv, <3>1 DEF Unbound, EdsTypeOK
  <2>4. proc'[t] = "none" /\ \A u \in Tasks \ {t} : proc'[u] = proc[u]
    BY <1>inv, <2>1 DEF TypeOK
  <2>5. pc'["health"] = "idle"
    <3>1. CASE h = "io"
      BY <1>goto, <1>idle, <1>threads, <2>1, <3>1
    <3>2. CASE h = "health"
      BY <1>inv, <1>threads, <2>1, <3>2 DEF Goto, TypeOK
    <3> QED BY <3>1, <3>2
  <2> QED BY <1>6, <2>1, <2>2, <2>3, <2>4, <2>5
<1>9. ASSUME TaskDelegationSuccess \/ JobCompletion PROVE ProcessInv'
  <2>1. UNCHANGED <<taskBinding, proc, msgs>> /\ \E x, a : Goto("io", x, a)
    BY <1>9 DEF TaskDelegationSuccess, HandleTaskDelegationSuccess, JobCompletion,
                          HandleJobCompletion, edsVars, bindingVars
  <2> QED BY <1>1, <1>goto, <1>proc, <1>threads, <2>1
<1>10. ASSUME NEW t \in Tasks, CheckRunningTasksHealth(t) PROVE ProcessInv'
  <2>1. UNCHANGED <<taskBinding, proc, msgs>> /\ proc[t] = "exited" /\ Goto("health", "failure", t)
    BY <1>10 DEF CheckRunningTasksHealth, edsVars
  <2>2. arg'["health"] = t
    BY <1>inv, <1>threads, <2>1, SMTT(30) DEF Goto, TypeOK
  <2> QED BY <1>1, <2>1, <2>2, SMTT(30)
<1>11. ASSUME NEW h \in {"io", "http"}, RunScheduler(h) PROVE ProcessInv'
  <2>1. msgs' = msgs /\ pc'["health"] = "idle"
    BY <1>11, <1>inv, <1>goto, <1>threads, RunSchedulerEffect
  <2>2. ASSUME NEW check, Fail(check), \A u \in Tasks : proc'[u] = proc[u] PROVE ProcessInv'
    BY <1>proc, <2>1, <2>2 DEF Fail, bindingVars, ProcessInv, Refused
  <2>3. ASSUME NEW D \in SUBSET Tasks, NEW R \in SUBSET Tasks, NEW K \in SUBSET Tasks,
               Schedules(arg[h], D, R, K), \A u \in Tasks \ D : proc'[u] = proc[u]
        PROVE  ProcessInv'
    <3>1. /\ \A u \in D : taskBinding[u] = None /\ taskBinding'[u] # None
          /\ \A u \in Tasks \ D : taskBinding'[u] = taskBinding[u]
      <4>1. /\ \A u \in D : taskBinding[u] = None /\ taskBinding'[u] \in Resources
            /\ \A u \in Tasks \ D : taskBinding'[u] = taskBinding[u]
        BY <2>3 DEF Schedules
      <4> QED BY <4>1, ResourcesAssumption
    <3>2. \A u \in Tasks : Refused(u)' <=> Refused(u)
      BY <2>1 DEF Refused
    <3>3. \A u \in Tasks : /\ proc'[u] # "none" => taskBinding'[u] # None
                           /\ Refused(u)' => taskBinding'[u] # None /\ proc'[u] = "none"
      BY <1>proc, <2>3, <3>1, <3>2
    <3> QED BY <2>1, <3>3 DEF ProcessInv
  <2> QED BY <1>11, <1>inv, <2>2, <2>3, RunSchedulerEffect
<1>12. ASSUME NEW t \in Tasks, ProcessEnds(t) \/ TaskSpawns(t) \/ TaskCrashes(t) PROVE ProcessInv'
  <2>1. UNCHANGED <<taskBinding, pc, arg>>
    BY <1>12, <1>inv, EnvironmentEffect DEF edsVars
  <2>2. pc["health"] = "failure" => arg["health"] \in Tasks
    BY <1>inv, <1>threads DEF ArgOK
  <2>3. \A u \in Tasks : proc'[u] # proc[u] => proc[u] \notin {"none", "exited"}
    BY <1>12, <1>inv, EnvironmentEffect DEF TypeOK
  <2>4. \A u \in Tasks : Refused(u)' => Refused(u) \/ (proc[u] = "requested" /\ proc'[u] = "none")
    BY <1>12, <1>inv, EnvironmentMessages
  <2> QED BY <1>proc, <2>1, <2>2, <2>3, <2>4 DEF ProcessInv
<1>13. ASSUME UNCHANGED vars PROVE ProcessInv'
  BY <1>1, <1>13, <1>proc DEF vars, edsVars
<1>14. CASE IoThread
  BY <1>3, <1>4, <1>5, <1>7, <1>8, <1>9, <1>11, <1>14 DEF IoThread
<1>15. CASE HealthThread
  BY <1>8, <1>10, <1>15 DEF HealthThread
<1> QED BY <1>2, <1>11, <1>12, <1>13, <1>14, <1>15 DEF Next

(* Initially there is no process. *)
LEMMA InitProcessInv == Init => ProcessInv
BY DEF Init, ProcessInv, Refused, Threads

=============================================================================
