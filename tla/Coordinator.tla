---------------------------- MODULE Coordinator -----------------------------
(***************************************************************************)
(* A coordinator (src/engine/coordinator.cc) that drives a SimpleScheduler.*)
(* Three of its threads call into the scheduler:                           *)
(*                                                                         *)
(*   io      the I/O service thread, which handles one message at a time;  *)
(*   http    the web interface, which submits and kills jobs;              *)
(*   health  the HealthMonitor, which declares dead tasks FAILED.          *)
(*                                                                         *)
(* The scheduler's handlers run under scheduling_lock_, but the            *)
(* coordinator changes task descriptors outside of it.  A handler is       *)
(* therefore several steps, cut where it takes the lock; pc says what a    *)
(* thread does next, arg for which task or job.  lock is the thread that   *)
(* keeps the lock between two of its steps.                                *)
(*                                                                         *)
(* The environment: task processes on local PUs, and the coordinators of   *)
(* remote PUs, which accept or refuse a delegated task and report how it   *)
(* ended.  Messages arrive in any order, except that those of one task     *)
(* process keep theirs (one connection).                                   *)
(***************************************************************************)
EXTENDS SimpleScheduler

CONSTANTS
  Submitted,    \* the tasks that are part of a job's submission
  Remote,       \* the PUs of other coordinators
  TasksCrash,   \* whether a task process may die without a final message
  LateMessages, \* whether a final message may take longer than task_fail_timeout
  JobsKilled    \* whether the user kills jobs

ASSUME CoordinatorAssumption ==
  /\ Submitted \subseteq Tasks
  /\ \A t \in Submitted : Parent[t] = None \/ Parent[t] \in Submitted
  /\ \A t \in Tasks \ Submitted : Parent[t] # None /\ Outputs[t] \subseteq Outputs[Parent[t]]
  /\ Remote \subseteq Resources
  /\ {TasksCrash, LateMessages, JobsKilled} \subseteq BOOLEAN
  /\ None \notin {"io", "http", "health"}

VARIABLES
  pc,      \* what each thread does next
  arg,     \* the task or the job it does it for
  lock,    \* the thread that holds scheduling_lock_ between steps, or None
  proc,    \* the process of a task's last placement
  msgs     \* messages on their way to the coordinator

vars == <<edsVars, pc, arg, lock, proc, msgs>>

Threads == {"io", "http", "health"}
Steps == {"idle", "completion", "failure", "jobdone", "delegated", "schedule"}
ProcStates == {"none", "alive", "exited", "requested", "accepted"}
Messages ==
  [type : {"state"}, task : Tasks, state : {"COMPLETED", "ABORTED", "FAILED"}]
    \cup [type : {"spawn"}, task : Tasks]
    \cup [type : {"delegation"}, task : Tasks, success : BOOLEAN]

StateMsg(t, s) == [type |-> "state", task |-> t, state |-> s]
SpawnMsg(t) == [type |-> "spawn", task |-> t]
DelegationMsg(t, ok) == [type |-> "delegation", task |-> t, success |-> ok]

(* The variables hold values of these types. *)
TypeOK ==
  /\ EdsTypeOK
  /\ pc \in [Threads -> Steps]
  /\ arg \in [Threads -> Tasks \cup Jobs \cup {None}]
  /\ lock \in Threads \cup {None}
  /\ proc \in [Tasks -> ProcStates]
  /\ msgs \subseteq Messages

Init ==
  /\ EdsInit
  /\ pc = [h \in Threads |-> "idle"]
  /\ arg = [h \in Threads |-> None]
  /\ lock = None
  /\ proc = [t \in Tasks |-> "none"]
  /\ msgs = {}

(* The thread moves on to step s for a; the other threads stay. *)
Goto(h, s, a) ==
  /\ pc' = [pc EXCEPT ![h] = s]
  /\ arg' = [arg EXCEPT ![h] = a]

MayLock(h) == Alive /\ lock \in {None, h}

-----------------------------------------------------------------------------
(* The web interface. *)

(* SubmitJob up to its call of ScheduleJob: the job and its task tree enter *)
(* the tables, the outputs of the tasks enter the object store.            *)
SubmitJob(j) ==
  LET new == {t \in Submitted : JobOf[t] = j}
  IN  /\ Alive
      /\ pc["http"] = "idle"
      /\ jobState[j] = "ABSENT"
      /\ jobState' = [jobState EXCEPT ![j] = "CREATED"]
      /\ taskState' = [t \in Tasks |-> IF t \in new THEN "CREATED" ELSE taskState[t]]
      /\ producing' = [o \in Objects |-> producing[o] \cup {t \in new : o \in Outputs[t]}]
      /\ Goto("http", "schedule", j)
      /\ UNCHANGED <<runnable, bindingVars, failedCheck, lock, proc, msgs>>

(* KillRunningJob, which takes no lock.  SimpleScheduler::KillRunningTask   *)
(* does nothing, so only the tasks that wait are aborted.                  *)
KillRunningJob(j) ==
  /\ Alive
  /\ JobsKilled
  /\ pc["http"] = "idle"
  /\ jobState[j] # "ABSENT"
  /\ taskState' = [t \in Tasks |->
       IF JobOf[t] = j /\ taskState[t] \in {"RUNNABLE", "BLOCKING"} THEN "ABORTED" ELSE taskState[t]]
  /\ jobState' = [jobState EXCEPT ![j] = "ABORTED"]
  /\ UNCHANGED <<producing, runnable, bindingVars, failedCheck, pc, arg, lock, proc, msgs>>

-----------------------------------------------------------------------------
(* Messages. *)

Arrives(m) ==
  /\ Alive
  /\ pc["io"] = "idle"
  /\ m \in msgs
  /\ msgs' = msgs \ {m}

(* HandleTaskStateChange up to its call into the scheduler: a task that has *)
(* already ended is left alone, any other takes the state in the message.  *)
HandleTaskStateChange(t, s) ==
  /\ Arrives(StateMsg(t, s))
  /\ \A c \in Tasks : Parent[c] = t => SpawnMsg(c) \notin msgs
  /\ IF taskState[t] \in {"FAILED", "ABORTED", "COMPLETED"}
     THEN UNCHANGED <<taskState, pc, arg>>
     ELSE /\ taskState' = [taskState EXCEPT ![t] = s]
          /\ Goto("io", IF s = "FAILED" THEN "failure" ELSE "completion", t)
  /\ UNCHANGED <<jobState, producing, runnable, bindingVars, failedCheck, lock, proc>>

(* HandleTaskSpawn up to its call of ScheduleJob: the references to outputs *)
(* of the new task that its parent was to produce now name the new task.   *)
HandleTaskSpawn(c) ==
  /\ Arrives(SpawnMsg(c))
  /\ taskState' = [taskState EXCEPT ![c] = "CREATED"]
  /\ producing' = [o \in Objects |->
       IF o \in Outputs[c] /\ Parent[c] \in producing[o]
       THEN (producing[o] \ {Parent[c]}) \cup {c} ELSE producing[o]]
  /\ Goto("io", "schedule", JobOf[c])
  /\ UNCHANGED <<jobState, runnable, bindingVars, failedCheck, lock, proc>>

(* HandleTaskDelegationResponse.  A task that was accepted is DELEGATED even *)
(* before the lock is taken; after a refusal the lock stays with the thread *)
(* until ScheduleJob has run.                                              *)
HandleTaskDelegationResponse(t, ok) ==
  /\ Arrives(DelegationMsg(t, ok))
  /\ IF ok
     THEN /\ taskState' = [taskState EXCEPT ![t] = "DELEGATED"]
          /\ Goto("io", "delegated", t)
          /\ UNCHANGED <<jobState, producing, runnable, bindingVars, failedCheck, lock>>
     ELSE /\ MayLock("io")
          /\ HandleTaskDelegationFailure(t)
          /\ Goto("io", "schedule", JobOf[t])
          /\ lock' = "io"
  /\ UNCHANGED proc

-----------------------------------------------------------------------------
(* The steps under the lock that follow. *)

(* HandleTaskCompletion of the coordinator, up to the scheduler's return. *)
TaskCompletion ==
  LET t == arg["io"]
  IN  /\ MayLock("io")
      /\ pc["io"] = "completion"
      /\ SimpleHandleTaskCompletion(t)
      /\ proc' = IF taskBinding[t] # None THEN [proc EXCEPT ![t] = "none"] ELSE proc
      /\ Goto("io", "jobdone", t)
      /\ UNCHANGED <<lock, msgs>>

TaskDelegationSuccess ==
  /\ MayLock("io")
  /\ pc["io"] = "delegated"
  /\ HandleTaskDelegationSuccess(arg["io"])
  /\ Goto("io", "idle", None)
  /\ UNCHANGED <<lock, proc, msgs>>

(* Mutant: only the root task counts. *)
HasRootCompleted(j) == taskState[RootOf(j)] \in {"COMPLETED", "ABORTED"}

(* HasJobCompleted: every task in the tree has completed or was aborted. *)
HasJobCompleted(j) ==
  \A t \in Tasks : JobOf[t] = j => taskState[t] \in {"ABSENT", "COMPLETED", "ABORTED"}

(* Mutant: the scheduler does not run after a completion. *)
JobCompletionWithoutScheduling ==
  LET j == JobOf[arg["io"]]
  IN  /\ MayLock("io")
      /\ pc["io"] = "jobdone"
      /\ IF HasJobCompleted(j) THEN HandleJobCompletion(j) ELSE UNCHANGED edsVars
      /\ Goto("io", "idle", None)
      /\ UNCHANGED <<lock, proc, msgs>>

JobCompletion ==
  LET j == JobOf[arg["io"]]
  IN  /\ MayLock("io")
      /\ pc["io"] = "jobdone"
      /\ IF HasJobCompleted(j) THEN HandleJobCompletion(j) ELSE UNCHANGED edsVars
      /\ Goto("io", "schedule", j)
      /\ UNCHANGED <<lock, proc, msgs>>

(* HandleTaskFailure, for a message or for the health monitor. *)
TaskFailure(h) ==
  LET t == arg[h]
  IN  /\ MayLock(h)
      /\ pc[h] = "failure"
      /\ SimpleHandleTaskFailure(t)
      /\ proc' = [proc EXCEPT ![t] = "none"]
      /\ IF h = "io" THEN Goto(h, "schedule", JobOf[t]) ELSE Goto(h, "idle", None)
      /\ lock' = None
      /\ UNCHANGED msgs

BeingHandled(t) == \E h \in Threads : pc[h] \in {"completion", "failure"} /\ arg[h] = t

FinalMessagePending(t) == \E s \in TaskStates : StateMsg(t, s) \in msgs

(* Mutant: the lock is released between the check and the verdict. *)
CheckHealthWithoutLock(t) ==
  /\ MayLock("health")
  /\ pc["health"] = "idle"
  /\ proc[t] = "exited"
  /\ taskState[t] # "COMPLETED"
  /\ LateMessages \/ ~(FinalMessagePending(t) \/ BeingHandled(t))
  /\ Goto("health", "failure", t)
  /\ UNCHANGED <<edsVars, lock, proc, msgs>>

(* CheckRunningTasksHealth finds that the process of t has gone and that    *)
(* its last heartbeat is older than the timeout, by which time a final      *)
(* message has been handled unless messages are late.                      *)
CheckRunningTasksHealth(t) ==
  /\ MayLock("health")
  /\ pc["health"] = "idle"
  /\ proc[t] = "exited"
  /\ taskState[t] # "COMPLETED"
  /\ LateMessages \/ ~(FinalMessagePending(t) \/ BeingHandled(t))
  /\ Goto("health", "failure", t)
  /\ lock' = "health"
  /\ UNCHANGED <<edsVars, proc, msgs>>

(* The call of ScheduleJob that ends most handlers; a placed task starts on *)
(* a local PU, or is sent to the coordinator of a remote one.              *)
RunScheduler(h) ==
  /\ MayLock(h)
  /\ pc[h] = "schedule"
  /\ ScheduleJob(arg[h])
  /\ proc' = [t \in Tasks |->
       CASE taskBinding'[t] \in {None, taskBinding[t]}           -> proc[t]
         [] taskBinding'[t] \in Remote \ {None, taskBinding[t]}  -> "requested"
         [] OTHER                                                -> "alive"]
  /\ Goto(h, "idle", None)
  /\ lock' = None
  /\ UNCHANGED msgs

-----------------------------------------------------------------------------
(* The environment. *)

Send(m) == msgs' = msgs \cup {m} /\ UNCHANGED <<edsVars, pc, arg, lock>>

(* A task spawns one of its children (TaskLib::Spawn). *)
TaskSpawns(c) ==
  /\ c \notin Submitted
  /\ proc[Parent[c]] = "alive"
  /\ taskState[c] = "ABSENT"
  /\ Send(SpawnMsg(c))
  /\ UNCHANGED proc

(* A task process ends and says how (TaskLib::SendFinalizeMessage). *)
TaskEnds(t, s) ==
  /\ proc[t] = "alive"
  /\ Send(StateMsg(t, s))
  /\ proc' = [proc EXCEPT ![t] = "exited"]

(* A task process dies, or its final message is lost. *)
TaskCrashes(t) ==
  /\ TasksCrash
  /\ proc[t] = "alive"
  /\ proc' = [proc EXCEPT ![t] = "exited"]
  /\ UNCHANGED <<edsVars, pc, arg, lock, msgs>>

(* Another coordinator answers a delegation request. *)
RemoteAnswers(t, ok) ==
  /\ proc[t] = "requested"
  /\ Send(DelegationMsg(t, ok))
  /\ proc' = [proc EXCEPT ![t] = IF ok THEN "accepted" ELSE "none"]

(* ... and forwards the state change that ends the task. *)
RemoteTaskEnds(t, s) ==
  /\ proc[t] = "accepted"
  /\ Send(StateMsg(t, s))
  /\ proc' = [proc EXCEPT ![t] = "none"]

-----------------------------------------------------------------------------

EndStates == {"COMPLETED", "ABORTED", "FAILED"}

IoThread ==
  \/ \E t \in Tasks : \/ \E s \in EndStates : HandleTaskStateChange(t, s)
                      \/ HandleTaskSpawn(t)
                      \/ \E ok \in BOOLEAN : HandleTaskDelegationResponse(t, ok)
  \/ TaskCompletion
  \/ JobCompletion
  \/ TaskDelegationSuccess
  \/ TaskFailure("io")
  \/ RunScheduler("io")

HealthThread == TaskFailure("health") \/ \E t \in Tasks : CheckRunningTasksHealth(t)

(* What every process does in the end, and what it may do besides. *)
ProcessEnds(t) ==
  \/ \E s \in {"COMPLETED", "ABORTED"} : TaskEnds(t, s)
  \/ \E ok \in BOOLEAN : RemoteAnswers(t, ok)
  \/ \E s \in EndStates : RemoteTaskEnds(t, s)

Next ==
  \/ \E j \in Jobs : SubmitJob(j) \/ KillRunningJob(j)
  \/ RunScheduler("http")
  \/ IoThread
  \/ HealthThread
  \/ \E t \in Tasks : ProcessEnds(t) \/ TaskSpawns(t) \/ TaskCrashes(t)

Spec == Init /\ [][Next]_vars

(***************************************************************************)
(* Fairness: a thread that can go on does so, and a task's process ends.   *)
(* Nobody is obliged to submit or kill a job, to spawn a task or to crash. *)
(***************************************************************************)
FairSpec ==
  /\ Spec
  /\ WF_vars(IoThread)
  /\ WF_vars(RunScheduler("http"))
  /\ WF_vars(HealthThread)
  /\ \A t \in Tasks : WF_vars(ProcessEnds(t))

-----------------------------------------------------------------------------

(* Descriptor and bindings agree although the coordinator changes task      *)
(* states outside the lock: a RUNNING task is bound, and a bound task is    *)
(* RUNNING or DELEGATED unless a thread is about to unbind it.              *)
BindingMatchesState ==
  \A t \in Tasks :
    /\ taskState[t] = "RUNNING" => taskBinding[t] # None
    /\ taskBinding[t] # None => taskState[t] \in {"RUNNING", "DELEGATED"} \/ BeingHandled(t)

(* A RUNNABLE task is in the runnable set of its job, the only place         *)
(* ScheduleJob looks, and no task in such a set is still bound.             *)
RunnableTaskIsQueued ==
  \A t \in Tasks :
    /\ taskState[t] = "RUNNABLE" => t \in runnable[JobOf[t]]
    /\ \A j \in Jobs : t \in runnable[j] => JobOf[t] = j /\ taskBinding[t] = None

(* Once HandleJobCompletion has run, the job holds no PU and has nothing     *)
(* left that ScheduleJob, which the coordinator calls next, could place.     *)
CompletedJobIsQuiet ==
  \A t \in Tasks : jobState[JobOf[t]] = "COMPLETED" =>
    taskBinding[t] = None /\ t \notin runnable[JobOf[t]]

(* A PU does not stay bound to a task whose process has gone, whether the    *)
(* process reported its end or not.                                         *)
DeadTaskFreesPU ==
  \A t \in Tasks : (proc[t] = "exited" /\ taskBinding[t] # None) ~> (taskBinding[t] = None)

(* Every job that is submitted completes in the end, unless one of its tasks *)
(* failed: no interleaving of the threads loses the last completion.        *)
JobsComplete ==
  \A j \in Jobs : jobState[j] # "ABSENT" ~>
    \/ jobState[j] = "COMPLETED"
    \/ \E t \in Tasks : JobOf[t] = j /\ taskState[t] = "FAILED"

(* "No suitable resource found, will need to try again": a RUNNABLE task     *)
(* does not wait for ever while other tasks come and go.                    *)
WaitingTaskIsTriedAgain == \A t \in Tasks : taskState[t] = "RUNNABLE" ~> taskState[t] # "RUNNABLE"

(* A task that has completed stays completed: later state changes are        *)
(* "spurious".                                                              *)
CompletedIsFinal ==
  [][\A t \in Tasks : taskState[t] = "COMPLETED" => taskState'[t] = "COMPLETED"]_vars

=============================================================================
