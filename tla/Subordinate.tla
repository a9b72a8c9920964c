----------------------------- MODULE Subordinate ----------------------------
(***************************************************************************)
(* A coordinator that other coordinators delegate tasks to                 *)
(* (src/engine/coordinator.cc), down to its sockets and task processes.    *)
(* Coordinator.tla models the delegating side and treats this one as its   *)
(* environment; here it is the other way round.  The threads are           *)
(*                                                                         *)
(*   main       AwaitNextMessage in a loop (StreamSockets);                *)
(*   delegator  the I/O thread of the channel to the parent coordinator;   *)
(*   server     the I/O thread of all accepted connections, which are      *)
(*              those of task processes;                                   *)
(*   http       the web interface, which submits local jobs;               *)
(*   health     the HealthMonitor;                                         *)
(*                                                                         *)
(* and one handler thread per running task (LocalExecutor).  pc says what  *)
(* a thread does next, arg for what; lock is the thread that keeps         *)
(* scheduling_lock_ between two of its steps, which is how long RunTask    *)
(* takes.                                                                  *)
(***************************************************************************)
EXTENDS SimpleScheduler, LocalExecutor, StreamSockets, Naturals

CONSTANTS
  Delegated,     \* the tasks of the parent coordinator
  Address,       \* the parent's address
  Environments   \* the situations to consider

(* A local job is its root task alone. *)
ASSUME SubordinateAssumption ==
  /\ Delegated \subseteq Tasks
  /\ Channels = Tasks \cup {Delegator}
  /\ \A t \in Tasks : Parent[t] = None
  /\ \A e \in Environments :
       /\ {e.parent, e.listen} \subseteq Names    \* FLAGS_parent_uri here, FLAGS_listen_uri there
       /\ e.tasks \subseteq Tasks                \* the tasks that are delegated or submitted
       /\ e.requests \in Nat                     \* bound: how often the parent tries a task
       /\ {e.leaves, e.breaks, e.mishaps} \subseteq BOOLEAN
             \* whether the parent may leave, connections may break, forks and waits go wrong

VARIABLES
  pc, arg, lock,
  env,       \* the environment, fixed at the start
  request,   \* what the parent knows of a task it delegates
  raced      \* the PUs that were taken between PlaceDelegatedTask's check and its lock

pcVars == <<pc, arg, lock>>
vars == <<edsVars, executorVars, socketVars, pcVars, env, request, raced>>

NoRequest == [state |-> "none", target |-> None, last |-> None, tries |-> 0]
RequestMsg(t, r, last) == [type |-> "request", task |-> t, target |-> r, last |-> last]
StateMsg(t) == [type |-> "state", task |-> t, state |-> "COMPLETED"]

Threads == {"delegator", "server", "http"}

Init ==
  /\ EdsInit
  /\ ExecutorInit
  /\ env \in Environments
  /\ SocketsInit(env.parent, Address)
  /\ pc = [h \in Threads |-> "idle"]
  /\ arg = [h \in Threads |-> <<>>]
  /\ lock = "none"
  /\ request = [t \in Delegated |-> NoRequest]
  /\ raced = {}

Goto(h, s, a) == pc' = [pc EXCEPT ![h] = s] /\ arg' = [arg EXCEPT ![h] = a]

At(h, s) == Alive /\ pc[h] = s

MayLock(h) == lock \in {"none", h}

IoThread(c) == IF c = Delegator THEN "delegator" ELSE "server"

(* The process stops. *)
Stops(check) ==
  /\ Fail(check)
  /\ UNCHANGED <<executorVars, socketVars, pcVars, env, request, raced>>

(* A handler returns; an I/O thread then finishes the receive. *)
Return(h) == Goto(h, IF h = "http" THEN "idle" ELSE "erase", arg[h])

-----------------------------------------------------------------------------
(* Messages. *)

AcceptConnection(c) ==
  /\ At("server", "idle")
  /\ conn[c] # "none" /\ stage[c] = "new"
  /\ IF AcceptFails(c) # "none" THEN MutexesFree /\ Stops(AcceptFails(c))
     ELSE HandleAccept(c) /\ UNCHANGED <<edsVars, executorVars, pcVars, env, request, raced>>

ReceiveSize(c) ==
  /\ At(IoThread(c), "idle")
  /\ RecvASecondStage(c)
  /\ UNCHANGED <<edsVars, executorVars, pcVars, env, request, raced>>

(* Mutant: the envelope is dropped before the handler runs. *)
ReceiveBodyAndErase(c) ==
  LET h == IoThread(c)
  IN  /\ At(h, "idle")
      /\ MutexesFree
      /\ stage[c] = "body" /\ Head(wire[c]).type # "torn"
      /\ wire' = [wire EXCEPT ![c] = Tail(@)]
      /\ stage' = [stage EXCEPT ![c] = "handling"]
      /\ envelopes' = envelopes \ {c}
      /\ Goto(h, Head(wire[c]).type, [chan |-> c, msg |-> Head(wire[c])])
      /\ UNCHANGED <<conn, endpoint, channelMap, connections, blocked>>
      /\ UNCHANGED <<edsVars, executorVars, lock, env, request, raced>>

ReceiveBody(c) ==
  LET h == IoThread(c)
  IN  /\ At(h, "idle")
      /\ IF c \notin envelopes
         THEN stage[c] = "body" /\ Stops("HandleAsyncMessageRecv_envelope")
         ELSE /\ RecvAThirdStage(c)
              /\ Goto(h, Head(wire[c]).type, [chan |-> c, msg |-> Head(wire[c])])
              /\ UNCHANGED <<edsVars, executorVars, lock, env, request, raced>>

ReceiveError(c) ==
  LET name == RemoteEndpointString(c, env.parent)
  IN  /\ At(IoThread(c), "idle")
      /\ ReceiveFails(c)
      /\ IF name \notin DOMAIN channelMap \cup {NoName}
         THEN MutexesFree /\ Stops("HandleAsyncMessageRecv_endpoint")
         ELSE HandleReceiveError(c, name)
              /\ UNCHANGED <<edsVars, executorVars, pcVars, env, request, raced>>

FinishReceive(h) ==
  LET c == arg[h].chan
  IN  /\ Alive
      /\ \/ pc[h] = "erase" /\ EraseEnvelope(c) /\ Goto(h, "unlock", arg[h])
         \/ pc[h] = "unlock" /\ UnlockReceive(c) /\ Goto(h, "idle", <<>>)
      /\ UNCHANGED <<edsVars, executorVars, lock, env, request, raced>>

-----------------------------------------------------------------------------
(* Placement. *)

(* HandleTaskPlacement up to the wait in RunTask, from task states st and   *)
(* runnable sets ready.  The lock stays with the thread.                   *)
StartTask(h, t, r, st, ready) ==
  /\ taskState' = st
  /\ taskBinding' = [taskBinding EXCEPT ![t] = r]
  /\ resBindings' = resBindings \cup {<<r, t>>}
  /\ resState' = [resState EXCEPT ![r] = "BUSY"]
  /\ running' = [running EXCEPT ![r] = @ \cup {t}]
  /\ runnable' = [j \in Jobs |-> ready[j] \ {t}]
  /\ RunTask(t)
  /\ Goto(h, "run", arg[h])
  /\ lock' = h

StartFails(t) ==
  CASE taskBinding[t] # None  -> "BindTaskToResource_unbound"
    [] handler[t] # "none"    -> "RunTask_handler"
    [] OTHER                  -> "none"

(* RunTask returns to ExecuteTask; a local job is RUNNING now. *)
TaskStarted(h) ==
  LET t == waiter.task
  IN  /\ At(h, "run")
      /\ lock = h
      /\ waiter.phase = "woken"
      /\ waiter' = NoWaiter
      /\ taskState' = [taskState EXCEPT ![t] = "RUNNING"]
      /\ scheduledTo' = [scheduledTo EXCEPT ![t] = taskBinding[t]]
      /\ jobState' = IF t \in Delegated THEN jobState ELSE [jobState EXCEPT ![JobOf[t]] = "RUNNING"]
      /\ lock' = "none"
      /\ IF t \in Delegated THEN Goto(h, "accepted", arg[h]) ELSE Return(h)
      /\ UNCHANGED <<producing, runnable, taskBinding, resBindings, resState, running, failedCheck>>
      /\ UNCHANGED <<handler, process, socketVars, env, request, raced>>

(* The state the resource had when it was looked at. *)
Saw(m) == [chan |-> Delegator, msg |-> m, saw |-> resState[m.target]]

(* Mutant: the state of the resource is not looked at. *)
CheckKnownOnly ==
  LET m == arg["delegator"].msg
  IN  /\ At("delegator", "request")
      /\ Goto("delegator", IF Registered(m.target) THEN "place" ELSE "refused", Saw(m))
      /\ UNCHANGED <<edsVars, executorVars, socketVars, lock, env, request, raced>>

(* HandleTaskDelegationRequest and PlaceDelegatedTask: first the check, ... *)
CheckResource ==
  LET m == arg["delegator"].msg
  IN  /\ At("delegator", "request")
      /\ Goto("delegator", IF Registered(m.target) /\ resState[m.target] = "IDLE"
                           THEN "place" ELSE "refused", Saw(m))
      /\ UNCHANGED <<edsVars, executorVars, socketVars, lock, env, request, raced>>

(* ... then, under the lock, the placement.  The task map keeps a descriptor *)
(* it already has.                                                         *)
PlaceDelegatedTask ==
  LET m == arg["delegator"].msg
      t == m.task
  IN  /\ At("delegator", "place")
      /\ MayLock("delegator")
      /\ IF StartFails(t) # "none" THEN Stops(StartFails(t))
         ELSE /\ StartTask("delegator", t, m.target, [taskState EXCEPT ![t] = "RUNNABLE"], runnable)
              /\ scheduledTo' = [scheduledTo EXCEPT ![t] = m.last]
              /\ raced' = IF resState[m.target] # "IDLE" /\ arg["delegator"].saw = "IDLE"
                          THEN raced \cup {m.target} ELSE raced
              /\ UNCHANGED <<jobState, producing, failedCheck, socketVars, env, request>>

(* What the parent then knows of the task. *)
Told(t, news) ==
  [request[t] EXCEPT !.state = news, !.last = request[t].target,
                     !.target = IF news = "accepted" THEN @ ELSE None]

(* SendMessageToEndpoint: what the parent learns if the adapter has a       *)
(* channel under that name, and nothing otherwise.                         *)
TellParent(name, t, news) ==
  request' = IF name \in DOMAIN channelMap /\ conn[channelMap[name]] = "open"
             THEN [request EXCEPT ![t] = Told(t, news)]
             ELSE request

(* The ACK or NACK goes to the endpoint that the request came from. *)
AnswerRequest ==
  LET h == "delegator"
      t == arg[h].msg.task
  IN  /\ Alive
      /\ pc[h] \in {"accepted", "refused"}
      /\ MutexesFree
      /\ IF request[t].state = "ended" THEN UNCHANGED request   \* overtaken
         ELSE TellParent(RemoteEndpointString(Delegator, env.parent), t, pc[h])
      /\ Return(h)
      /\ UNCHANGED <<edsVars, executorVars, socketVars, lock, env, raced>>

(* ScheduleJob for a local job. *)
RunScheduler(h) ==
  LET j     == IF h = "http" THEN arg[h].job ELSE JobOf[arg[h].msg.task]
      red   == Reduction(taskState, producing, j)
      ready == ComputeRunnableTasks(red)
  IN  /\ At(h, "schedule")
      /\ MayLock(h)
      /\ \E p \in Placements(ready[j]) :
           IF DOMAIN p = {}
           THEN /\ taskState' = Reduced(taskState, red)
                /\ runnable' = ready
                /\ Return(h)
                /\ UNCHANGED <<taskBinding, resBindings, resState, running, executorVars, lock, failedCheck>>
           ELSE \E t \in DOMAIN p :
                  IF StartFails(t) # "none"
                  THEN /\ failedCheck' = StartFails(t)
                       /\ UNCHANGED <<taskState, runnable, taskBinding, resBindings, resState, running>>
                       /\ UNCHANGED <<executorVars, pcVars>>
                  ELSE StartTask(h, t, p[t], Reduced(taskState, red), ready) /\ UNCHANGED failedCheck
      /\ UNCHANGED <<jobState, producing, scheduledTo, socketVars, env, request, raced>>

(* SubmitJob up to its call of ScheduleJob. *)
SubmitJob(j) ==
  /\ At("http", "idle")
  /\ jobState[j] = "ABSENT"
  /\ \A t \in Tasks : JobOf[t] = j => t \in env.tasks \ Delegated
  /\ jobState' = [jobState EXCEPT ![j] = "CREATED"]
  /\ taskState' = [t \in Tasks |-> IF JobOf[t] = j THEN "CREATED" ELSE taskState[t]]
  /\ Goto("http", "schedule", [job |-> j])
  /\ UNCHANGED <<producing, runnable, bindingVars, failedCheck, lock>>
  /\ UNCHANGED <<executorVars, socketVars, env, request, raced>>

-----------------------------------------------------------------------------
(* The end of a task. *)

(* HandleTaskStateChange, without the lock. *)
HandleTaskStateChange ==
  LET m == arg["server"].msg
  IN  /\ At("server", "state")
      /\ IF taskState[m.task] \in {"FAILED", "ABORTED", "COMPLETED"}
         THEN Return("server") /\ UNCHANGED taskState
         ELSE /\ Goto("server", "clear", arg["server"])
              /\ taskState' = [taskState EXCEPT ![m.task] = m.state]
      /\ UNCHANGED <<jobState, producing, runnable, bindingVars, failedCheck, lock>>
      /\ UNCHANGED <<executorVars, socketVars, env, request, raced>>

(* SimpleScheduler::HandleTaskCompletion reads the descriptor and clears    *)
(* the PU's list before the inherited handler takes the lock.              *)
ClearRunningTasks ==
  LET t == arg["server"].msg.task
  IN  /\ At("server", "clear")
      /\ IF ~Registered(scheduledTo[t]) THEN Stops("HandleTaskCompletion_descriptor")
         ELSE /\ running' = ClearedLists(t)
              /\ Goto("server", "complete", arg["server"])
              /\ UNCHANGED <<taskState, jobState, producing, runnable, taskBinding, resBindings,
                             resState, scheduledTo, failedCheck, lock>>
              /\ UNCHANGED <<executorVars, socketVars, env, request, raced>>

CleanUp(t) ==
  /\ CleanUpCompletedTask(t)
  /\ IF process[t] \in {"alive", "reported"} THEN PeerLeaves(t, "eof", <<>>) ELSE UNCHANGED socketVars

CompleteTask ==
  LET t == arg["server"].msg.task
  IN  /\ At("server", "complete")
      /\ MayLock("server")
      /\ IF taskBinding[t] # None /\ CleanUpFails(t) THEN Stops("CleanUpCompletedTask_pid")
         ELSE /\ HandleTaskCompletion(t, running)
              /\ IF taskBinding[t] # None THEN CleanUp(t) ELSE UNCHANGED <<executorVars, socketVars>>
              /\ Goto("server", IF t \in Delegated THEN "forward" ELSE "jobdone", arg["server"])
              /\ UNCHANGED <<lock, env, request, raced>>

(* The message is forwarded to the name in the descriptor's delegated_from, *)
(* the parent's own listen_uri.                                            *)
ForwardStateChange ==
  /\ At("server", "forward")
  /\ MutexesFree
  /\ TellParent(env.listen, arg["server"].msg.task, "ended")
  /\ Return("server")
  /\ UNCHANGED <<edsVars, executorVars, socketVars, lock, env, raced>>

(* HandleJobCompletion for a local job: its only task has completed. *)
CompleteJob ==
  LET j == JobOf[arg["server"].msg.task]
  IN  /\ At("server", "jobdone")
      /\ MayLock("server")
      /\ HandleJobCompletion(j)
      /\ Goto("server", "schedule", arg["server"])
      /\ UNCHANGED <<executorVars, socketVars, lock, env, request, raced>>

FinalMessagePending(t) ==
  \/ \E i \in DOMAIN wire[t] : wire[t][i].type # "torn"
  \/ pc["server"] # "idle" /\ arg["server"].msg.task = t

(* CheckRunningTasksHealth; a final message is handled within the timeout. *)
(* HandleTaskFailure does not tell the parent.                             *)
CheckRunningTasksHealth(t) ==
  /\ Alive
  /\ lock = "none"
  /\ HandlerHasExited(t)
  /\ taskState[t] # "COMPLETED"
  /\ ~FinalMessagePending(t)
  /\ IF CleanUpFails(t) THEN Stops("CleanUpCompletedTask_pid")
     ELSE /\ SimpleHandleTaskFailure(t)
          /\ CleanUp(t)
          /\ UNCHANGED <<pcVars, env, request, raced>>

-----------------------------------------------------------------------------
(* Task processes and the parent coordinator. *)

(* TaskLib connects, from an address that no live connection uses. *)
TaskConnects(t) ==
  /\ process[t] = "alive"
  /\ \E name \in {t} \cup {endpoint[u] : u \in {v \in Tasks : conn[v] \in {"reset", "closed"}}} :
       /\ \A u \in Tasks : conn[u] \in {"open", "eof"} => endpoint[u] # name
       /\ Connect(t, name)
  /\ UNCHANGED <<edsVars, executorVars, pcVars, env, request, raced>>

(* SendFinalizeMessage.  (ABORTED is for tasks that were told to stop, which *)
(* a SimpleScheduler never does.)                                          *)
TaskReports(t) ==
  /\ process[t] = "alive"
  /\ PeerSends(t, StateMsg(t))
  /\ process' = [process EXCEPT ![t] = "reported"]
  /\ UNCHANGED <<edsVars, handler, waiter, pcVars, env, request, raced>>

(* The process exits.  One that exits before it has connected, or crashes,  *)
(* leaves no final message behind, at most the beginning of one.           *)
TaskExits(t, how, rest) ==
  /\ process[t] = "alive" \/ (process[t] = "reported" /\ rest = <<>>)
  /\ process' = [process EXCEPT ![t] = "gone"]
  /\ PeerLeaves(t, how, rest)
  /\ UNCHANGED <<edsVars, handler, waiter, pcVars, env, request, raced>>

(* What the parent knows of a task it has just delegated. *)
Asked(t, r) == [request[t] EXCEPT !.state = "sent", !.target = r, !.tries = @ + 1]

(* RemoteExecutor::RunTask at the parent, which thinks the PU is idle. *)
ParentRequests(t, r) ==
  /\ request[t].state \in {"none", "refused"}
  /\ t \in env.tasks /\ request[t].tries < env.requests
  /\ \A u \in Delegated : request[u].target # r
  /\ request' = [request EXCEPT ![t] = Asked(t, r)]
  /\ PeerSends(Delegator, RequestMsg(t, r, request[t].last))
  /\ UNCHANGED <<edsVars, executorVars, pcVars, env, raced>>

ParentCloses(how) ==
  /\ env.leaves
  /\ conn[Delegator] = "open"
  /\ PeerLeaves(Delegator, how, <<>>)
  /\ UNCHANGED <<edsVars, executorVars, pcVars, env, request, raced>>

-----------------------------------------------------------------------------

Endings == {"eof"} \cup (IF env.breaks THEN {"reset"} ELSE {})

(* What may be left of a last message. *)
Rests == {<<>>} \cup (IF env.breaks THEN {<<Torn>>} ELSE {})

MainThread ==
  /\ Alive
  /\ RecvA \/ \E c \in Channels : AwaitNextMessage(c)
  /\ UNCHANGED <<edsVars, executorVars, pcVars, env, request, raced>>

Receive(c) == ReceiveSize(c) \/ ReceiveBody(c) \/ ReceiveError(c)

Waits(h) ==
  /\ At(h, "run") /\ lock = h
  /\ WaitForNotification
  /\ UNCHANGED <<edsVars, socketVars, pcVars, env, request, raced>>

Scheduling(h) == RunScheduler(h) \/ Waits(h) \/ TaskStarted(h)

DelegatorThread ==
  \/ Receive(Delegator) \/ FinishReceive("delegator")
  \/ CheckResource \/ PlaceDelegatedTask \/ AnswerRequest
  \/ Waits("delegator") \/ TaskStarted("delegator")

ServerThread ==
  \/ \E c \in Tasks : AcceptConnection(c) \/ Receive(c)
  \/ FinishReceive("server")
  \/ HandleTaskStateChange \/ ClearRunningTasks \/ CompleteTask
  \/ ForwardStateChange \/ CompleteJob \/ Scheduling("server")

HealthThread == \E t \in Tasks : CheckRunningTasksHealth(t)

HandlerThread(t) ==
  /\ Alive
  /\ Fork(t) \/ Notify(t) \/ HandlerExits(t)
  /\ UNCHANGED <<edsVars, socketVars, pcVars, env, request, raced>>

Mishap ==
  /\ Alive
  /\ env.mishaps
  /\ SpuriousWakeup \/ \E t \in Tasks : ForkFails(t)
  /\ UNCHANGED <<edsVars, socketVars, pcVars, env, request, raced>>

TaskProcess(t) ==
  \/ TaskConnects(t) \/ TaskReports(t)
  \/ \E how \in Endings, rest \in Rests : TaskExits(t, how, rest)

Obliged ==
  \/ MainThread \/ DelegatorThread \/ ServerThread \/ HealthThread
  \/ Scheduling("http")
  \/ \E t \in Tasks : HandlerThread(t) \/ TaskProcess(t)

Next ==
  \/ Obliged
  \/ \E j \in Jobs : SubmitJob(j)
  \/ Mishap
  \/ \E t \in Delegated, r \in Resources : ParentRequests(t, r)
  \/ \E how \in Endings : ParentCloses(how)

(***************************************************************************)
(* Fairness: nothing stops while a thread or a task process can go on.     *)
(* (Requests, jobs and processes are finitely many, so no behaviour goes   *)
(* on for ever and a thread cannot be passed over for good.)  Nobody is    *)
(* obliged to submit a job, to delegate a task or to close a connection,   *)
(* and nothing has to go wrong.                                            *)
(***************************************************************************)
Spec == Init /\ [][Next]_vars /\ WF_vars(Obliged)

-----------------------------------------------------------------------------

(***************************************************************************)
(* "This assumes no PU sharing": a PU has more than one task, or counts as *)
(* idle while it has one, only after a local task took it between the idle *)
(* check of PlaceDelegatedTask and its lock.  No other interleaving of the *)
(* five threads puts two tasks on a PU.                                    *)
(***************************************************************************)
SharingOnlyByRace ==
  \A r \in Resources \ raced :
    /\ \A t, u \in BoundTasksForResource(r) : t = u
    /\ resState[r] = "IDLE" => BoundTasksForResource(r) = {}

(* The ways in which the process can stop:                                 *)
(* - a task reports its end before RunTask has returned, so that its       *)
(*   descriptor names no PU yet;                                           *)
(* - a task whose fork failed is cleaned up;                               *)
(* - a connection was reset before it was accepted, or an earlier one from *)
(*   the same endpoint was reset and its name never dropped;               *)
(* - the parent closes a connection that was made under another name than  *)
(*   its address.                                                          *)
KnownFailure ==
  \/ failedCheck = "HandleTaskCompletion_descriptor" /\ waiter.task = arg["server"].msg.task
  \/ failedCheck = "CleanUpCompletedTask_pid" /\ \E t \in Tasks : handler[t] = "failed"
  \/ failedCheck = "TCPConnection_Start" /\ \E c \in Tasks : conn[c] = "reset" /\ stage[c] = "new"
  \/ /\ failedCheck = "HandleAccept_endpoint"
     /\ \E c, d \in Tasks :
          /\ endpoint[c] = endpoint[d] /\ stage[d] = "new"
          /\ conn[c] = "reset" \/ (stage[c] = "dead" /\ c \in envelopes)
  \/ failedCheck = "HandleAsyncMessageRecv_endpoint" /\ env.parent # Address

Excused == conn[Delegator] # "open" \/ NeverNotified \/ KnownFailure

(***************************************************************************)
(* Every delegation request is answered and every end that a delegated     *)
(* task reports is forwarded, whatever the threads and the other           *)
(* connections do, as long as the parent stays connected, under a name the *)
(* adapter finds again, RunTask's notification is not lost and none of the *)
(* known failures happens.                                                 *)
(***************************************************************************)
RequestsAnswered ==
  \A t \in Delegated :
    /\ request[t].state = "sent" ~> request[t].state # "sent" \/ env.parent # Address \/ Excused
    /\ FinalMessagePending(t) ~> request[t].state = "ended" \/ env.listen # env.parent \/ Excused

=============================================================================
