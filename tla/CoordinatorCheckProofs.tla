----------------------- MODULE CoordinatorCheckProofs -----------------------
(***************************************************************************)
(* Proofs about Coordinator, continued: no CHECK of the scheduler fails, a *)
(* completed job is quiet, and a busy PU has its task.                     *)
(***************************************************************************)
EXTENDS CoordinatorStateProofs

(* A step that names no prover is Zenon's.                                  *)
USE ZenonT(60)

(* Where messages may be later than the timeout, no PU is remote.           *)
Timely == LateMessages => Remote = {}

(* What a job promises is an output of one of its submitted tasks.          *)
OutputsProduced ==
  \A j \in Jobs : \A o \in JobOutputs[j] :
    \E t \in Submitted : JobOf[t] = j /\ o \in Outputs[t]

-----------------------------------------------------------------------------
(* The invariants. *)

(* Every placement is reported once, and only while it lasts, as long as no *)
(* message is late; where messages may be late, nobody reports FAILED.      *)
ReportInv ==
  IF LateMessages
  THEN /\ pc["io"] # "failure"
       /\ \A t \in Tasks : /\ proc[t] \notin {"requested", "accepted"}
                           /\ StateMsg(t, "FAILED") \notin msgs /\ ~Refused(t)
  ELSE /\ \A t \in Tasks : Reported(t) =>
            taskBinding[t] # None /\ proc[t] \in {"exited", "none"} /\ ~Refused(t)
       /\ \A t \in Tasks : \A s, u \in EndStates :
            StateMsg(t, s) \in msgs /\ StateMsg(t, u) \in msgs => s = u
       /\ pc["io"] \in {"completion", "failure"} =>
            \A s \in EndStates : StateMsg(arg["io"], s) \notin msgs
       /\ pc["health"] = "failure" => ~Reported(arg["health"])

(* Every promised output of a submitted job has a known producer in the job. *)
ProducerInv ==
  \A j \in Jobs : jobState[j] # "ABSENT" =>
    \A o \in JobOutputs[j] : \E t \in producing[o] : taskState[t] # "ABSENT" /\ JobOf[t] = j

(* With NoSharedObjects, Timely and OutputsProduced. *)
CheckInv == StateInv /\ ProcessInv /\ ReportInv /\ ProducerInv /\ NoFailedCheck

-----------------------------------------------------------------------------
(* Reports. *)

(* The part of ReportInv for late messages is kept where no PU is remote.   *)
LEMMA NextReportLate ==
  ASSUME LateMessages, Remote = {}, StateInv, ReportInv, [Next]_vars
  PROVE  ReportInv'
<1> DEFINE Quiet == \A u \in Tasks : /\ proc[u] \notin {"requested", "accepted"}
                                     /\ StateMsg(u, "FAILED") \notin msgs /\ ~Refused(u)
<1>inv. /\ TypeOK /\ EdsTypeOK /\ ArgOK /\ ThreadInv /\ TaskInv /\ HistoryInv /\ PUsRegistered
        /\ pc["io"] # "failure" /\ Quiet
  BY DEF StateInv, HistoryInv, BindingInv, TypeOK, ReportInv
<1>threads. "io" \in Threads /\ "http" \in Threads /\ "health" \in Threads
  BY DEF Threads
<1>goto. ASSUME NEW h \in Threads, NEW s, NEW a, Goto(h, s, a), h = "io" => s # "failure"
         PROVE  pc'["io"] # "failure"
  BY <1>goto, <1>inv, <1>threads DEF Goto, TypeOK
<1> SUFFICES pc'["io"] # "failure" /\ Quiet'
  BY DEF ReportInv
<1>1. ASSUME \A u \in Tasks : proc'[u] \in {proc[u], "none", "exited", "alive"}, msgs' \subseteq msgs
      PROVE  Quiet'
  BY <1>1, <1>inv DEF Refused
<1>2. ASSUME NEW j \in Jobs, SubmitJob(j) \/ KillRunningJob(j) PROVE pc'["io"] # "failure" /\ Quiet'
  <2>1. UNCHANGED <<proc, msgs>> /\ (Goto("http", "schedule", j) \/ UNCHANGED <<pc, arg>>)
    BY <1>2 DEF SubmitJob, KillRunningJob
  <2> QED BY <1>1, <1>goto, <1>inv, <1>threads, <2>1
<1>3. ASSUME NEW t \in Tasks, NEW s \in EndStates, HandleTaskStateChange(t, s)
      PROVE  pc'["io"] # "failure" /\ Quiet'
  <2>1. /\ StateMsg(t, s) \in msgs /\ proc' = proc /\ msgs' \subseteq msgs
        /\ UNCHANGED <<pc, arg>> \/ Goto("io", IF s = "FAILED" THEN "failure" ELSE "completion", t)
    BY <1>3 DEF HandleTaskStateChange, Arrives
  <2>2. s # "FAILED"
    BY <1>inv, <2>1
  <2> QED BY <1>1, <1>goto, <1>inv, <1>threads, <2>1, <2>2
<1>4. ASSUME NEW c \in Tasks, HandleTaskSpawn(c) PROVE pc'["io"] # "failure" /\ Quiet'
  <2>1. proc' = proc /\ msgs' \subseteq msgs /\ Goto("io", "schedule", JobOf[c])
    BY <1>4 DEF HandleTaskSpawn, Arrives
  <2> QED BY <1>1, <1>goto, <1>threads, <2>1
<1>5. ASSUME NEW t \in Tasks, NEW ok \in BOOLEAN, HandleTaskDelegationResponse(t, ok)
      PROVE  pc'["io"] # "failure" /\ Quiet'
  <2>1. /\ proc' = proc /\ msgs' \subseteq msgs
        /\ Goto("io", "delegated", t) \/ Goto("io", "schedule", JobOf[t])
    BY <1>5 DEF HandleTaskDelegationResponse, Arrives
  <2> QED BY <1>1, <1>goto, <1>threads, <2>1
<1>6. ASSUME TaskCompletion PROVE pc'["io"] # "failure" /\ Quiet'
  <2>1. msgs' = msgs /\ proc' \in {proc, [proc EXCEPT ![arg["io"]] = "none"]}
          /\ Goto("io", "jobdone", arg["io"])
    BY <1>6 DEF TaskCompletion
  <2> QED BY <1>1, <1>goto, <1>inv, <1>threads, <2>1 DEF TypeOK
<1>7. ASSUME TaskFailure("health") PROVE pc'["io"] # "failure" /\ Quiet'
  <2>1. msgs' = msgs /\ proc' = [proc EXCEPT ![arg["health"]] = "none"] /\ Goto("health", "idle", None)
    BY <1>7 DEF TaskFailure
  <2> QED BY <1>1, <1>goto, <1>inv, <1>threads, <2>1 DEF TypeOK
<1>8. ASSUME TaskFailure("io") PROVE FALSE
  BY <1>8, <1>inv DEF TaskFailure
<1>9. ASSUME TaskDelegationSuccess \/ JobCompletion PROVE pc'["io"] # "failure" /\ Quiet'
  <2>1. UNCHANGED <<proc, msgs>> /\ \E x \in {"idle", "schedule"} : \E a : Goto("io", x, a)
    BY <1>9, SMTT(30) DEF TaskDelegationSuccess, JobCompletion
  <2> QED BY <1>1, <1>goto, <1>threads, <2>1
<1>10. ASSUME NEW t \in Tasks, CheckRunningTasksHealth(t) PROVE pc'["io"] # "failure" /\ Quiet'
  <2>1. UNCHANGED <<proc, msgs>> /\ Goto("health", "failure", t)
    BY <1>10 DEF CheckRunningTasksHealth
  <2> QED BY <1>1, <1>goto, <1>threads, <2>1
<1>11. ASSUME NEW h \in {"io", "http"}, RunScheduler(h) PROVE pc'["io"] # "failure" /\ Quiet'
  <2>1. Goto(h, "idle", None) /\ msgs' = msgs
    BY <1>11 DEF RunScheduler
  <2>2. \A u \in Tasks : proc'[u] \in {proc[u], "alive"}
    BY <1>11, <1>inv, RunSchedulerEffect
  <2> QED BY <1>1, <1>goto, <1>threads, <2>1, <2>2
<1>12. ASSUME NEW t \in Tasks, ProcessEnds(t) \/ TaskSpawns(t) \/ TaskCrashes(t)
       PROVE  pc'["io"] # "failure" /\ Quiet'
  <2>1. pc' = pc
    BY <1>12, <1>inv, EnvironmentEffect
  <2>2. \A u \in Tasks : proc'[u] \notin {"requested", "accepted"}
    BY <1>12, <1>inv, EnvironmentEffect DEF TypeOK
  <2>3. \A u \in Tasks : StateMsg(u, "FAILED") \notin msgs' /\ ~Refused(u)'
    BY <1>12, <1>inv, EnvironmentMessages DEF EndStates
  <2> QED BY <1>inv, <2>1, <2>2, <2>3
<1>13. ASSUME UNCHANGED vars PROVE pc'["io"] # "failure" /\ Quiet'
  BY <1>1, <1>13, <1>inv DEF vars
<1>14. CASE IoThread
  BY <1>3, <1>4, <1>5, <1>6, <1>8, <1>9, <1>11, <1>14 DEF IoThread
<1>15. CASE HealthThread
  BY <1>7, <1>10, <1>15 DEF HealthThread
<1> QED BY <1>2, <1>11, <1>12, <1>13, <1>14, <1>15 DEF Next

(* ... and the other part wherever a failure verdict waits for reports.     *)
LEMMA NextReportTimely ==
  ASSUME ~LateMessages, StateInv, ProcessInv, ReportInv, [Next]_vars
  PROVE  ReportInv'
<1> DEFINE Lasting == \A u \in Tasks : Reported(u) =>
             taskBinding[u] # None /\ proc[u] \in {"exited", "none"} /\ ~Refused(u)
           Once == \A u \in Tasks : \A s, v \in EndStates :
             StateMsg(u, s) \in msgs /\ StateMsg(u, v) \in msgs => s = v
           Last == pc["io"] \in {"completion", "failure"} =>
             \A s \in EndStates : StateMsg(arg["io"], s) \notin msgs
           Apart == pc["health"] = "failure" => ~Reported(arg["health"])
           Good == Lasting /\ Once /\ Last /\ Apart
<1>inv. /\ TypeOK /\ EdsTypeOK /\ ArgOK /\ ThreadInv /\ TaskInv /\ HistoryInv /\ PUsRegistered
        /\ Good
  BY DEF StateInv, HistoryInv, BindingInv, TypeOK, ReportInv
<1>proc. /\ \A u \in Tasks : /\ proc[u] # "none" => taskBinding[u] # None
                             /\ Refused(u) => taskBinding[u] # None /\ proc[u] = "none"
         /\ pc["health"] = "failure" => proc[arg["health"]] = "exited"
  BY DEF ProcessInv
<1>threads. "io" \in Threads /\ "http" \in Threads /\ "health" \in Threads
  BY DEF Threads
<1>idle. \A h \in {"io", "http"} : MayLock(h) => pc["health"] = "idle"
  BY <1>inv, CoordinatorAssumption DEF MayLock, ThreadInv
<1>goto. ASSUME NEW h \in Threads, NEW s, NEW a, Goto(h, s, a)
         PROVE  /\ pc'[h] = s /\ arg'[h] = a
                /\ \A g \in Threads \ {h} : pc'[g] = pc[g] /\ arg'[g] = arg[g]
  BY <1>goto, <1>inv DEF Goto, TypeOK
<1>arg. pc["io"] \in {"completion", "failure"} => arg["io"] \in Tasks
  BY <1>inv, <1>threads DEF ArgOK
<1>harg. pc["health"] = "failure" => arg["health"] \in Tasks
  BY <1>inv, <1>threads DEF ArgOK
<1> SUFFICES Good'
  BY DEF ReportInv
<1>1. ASSUME msgs' \subseteq msgs,
             \A u \in Tasks : Reported(u)' =>
               Reported(u) /\ taskBinding'[u] = taskBinding[u] /\ proc'[u] = proc[u],
             Last', Apart'
      PROVE  Good'
  <2>1. Lasting'
    BY <1>1, <1>inv DEF Refused
  <2>2. Once'
    BY <1>1, <1>inv
  <2> QED BY <1>1, <2>1, <2>2
<1>2. ASSUME UNCHANGED <<taskBinding, proc>>, msgs' \subseteq msgs,
             \/ pc'["io"] \notin {"completion", "failure"}
             \/ pc'["io"] = pc["io"] /\ arg'["io"] = arg["io"],
             pc'["health"] = pc["health"] /\ arg'["health"] = arg["health"]
      PROVE  Good'
  <2>1. \A u : Reported(u)' => Reported(u)
    BY <1>2 DEF Reported
  <2>2. Last'
    BY <1>2, <1>inv
  <2>3. Apart'
    BY <1>2, <1>inv, <2>1
  <2> QED BY <1>1, <1>2, <2>1, <2>2, <2>3
<1>3. ASSUME NEW j \in Jobs, SubmitJob(j) \/ KillRunningJob(j) PROVE Good'
  <2>1. UNCHANGED <<taskBinding, proc, msgs>> /\ (Goto("http", "schedule", j) \/ UNCHANGED <<pc, arg>>)
    BY <1>3 DEF SubmitJob, KillRunningJob, bindingVars
  <2>2. pc'["io"] = pc["io"] /\ arg'["io"] = arg["io"]
          /\ pc'["health"] = pc["health"] /\ arg'["health"] = arg["health"]
    BY <1>goto, <1>threads, <2>1
  <2> QED BY <1>2, <2>1, <2>2
<1>4. ASSUME NEW t \in Tasks, NEW s \in EndStates, HandleTaskStateChange(t, s) PROVE Good'
  <2>1. /\ StateMsg(t, s) \in msgs /\ UNCHANGED <<taskBinding, proc>> /\ msgs' = msgs \ {StateMsg(t, s)}
        /\ UNCHANGED <<pc, arg>> \/ \E x : Goto("io", x, t)
        /\ pc["io"] = "idle"
    BY <1>4 DEF HandleTaskStateChange, Arrives, bindingVars
  <2>2. CASE UNCHANGED <<pc, arg>>
    BY <1>2, <2>1, <2>2
  <2>3. ASSUME NEW x, Goto("io", x, t) PROVE Good'
    <3>1. arg'["io"] = t /\ pc'["health"] = pc["health"] /\ arg'["health"] = arg["health"]
      BY <1>goto, <1>threads, <2>3
    <3>2. Reported(t) /\ \A u : Reported(u)' => Reported(u)
      BY <2>1, <3>1 DEF Reported
    <3>3. Last'
      BY <1>inv, <2>1, <3>1
    <3>4. Apart'
      BY <1>inv, <1>harg, <3>1, <3>2
    <3> QED BY <1>1, <2>1, <3>2, <3>3, <3>4
  <2> QED BY <2>1, <2>2, <2>3
<1>5. ASSUME NEW c \in Tasks, HandleTaskSpawn(c) PROVE Good'
  <2>1. UNCHANGED <<taskBinding, proc>> /\ msgs' \subseteq msgs /\ Goto("io", "schedule", JobOf[c])
    BY <1>5 DEF HandleTaskSpawn, Arrives, bindingVars
  <2>2. pc'["io"] = "schedule" /\ pc'["health"] = pc["health"] /\ arg'["health"] = arg["health"]
    BY <1>goto, <1>threads, <2>1
  <2> QED BY <1>2, <2>1, <2>2
<1>6. ASSUME NEW t \in Tasks, msgs' \subseteq msgs, ~Reported(t)',
             pc'["io"] \notin {"completion", "failure"}
               \/ (pc'["io"] = pc["io"] /\ arg'["io"] = arg["io"]),
             pc'["health"] = "idle",
             \A u \in Tasks \ {t} : taskBinding'[u] = taskBinding[u] /\ proc'[u] = proc[u]
      PROVE  Good'
  <2>1. \A u : Reported(u)' => Reported(u)
    BY <1>6 DEF Reported
  <2>2. Last' /\ Apart'
    BY <1>6, <1>inv
  <2>3. \A u \in Tasks : Reported(u)' => u # t
    BY <1>6
  <2> QED BY <1>1, <1>6, <2>1, <2>2, <2>3
<1>7. ASSUME NEW t \in Tasks, NEW ok \in BOOLEAN, HandleTaskDelegationResponse(t, ok) PROVE Good'
  <2>0. /\ proc' = proc /\ msgs' = msgs \ {DelegationMsg(t, ok)} /\ DelegationMsg(t, ok) \in msgs
        /\ pc["io"] = "idle"
    BY <1>7 DEF HandleTaskDelegationResponse, Arrives
  <2>1. CASE ok = TRUE
    <3>1. UNCHANGED taskBinding /\ Goto("io", "delegated", t)
      BY <1>7, <2>1 DEF HandleTaskDelegationResponse, bindingVars
    <3>2. pc'["io"] = "delegated" /\ pc'["health"] = pc["health"] /\ arg'["health"] = arg["health"]
      BY <1>goto, <1>threads, <3>1
    <3> QED BY <1>2, <2>0, <3>1, <3>2
  <2>2. CASE ok = FALSE
    <3>1. /\ HandleTaskDelegationFailure(t) /\ Goto("io", "schedule", JobOf[t])
          /\ Refused(t) /\ MayLock("io")
      BY <1>7, <2>0, <2>2 DEF HandleTaskDelegationResponse, Refused
    <3>2. Unbound(t)
      BY <1>inv, <1>proc, <3>1, DelegationFailureEffect
    <3>3. pc'["io"] = "schedule" /\ pc'["health"] = "idle"
      BY <1>goto, <1>idle, <1>threads, <3>1
    <3>4. \A u \in Tasks \ {t} : taskBinding'[u] = taskBinding[u]
      BY <1>inv, <3>2 DEF Unbound, EdsTypeOK
    <3>5. ~Reported(t)'
      <4>1. ~Reported(t)
        BY <1>inv, <3>1
      <4> QED BY <2>0, <3>3, <4>1 DEF Reported
    <3> QED BY <1>6, <2>0, <3>3, <3>4, <3>5
  <2> QED BY <2>1, <2>2
<1>8. ASSUME TaskCompletion PROVE Good'
  <2>0. PICK t \in Tasks : t = arg["io"]
    BY <1>8, <1>arg DEF TaskCompletion
  <2>1. /\ Started(t) /\ SimpleHandleTaskCompletion(t) /\ msgs' = msgs
        /\ proc' \in {proc, [proc EXCEPT ![t] = "none"]} /\ pc["io"] = "completion"
        /\ Goto("io", "jobdone", t) /\ MayLock("io")
    BY <1>8, <1>inv, <1>threads, <2>0 DEF TaskCompletion, ThreadInv
  <2>2. pc'["io"] = "jobdone" /\ pc'["health"] = "idle"
    BY <1>goto, <1>idle, <1>threads, <2>1
  <2>3. ~Reported(t)'
    <3>1. \A s \in EndStates : StateMsg(t, s) \notin msgs
      BY <1>inv, <2>0, <2>1
    <3> QED BY <2>1, <2>2, <3>1 DEF Reported
  <2>4. Unbound(t)
    BY <1>inv, <2>1, CompletionEffect, SMTT(30)
  <2>5. \A u \in Tasks \ {t} : taskBinding'[u] = taskBinding[u] /\ proc'[u] = proc[u]
    BY <1>inv, <2>1, <2>4 DEF Unbound, EdsTypeOK, TypeOK
  <2> QED BY <1>6, <2>1, <2>2, <2>3, <2>5
<1>9. ASSUME NEW h \in {"io", "health"}, TaskFailure(h) PROVE Good'
  <2>0. PICK t \in Tasks : t = arg[h]
    BY <1>9, <1>arg, <1>harg DEF TaskFailure
  <2>1. /\ Started(t) /\ SimpleHandleTaskFailure(t) /\ msgs' = msgs
        /\ proc' = [proc EXCEPT ![t] = "none"] /\ MayLock(h) /\ pc[h] = "failure"
        /\ IF h = "io" THEN Goto(h, "schedule", JobOf[t]) ELSE Goto(h, "idle", None)
    BY <1>9, <1>inv, <1>threads, <2>0 DEF TaskFailure, ThreadInv
  <2>2. /\ \/ pc'["io"] = "schedule"
           \/ h = "health" /\ pc'["io"] = pc["io"] /\ arg'["io"] = arg["io"]
        /\ pc'["health"] = "idle"
    <3>1. CASE h = "io"
      BY <1>goto, <1>idle, <1>threads, <2>1, <3>1
    <3>2. CASE h = "health"
      BY <1>goto, <1>threads, <2>1, <3>2
    <3> QED BY <3>1, <3>2
  <2>3. ~Reported(t)'
    <3>1. \A s \in EndStates : StateMsg(t, s) \notin msgs
      BY <1>inv, <2>0, <2>1 DEF Reported
    <3>2. h = "health" => ~(pc["io"] \in {"completion", "failure"} /\ arg["io"] = t)
      BY <1>inv, <2>0, <2>1 DEF Reported
    <3> QED BY <2>1, <2>2, <3>1, <3>2 DEF Reported
  <2>4. taskBinding' = taskBinding \/ Unbound(t)
    BY <1>inv, <2>1, FailureEffect DEF Fail, bindingVars
  <2>5. \A u \in Tasks \ {t} : taskBinding'[u] = taskBinding[u] /\ proc'[u] = proc[u]
    BY <1>inv, <2>1, <2>4 DEF Unbound, EdsTypeOK, TypeOK
  <2> QED BY <1>6, <2>1, <2>2, <2>3, <2>5
<1>10. ASSUME TaskDelegationSuccess \/ JobCompletion PROVE Good'
  <2>1. UNCHANGED <<taskBinding, proc, msgs>> /\ \E x \in {"idle", "schedule"} : \E a : Goto("io", x, a)
    BY <1>10, SMTT(30) DEF TaskDelegationSuccess, HandleTaskDelegationSuccess, JobCompletion,
                           HandleJobCompletion, edsVars, bindingVars
  <2>2. /\ pc'["io"] \in {"idle", "schedule"} /\ pc'["health"] = pc["health"]
        /\ arg'["health"] = arg["health"]
    BY <1>goto, <1>threads, <2>1
  <2> QED BY <1>2, <2>1, <2>2
<1>11. ASSUME NEW t \in Tasks, CheckRunningTasksHealth(t) PROVE Good'
  <2>1. /\ UNCHANGED <<taskBinding, proc, msgs>> /\ Goto("health", "failure", t)
        /\ ~FinalMessagePending(t) /\ ~BeingHandled(t)
    BY <1>11 DEF CheckRunningTasksHealth, edsVars
  <2>2. arg'["health"] = t /\ pc'["io"] = pc["io"] /\ arg'["io"] = arg["io"]
    BY <1>goto, <1>threads, <2>1
  <2>3. ~Reported(t)
    BY <1>threads, <2>1 DEF FinalMessagePending, BeingHandled, Reported, EndStates, TaskStates
  <2>4. \A u : Reported(u)' <=> Reported(u)
    BY <2>1, <2>2 DEF Reported
  <2>5. Last'
    BY <1>inv, <2>1, <2>2
  <2> QED BY <1>1, <2>1, <2>2, <2>3, <2>4, <2>5
<1>12. ASSUME NEW h \in {"io", "http"}, RunScheduler(h) PROVE Good'
  <2>1. msgs' = msgs /\ pc["health"] = "idle" /\ Goto(h, "idle", None)
    BY <1>12, <1>inv, RunSchedulerEffect
  <2>2. /\ pc'["io"] = "idle" \/ (pc'["io"] = pc["io"] /\ arg'["io"] = arg["io"])
        /\ pc'["health"] = "idle"
    BY <1>goto, <1>threads, <2>1
  <2>3. \A u : Reported(u)' => Reported(u)
    BY <2>1, <2>2 DEF Reported
  <2>4. \A u \in Tasks : taskBinding[u] # None => taskBinding'[u] = taskBinding[u] /\ proc'[u] = proc[u]
    BY <1>12, <1>inv, RunSchedulerEffect DEF Fail, bindingVars, Schedules
  <2>5. Last' /\ Apart'
    BY <1>inv, <2>1, <2>2
  <2>6. \A u \in Tasks : Reported(u) => taskBinding[u] # None
    BY <1>inv
  <2> QED BY <1>1, <2>1, <2>3, <2>4, <2>5, <2>6
<1>13. ASSUME NEW t \in Tasks, ProcessEnds(t) \/ TaskSpawns(t) \/ TaskCrashes(t) PROVE Good'
  <2>1. UNCHANGED <<taskBinding, pc, arg>>
    BY <1>13, <1>inv, EnvironmentEffect DEF edsVars
  <2>2. /\ \A u \in Tasks \ {t} : proc'[u] = proc[u]
        /\ proc'[t] # proc[t] => proc[t] \in {"alive", "requested", "accepted"}
    BY <1>13, <1>inv, EnvironmentEffect DEF TypeOK
  <2>3. \A u \in Tasks, s \in EndStates : StateMsg(u, s) \in msgs' =>
          \/ StateMsg(u, s) \in msgs
          \/ /\ u = t /\ proc[t] \in {"alive", "accepted"} /\ proc'[t] \in {"exited", "none"}
             /\ msgs' = msgs \cup {StateMsg(t, s)}
    BY <1>13, <1>inv, EnvironmentMessages
  <2>4. \A u \in Tasks : Refused(u)' => Refused(u) \/ (u = t /\ proc[t] = "requested")
    BY <1>13, <1>inv, EnvironmentMessages
  <2>5. proc[t] \in {"alive", "requested", "accepted"} => ~Reported(t)
    BY <1>inv
  <2>6. \A u \in Tasks : Reported(u)' =>
          Reported(u) \/ (u = t /\ proc[t] \in {"alive", "accepted"} /\ proc'[t] \in {"exited", "none"})
    BY <2>1, <2>3 DEF Reported
  <2>7. Lasting'
    <3> SUFFICES ASSUME NEW u \in Tasks, Reported(u)'
                 PROVE  taskBinding'[u] # None /\ proc'[u] \in {"exited", "none"} /\ ~Refused(u)'
      OBVIOUS
    <3>1. CASE Reported(u)
      BY <1>inv, <2>1, <2>2, <2>4, <2>5, <3>1
    <3>2. CASE u = t /\ proc[t] \in {"alive", "accepted"} /\ proc'[t] \in {"exited", "none"}
      BY <1>proc, <2>1, <2>4, <3>2
    <3> QED BY <2>6, <3>1, <3>2
  <2>8. Once'
    <3> SUFFICES ASSUME NEW u \in Tasks, NEW s \in EndStates, NEW v \in EndStates,
                        StateMsg(u, s) \in msgs', StateMsg(u, v) \in msgs'
                 PROVE  s = v
      OBVIOUS
    <3>1. CASE StateMsg(u, s) \in msgs /\ StateMsg(u, v) \in msgs
      BY <1>inv, <3>1
    <3>2. ASSUME NEW x \in EndStates, NEW y \in EndStates, StateMsg(u, x) \in msgs', StateMsg(u, y) \in msgs',
                 StateMsg(u, x) \notin msgs
          PROVE  y = x
      <4>1. u = t /\ ~Reported(t) /\ msgs' = msgs \cup {StateMsg(t, x)}
        BY <2>3, <2>5, <3>2
      <4>2. StateMsg(t, y) \notin msgs
        BY <4>1 DEF Reported
      <4> QED BY <3>2, <4>1, <4>2, MessagesDiffer
    <3> QED BY <3>1, <3>2
  <2>9. Last'
    <3> SUFFICES ASSUME pc["io"] \in {"completion", "failure"}, NEW s \in EndStates,
                        StateMsg(arg["io"], s) \in msgs'
                 PROVE  FALSE
      BY <2>1
    <3>1. Reported(arg["io"]) /\ arg["io"] \in Tasks
      BY <1>arg DEF Reported
    <3> QED BY <1>inv, <2>3, <2>5, <3>1
  <2>10. Apart'
    <3> SUFFICES ASSUME pc["health"] = "failure" PROVE ~Reported(arg["health"])'
      BY <2>1
    <3> QED BY <1>inv, <1>harg, <1>proc, <2>1, <2>6
  <2> QED BY <2>7, <2>8, <2>9, <2>10
<1>14. ASSUME UNCHANGED vars PROVE Good'
  BY <1>2, <1>14, SMTT(30) DEF vars, edsVars
<1>15. CASE IoThread
  BY <1>4, <1>5, <1>7, <1>8, <1>9, <1>10, <1>12, <1>15 DEF IoThread
<1>16. CASE HealthThread
  BY <1>9, <1>11, <1>16 DEF HealthThread
<1> QED BY <1>3, <1>12, <1>13, <1>14, <1>15, <1>16 DEF Next

-----------------------------------------------------------------------------
(* CHECKs. *)

(* ScheduleJob places no task twice and finds a producer for every output.  *)
LEMMA ScheduleChecksPass ==
  ASSUME StateInv, ProducerInv, NEW h \in {"io", "http"}, RunScheduler(h)
  PROVE  \E D, R, K \in SUBSET Tasks : Schedules(arg[h], D, R, K)
<1>inv. /\ HistoryInv /\ ThreadInv /\ TaskInv /\ EdsTypeOK /\ BindingMatchesState /\ RunnableTaskIsQueued
  BY DEF StateInv, HistoryInv, BindingInv, TypeOK
<1>threads. h \in Threads /\ Threads = {"io", "http", "health"}
  BY DEF Threads
<1>1. pc[h] = "schedule" /\ arg[h] \in Jobs /\ pc["health"] = "idle"
  BY <1>inv, RunSchedulerEffect
<1>2. jobState[arg[h]] # "ABSENT"
  <2>1. CASE h = "http"
    BY <1>inv, <1>1, <2>1 DEF ThreadInv
  <2>2. CASE h = "io"
    <3>1. PICK t \in Tasks : JobOf[t] = arg["io"] /\ Started(t)
      BY <1>inv, <1>1, <2>2 DEF ThreadInv
    <3> QED BY <1>inv, <2>2, <3>1 DEF TaskInv
  <2> QED BY <2>1, <2>2
<1>3. ASSUME NEW o \in JobOutputs[arg[h]]
      PROVE  ProducingTasksForDataObjectID(taskState, producing, o, arg[h]) # {}
  <2>1. PICK t \in producing[o] : taskState[t] # "ABSENT" /\ JobOf[t] = arg[h]
    BY <1>1, <1>2, <1>3 DEF ProducerInv
  <2> QED BY <2>1 DEF ProducingTasksForDataObjectID
<1>4. ASSUME NEW t \in Tasks, taskBinding[t] # None
      PROVE  /\ t \notin runnable[arg[h]]
             /\ ~(taskState[t] \in {"CREATED", "BLOCKING", "FAILED", "COMPLETED"} /\ JobOf[t] = arg[h])
  <2>1. t \notin runnable[arg[h]]
    BY <1>inv, <1>1, <1>4 DEF RunnableTaskIsQueued
  <2>2. taskState[t] \in {"CREATED", "BLOCKING", "FAILED", "COMPLETED"} => BeingHandled(t)
    BY <1>inv, <1>4 DEF BindingMatchesState
  <2>3. CASE h = "io"
    <3>1. ~BeingHandled(t)
      BY <1>inv, <1>threads, <1>1, <2>3 DEF BeingHandled, ThreadInv
    <3> QED BY <2>1, <2>2, <3>1
  <2>4. CASE h = "http"
    <3>1. Started(t)
      BY <1>inv, <1>4 DEF TaskInv, Started
    <3> QED BY <1>inv, <1>1, <2>1, <2>4, <3>1 DEF ThreadInv
  <2> QED BY <2>3, <2>4
<1> QED BY <1>inv, <1>3, <1>4, RunSchedulerEffect

(* A producer of every promised output stays known. *)
LEMMA NextProducerInv ==
  ASSUME OutputsProduced, StateInv, ProducerInv, [Next]_vars
  PROVE  ProducerInv'
<1>inv. /\ TypeOK /\ EdsTypeOK /\ ArgOK /\ ThreadInv
        /\ TaskInv /\ HistoryInv /\ PUsRegistered /\ MessageInv
  BY DEF StateInv, HistoryInv, BindingInv, TypeOK
<1>threads. "io" \in Threads /\ "http" \in Threads /\ "health" \in Threads
  BY DEF Threads
<1>jobof. \A t \in Tasks : JobOf[t] \in Jobs
  BY TaskTreeAssumption, SMTT(30)
<1>outs. \A j \in Jobs : JobOutputs[j] \subseteq Objects
  BY ObjectsAssumption
<1>type. \A o \in Objects : producing[o] \subseteq Tasks
  BY <1>inv DEF EdsTypeOK
<1>known. \A t \in Tasks : Started(t) => taskState[t] # "ABSENT" /\ jobState[JobOf[t]] # "ABSENT"
  BY <1>inv DEF TaskInv
<1>1. ASSUME producing' = producing,
             \A t \in Tasks : taskState'[t] = "ABSENT" => taskState[t] = "ABSENT",
             \A j \in Jobs : jobState'[j] # "ABSENT" => jobState[j] # "ABSENT"
      PROVE  ProducerInv'
  BY <1>1, <1>outs, <1>type DEF ProducerInv
<1>2. ASSUME NEW j \in Jobs, SubmitJob(j) PROVE ProducerInv'
  <2> DEFINE new == {t \in Submitted : JobOf[t] = j}
  <2>1. /\ jobState' = [jobState EXCEPT ![j] = "CREATED"]
        /\ taskState' = [t \in Tasks |-> IF t \in new THEN "CREATED" ELSE taskState[t]]
        /\ producing' = [o \in Objects |-> producing[o] \cup {t \in new : o \in Outputs[t]}]
    BY <1>2 DEF SubmitJob
  <2>2. \A k \in Jobs \ {j} : jobState'[k] = jobState[k]
    BY <1>inv, <2>1 DEF EdsTypeOK
  <2>3. ASSUME NEW k \in Jobs, jobState'[k] # "ABSENT", NEW o \in JobOutputs[k]
        PROVE  \E t \in producing'[o] : taskState'[t] # "ABSENT" /\ JobOf[t] = k
    <3>0. o \in Objects
      BY <1>outs, SMTT(30)
    <3>1. CASE k = j
      <4>1. PICK t \in Submitted : JobOf[t] = j /\ o \in Outputs[t]
        BY <3>1 DEF OutputsProduced
      <4>2. t \in Tasks /\ t \in new
        BY <4>1, CoordinatorAssumption, SMTT(30)
      <4> QED BY <2>1, <3>0, <3>1, <4>1, <4>2
    <3>2. CASE k # j
      <4>1. PICK t \in producing[o] : taskState[t] # "ABSENT" /\ JobOf[t] = k
        BY <2>2, <2>3, <3>2, SMTT(30) DEF ProducerInv
      <4>2. t \in Tasks /\ t \notin new
        BY <1>type, <3>0, <3>2, <4>1
      <4> QED BY <2>1, <3>0, <4>1, <4>2
    <3> QED BY <3>1, <3>2
  <2> QED BY <2>3 DEF ProducerInv
<1>3. ASSUME NEW j \in Jobs, KillRunningJob(j) PROVE ProducerInv'
  <2>1. /\ producing' = producing /\ jobState[j] # "ABSENT"
        /\ jobState' = [jobState EXCEPT ![j] = "ABORTED"]
        /\ \A t \in Tasks : taskState'[t] \in {taskState[t], "ABORTED"}
    BY <1>3 DEF KillRunningJob
  <2> QED BY <1>1, <1>inv, <2>1 DEF EdsTypeOK
<1>4. ASSUME NEW t \in Tasks, NEW s \in EndStates, HandleTaskStateChange(t, s) PROVE ProducerInv'
  <2>1. UNCHANGED <<producing, jobState>> /\ taskState' \in {taskState, [taskState EXCEPT ![t] = s]}
    BY <1>4 DEF HandleTaskStateChange
  <2> QED BY <1>1, <1>inv, <2>1, SMTT(30) DEF EdsTypeOK, EndStates
<1>5. ASSUME NEW c \in Tasks, HandleTaskSpawn(c) PROVE ProducerInv'
  <2>1. /\ SpawnMsg(c) \in msgs /\ jobState' = jobState
        /\ taskState' = [taskState EXCEPT ![c] = "CREATED"]
        /\ producing' = [o \in Objects |->
             IF o \in Outputs[c] /\ Parent[c] \in producing[o]
             THEN (producing[o] \ {Parent[c]}) \cup {c} ELSE producing[o]]
    BY <1>5 DEF HandleTaskSpawn, Arrives
  <2>2. JobOf[Parent[c]] = JobOf[c]
    BY <1>inv, <2>1, CoordinatorAssumption, TaskTreeAssumption DEF MessageInv
  <2>3. taskState'[c] = "CREATED" /\ \A t \in Tasks : taskState[t] # "ABSENT" => taskState'[t] # "ABSENT"
    BY <1>inv, <2>1 DEF EdsTypeOK
  <2>4. ASSUME NEW k \in Jobs, jobState'[k] # "ABSENT", NEW o \in JobOutputs[k]
        PROVE  \E t \in producing'[o] : taskState'[t] # "ABSENT" /\ JobOf[t] = k
    <3>0. o \in Objects
      BY <1>outs
    <3>1. PICK t \in producing[o] : taskState[t] # "ABSENT" /\ JobOf[t] = k
      BY <2>1, <2>4 DEF ProducerInv
    <3>2. t \in Tasks
      BY <1>type, <3>0, <3>1
    <3>3. t \in producing'[o] \/ (t = Parent[c] /\ c \in producing'[o])
      BY <2>1, <3>0, <3>1
    <3> QED BY <2>2, <2>3, <3>1, <3>2, <3>3
  <2> QED BY <2>4 DEF ProducerInv
<1>6. ASSUME NEW t \in Tasks, NEW ok \in BOOLEAN, HandleTaskDelegationResponse(t, ok) PROVE ProducerInv'
  <2>1. CASE ok = TRUE
    <3>1. UNCHANGED <<producing, jobState>> /\ taskState' = [taskState EXCEPT ![t] = "DELEGATED"]
      BY <1>6, <2>1 DEF HandleTaskDelegationResponse
    <3> QED BY <1>1, <1>inv, <3>1 DEF EdsTypeOK
  <2>2. CASE ok = FALSE
    <3>1. HandleTaskDelegationFailure(t)
      BY <1>6, <2>2 DEF HandleTaskDelegationResponse
    <3>2. /\ UNCHANGED <<producing, jobState>>
          /\ taskState' \in {taskState, [taskState EXCEPT ![t] = "RUNNABLE"]}
      BY <1>inv, <3>1, DelegationFailureEffect DEF Fail, Unbound
    <3> QED BY <1>1, <1>inv, <3>2 DEF EdsTypeOK
  <2> QED BY <2>1, <2>2
<1>7. ASSUME TaskCompletion PROVE ProducerInv'
  <2>0. PICK t \in Tasks : t = arg["io"]
    BY <1>7, <1>inv, <1>threads DEF TaskCompletion, ArgOK
  <2>1. Started(t) /\ SimpleHandleTaskCompletion(t)
    BY <1>7, <1>inv, <1>threads, <2>0 DEF TaskCompletion, ThreadInv
  <2>2. UNCHANGED <<producing, jobState>> /\ taskState' = [taskState EXCEPT ![t] = "COMPLETED"]
    BY <1>inv, <2>1, CompletionEffect DEF Unbound
  <2> QED BY <1>1, <1>inv, <2>2 DEF EdsTypeOK
<1>8. ASSUME NEW h \in {"io", "health"}, TaskFailure(h) PROVE ProducerInv'
  <2>0. PICK t \in Tasks : t = arg[h]
    BY <1>8, <1>inv, <1>threads DEF TaskFailure, ArgOK
  <2>1. Started(t) /\ SimpleHandleTaskFailure(t)
    BY <1>8, <1>inv, <1>threads, <2>0 DEF TaskFailure, ThreadInv
  <2>2. /\ UNCHANGED <<producing, jobState>>
        /\ taskState' \in {taskState, [taskState EXCEPT ![t] = "FAILED"]}
    BY <1>inv, <2>1, FailureEffect, SMTT(30) DEF Unbound, Fail
  <2> QED BY <1>1, <1>inv, <2>2 DEF EdsTypeOK
<1>9. ASSUME TaskDelegationSuccess PROVE ProducerInv'
  BY <1>1, <1>9 DEF TaskDelegationSuccess, HandleTaskDelegationSuccess
<1>10. ASSUME JobCompletion PROVE ProducerInv'
  <2>0. PICK t \in Tasks : t = arg["io"]
    BY <1>10, <1>inv, <1>threads DEF JobCompletion, ArgOK
  <2>1. /\ UNCHANGED <<producing, taskState>>
        /\ jobState' \in {jobState, [jobState EXCEPT ![JobOf[t]] = "COMPLETED"]}
    BY <1>10, <2>0 DEF JobCompletion, HandleJobCompletion, edsVars
  <2>2. jobState[JobOf[t]] # "ABSENT"
    BY <1>10, <1>inv, <1>known, <1>threads, <2>0 DEF JobCompletion, ThreadInv
  <2> QED BY <1>1, <1>inv, <1>jobof, <2>1, <2>2, SMTT(30) DEF EdsTypeOK
<1>11. ASSUME NEW h \in {"io", "http"}, RunScheduler(h) PROVE ProducerInv'
  <2>1. PICK D, R, K \in SUBSET Tasks : Schedules(arg[h], D, R, K)
    BY <1>11, ScheduleChecksPass
  <2>2. producing' = producing /\ \A t \in Tasks : taskState'[t] = "ABSENT" => taskState[t] = "ABSENT"
    BY <2>1 DEF Schedules
  <2>3. arg[h] \in Jobs /\ jobState[arg[h]] # "ABSENT"
    <3>1. pc[h] = "schedule" /\ arg[h] \in Jobs
      BY <1>11, <1>inv, RunSchedulerEffect
    <3> QED BY <1>inv, <1>known, <3>1, SMTT(30) DEF ThreadInv
  <2>4. jobState' = IF D = {} THEN jobState ELSE [jobState EXCEPT ![arg[h]] = "RUNNING"]
    BY <2>1 DEF Schedules
  <2>5. \A j \in Jobs : jobState'[j] # "ABSENT" => jobState[j] # "ABSENT"
    BY <1>inv, <2>3, <2>4, SMTT(30) DEF EdsTypeOK
  <2> QED BY <1>1, <2>2, <2>5
<1>12. ASSUME NEW t \in Tasks, CheckRunningTasksHealth(t) PROVE ProducerInv'
  BY <1>1, <1>12 DEF CheckRunningTasksHealth, edsVars
<1>13. ASSUME NEW t \in Tasks, ProcessEnds(t) \/ TaskSpawns(t) \/ TaskCrashes(t) PROVE ProducerInv'
  BY <1>1, <1>13, <1>inv, EnvironmentEffect DEF edsVars
<1>14. ASSUME UNCHANGED vars PROVE ProducerInv'
  BY <1>1, <1>14 DEF vars, edsVars
<1>15. CASE IoThread
  BY <1>4, <1>5, <1>6, <1>7, <1>8, <1>9, <1>10, <1>11, <1>15 DEF IoThread
<1>16. CASE HealthThread
  BY <1>8, <1>12, <1>16 DEF HealthThread
<1> QED BY <1>2, <1>3, <1>11, <1>13, <1>14, <1>15, <1>16 DEF Next

(* The initial states. *)
LEMMA InitCheckInv == Init => CheckInv
<1> SUFFICES ASSUME Init PROVE CheckInv
  OBVIOUS
<1>1. StateInv
  BY InitStateInv
<1> USE DEF Init, EdsInit, NothingSubmitted
<1>2. ProcessInv
  BY InitProcessInv
<1>3. ReportInv
  BY DEF ReportInv, Reported, Refused, Threads
<1>4. ProducerInv
  BY DEF ProducerInv
<1>5. NoFailedCheck
  BY DEF NoFailedCheck
<1> QED BY <1>1, <1>2, <1>3, <1>4, <1>5 DEF CheckInv

(* Every step keeps CheckInv: the handlers of a failure and of a refusal     *)
(* find the task bound, and ScheduleJob passes its CHECKs.                  *)
LEMMA NextCheckInv ==
  ASSUME NoSharedObjects, Timely, OutputsProduced, CheckInv, [Next]_vars
  PROVE  CheckInv'
<1>inv. /\ StateInv /\ ProcessInv /\ ReportInv /\ ProducerInv /\ NoFailedCheck
        /\ TypeOK /\ EdsTypeOK /\ ArgOK /\ ThreadInv /\ TaskInv /\ HistoryInv /\ PUsRegistered
  BY DEF CheckInv, StateInv, HistoryInv, BindingInv, TypeOK
<1>threads. "io" \in Threads /\ "http" \in Threads /\ "health" \in Threads
  BY DEF Threads
<1>arg. \A h \in Threads : pc[h] \in {"completion", "failure"} => arg[h] \in Tasks
  BY <1>inv DEF ArgOK
<1>1. ReportInv'
  BY <1>inv, NextReportLate, NextReportTimely DEF Timely
<1>2. ProducerInv'
  BY <1>inv, NextProducerInv
<1>3. StateInv'
  BY <1>inv, NextStateInv
<1>4. pc["io"] \in {"completion", "failure"} => ~Refused(arg["io"])
  BY <1>inv, <1>arg, <1>threads DEF ReportInv, Reported
<1>5. ProcessInv'
  BY <1>inv, <1>4, NextProcessInv
<1>6. ASSUME NEW h \in {"io", "health"}, pc[h] = "failure" PROVE taskBinding[arg[h]] # None
  <2>1. CASE h = "health"
    BY <1>inv, <1>arg, <1>threads, <1>6, <2>1 DEF ProcessInv
  <2>2. CASE h = "io"
    BY <1>inv, <1>arg, <1>threads, <1>6, <2>2 DEF ReportInv, Reported
  <2> QED BY <2>1, <2>2
<1>7. NoFailedCheck'
  <2>1. ASSUME failedCheck' = failedCheck PROVE NoFailedCheck'
    BY <1>inv, <2>1 DEF NoFailedCheck
  <2>2. ASSUME NEW j \in Jobs, SubmitJob(j) \/ KillRunningJob(j) PROVE NoFailedCheck'
    BY <2>1, <2>2 DEF SubmitJob, KillRunningJob
  <2>3. ASSUME NEW t \in Tasks, NEW s \in EndStates, HandleTaskStateChange(t, s) PROVE NoFailedCheck'
    BY <2>1, <2>3 DEF HandleTaskStateChange
  <2>4. ASSUME NEW c \in Tasks, HandleTaskSpawn(c) PROVE NoFailedCheck'
    BY <2>1, <2>4 DEF HandleTaskSpawn
  <2>5. ASSUME NEW t \in Tasks, NEW ok \in BOOLEAN, HandleTaskDelegationResponse(t, ok)
        PROVE  NoFailedCheck'
    <3>1. CASE ok = TRUE
      BY <2>1, <2>5, <3>1 DEF HandleTaskDelegationResponse
    <3>2. CASE ok = FALSE
      <4>1. HandleTaskDelegationFailure(t) /\ Refused(t)
        BY <2>5, <3>2 DEF HandleTaskDelegationResponse, Arrives, Refused
      <4>2. taskBinding[t] # None
        BY <1>inv, <4>1 DEF ProcessInv
      <4> QED BY <1>inv, <2>1, <4>1, <4>2, DelegationFailureEffect DEF Unbound
    <3> QED BY <3>1, <3>2
  <2>6. ASSUME TaskCompletion PROVE NoFailedCheck'
    <3>1. arg["io"] \in Tasks /\ Started(arg["io"]) /\ SimpleHandleTaskCompletion(arg["io"])
      BY <2>6, <1>inv, <1>arg, <1>threads DEF TaskCompletion, ThreadInv
    <3> QED BY <1>inv, <2>1, <3>1, CompletionEffect DEF Unbound
  <2>7. ASSUME NEW h \in {"io", "health"}, TaskFailure(h) PROVE NoFailedCheck'
    <3>1. arg[h] \in Tasks /\ Started(arg[h]) /\ SimpleHandleTaskFailure(arg[h]) /\ pc[h] = "failure"
      BY <2>7, <1>inv, <1>arg, <1>threads DEF TaskFailure, ThreadInv
    <3> QED BY <1>inv, <1>6, <2>1, <3>1, FailureEffect DEF Unbound
  <2>8. ASSUME TaskDelegationSuccess \/ JobCompletion PROVE NoFailedCheck'
    BY <2>1, <2>8 DEF TaskDelegationSuccess, HandleTaskDelegationSuccess, JobCompletion,
                                HandleJobCompletion, edsVars
  <2>9. ASSUME NEW h \in {"io", "http"}, RunScheduler(h) PROVE NoFailedCheck'
    <3>1. PICK D, R, K \in SUBSET Tasks : Schedules(arg[h], D, R, K)
      BY <1>inv, <2>9, ScheduleChecksPass
    <3> QED BY <2>1, <3>1 DEF Schedules
  <2>10. ASSUME NEW t \in Tasks, CheckRunningTasksHealth(t) PROVE NoFailedCheck'
    BY <2>1, <2>10, SMTT(30) DEF CheckRunningTasksHealth, edsVars
  <2>11. ASSUME NEW t \in Tasks, ProcessEnds(t) \/ TaskSpawns(t) \/ TaskCrashes(t) PROVE NoFailedCheck'
    BY <1>inv, <2>1, <2>11, EnvironmentEffect DEF edsVars
  <2>12. ASSUME UNCHANGED vars PROVE NoFailedCheck'
    BY <2>1, <2>12 DEF vars, edsVars
  <2>13. CASE IoThread
    BY <2>3, <2>4, <2>5, <2>6, <2>7, <2>8, <2>9, <2>13 DEF IoThread
  <2>14. CASE HealthThread
    BY <2>7, <2>10, <2>14 DEF HealthThread
  <2> QED BY <2>2, <2>9, <2>11, <2>12, <2>13, <2>14 DEF Next
<1> QED BY <1>1, <1>2, <1>3, <1>5, <1>7 DEF CheckInv

(* As long as jobs share no objects, promise only what their tasks write,    *)
(* and messages for remote PUs are not later than the timeout, no CHECK of  *)
(* the scheduler fails, in whatever order the threads call it.              *)
THEOREM ChecksNeverFail ==
  ASSUME NoSharedObjects, Timely, OutputsProduced
  PROVE  Spec => []NoFailedCheck
<1>1. CheckInv => NoFailedCheck
  BY DEF CheckInv
<1>2. CheckInv /\ [Next]_vars => CheckInv'
  BY NextCheckInv
<1> QED BY InitCheckInv, <1>1, <1>2, PTL DEF Spec

-----------------------------------------------------------------------------

(* A completed job is quiet, and no PU stays busy without a task. *)

(* With Remote = {}: nothing is delegated. *)
LocalInv ==
  /\ HistoryInv
  /\ \A t \in Tasks : /\ proc[t] \notin {"requested", "accepted"}
                      /\ \A ok \in BOOLEAN : DelegationMsg(t, ok) \notin msgs
  /\ BusyPUHasTask

(* With NoOutputs: a task whose end was reported is not placed again, ...    *)
ReportedIsOver ==
  \A t \in Tasks : Reported(t) => /\ taskState[t] \in {"RUNNING", "DELEGATED"} \cup EndStates
                                  /\ t \notin runnable[JobOf[t]]
                                  /\ proc[t] \in {"exited", "none"}
                                  /\ ~Refused(t)

(* ... while a child is announced its parent has not completed, and nobody  *)
(* is about to say so, ...                                                 *)
ParentWaits ==
  \A c \in Tasks : SpawnMsg(c) \in msgs =>
    /\ taskState[Parent[c]] \in {"RUNNING", "DELEGATED", "FAILED"}
    /\ Parent[c] \notin runnable[JobOf[c]]
    /\ proc[Parent[c]] \notin {"requested", "accepted"}
    /\ ~Refused(Parent[c])
    /\ ~(pc["io"] \in {"completion", "failure"} /\ arg["io"] = Parent[c])

(* ... and nothing of a completed job is on its way. *)
CompletedIsOver ==
  \A t \in Tasks : jobState[JobOf[t]] = "COMPLETED" =>
    /\ taskBinding[t] = None
    /\ t \notin runnable[JobOf[t]]
    /\ taskState[t] \notin {"CREATED", "RUNNABLE", "RUNNING"}
    /\ SpawnMsg(t) \notin msgs

NoneBlocks == \A t \in Tasks : taskState[t] # "BLOCKING"

QuietInv ==
  StateInv /\ ProcessInv /\ NoneBlocks /\ ReportedIsOver /\ ParentWaits /\ CompletedIsOver

-----------------------------------------------------------------------------
(* Busy PUs, where every PU is local. *)

(* In terms of task_bindings_. *)
LEMMA BusyByTask ==
  ASSUME EdsTypeOK, BindingsInverse
  PROVE  BusyPUHasTask <=>
           \A r \in Resources : resState[r] = "BUSY" => \E t \in Tasks : taskBinding[t] = r
BY DEF BusyPUHasTask, BoundTasksForResource, BindingsInverse

(* At the start every PU is idle. *)
LEMMA InitLocalInv == Init => LocalInv
<1> SUFFICES ASSUME Init PROVE LocalInv
  OBVIOUS
<1>1. HistoryInv
  BY InitHistoryInv
<1> USE DEF Init, EdsInit, NothingSubmitted
<1>2. BusyPUHasTask
  BY DEF BusyPUHasTask
<1> QED BY <1>1, <1>2 DEF LocalInv

(* Every step keeps LocalInv: nothing is delegated, so a PU is released in   *)
(* the step that unbinds its task.                                         *)
LEMMA NextLocalInv == Remote = {} /\ LocalInv /\ [Next]_vars => LocalInv'
<1> SUFFICES ASSUME Remote = {}, LocalInv, [Next]_vars PROVE LocalInv'
  OBVIOUS
<1> DEFINE Busy == \A r \in Resources : resState[r] = "BUSY" => \E t \in Tasks : taskBinding[t] = r
           Local == \A t \in Tasks : /\ proc[t] \notin {"requested", "accepted"}
                                     /\ \A ok \in BOOLEAN : DelegationMsg(t, ok) \notin msgs
<1>inv. /\ TypeOK /\ EdsTypeOK /\ ArgOK /\ BindingsInverse /\ ThreadInv /\ TaskInv /\ MessageInv
        /\ PUsRegistered /\ Busy /\ Local
  BY BusyByTask DEF LocalInv, HistoryInv, BindingInv, TypeOK
<1>next. HistoryInv' /\ EdsTypeOK' /\ BindingsInverse'
  BY NextHistoryInv DEF LocalInv, HistoryInv, BindingInv, TypeOK
<1>threads. "io" \in Threads /\ "http" \in Threads /\ "health" \in Threads
  BY DEF Threads
<1> SUFFICES Busy' /\ Local'
  <2>1. Busy' => BusyPUHasTask'
    BY <1>next DEF BusyPUHasTask, BoundTasksForResource, BindingsInverse
  <2> QED BY <1>next, <2>1 DEF LocalInv
<1>1. ASSUME UNCHANGED <<resState, taskBinding, proc>>, msgs' \subseteq msgs PROVE Busy' /\ Local'
  BY <1>1, <1>inv
<1>2. ASSUME NEW j \in Jobs, SubmitJob(j) \/ KillRunningJob(j) PROVE Busy' /\ Local'
  BY <1>1, <1>2 DEF SubmitJob, KillRunningJob, bindingVars
<1>3. ASSUME NEW t \in Tasks, NEW s \in EndStates, HandleTaskStateChange(t, s) PROVE Busy' /\ Local'
  BY <1>1, <1>3 DEF HandleTaskStateChange, Arrives, bindingVars
<1>4. ASSUME NEW c \in Tasks, HandleTaskSpawn(c) PROVE Busy' /\ Local'
  BY <1>1, <1>4 DEF HandleTaskSpawn, Arrives, bindingVars
<1>5. ASSUME NEW t \in Tasks, NEW ok \in BOOLEAN, HandleTaskDelegationResponse(t, ok) PROVE FALSE
  BY <1>5, <1>inv DEF HandleTaskDelegationResponse, Arrives
<1>6. ASSUME NEW t \in Tasks, Unbound(t), msgs' = msgs, proc' \in {proc, [proc EXCEPT ![t] = "none"]},
             resState' = IF taskBinding[t] = None THEN resState
                         ELSE [resState EXCEPT ![taskBinding[t]] = "IDLE"]
      PROVE  Busy' /\ Local'
  <2>1. Local'
    BY <1>6, <1>inv DEF TypeOK
  <2>2. Busy'
    <3> SUFFICES ASSUME NEW r \in Resources, resState'[r] = "BUSY"
                 PROVE  \E u \in Tasks : taskBinding'[u] = r
      OBVIOUS
    <3>1. resState[r] = "BUSY" /\ r # taskBinding[t]
      BY <1>6, <1>inv, ResourcesAssumption DEF EdsTypeOK
    <3>2. PICK u \in Tasks : taskBinding[u] = r
      BY <1>inv, <3>1
    <3> QED BY <1>6, <1>inv, <3>1, <3>2 DEF Unbound, EdsTypeOK
  <2> QED BY <2>1, <2>2
<1>7. ASSUME TaskCompletion PROVE Busy' /\ Local'
  <2> DEFINE t == arg["io"]
  <2>1. t \in Tasks /\ Started(t) /\ SimpleHandleTaskCompletion(t) /\ msgs' = msgs
          /\ proc' \in {proc, [proc EXCEPT ![t] = "none"]}
    BY <1>7, <1>inv, <1>threads DEF TaskCompletion, ArgOK, ThreadInv
  <2> HIDE DEF t
  <2> QED BY <1>6, <1>inv, <2>1, CompletionEffect
<1>8. ASSUME NEW h \in {"io", "health"}, TaskFailure(h) PROVE Busy' /\ Local'
  <2> DEFINE t == arg[h]
  <2>1. t \in Tasks /\ Started(t) /\ SimpleHandleTaskFailure(t) /\ msgs' = msgs
          /\ proc' = [proc EXCEPT ![t] = "none"]
    BY <1>8, <1>inv, <1>threads DEF TaskFailure, ArgOK, ThreadInv
  <2> HIDE DEF t
  <2>2. CASE Fail("HandleTaskFailure_binding")
    <3>1. UNCHANGED <<resState, taskBinding>>
      BY <2>2 DEF Fail, bindingVars
    <3> QED BY <1>inv, <2>1, <3>1 DEF TypeOK
  <2> QED BY <1>6, <1>inv, <2>1, <2>2, FailureEffect
<1>9. ASSUME TaskDelegationSuccess \/ JobCompletion PROVE Busy' /\ Local'
  BY <1>1, <1>9, SMTT(30) DEF TaskDelegationSuccess, HandleTaskDelegationSuccess, JobCompletion,
                              HandleJobCompletion, edsVars, bindingVars
<1>10. ASSUME NEW t \in Tasks, CheckRunningTasksHealth(t) PROVE Busy' /\ Local'
  BY <1>1, <1>10, SMTT(30) DEF CheckRunningTasksHealth, edsVars
<1>11. ASSUME NEW h \in {"io", "http"}, RunScheduler(h) PROVE Busy' /\ Local'
  <2>0. h \in Threads
    BY <1>threads
  <2>1. /\ arg[h] \in Jobs /\ ScheduleJob(arg[h]) /\ msgs' = msgs /\ Alive
        /\ proc' = [t \in Tasks |->
                      CASE taskBinding'[t] \in {None, taskBinding[t]}           -> proc[t]
                        [] taskBinding'[t] \in Remote \ {None, taskBinding[t]}  -> "requested"
                        [] OTHER                                                -> "alive"]
    BY <1>11, <1>inv, <2>0 DEF RunScheduler, ArgOK, MayLock
  <2>2. Local'
    <3>1. \A t \in Tasks : proc'[t] \in {proc[t], "alive"}
      BY <2>1
    <3> QED BY <1>inv, <2>1, <3>1
  <2>3. ASSUME NEW check, Fail(check) PROVE Busy'
    BY <1>inv, <2>3 DEF Fail, bindingVars
  <2>4. ASSUME NEW D \in SUBSET Tasks, NEW R \in SUBSET Tasks, NEW K \in SUBSET Tasks,
               Schedules(arg[h], D, R, K)
        PROVE  Busy'
    BY <1>inv, <2>4, ResourcesAssumption, SMT DEF Schedules
  <2>5. ProducersWrite
    BY <1>inv DEF ProducersWrite, TaskInv, EdsTypeOK
  <2>6. \/ \E check : Fail(check)
        \/ \E D, R, K \in SUBSET Tasks : Schedules(arg[h], D, R, K)
    BY <1>inv, <2>1, <2>5, ScheduleJobEffect
  <2> QED BY <2>2, <2>3, <2>4, <2>6
<1>12. ASSUME NEW t \in Tasks, ProcessEnds(t) \/ TaskSpawns(t) \/ TaskCrashes(t)
       PROVE  Busy' /\ Local'
  <2>1. /\ UNCHANGED edsVars
        /\ \/ msgs' = msgs
           \/ msgs' = msgs \cup {SpawnMsg(t)}
           \/ \E s \in EndStates : msgs' = msgs \cup {StateMsg(t, s)}
        /\ \A u \in Tasks : proc'[u] \in {proc[u], "exited"}
    BY <1>12, <1>inv DEF ProcessEnds, TaskSpawns, TaskCrashes, TaskEnds, RemoteAnswers,
                         RemoteTaskEnds, Send, EndStates, TypeOK
  <2>2. \A u \in Tasks, ok \in BOOLEAN : DelegationMsg(u, ok) \notin msgs'
    BY <1>inv, <2>1, MessagesDiffer, SMT
  <2> QED BY <1>inv, <2>1, <2>2 DEF edsVars
<1>13. ASSUME UNCHANGED vars PROVE Busy' /\ Local'
  BY <1>1, <1>13 DEF vars, edsVars
<1>14. CASE IoThread
  BY <1>3, <1>4, <1>5, <1>7, <1>8, <1>9, <1>11, <1>14 DEF IoThread
<1>15. CASE HealthThread
  BY <1>8, <1>10, <1>15 DEF HealthThread
<1> QED BY <1>2, <1>11, <1>12, <1>13, <1>14, <1>15 DEF Next

(* Where every PU is local, no handler leaves a PU busy without a task.      *)
(* (A refused delegation does.)                                            *)
THEOREM BusyPUsAlwaysHaveTasks ==
  ASSUME Remote = {}
  PROVE  Spec => []BusyPUHasTask
<1>1. LocalInv => BusyPUHasTask
  BY DEF LocalInv
<1>2. LocalInv /\ [Next]_vars => LocalInv'
  BY NextLocalInv
<1> QED BY InitLocalInv, <1>1, <1>2, PTL DEF Spec

-----------------------------------------------------------------------------
(* Completed jobs, where tasks write no objects. *)

(* The initial states. *)
LEMMA InitQuietInv == Init => QuietInv
<1> SUFFICES ASSUME Init PROVE QuietInv
  OBVIOUS
<1>1. StateInv /\ ProcessInv
  BY InitStateInv, InitProcessInv
<1> USE DEF Init, EdsInit, NothingSubmitted
<1>2. NoneBlocks /\ ParentWaits /\ CompletedIsOver
  BY TaskTreeAssumption DEF NoneBlocks, ParentWaits, CompletedIsOver
<1>3. ReportedIsOver
  BY DEF ReportedIsOver, Reported, Threads
<1> QED BY <1>1, <1>2, <1>3 DEF QuietInv

(* A task that runs and does not end yet is in nobody's hands. *)
LEMMA RunningIsActive ==
  ASSUME StateInv, ProcessInv, ReportedIsOver, NEW t \in Tasks, proc[t] \in {"alive", "accepted"}
  PROVE  /\ taskBinding[t] # None /\ ~Reported(t) /\ ~Refused(t)
         /\ taskState[t] \in {"RUNNING", "DELEGATED"}
         /\ t \notin runnable[JobOf[t]]
<1>1. taskBinding[t] # None /\ ~Reported(t) /\ ~Refused(t)
  BY DEF ProcessInv, ReportedIsOver
<1>2. JobOf[t] \in Jobs
  BY TaskTreeAssumption
<1>3. t \notin runnable[JobOf[t]]
  BY <1>1, <1>2 DEF StateInv, RunnableTaskIsQueued
<1>4. ~BeingHandled(t)
  <2>1. pc["health"] = "failure" => arg["health"] # t
    BY DEF ProcessInv
  <2> QED BY <1>1, <2>1 DEF BeingHandled, Reported, Threads, StateInv, HistoryInv, ThreadInv
<1>5. taskState[t] \in {"RUNNING", "DELEGATED"}
  BY <1>1, <1>4 DEF StateInv, BindingMatchesState
<1> QED BY <1>1, <1>3, <1>5

(* Every step keeps QuietInv. *)
LEMMA NextQuietInv ==
  ASSUME NoOutputs, QuietInv, [Next]_vars
  PROVE  QuietInv'
<1>shared. NoSharedObjects
  BY DEF NoOutputs, NoSharedObjects
<1>inv. /\ StateInv /\ ProcessInv /\ NoneBlocks /\ ReportedIsOver /\ ParentWaits /\ CompletedIsOver
        /\ TypeOK /\ EdsTypeOK /\ ArgOK /\ ThreadInv /\ TaskInv /\ HistoryInv /\ PUsRegistered
        /\ MessageInv /\ BindingMatchesState /\ RunnableTaskIsQueued
  BY DEF QuietInv, StateInv, HistoryInv, BindingInv, TypeOK
<1>threads. "io" \in Threads /\ "http" \in Threads /\ "health" \in Threads
  BY DEF Threads
<1>arg. pc["io"] \in {"completion", "failure", "jobdone"} => arg["io"] \in Tasks
  BY <1>inv, <1>threads DEF ArgOK
<1>tree. /\ \A t \in Tasks : JobOf[t] \in Jobs
         /\ \A c \in Tasks \ Submitted : Parent[c] \in Tasks /\ JobOf[Parent[c]] = JobOf[c]
  <2>1. \A t \in Tasks : JobOf[t] \in Jobs
    BY TaskTreeAssumption, SMTT(30)
  <2>2. \A c \in Tasks \ Submitted : Parent[c] \in Tasks /\ JobOf[Parent[c]] = JobOf[c]
    BY TaskTreeAssumption, CoordinatorAssumption, SMTT(30)
  <2> QED BY <2>1, <2>2
<1>spawn. \A c \in Tasks : SpawnMsg(c) \in msgs => Parent[c] \in Tasks /\ JobOf[Parent[c]] = JobOf[c]
  BY <1>inv, <1>tree DEF MessageInv
<1>idle. \A h \in {"io", "http"} : MayLock(h) => pc["health"] = "idle"
  BY <1>inv, CoordinatorAssumption DEF MayLock, ThreadInv
<1>goto. ASSUME NEW h \in Threads, NEW s, NEW a, Goto(h, s, a)
         PROVE  /\ pc'[h] = s /\ arg'[h] = a
                /\ \A g \in Threads \ {h} : pc'[g] = pc[g] /\ arg'[g] = arg[g]
  BY <1>goto, <1>inv DEF Goto, TypeOK
<1> DEFINE Q == NoneBlocks /\ ReportedIsOver /\ ParentWaits /\ CompletedIsOver
           Over(t) == /\ taskState[t] # "BLOCKING"
                      /\ Reported(t) => /\ taskState[t] \in {"RUNNING", "DELEGATED"} \cup EndStates
                                        /\ t \notin runnable[JobOf[t]]
                                        /\ proc[t] \in {"exited", "none"}
                                        /\ ~Refused(t)
           Waits(t) == /\ taskState[t] \in {"RUNNING", "DELEGATED", "FAILED"}
                       /\ t \notin runnable[JobOf[t]]
                       /\ proc[t] \notin {"requested", "accepted"}
                       /\ ~Refused(t)
                       /\ ~(pc["io"] \in {"completion", "failure"} /\ arg["io"] = t)
           Done(t) == jobState[JobOf[t]] = "COMPLETED" =>
                        /\ taskBinding[t] = None
                        /\ t \notin runnable[JobOf[t]]
                        /\ taskState[t] \notin {"CREATED", "RUNNABLE", "RUNNING"}
                        /\ SpawnMsg(t) \notin msgs
<1>def. /\ \A t \in Tasks : Over(t) /\ Done(t)
        /\ \A c \in Tasks : SpawnMsg(c) \in msgs => Waits(Parent[c])
  BY <1>inv, <1>spawn DEF NoneBlocks, ReportedIsOver, ParentWaits, CompletedIsOver
<1>suff. ASSUME \A t \in Tasks : Over(t)' /\ Done(t)',
                \A c \in Tasks : SpawnMsg(c) \in msgs' => Parent[c] \in Tasks /\ JobOf[Parent[c]] = JobOf[c],
                \A c \in Tasks : SpawnMsg(c) \in msgs' => Waits(Parent[c])'
         PROVE  Q'
  BY <1>suff DEF NoneBlocks, ReportedIsOver, ParentWaits, CompletedIsOver
<1> SUFFICES Q'
  <2>1. StateInv'
    BY <1>inv, <1>shared, NextStateInv
  <2>2. ProcessInv'
    <3>1. pc["io"] \in {"completion", "failure"} => ~Refused(arg["io"])
      BY <1>inv, <1>arg DEF ReportedIsOver, Reported
    <3> QED BY <1>inv, <3>1, NextProcessInv
  <2> QED BY <2>1, <2>2 DEF QuietInv
<1> HIDE DEF Q
<1>many. ASSUME msgs' \subseteq msgs, \A t \in Tasks : Reported(t)' => Reported(t),
                \/ pc'["io"] \notin {"completion", "failure"}
                \/ pc'["io"] = pc["io"] /\ arg'["io"] = arg["io"],
                \A t \in Tasks : Reported(t) \/ Waits(t) =>
                  /\ taskState'[t] = taskState[t] /\ proc'[t] = proc[t]
                  /\ t \in runnable'[JobOf[t]] => t \in runnable[JobOf[t]],
                \A t \in Tasks : taskState'[t] # "BLOCKING" /\ Done(t)'
         PROVE  Q'
  <2>1. \A t : Refused(t)' => Refused(t)
    BY <1>many DEF Refused
  <2>2. \A t \in Tasks : Over(t)'
    BY <1>many, <1>def, <2>1
  <2>3. \A t \in Tasks : Waits(t) => Waits(t)'
    BY <1>many, <2>1
  <2>4. \A c \in Tasks : SpawnMsg(c) \in msgs' => SpawnMsg(c) \in msgs
    BY <1>many
  <2> QED BY <1>def, <1>many, <1>spawn, <1>suff, <2>2, <2>3, <2>4
<1>one. ASSUME NEW t \in Tasks, msgs' \subseteq msgs, jobState' = jobState,
               \/ pc'["io"] \notin {"completion", "failure"} \/ arg'["io"] = t
               \/ pc'["io"] = pc["io"] /\ arg'["io"] = arg["io"],
               \A u \in Tasks \ {t} :
                 /\ taskState'[u] = taskState[u] /\ proc'[u] = proc[u] /\ taskBinding'[u] = taskBinding[u]
                 /\ u \in runnable'[JobOf[u]] => u \in runnable[JobOf[u]],
               Over(t)', Done(t)',
               (\E c \in Tasks : Parent[c] = t /\ SpawnMsg(c) \in msgs') /\ Waits(t) => Waits(t)'
        PROVE  Q'
  <2>1. \A u : Refused(u)' => Refused(u)
    BY <1>one DEF Refused
  <2>2. \A u \in Tasks \ {t} : Reported(u)' => Reported(u)
    BY <1>one DEF Reported
  <2>3. \A u \in Tasks \ {t} : Over(u)'
    BY <1>one, <1>def, <2>1, <2>2
  <2>4. \A u \in Tasks \ {t} : Done(u)'
    BY <1>one, <1>def, SMTT(30)
  <2>5. \A u \in Tasks \ {t} : Waits(u) => Waits(u)'
    BY <1>one, <2>1
  <2>6. \A c \in Tasks : SpawnMsg(c) \in msgs' => Waits(Parent[c])'
    BY <1>one, <1>def, <1>spawn, <2>5, SMTT(30)
  <2>7. \A c \in Tasks : SpawnMsg(c) \in msgs' => Parent[c] \in Tasks /\ JobOf[Parent[c]] = JobOf[c]
    BY <1>one, <1>spawn
  <2>8. \A u \in Tasks : Over(u)' /\ Done(u)'
    BY <1>one, <2>3, <2>4
  <2> QED BY <1>suff, <2>6, <2>7, <2>8
<1> HIDE DEF Over, Waits, Done
<1>1. ASSUME NEW j \in Jobs, SubmitJob(j) PROVE Q'
  <2>1. /\ jobState[j] = "ABSENT" /\ jobState' = [jobState EXCEPT ![j] = "CREATED"]
        /\ \A t \in Tasks : taskState'[t] = taskState[t] \/ (JobOf[t] = j /\ taskState'[t] = "CREATED")
        /\ UNCHANGED <<runnable, taskBinding, proc, msgs>>
        /\ Goto("http", "schedule", j)
    BY <1>1 DEF SubmitJob, bindingVars
  <2>2. \A t \in Tasks : JobOf[t] = j => taskState[t] = "ABSENT"
    BY <1>inv, <2>1 DEF TaskInv
  <2>3. pc'["io"] = pc["io"] /\ arg'["io"] = arg["io"]
    BY <1>goto, <1>threads, <2>1
  <2>4. \A t : Reported(t)' => Reported(t)
    BY <2>1, <2>3 DEF Reported
  <2>5. \A t \in Tasks : Reported(t) \/ Waits(t) => taskState'[t] = taskState[t]
    BY <1>def, <2>1, <2>2 DEF Over, Waits, EndStates
  <2>6. ASSUME NEW t \in Tasks PROVE Done(t)'
    <3>1. CASE JobOf[t] = j
      BY <1>inv, <2>1, <3>1 DEF Done, EdsTypeOK
    <3>2. CASE JobOf[t] # j
      BY <1>def, <1>inv, <1>tree, <2>1, <3>2 DEF Done, EdsTypeOK
    <3> QED BY <3>1, <3>2
  <2>7. \A t \in Tasks : taskState'[t] # "BLOCKING"
    BY <1>inv, <2>1 DEF NoneBlocks
  <2> QED BY <1>many, <2>1, <2>3, <2>4, <2>5, <2>6, <2>7
<1>2. ASSUME NEW j \in Jobs, KillRunningJob(j) PROVE Q'
  <2>1. /\ jobState' = [jobState EXCEPT ![j] = "ABORTED"]
        /\ \A t \in Tasks : taskState'[t] = taskState[t]
             \/ (taskState[t] \in {"RUNNABLE", "BLOCKING"} /\ taskState'[t] = "ABORTED")
        /\ UNCHANGED <<runnable, taskBinding, proc, msgs, pc, arg>>
    BY <1>2 DEF KillRunningJob, bindingVars
  <2>2. \A t : Reported(t)' => Reported(t)
    BY <2>1 DEF Reported
  <2>3. \A t \in Tasks : Reported(t) \/ Waits(t) => taskState'[t] = taskState[t]
    BY <1>def, <2>1 DEF Over, Waits, EndStates
  <2>4. ASSUME NEW t \in Tasks PROVE Done(t)'
    <3>1. jobState'[JobOf[t]] = "COMPLETED" => jobState[JobOf[t]] = "COMPLETED"
      BY <1>inv, <1>tree, <2>1 DEF EdsTypeOK
    <3> QED BY <1>def, <2>1, <3>1 DEF Done
  <2>5. \A t \in Tasks : taskState'[t] # "BLOCKING"
    BY <1>inv, <2>1 DEF NoneBlocks
  <2> QED BY <1>many, <2>1, <2>2, <2>3, <2>4, <2>5
<1>3. ASSUME UNCHANGED <<taskState, jobState, runnable, taskBinding, proc>>, msgs' \subseteq msgs,
             \/ pc'["io"] \notin {"completion", "failure"}
             \/ pc'["io"] = pc["io"] /\ arg'["io"] = arg["io"]
      PROVE  Q'
  <2>1. \A t : Reported(t)' => Reported(t)
    BY <1>3 DEF Reported
  <2>2. \A t \in Tasks : Done(t)'
    BY <1>3, <1>def DEF Done
  <2>3. \A t \in Tasks : taskState'[t] # "BLOCKING"
    BY <1>inv, <1>3 DEF NoneBlocks
  <2> QED BY <1>3, <1>many, <2>1, <2>2, <2>3
<1>4. ASSUME NEW t \in Tasks, NEW s \in EndStates, HandleTaskStateChange(t, s) PROVE Q'
  <2>1. /\ StateMsg(t, s) \in msgs /\ msgs' \subseteq msgs /\ pc["io"] = "idle"
        /\ UNCHANGED <<jobState, runnable, taskBinding, proc>>
        /\ \A c \in Tasks : Parent[c] = t => SpawnMsg(c) \notin msgs
        /\ \/ UNCHANGED <<taskState, pc, arg>>
           \/ taskState' = [taskState EXCEPT ![t] = s] /\ \E x : Goto("io", x, t)
    BY <1>4 DEF HandleTaskStateChange, Arrives, bindingVars
  <2>2. CASE UNCHANGED <<taskState, pc, arg>>
    BY <1>3, <2>1, <2>2
  <2>3. ASSUME NEW x, Goto("io", x, t), taskState' = [taskState EXCEPT ![t] = s] PROVE Q'
    <3>1. arg'["io"] = t
      BY <1>goto, <1>threads, <2>3
    <3>2. taskState'[t] = s /\ \A u \in Tasks \ {t} : taskState'[u] = taskState[u]
      BY <1>inv, <2>3 DEF EdsTypeOK
    <3>3. Reported(t) /\ (Refused(t)' => Refused(t))
      BY <2>1 DEF Reported, Refused
    <3>4. Over(t)'
      BY <1>def, <2>1, <3>2, <3>3 DEF Over, EndStates
    <3>5. Done(t)'
      BY <1>def, <2>1, <3>2 DEF Done, EndStates
    <3> QED BY <1>one, <2>1, <3>1, <3>2, <3>4, <3>5
  <2> QED BY <2>1, <2>2, <2>3
<1>5. ASSUME NEW c \in Tasks, HandleTaskSpawn(c) PROVE Q'
  <2>1. /\ SpawnMsg(c) \in msgs /\ msgs' \subseteq msgs
        /\ UNCHANGED <<jobState, runnable, taskBinding, proc>>
        /\ taskState' = [taskState EXCEPT ![c] = "CREATED"]
        /\ Goto("io", "schedule", JobOf[c])
    BY <1>5 DEF HandleTaskSpawn, Arrives, bindingVars
  <2>2. pc'["io"] = "schedule"
    BY <1>goto, <1>threads, <2>1
  <2>3. taskState'[c] = "CREATED" /\ \A u \in Tasks \ {c} : taskState'[u] = taskState[u]
    BY <1>inv, <2>1 DEF EdsTypeOK
  <2>4. taskState[c] = "ABSENT"
    BY <1>inv, <2>1 DEF MessageInv
  <2>5. ~Reported(c) /\ ~Waits(c)
    BY <1>def, <2>4 DEF Over, Waits, EndStates
  <2>6. ~Reported(c)'
    BY <2>1, <2>2, <2>5 DEF Reported
  <2>7. Over(c)'
    BY <2>3, <2>6 DEF Over
  <2>8. Done(c)'
    BY <1>def, <2>1 DEF Done
  <2> QED BY <1>one, <2>1, <2>2, <2>3, <2>5, <2>7, <2>8
<1>6. ASSUME NEW t \in Tasks, NEW ok \in BOOLEAN, HandleTaskDelegationResponse(t, ok) PROVE Q'
  <2>0. proc' = proc /\ msgs' \subseteq msgs /\ DelegationMsg(t, ok) \in msgs /\ pc["io"] = "idle"
    BY <1>6 DEF HandleTaskDelegationResponse, Arrives
  <2>1. CASE ok = TRUE
    <3>1. /\ UNCHANGED <<jobState, runnable, taskBinding>> /\ Goto("io", "delegated", t)
          /\ taskState' = [taskState EXCEPT ![t] = "DELEGATED"]
      BY <1>6, <2>1 DEF HandleTaskDelegationResponse, bindingVars
    <3>2. pc'["io"] = "delegated"
      BY <1>goto, <1>threads, <3>1
    <3>3. taskState'[t] = "DELEGATED" /\ \A u \in Tasks \ {t} : taskState'[u] = taskState[u]
      BY <1>inv, <3>1, SMTT(30) DEF EdsTypeOK
    <3>4. (Reported(t)' => Reported(t)) /\ (Refused(t)' => Refused(t))
      BY <2>0, <3>2 DEF Reported, Refused
    <3>5. Over(t)' /\ Done(t)' /\ (Waits(t) => Waits(t)')
      BY <1>def, <2>0, <3>1, <3>2, <3>3, <3>4 DEF Over, Done, Waits
    <3> QED BY <1>one, <2>0, <3>1, <3>2, <3>3, <3>5
  <2>2. CASE ok = FALSE
    <3>1. HandleTaskDelegationFailure(t) /\ Goto("io", "schedule", JobOf[t]) /\ Refused(t)
      BY <1>6, <2>0, <2>2 DEF HandleTaskDelegationResponse, Refused
    <3>2. taskBinding[t] # None
      BY <1>inv, <3>1 DEF ProcessInv
    <3>3. /\ Unbound(t) /\ taskState' = [taskState EXCEPT ![t] = "RUNNABLE"]
          /\ runnable' = [runnable EXCEPT ![JobOf[t]] = @ \cup {t}]
      BY <1>inv, <3>1, <3>2, DelegationFailureEffect
    <3>4. pc'["io"] = "schedule"
      BY <1>goto, <1>threads, <3>1, SMTT(30)
    <3>5. /\ taskState'[t] = "RUNNABLE" /\ jobState' = jobState
          /\ \A u \in Tasks \ {t} : /\ taskState'[u] = taskState[u] /\ taskBinding'[u] = taskBinding[u]
                                    /\ u \in runnable'[JobOf[u]] => u \in runnable[JobOf[u]]
      BY <1>inv, <1>tree, <3>3 DEF EdsTypeOK, Unbound
    <3>6. ~Reported(t) /\ ~Waits(t)
      BY <1>def, <3>1 DEF Over, Waits
    <3>7. ~Reported(t)'
      BY <2>0, <3>4, <3>6 DEF Reported
    <3>8. Over(t)' /\ Done(t)'
      BY <1>def, <3>2, <3>5, <3>7, SMTT(30) DEF Over, Done
    <3> QED BY <1>one, <2>0, <3>4, <3>5, <3>6, <3>8
  <2> QED BY <2>1, <2>2
<1>7. ASSUME TaskCompletion PROVE Q'
  <2>0. PICK t \in Tasks : t = arg["io"]
    BY <1>7, <1>arg, SMTT(30) DEF TaskCompletion
  <2>1. /\ Started(t) /\ SimpleHandleTaskCompletion(t) /\ msgs' = msgs
        /\ proc' \in {proc, [proc EXCEPT ![t] = "none"]} /\ pc["io"] = "completion"
        /\ Goto("io", "jobdone", t)
    BY <1>7, <1>inv, <1>threads, <2>0 DEF TaskCompletion, ThreadInv
  <2>2. pc'["io"] = "jobdone"
    BY <1>goto, <1>threads, <2>1
  <2>3. Unbound(t) /\ taskState' = [taskState EXCEPT ![t] = "COMPLETED"] /\ runnable' = runnable
    BY <1>inv, <2>1, CompletionEffect, SMTT(30)
  <2>4. /\ taskState'[t] = "COMPLETED" /\ taskBinding'[t] = None /\ proc'[t] \in {proc[t], "none"}
        /\ jobState' = jobState
        /\ \A u \in Tasks \ {t} :
             taskState'[u] = taskState[u] /\ taskBinding'[u] = taskBinding[u] /\ proc'[u] = proc[u]
    BY <1>inv, <2>1, <2>3 DEF Unbound, EdsTypeOK, TypeOK
  <2>5. Reported(t) /\ (Refused(t)' => Refused(t)) /\ ~Waits(t)
    BY <2>0, <2>1 DEF Reported, Refused, Waits
  <2>6. Over(t)'
    BY <1>def, <2>3, <2>4, <2>5 DEF Over, EndStates
  <2>7. Done(t)'
    BY <1>def, <2>1, <2>3, <2>4 DEF Done
  <2> QED BY <1>one, <2>1, <2>2, <2>3, <2>4, <2>5, <2>6, <2>7
<1>8. ASSUME NEW h \in {"io", "health"}, TaskFailure(h) PROVE Q'
  <2>0. PICK t \in Tasks : t = arg[h]
    BY <1>8, <1>inv, <1>threads DEF TaskFailure, ArgOK
  <2>1. /\ Started(t) /\ SimpleHandleTaskFailure(t) /\ msgs' = msgs /\ pc[h] = "failure"
        /\ proc' = [proc EXCEPT ![t] = "none"]
        /\ IF h = "io" THEN Goto(h, "schedule", JobOf[t]) ELSE Goto(h, "idle", None)
    BY <1>8, <1>inv, <1>threads, <2>0 DEF TaskFailure, ThreadInv
  <2>2. pc'["io"] = "schedule" \/ (pc'["io"] = pc["io"] /\ arg'["io"] = arg["io"])
    BY <1>goto, <1>threads, <2>1
  <2>3. /\ UNCHANGED <<jobState, runnable>>
        /\ \/ UNCHANGED <<taskState, taskBinding>>
           \/ Unbound(t) /\ taskState' = [taskState EXCEPT ![t] = "FAILED"]
    BY <1>inv, <2>1, FailureEffect, SMTT(30) DEF Fail, Unbound, bindingVars
  <2>4. /\ taskState'[t] \in {taskState[t], "FAILED"} /\ taskBinding'[t] \in {taskBinding[t], None}
        /\ proc'[t] = "none"
        /\ \A u \in Tasks \ {t} :
             taskState'[u] = taskState[u] /\ taskBinding'[u] = taskBinding[u] /\ proc'[u] = proc[u]
    BY <1>inv, <2>1, <2>3 DEF Unbound, EdsTypeOK, TypeOK
  <2>5. (Reported(t)' => Reported(t)) /\ (Refused(t)' => Refused(t))
    BY <2>1, <2>2 DEF Reported, Refused
  <2>6. Over(t)'
    BY <1>def, <2>3, <2>4, <2>5 DEF Over, EndStates
  <2>7. Done(t)'
    BY <1>def, <2>1, <2>3, <2>4 DEF Done
  <2>8. Waits(t) => Waits(t)'
    BY <2>2, <2>3, <2>4, <2>5 DEF Waits
  <2> QED BY <1>one, <2>1, <2>2, <2>3, <2>4, <2>6, <2>7, <2>8
<1>9. ASSUME TaskDelegationSuccess PROVE Q'
  <2>0. PICK t \in Tasks : t = arg["io"]
    BY <1>9, <1>inv, <1>threads, SMTT(30) DEF TaskDelegationSuccess, ArgOK
  <2>1. /\ UNCHANGED <<taskState, jobState, taskBinding, proc, msgs>> /\ Goto("io", "idle", None)
        /\ runnable' = [runnable EXCEPT ![JobOf[t]] = @ \ {t}]
    BY <1>9, <2>0 DEF TaskDelegationSuccess, HandleTaskDelegationSuccess, bindingVars
  <2>2. pc'["io"] = "idle"
    BY <1>goto, <1>threads, <2>1
  <2>3. \A u \in Tasks : u \in runnable'[JobOf[u]] => u \in runnable[JobOf[u]]
    BY <1>inv, <1>tree, <2>1 DEF EdsTypeOK
  <2>4. \A u : Reported(u)' => Reported(u)
    BY <2>1, <2>2 DEF Reported
  <2>5. \A u \in Tasks : taskState'[u] # "BLOCKING" /\ Done(u)'
    BY <1>def, <1>inv, <2>1, <2>3 DEF Done, NoneBlocks
  <2> QED BY <1>many, <2>1, <2>2, <2>3, <2>4, <2>5
<1>10. ASSUME JobCompletion PROVE Q'
  <2>0. PICK t \in Tasks : t = arg["io"]
    BY <1>10, <1>arg DEF JobCompletion
  <2> DEFINE j == JobOf[t]
  <2>1. /\ MayLock("io") /\ pc["io"] = "jobdone" /\ UNCHANGED <<proc, msgs>> /\ Goto("io", "schedule", j)
        /\ IF HasJobCompleted(j) THEN HandleJobCompletion(j) ELSE UNCHANGED edsVars
    BY <1>10, <2>0 DEF JobCompletion
  <2>2. pc'["io"] = "schedule"
    BY <1>goto, <1>threads, <2>1
  <2>3. CASE UNCHANGED edsVars
    BY <1>3, <2>1, <2>2, <2>3, SMTT(30) DEF edsVars
  <2>4. CASE HasJobCompleted(j) /\ HandleJobCompletion(j)
    <3>1. /\ UNCHANGED <<taskState, taskBinding>>
          /\ jobState' = [jobState EXCEPT ![j] = "COMPLETED"]
          /\ runnable' = [runnable EXCEPT ![j] = {}]
      BY <2>4, SMTT(30) DEF HandleJobCompletion, bindingVars
    <3>2. \A u \in Tasks : /\ u \in runnable'[JobOf[u]] => u \in runnable[JobOf[u]] /\ JobOf[u] # j
                           /\ jobState'[JobOf[u]] = "COMPLETED" =>
                                JobOf[u] = j \/ jobState[JobOf[u]] = "COMPLETED"
      BY <1>inv, <1>tree, <3>1 DEF EdsTypeOK
    <3>3. \A u : Reported(u)' => Reported(u)
      BY <2>1, <2>2 DEF Reported
    <3>4. ASSUME NEW u \in Tasks, JobOf[u] = j
          PROVE  taskBinding[u] = None /\ SpawnMsg(u) \notin msgs
                   /\ taskState[u] \notin {"CREATED", "RUNNABLE", "RUNNING"}
      <4>1. taskState[u] \in {"ABSENT", "COMPLETED", "ABORTED"}
        BY <2>4, <3>4 DEF HasJobCompleted
      <4>2. ~BeingHandled(u)
        BY <1>idle, <1>inv, <2>1 DEF BeingHandled, Threads, ThreadInv
      <4>3. taskBinding[u] = None
        BY <1>inv, <4>1, <4>2 DEF BindingMatchesState
      <4>4. SpawnMsg(u) \notin msgs
        <5> SUFFICES ASSUME SpawnMsg(u) \in msgs PROVE FALSE
          OBVIOUS
        <5>1. Parent[u] \in Tasks /\ JobOf[Parent[u]] = j /\ Waits(Parent[u])
          BY <1>def, <1>spawn, <3>4
        <5>2. taskState[Parent[u]] \in {"ABSENT", "COMPLETED", "ABORTED"}
          BY <2>4, <5>1 DEF HasJobCompleted
        <5> QED BY <5>1, <5>2 DEF Waits
      <4> QED BY <4>1, <4>3, <4>4, SMTT(30)
    <3>5. \A u \in Tasks : Done(u)'
      BY <1>def, <2>1, <3>1, <3>2, <3>4 DEF Done
    <3>6. \A u \in Tasks : taskState'[u] # "BLOCKING"
      BY <1>inv, <3>1, SMTT(30) DEF NoneBlocks
    <3> QED BY <1>many, <2>1, <2>2, <3>1, <3>2, <3>3, <3>5, <3>6
  <2> QED BY <2>1, <2>3, <2>4
<1>11. ASSUME NEW t \in Tasks, CheckRunningTasksHealth(t) PROVE Q'
  <2>1. UNCHANGED edsVars /\ UNCHANGED <<proc, msgs>> /\ Goto("health", "failure", t)
    BY <1>11 DEF CheckRunningTasksHealth
  <2>2. pc'["io"] = pc["io"] /\ arg'["io"] = arg["io"]
    BY <1>goto, <1>threads, <2>1
  <2> QED BY <1>3, <2>1, <2>2 DEF edsVars
<1>12. ASSUME NEW h \in {"io", "http"}, RunScheduler(h) PROVE Q'
  <2> DEFINE j == arg[h]
  <2>1. msgs' = msgs /\ j \in Jobs /\ Goto(h, "idle", None)
    BY <1>12, <1>inv, RunSchedulerEffect
  <2>2. pc'["io"] = "idle" \/ (pc'["io"] = pc["io"] /\ arg'["io"] = arg["io"])
    BY <1>goto, <1>threads, <2>1
  <2>3. \A u : Reported(u)' => Reported(u)
    BY <2>1, <2>2 DEF Reported
  <2> HIDE DEF j
  <2>4. ASSUME NEW check, Fail(check), \A u \in Tasks : proc'[u] = proc[u] PROVE Q'
    <3>1. UNCHANGED <<taskState, jobState, runnable, taskBinding>>
      BY <2>4 DEF Fail, bindingVars
    <3>2. proc' = proc
      <4>1. TypeOK'
        BY <1>inv, NextHistoryInv DEF HistoryInv, BindingInv
      <4> QED BY <1>inv, <2>4, <4>1, SMT DEF TypeOK
    <3> QED BY <1>3, <2>1, <2>2, <3>1, <3>2
  <2>5. ASSUME NEW D \in SUBSET Tasks, NEW R \in SUBSET Tasks, NEW K \in SUBSET Tasks,
               Schedules(j, D, R, K), \A u \in Tasks \ D : proc'[u] = proc[u]
        PROVE  Q'
    <3>1. /\ K = {} /\ \A u \in R : taskState[u] = "CREATED" /\ JobOf[u] = j
          /\ \A u \in D : u \in runnable[j] \/ u \in R
          /\ \A u \in Tasks \ D : taskBinding'[u] = taskBinding[u]
          /\ taskState' = [u \in Tasks |-> IF u \in D THEN "RUNNING" ELSE IF u \in R THEN "RUNNABLE"
                                           ELSE IF u \in K THEN "BLOCKING" ELSE taskState[u]]
          /\ runnable' = [k \in Jobs |-> (runnable[k] \cup {u \in R : JobOf[u] = k}) \ D]
          /\ jobState' = IF D = {} THEN jobState ELSE [jobState EXCEPT ![j] = "RUNNING"]
      BY <1>inv, <1>shared, <2>5, SMT DEF Schedules, NoneBlocks
    <3>2. \A u \in Tasks : u \in runnable[j] => JobOf[u] = j
      BY <1>inv, <2>1, SMTT(30) DEF RunnableTaskIsQueued
    <3>3. ASSUME NEW u \in Tasks, taskState[u] # "CREATED", u \notin runnable[JobOf[u]]
          PROVE  /\ u \notin D /\ taskState'[u] = taskState[u] /\ proc'[u] = proc[u]
                 /\ taskBinding'[u] = taskBinding[u] /\ u \notin runnable'[JobOf[u]]
      <4>1. u \notin R /\ u \notin D
        BY <3>1, <3>2, <3>3, SMTT(30)
      <4> QED BY <1>tree, <2>5, <3>1, <3>3, <4>1
    <3>4. \A u \in Tasks :
            Reported(u) \/ Waits(u) => taskState[u] # "CREATED" /\ u \notin runnable[JobOf[u]]
      BY <1>def DEF Over, Waits, EndStates
    <3>5. \A u \in Tasks : taskState'[u] # "BLOCKING"
      BY <1>inv, <3>1 DEF NoneBlocks
    <3>6. ASSUME NEW u \in Tasks PROVE Done(u)'
      <4> SUFFICES ASSUME jobState'[JobOf[u]] = "COMPLETED"
                   PROVE  /\ taskBinding'[u] = None /\ u \notin runnable'[JobOf[u]]
                          /\ taskState'[u] \notin {"CREATED", "RUNNABLE", "RUNNING"}
                          /\ SpawnMsg(u) \notin msgs'
        BY SMTT(30) DEF Done
      <4>1. jobState[JobOf[u]] = "COMPLETED"
        BY <1>inv, <1>tree, <2>1, <3>1 DEF EdsTypeOK
      <4>2. /\ taskBinding[u] = None /\ u \notin runnable[JobOf[u]]
            /\ taskState[u] \notin {"CREATED", "RUNNABLE", "RUNNING"} /\ SpawnMsg(u) \notin msgs
        BY <1>def, <4>1 DEF Done
      <4> QED BY <2>1, <3>3, <4>2
    <3> QED BY <1>many, <2>1, <2>2, <2>3, <3>3, <3>4, <3>5, <3>6
  <2> QED BY <1>12, <1>inv, <2>4, <2>5, RunSchedulerEffect DEF j
<1>13. ASSUME NEW t \in Tasks, ProcessEnds(t) \/ TaskSpawns(t) \/ TaskCrashes(t) PROVE Q'
  <2>1. UNCHANGED <<taskState, jobState, runnable, taskBinding, pc, arg>>
    BY <1>13, <1>inv, EnvironmentEffect DEF edsVars
  <2>2. /\ \A u \in Tasks : proc'[u] # proc[u] =>
             \/ proc[u] \in {"alive", "accepted"} /\ proc'[u] \in {"exited", "none"}
             \/ proc[u] = "requested"
    BY <1>13, <1>inv, EnvironmentEffect DEF TypeOK
  <2>3. \A u \in Tasks, s \in EndStates : StateMsg(u, s) \in msgs' =>
          \/ StateMsg(u, s) \in msgs
          \/ u = t /\ proc[t] \in {"alive", "accepted"} /\ proc'[t] \in {"exited", "none"}
    BY <1>13, <1>inv, EnvironmentMessages
  <2>4. \A u \in Tasks : Refused(u)' => Refused(u) \/ proc[u] = "requested"
    BY <1>13, <1>inv, EnvironmentMessages
  <2>5. \A u \in Tasks : SpawnMsg(u) \in msgs' =>
          \/ SpawnMsg(u) \in msgs
          \/ u = t /\ t \notin Submitted /\ proc[Parent[t]] = "alive" /\ proc' = proc
    BY <1>13, <1>inv, EnvironmentMessages
  <2>6. \A u \in Tasks : Reported(u)' =>
          Reported(u) \/ (proc[u] \in {"alive", "accepted"} /\ proc'[u] \in {"exited", "none"})
    BY <2>1, <2>3 DEF Reported
  <2>7. ASSUME NEW u \in Tasks PROVE Over(u)'
    <3>0. taskState'[u] # "BLOCKING"
      BY <1>inv, <2>1 DEF NoneBlocks
    <3>1. CASE ~Reported(u)'
      BY <3>0, <3>1 DEF Over
    <3>2. CASE Reported(u)
      BY <1>def, <2>1, <2>2, <2>4, <3>0, <3>2 DEF Over
    <3>3. CASE proc[u] \in {"alive", "accepted"} /\ proc'[u] \in {"exited", "none"}
      <4>1. taskState[u] \in {"RUNNING", "DELEGATED"} /\ u \notin runnable[JobOf[u]] /\ ~Refused(u)
        BY <1>inv, <3>3, RunningIsActive
      <4> QED BY <2>1, <2>4, <3>0, <3>3, <4>1 DEF Over
    <3> QED BY <2>6, <3>1, <3>2, <3>3
  <2>8. \A u \in Tasks : Waits(u) => Waits(u)'
    BY <2>1, <2>2, <2>4 DEF Waits
  <2>9. ASSUME SpawnMsg(t) \in msgs', SpawnMsg(t) \notin msgs
        PROVE  /\ Parent[t] \in Tasks /\ JobOf[Parent[t]] = JobOf[t] /\ Waits(Parent[t])'
               /\ jobState[JobOf[t]] # "COMPLETED"
    <3>1. t \notin Submitted /\ proc[Parent[t]] = "alive" /\ proc' = proc
      BY <2>5, <2>9
    <3>2. Parent[t] \in Tasks /\ JobOf[Parent[t]] = JobOf[t]
      BY <1>tree, <3>1
    <3>3. /\ taskBinding[Parent[t]] # None /\ ~Reported(Parent[t]) /\ ~Refused(Parent[t])
          /\ taskState[Parent[t]] \in {"RUNNING", "DELEGATED"}
          /\ Parent[t] \notin runnable[JobOf[Parent[t]]]
      BY <1>inv, <3>1, <3>2, RunningIsActive
    <3>4. Waits(Parent[t])'
      BY <2>1, <2>4, <3>1, <3>2, <3>3, SMTT(30) DEF Waits, Reported
    <3>5. jobState[JobOf[t]] # "COMPLETED"
      BY <1>def, <3>2, <3>3 DEF Done
    <3> QED BY <3>2, <3>4, <3>5
  <2>10. \A u \in Tasks : Done(u)'
    BY <1>def, <2>1, <2>5, <2>9 DEF Done
  <2>11. \A c \in Tasks : SpawnMsg(c) \in msgs' =>
           Parent[c] \in Tasks /\ JobOf[Parent[c]] = JobOf[c] /\ Waits(Parent[c])'
    BY <1>def, <1>spawn, <2>5, <2>8, <2>9
  <2> QED BY <1>suff, <2>7, <2>10, <2>11, SMTT(30)
<1>14. ASSUME UNCHANGED vars PROVE Q'
  BY <1>3, <1>14 DEF vars, edsVars
<1>15. CASE IoThread
  BY <1>4, <1>5, <1>6, <1>7, <1>8, <1>9, <1>10, <1>12, <1>15 DEF IoThread
<1>16. CASE HealthThread
  BY <1>8, <1>11, <1>16 DEF HealthThread
<1> QED BY <1>1, <1>2, <1>12, <1>13, <1>14, <1>15, <1>16 DEF Next

(* For jobs without data objects: once a job has completed it holds no PU    *)
(* and nothing of it can be placed, although its completion is decided      *)
(* outside the lock and spawn and final messages are still on their way.    *)
THEOREM CompletedJobsStayQuiet ==
  ASSUME NoOutputs
  PROVE  Spec => []CompletedJobIsQuiet
<1>1. QuietInv => CompletedJobIsQuiet
  BY DEF QuietInv, CompletedIsOver, CompletedJobIsQuiet
<1>2. QuietInv /\ [Next]_vars => QuietInv'
  BY NextQuietInv
<1> QED BY InitQuietInv, <1>1, <1>2, PTL DEF Spec

=============================================================================
