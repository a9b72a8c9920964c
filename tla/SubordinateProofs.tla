-------------------------- MODULE SubordinateProofs -------------------------
(***************************************************************************)
(* Proof that tasks share a PU of a subordinate coordinator only by the    *)
(* race of PlaceDelegatedTask's check with its lock, for any tasks, jobs,  *)
(* PUs, channels and environments.                                         *)
(***************************************************************************)
EXTENDS Subordinate, SequenceTheorems, TLAPS

(* A step that names no prover is Zenon's.                                  *)
USE ZenonT(60)

(* What may be on the wire. *)
Messages ==
  [type : {"request"}, task : Tasks, target : Resources, last : Resources \cup {None}]
    \cup [type : {"state"}, task : Tasks, state : {"COMPLETED"}]
    \cup {Torn}

(* What the parent may know of a task. *)
Knowledge ==
  [state : {"none", "sent", "accepted", "refused", "ended"},
   target : Resources \cup {None}, last : Resources \cup {None}, tries : Nat]

(* A body is only awaited when a message is there, so that Head(wire[c]) is *)
(* a message and the thread that reads it goes on to the handler of its     *)
(* type.                                                                    *)
WireOK ==
  /\ wire \in [Channels -> Seq(Messages)]
  /\ DOMAIN stage = Channels
  /\ \A c \in Channels : stage[c] = "body" => wire[c] # <<>>
  /\ request \in [Delegated -> Knowledge]

(* The steps of the handlers of messages that use the message's task. *)
Handling == {"request", "place", "state", "clear", "complete", "jobdone"}

(* A thread's argument is what its next step expects; a delegated task is   *)
(* placed only on a registered PU that was seen idle.                       *)
ThreadsOK ==
  /\ DOMAIN pc = Threads /\ DOMAIN arg = Threads
  /\ \A h \in Threads : pc[h] \in Handling => arg[h].msg.task \in Tasks
  /\ \A h \in Threads : pc[h] = "schedule" =>
       IF h = "http" THEN arg[h].job \in Jobs ELSE arg[h].msg.task \in Tasks
  /\ pc["delegator"] = "place" =>
       arg["delegator"].saw = "IDLE" /\ arg["delegator"].msg.target \in Resources

(* The types of the maps that binding and unbinding update. *)
BindingsTyped ==
  /\ taskBinding \in [Tasks -> Resources \cup {None}]
  /\ resState \in [Resources -> ResourceStates]
  /\ runnable \in [Jobs -> SUBSET Tasks]

(* The inductive invariant. *)
SubordinateInv ==
  WireOK /\ ThreadsOK /\ BindingsTyped /\ BindingsInverse /\ SharingOnlyByRace

-----------------------------------------------------------------------------
(* Bindings. *)

(* A step that changes neither the bindings nor the states of the PUs keeps *)
(* what is known of them.                                                   *)
LEMMA SharingUnchanged ==
  ASSUME BindingsInverse, SharingOnlyByRace, raced \subseteq raced',
         UNCHANGED <<taskBinding, resBindings, resState>>
  PROVE  BindingsInverse' /\ SharingOnlyByRace'
BY DEF BindingsInverse, SharingOnlyByRace, BoundTasksForResource

(* UnbindTaskFromResource takes its only task from a PU that is not shared, *)
(* so that the PU may become idle.                                          *)
LEMMA UnbindKeepsSharing ==
  ASSUME BindingsTyped, BindingsInverse, SharingOnlyByRace, NEW t \in Tasks, NEW b \in Resources,
         taskBinding[t] = b, NEW lists, UnbindTaskFromResource(t, b, lists),
         UNCHANGED raced
  PROVE  /\ taskBinding' \in [Tasks -> Resources \cup {None}]
         /\ resState' \in [Resources -> ResourceStates]
         /\ BindingsInverse' /\ SharingOnlyByRace'
<1>1. /\ taskBinding' = [taskBinding EXCEPT ![t] = None]
      /\ resBindings' = resBindings \ {<<b, t>>}
      /\ \A r \in Resources \ {b} : resState'[r] = resState[r]
      /\ resState' \in [Resources -> ResourceStates]
  BY DEF UnbindTaskFromResource, BindingsTyped, ResourceStates
<1>2. taskBinding' \in [Tasks -> Resources \cup {None}]
  BY <1>1 DEF BindingsTyped
<1>3. BindingsInverse'
  BY <1>1, ResourcesAssumption DEF BindingsTyped, BindingsInverse
<1>4. ASSUME NEW r \in Resources \ raced
      PROVE  /\ \A u, v \in BoundTasksForResource(r)' : u = v
             /\ resState'[r] = "IDLE" => BoundTasksForResource(r)' = {}
  <2>1. /\ BoundTasksForResource(r)' \subseteq BoundTasksForResource(r)
        /\ t \notin BoundTasksForResource(b)'
    BY <1>1 DEF BoundTasksForResource
  <2>2. t \in BoundTasksForResource(b)
    BY DEF BoundTasksForResource, BindingsInverse
  <2>3. CASE r = b
    BY <2>1, <2>2, <2>3, SMT DEF SharingOnlyByRace
  <2>4. CASE r # b
    BY <1>1, <2>1, <2>4 DEF SharingOnlyByRace
  <2> QED BY <2>3, <2>4
<1>5. SharingOnlyByRace'
  BY <1>4 DEF SharingOnlyByRace
<1> QED BY <1>1, <1>2, <1>3, <1>5

(* StartTask binds an unbound task: to a PU that is idle, or to one that is *)
(* counted as raced.                                                        *)
LEMMA StartKeepsSharing ==
  ASSUME BindingsTyped, BindingsInverse, SharingOnlyByRace,
         NEW h, NEW t \in Tasks, NEW r \in Resources, NEW st, NEW ready,
         taskBinding[t] = None, StartTask(h, t, r, st, ready),
         raced \subseteq raced', resState[r] = "IDLE" \/ r \in raced'
  PROVE  /\ taskBinding' \in [Tasks -> Resources \cup {None}]
         /\ resState' \in [Resources -> ResourceStates]
         /\ BindingsInverse' /\ SharingOnlyByRace'
<1>1. /\ taskBinding' = [taskBinding EXCEPT ![t] = r]
      /\ resBindings' = resBindings \cup {<<r, t>>}
      /\ resState' = [resState EXCEPT ![r] = "BUSY"]
  BY DEF StartTask
<1>2. /\ taskBinding' \in [Tasks -> Resources \cup {None}]
      /\ resState' \in [Resources -> ResourceStates]
  BY <1>1 DEF BindingsTyped, ResourceStates
<1>3. BindingsInverse'
  BY <1>1, ResourcesAssumption DEF BindingsTyped, BindingsInverse
<1>4. ASSUME NEW s \in Resources \ raced'
      PROVE  /\ \A u, v \in BoundTasksForResource(s)' : u = v
             /\ resState'[s] = "IDLE" => BoundTasksForResource(s)' = {}
  <2>1. BoundTasksForResource(s)' = BoundTasksForResource(s) \cup (IF s = r THEN {t} ELSE {})
    BY <1>1 DEF BoundTasksForResource
  <2>2. resState'[s] = IF s = r THEN "BUSY" ELSE resState[s]
    BY <1>1 DEF BindingsTyped
  <2>3. CASE s = r
    BY <2>1, <2>2, <2>3 DEF SharingOnlyByRace
  <2>4. CASE s # r
    BY <2>1, <2>2, <2>4 DEF SharingOnlyByRace
  <2> QED BY <2>3, <2>4
<1>5. SharingOnlyByRace'
  BY <1>4 DEF SharingOnlyByRace
<1> QED BY <1>2, <1>3, <1>5
-----------------------------------------------------------------------------
(* Threads. *)

(* A thread that goes to a step with the argument that this step expects.   *)
LEMMA GotoKeepsThreads ==
  ASSUME ThreadsOK, NEW h \in Threads, NEW s, NEW a, Goto(h, s, a),
         s \in Handling => a.msg.task \in Tasks,
         s = "schedule" => IF h = "http" THEN a.job \in Jobs ELSE a.msg.task \in Tasks,
         h = "delegator" /\ s = "place" => a.saw = "IDLE" /\ a.msg.target \in Resources
  PROVE  ThreadsOK'
<1>1. /\ DOMAIN pc' = Threads /\ DOMAIN arg' = Threads
      /\ pc'[h] = s /\ arg'[h] = a
      /\ \A k \in Threads \ {h} : pc'[k] = pc[k] /\ arg'[k] = arg[k]
  BY DEF Goto, ThreadsOK
<1>2. "delegator" \in Threads
  BY DEF Threads
<1> QED
  BY <1>1, <1>2 DEF ThreadsOK

(* Returning from a handler. *)
LEMMA ReturnKeepsThreads ==
  ASSUME ThreadsOK, NEW h \in Threads, Return(h)
  PROVE  ThreadsOK'
<1> DEFINE s == IF h = "http" THEN "idle" ELSE "erase"
<1>1. Goto(h, s, arg[h])
  BY DEF Return
<1>2. s \notin Handling /\ s # "schedule" /\ s # "place"
  BY DEF Handling
<1> HIDE DEF s
<1> QED
  BY <1>1, <1>2, GotoKeepsThreads

(* A thread that reads a message goes to the handler of its type. *)
LEMMA BodyKeepsThreads ==
  ASSUME WireOK, ThreadsOK, NEW c \in Channels, NEW h \in Threads, stage[c] = "body",
         Head(wire[c]).type # "torn",
         Goto(h, Head(wire[c]).type, [chan |-> c, msg |-> Head(wire[c])])
  PROVE  ThreadsOK'
<1> DEFINE m == Head(wire[c])
<1>1. m \in Messages
  BY SMT DEF WireOK
<1>2. m.type \in {"request", "state"} /\ m.task \in Tasks
  BY <1>1, SMT DEF Messages, Torn
<1> HIDE DEF m
<1>3. Goto(h, m.type, [chan |-> c, msg |-> m])
  BY DEF m
<1> QED
  BY <1>2, <1>3, GotoKeepsThreads

-----------------------------------------------------------------------------
(* The wire. *)

(* Steps that leave the wire alone start to await a body only when a message *)
(* is there.                                                                *)
LEMMA StageKeepsWire ==
  ASSUME WireOK, UNCHANGED <<wire, request>>, NEW c, NEW s,
         stage' = [stage EXCEPT ![c] = s],
         s = "body" => wire[c] # <<>>
  PROVE  WireOK'
BY DEF WireOK

(* A message is added at the end of the wire. *)
LEMMA SendKeepsWire ==
  ASSUME WireOK, NEW c, NEW m \in Messages, PeerSends(c, m), request' \in [Delegated -> Knowledge]
  PROVE  WireOK'
<1>1. wire' = [wire EXCEPT ![c] = Append(@, m)] /\ stage' = stage
  BY DEF PeerSends
<1>2. ASSUME NEW d \in Channels
      PROVE  wire'[d] \in Seq(Messages) /\ (stage[d] = "body" => wire'[d] # <<>>)
  <2>1. wire[d] \in Seq(Messages) /\ (stage[d] = "body" => wire[d] # <<>>)
    BY DEF WireOK
  <2>2. wire'[d] = IF d = c THEN Append(wire[d], m) ELSE wire[d]
    BY <1>1 DEF WireOK
  <2>3. Append(wire[d], m) \in Seq(Messages) /\ Append(wire[d], m) # <<>>
    BY <2>1, SMT
  <2> QED BY <2>1, <2>2, <2>3
<1>3. wire' \in [Channels -> Seq(Messages)]
  BY <1>1, <1>2 DEF WireOK
<1> QED
  BY <1>1, <1>2, <1>3 DEF WireOK

(* A peer leaves, at most the beginning of a message after what it has sent. *)
LEMMA LeaveKeepsWire ==
  ASSUME WireOK, NEW c, NEW how, NEW rest \in {<<>>, <<Torn>>}, PeerLeaves(c, how, rest),
         UNCHANGED request
  PROVE  WireOK'
<1>1. wire' = [wire EXCEPT ![c] = IF conn[c] = "open" THEN @ \o rest ELSE @] /\ stage' = stage
  BY DEF PeerLeaves
<1>2. rest \in Seq(Messages)
  <2>1. Torn \in Messages
    BY DEF Messages
  <2>2. CASE rest = <<>>
    BY <2>2, SMT
  <2>3. CASE rest = <<Torn>>
    BY <2>1, <2>3, SMT
  <2> QED BY <2>2, <2>3
<1>3. ASSUME NEW d \in Channels
      PROVE  wire'[d] \in Seq(Messages) /\ (stage[d] = "body" => wire'[d] # <<>>)
  <2>1. wire[d] \in Seq(Messages) /\ (stage[d] = "body" => wire[d] # <<>>)
    BY DEF WireOK
  <2>2. wire'[d] = wire[d] \o rest \/ wire'[d] = wire[d]
    BY <1>1 DEF WireOK
  <2>3. wire[d] \o rest \in Seq(Messages) /\ (wire[d] # <<>> => wire[d] \o rest # <<>>)
    BY <1>2, <2>1, SMT
  <2> QED BY <2>1, <2>2, <2>3
<1>4. wire' \in [Channels -> Seq(Messages)]
  BY <1>1, <1>3 DEF WireOK
<1> QED
  BY <1>1, <1>3, <1>4 DEF WireOK

(* Telling the parent something changes what it knows of the task.          *)
LEMMA TellKeepsWire ==
  ASSUME WireOK, UNCHANGED <<wire, stage>>, NEW name, NEW t,
         NEW news \in {"accepted", "refused", "ended"},
         TellParent(name, t, news) \/ UNCHANGED request
  PROVE  WireOK'
<1>1. request \in [Delegated -> Knowledge]
  BY DEF WireOK
<1>0. request' \in {request, [request EXCEPT ![t] = Told(t, news)]}
  BY DEF TellParent
<1>2. CASE request' = [request EXCEPT ![t] = Told(t, news)]
  <2>1. t \in Delegated => Told(t, news) \in Knowledge
    BY <1>1 DEF Knowledge, Told
  <2>2. request' \in [Delegated -> Knowledge]
    BY <1>1, <1>2, <2>1
  <2> QED BY <2>2 DEF WireOK
<1>3. CASE request' = request
  BY <1>3 DEF WireOK
<1> QED
  BY <1>0, <1>2, <1>3

(* The first message is taken off the wire. *)
LEMMA TailKeepsWire ==
  ASSUME WireOK, NEW c \in Channels, RecvAThirdStage(c), UNCHANGED request
  PROVE  WireOK'
<1>1. /\ wire' = [wire EXCEPT ![c] = Tail(@)]
      /\ stage' = [stage EXCEPT ![c] = "handling"]
      /\ stage[c] = "body"
  BY DEF RecvAThirdStage
<1>2. Tail(wire[c]) \in Seq(Messages)
  BY <1>1, SMT DEF WireOK
<1> QED
  BY <1>1, <1>2 DEF WireOK

-----------------------------------------------------------------------------
(* The steps. *)

(* The invariant holds after a step that leaves the bindings alone if it    *)
(* holds for the wire and the threads.                                      *)
LEMMA BindingsLeftAlone ==
  ASSUME SubordinateInv, UNCHANGED <<taskBinding, resBindings, resState, runnable, raced>>,
         WireOK', ThreadsOK'
  PROVE  SubordinateInv'
<1>1. BindingsInverse' /\ SharingOnlyByRace'
  BY SharingUnchanged DEF SubordinateInv
<1>2. BindingsTyped'
  BY DEF SubordinateInv, BindingsTyped
<1> QED
  BY <1>1, <1>2 DEF SubordinateInv

(* The wire is as it was. *)
LEMMA WireUnchanged ==
  ASSUME WireOK, UNCHANGED <<wire, stage, request>>
  PROVE  WireOK'
BY DEF WireOK

(* The threads are where they were. *)
LEMMA ThreadsUnchanged ==
  ASSUME ThreadsOK, UNCHANGED <<pc, arg>>
  PROVE  ThreadsOK'
BY DEF ThreadsOK

(* When the process stops, nothing else changes. *)
LEMMA StopsKeeps ==
  ASSUME SubordinateInv, NEW check, Stops(check)
  PROVE  SubordinateInv'
<1>1. /\ UNCHANGED <<taskBinding, resBindings, resState, runnable, raced>>
      /\ UNCHANGED <<wire, stage, request>> /\ UNCHANGED <<pc, arg>>
  BY DEF Stops, Fail, bindingVars, socketVars, pcVars
<1> QED
  BY <1>1, WireUnchanged, ThreadsUnchanged, BindingsLeftAlone DEF SubordinateInv

(* AwaitNextMessage and RecvA: the main thread. *)
LEMMA MainKeeps ==
  ASSUME SubordinateInv, MainThread
  PROVE  SubordinateInv'
<1>1. /\ UNCHANGED <<taskBinding, resBindings, resState, runnable, raced>>
      /\ UNCHANGED <<wire, request>> /\ UNCHANGED <<pc, arg>>
  BY DEF MainThread, edsVars, pcVars, RecvA, AwaitNextMessage
<1>2. \/ stage' = [stage EXCEPT ![blocked] = "size"]
      \/ \E c \in Channels : stage' = [stage EXCEPT ![c] = "size"]
      \/ stage' = stage
  BY DEF MainThread, RecvA, AwaitNextMessage
<1>3. WireOK'
  BY <1>1, <1>2, StageKeepsWire, WireUnchanged DEF SubordinateInv
<1> QED
  BY <1>1, <1>3, ThreadsUnchanged, BindingsLeftAlone DEF SubordinateInv

(* AcceptConnection and the receives of the I/O threads. *)
LEMMA ReceiveKeeps ==
  ASSUME SubordinateInv, NEW c \in Channels, AcceptConnection(c) \/ Receive(c)
  PROVE  SubordinateInv'
<1>0. IoThread(c) \in Threads
  BY DEF IoThread, Threads
<1>1. CASE \E check : Stops(check)
  BY <1>1, StopsKeeps
<1>2. CASE /\ HandleAccept(c) \/ RecvASecondStage(c) \/ \E name : HandleReceiveError(c, name)
           /\ UNCHANGED <<edsVars, executorVars, pcVars, env, request, raced>>
  <2>1. /\ UNCHANGED <<taskBinding, resBindings, resState, runnable, raced>>
        /\ UNCHANGED <<wire, request>> /\ UNCHANGED <<pc, arg>>
    BY <1>2 DEF edsVars, pcVars, HandleAccept, RecvASecondStage, HandleReceiveError
  <2>2. \/ stage' = [stage EXCEPT ![c] = "none"]
        \/ stage' = [stage EXCEPT ![c] = "body"] /\ wire[c] # <<>>
        \/ stage' = [stage EXCEPT ![c] = "dead"]
    BY <1>2 DEF HandleAccept, RecvASecondStage, HandleReceiveError
  <2>3. WireOK'
    BY <2>1, <2>2, StageKeepsWire DEF SubordinateInv
  <2> QED
    BY <2>1, <2>3, ThreadsUnchanged, BindingsLeftAlone DEF SubordinateInv
<1>3. CASE /\ RecvAThirdStage(c)
           /\ Goto(IoThread(c), Head(wire[c]).type, [chan |-> c, msg |-> Head(wire[c])])
           /\ UNCHANGED <<edsVars, executorVars, lock, env, request, raced>>
  <2>1. UNCHANGED <<taskBinding, resBindings, resState, runnable, raced>> /\ UNCHANGED request
    BY <1>3 DEF edsVars
  <2>2. WireOK'
    BY <1>3, <2>1, TailKeepsWire DEF SubordinateInv
  <2>3. stage[c] = "body" /\ Head(wire[c]).type # "torn"
    BY <1>3 DEF RecvAThirdStage
  <2>4. ThreadsOK'
    BY <1>0, <1>3, <2>3, BodyKeepsThreads DEF SubordinateInv
  <2> QED
    BY <2>1, <2>2, <2>4, BindingsLeftAlone
<1> QED
  BY <1>1, <1>2, <1>3 DEF AcceptConnection, Receive, ReceiveSize, ReceiveBody, ReceiveError

(* FinishReceive *)
LEMMA FinishKeeps ==
  ASSUME SubordinateInv, NEW h \in Threads, FinishReceive(h)
  PROVE  SubordinateInv'
<1> DEFINE c == arg[h].chan
<1>1. UNCHANGED <<taskBinding, resBindings, resState, runnable, raced>>
  BY DEF FinishReceive, edsVars
<1>2. /\ UNCHANGED <<wire, request>>
      /\ stage' = [stage EXCEPT ![c] = "unlocking"] \/ stage' = [stage EXCEPT ![c] = "none"]
      /\ Goto(h, "unlock", arg[h]) \/ Goto(h, "idle", <<>>)
  BY DEF FinishReceive, EraseEnvelope, UnlockReceive
<1>3. WireOK'
  BY <1>2, StageKeepsWire DEF SubordinateInv
<1>4. ThreadsOK'
  <2>1. /\ "unlock" \notin Handling \cup {"schedule", "place"}
        /\ "idle" \notin Handling \cup {"schedule", "place"}
    BY DEF Handling
  <2> QED
    BY <1>2, <2>1, GotoKeepsThreads DEF SubordinateInv
<1> QED
  BY <1>1, <1>3, <1>4, BindingsLeftAlone
(* CheckResource: PlaceDelegatedTask follows only if the PU was idle. *)
LEMMA CheckKeeps ==
  ASSUME SubordinateInv, CheckResource
  PROVE  SubordinateInv'
<1> DEFINE m == arg["delegator"].msg
           s == IF Registered(m.target) /\ resState[m.target] = "IDLE" THEN "place" ELSE "refused"
<1>1. /\ pc["delegator"] = "request" /\ Goto("delegator", s, Saw(m))
      /\ UNCHANGED <<taskBinding, resBindings, resState, runnable, raced>>
      /\ UNCHANGED <<wire, stage, request>>
  BY DEF CheckResource, At, edsVars, socketVars
<1>2. "delegator" \in Threads /\ m.task \in Tasks
  BY <1>1 DEF SubordinateInv, ThreadsOK, Threads, Handling
<1>3. Saw(m).msg = m /\ Saw(m).saw = resState[m.target]
  BY DEF Saw
<1>4. /\ s = "place" => resState[m.target] = "IDLE" /\ m.target \in Resources
      /\ s # "schedule"
  BY DEF Registered
<1> HIDE DEF m, s
<1>5. ThreadsOK'
  BY <1>1, <1>2, <1>3, <1>4, GotoKeepsThreads DEF SubordinateInv
<1>6. WireOK'
  BY <1>1, WireUnchanged DEF SubordinateInv
<1> QED
  BY <1>1, <1>5, <1>6, BindingsLeftAlone

(* StartTask, for a thread that has the lock. *)
LEMMA StartKeeps ==
  ASSUME SubordinateInv, NEW h \in Threads, NEW t \in Tasks, NEW r \in Resources, NEW st,
         NEW ready \in [Jobs -> SUBSET Tasks],
         StartFails(t) = "none", StartTask(h, t, r, st, ready),
         raced \subseteq raced', resState[r] = "IDLE" \/ r \in raced',
         UNCHANGED <<wire, stage, request>>
  PROVE  SubordinateInv'
<1>1. taskBinding[t] = None
  BY DEF StartFails
<1>2. /\ taskBinding' \in [Tasks -> Resources \cup {None}]
      /\ resState' \in [Resources -> ResourceStates]
      /\ BindingsInverse' /\ SharingOnlyByRace'
  BY <1>1, StartKeepsSharing DEF SubordinateInv
<1>3. runnable' \in [Jobs -> SUBSET Tasks]
  BY DEF StartTask
<1>4. ThreadsOK'
  <2>1. Goto(h, "run", arg[h])
    BY DEF StartTask
  <2>2. "run" \notin Handling \cup {"schedule", "place"}
    BY DEF Handling
  <2> QED
    BY <2>1, <2>2, GotoKeepsThreads DEF SubordinateInv
<1>5. WireOK'
  BY WireUnchanged DEF SubordinateInv
<1> QED
  BY <1>2, <1>3, <1>4, <1>5 DEF SubordinateInv, BindingsTyped

(* PlaceDelegatedTask: a PU that was idle when it was looked at and is not   *)
(* any more is counted as raced.                                            *)
LEMMA PlaceKeeps ==
  ASSUME SubordinateInv, PlaceDelegatedTask
  PROVE  SubordinateInv'
<1> DEFINE a == arg["delegator"]
           t == a.msg.task
           r == a.msg.target
           st == [taskState EXCEPT ![t] = "RUNNABLE"]
<1>1. CASE StartFails(t) # "none"
  BY <1>1, StopsKeeps DEF PlaceDelegatedTask
<1>2. CASE StartFails(t) = "none"
  <2>1. /\ pc["delegator"] = "place"
        /\ StartTask("delegator", t, r, st, runnable)
        /\ raced' = IF resState[r] # "IDLE" /\ a.saw = "IDLE" THEN raced \cup {r} ELSE raced
        /\ UNCHANGED <<wire, stage, request>>
    BY <1>2 DEF PlaceDelegatedTask, At, socketVars
  <2>2. /\ "delegator" \in Threads /\ t \in Tasks /\ r \in Resources /\ a.saw = "IDLE"
        /\ runnable \in [Jobs -> SUBSET Tasks]
    BY <2>1 DEF SubordinateInv, ThreadsOK, Threads, Handling, BindingsTyped
  <2>3. raced \subseteq raced' /\ (resState[r] = "IDLE" \/ r \in raced')
    BY <2>1, <2>2
  <2> HIDE DEF a, t, r, st
  <2> QED
    BY <1>2, <2>1, <2>2, <2>3, StartKeeps
<1> QED
  BY <1>1, <1>2

(* ScheduleJob places a task on a PU that is idle under the lock. *)
LEMMA SchedulerKeeps ==
  ASSUME SubordinateInv, NEW h \in Threads, RunScheduler(h)
  PROVE  SubordinateInv'
<1> DEFINE j     == IF h = "http" THEN arg[h].job ELSE JobOf[arg[h].msg.task]
           red   == Reduction(taskState, producing, j)
           ready == ComputeRunnableTasks(red)
<1>1. /\ pc[h] = "schedule"
      /\ UNCHANGED <<raced, request>> /\ UNCHANGED <<wire, stage>>
      /\ \E p \in Placements(ready[j]) :
           \/ /\ runnable' = ready /\ Return(h)
              /\ UNCHANGED <<taskBinding, resBindings, resState>>
           \/ /\ UNCHANGED <<runnable, taskBinding, resBindings, resState>>
              /\ UNCHANGED <<pc, arg>>
           \/ \E t \in DOMAIN p :
                StartFails(t) = "none" /\ StartTask(h, t, p[t], Reduced(taskState, red), ready)
  BY DEF RunScheduler, At, socketVars, pcVars
<1>2. j \in Jobs
  BY <1>1, TaskTreeAssumption DEF SubordinateInv, ThreadsOK
<1>3. ready \in [Jobs -> SUBSET Tasks]
  <2>1. red.visited \subseteq Tasks
    BY DEF Reduction
  <2> HIDE DEF red
  <2> QED
    BY <2>1 DEF ComputeRunnableTasks, NewlyRunnable, SubordinateInv, BindingsTyped
<1> HIDE DEF j, red, ready
<1>4. WireOK'
  BY <1>1, WireUnchanged DEF SubordinateInv
<1>5. PICK p \in Placements(ready[j]) :
           \/ /\ runnable' = ready /\ Return(h)
              /\ UNCHANGED <<taskBinding, resBindings, resState>>
           \/ /\ UNCHANGED <<runnable, taskBinding, resBindings, resState>>
              /\ UNCHANGED <<pc, arg>>
           \/ \E t \in DOMAIN p :
                StartFails(t) = "none" /\ StartTask(h, t, p[t], Reduced(taskState, red), ready)
  BY <1>1
<1>6. CASE runnable' = ready /\ Return(h) /\ UNCHANGED <<taskBinding, resBindings, resState>>
  <2>1. ThreadsOK'
    BY <1>6, ReturnKeepsThreads DEF SubordinateInv
  <2>2. BindingsInverse' /\ SharingOnlyByRace'
    BY <1>1, <1>6, SharingUnchanged DEF SubordinateInv
  <2>3. BindingsTyped'
    BY <1>3, <1>6 DEF SubordinateInv, BindingsTyped
  <2> QED
    BY <1>4, <2>1, <2>2, <2>3 DEF SubordinateInv
<1>7. CASE UNCHANGED <<runnable, taskBinding, resBindings, resState>> /\ UNCHANGED <<pc, arg>>
  BY <1>1, <1>4, <1>7, ThreadsUnchanged, BindingsLeftAlone DEF SubordinateInv
<1>8. CASE \E t \in DOMAIN p :
             StartFails(t) = "none" /\ StartTask(h, t, p[t], Reduced(taskState, red), ready)
  <2>1. PICK t \in DOMAIN p :
          StartFails(t) = "none" /\ StartTask(h, t, p[t], Reduced(taskState, red), ready)
    BY <1>8
  <2>2. t \in Tasks /\ p[t] \in Resources /\ resState[p[t]] = "IDLE"
    BY <1>2, <1>3, SMT DEF Placements, IdleResources
  <2> QED
    BY <1>1, <1>3, <2>1, <2>2, StartKeeps
<1> QED
  BY <1>5, <1>6, <1>7, <1>8
(* What the parent is told: AnswerRequest and ForwardStateChange. *)
LEMMA TellKeeps ==
  ASSUME SubordinateInv, AnswerRequest \/ ForwardStateChange
  PROVE  SubordinateInv'
<1>1. /\ UNCHANGED <<taskBinding, resBindings, resState, runnable, raced>>
      /\ UNCHANGED <<wire, stage>>
      /\ Return("delegator") \/ Return("server")
      /\ \E name, t : \E news \in {"accepted", "refused", "ended"} :
           TellParent(name, t, news) \/ UNCHANGED request
  BY DEF AnswerRequest, ForwardStateChange, edsVars, socketVars
<1>2. WireOK'
  BY <1>1, TellKeepsWire DEF SubordinateInv
<1>3. ThreadsOK'
  <2>1. "delegator" \in Threads /\ "server" \in Threads
    BY DEF Threads
  <2> QED
    BY <1>1, <2>1, ReturnKeepsThreads DEF SubordinateInv
<1> QED
  BY <1>1, <1>2, <1>3, BindingsLeftAlone

(* SubmitJob *)
LEMMA SubmitKeeps ==
  ASSUME SubordinateInv, NEW j \in Jobs, SubmitJob(j)
  PROVE  SubordinateInv'
<1>1. /\ UNCHANGED <<taskBinding, resBindings, resState, runnable, raced>>
      /\ UNCHANGED <<wire, stage, request>>
      /\ Goto("http", "schedule", [job |-> j])
  BY DEF SubmitJob, bindingVars, socketVars
<1>2. ThreadsOK'
  <2>1. "http" \in Threads /\ "schedule" \notin Handling
    BY DEF Threads, Handling
  <2> QED
    BY <1>1, <2>1, GotoKeepsThreads DEF SubordinateInv
<1> QED
  BY <1>1, <1>2, WireUnchanged, BindingsLeftAlone DEF SubordinateInv

(* HandleTaskStateChange and ClearRunningTasks: neither unbinds the task. *)
LEMMA StateChangeKeeps ==
  ASSUME SubordinateInv, HandleTaskStateChange \/ ClearRunningTasks
  PROVE  SubordinateInv'
<1> DEFINE a == arg["server"]
<1>1. CASE \E check : Stops(check)
  BY <1>1, StopsKeeps
<1>2. CASE /\ pc["server"] \in {"state", "clear"}
           /\ UNCHANGED <<taskBinding, resBindings, resState, runnable, raced>>
           /\ UNCHANGED <<wire, stage, request>>
           /\ Return("server") \/ Goto("server", "clear", a) \/ Goto("server", "complete", a)
  <2>1. "server" \in Threads /\ a.msg.task \in Tasks
    BY <1>2 DEF SubordinateInv, ThreadsOK, Threads, Handling
  <2>2. ThreadsOK'
    BY <1>2, <2>1, ReturnKeepsThreads, GotoKeepsThreads DEF SubordinateInv
  <2> QED
    BY <1>2, <2>2, WireUnchanged, BindingsLeftAlone DEF SubordinateInv
<1> QED
  BY <1>1, <1>2 DEF HandleTaskStateChange, ClearRunningTasks, At, bindingVars, socketVars

(* The inherited handlers unbind a bound task and leave the runnable sets   *)
(* alone.                                                                   *)
LEMMA EndKeepsBindings ==
  ASSUME SubordinateInv, NEW t \in Tasks, NEW lists, UNCHANGED raced,
         HandleTaskCompletion(t, lists) \/ HandleTaskFailure(t, lists)
  PROVE  BindingsTyped' /\ BindingsInverse' /\ SharingOnlyByRace'
<1>1. CASE UNCHANGED <<taskBinding, resBindings, resState, runnable>>
  BY <1>1, SharingUnchanged DEF SubordinateInv, BindingsTyped
<1>2. CASE /\ taskBinding[t] \in Resources
           /\ UnbindTaskFromResource(t, taskBinding[t], lists)
           /\ UNCHANGED runnable
  <2>1. PICK b \in Resources : taskBinding[t] = b
    BY <1>2
  <2>2. /\ taskBinding' \in [Tasks -> Resources \cup {None}]
        /\ resState' \in [Resources -> ResourceStates]
        /\ BindingsInverse' /\ SharingOnlyByRace'
    BY <1>2, <2>1, UnbindKeepsSharing DEF SubordinateInv
  <2> QED
    BY <1>2, <2>2 DEF SubordinateInv, BindingsTyped
<1> QED
  BY <1>1, <1>2
     DEF HandleTaskCompletion, HandleTaskFailure, Fail, bindingVars, Registered

(* The connection of a task that is cleaned up. *)
LEMMA CleanUpKeepsWire ==
  ASSUME WireOK, NEW t, CleanUp(t) \/ UNCHANGED socketVars, UNCHANGED request
  PROVE  WireOK'
<1>1. CASE UNCHANGED socketVars
  BY <1>1, WireUnchanged DEF socketVars
<1>2. CASE PeerLeaves(t, "eof", <<>>)
  BY <1>2, LeaveKeepsWire
<1> QED
  BY <1>1, <1>2 DEF CleanUp

(* CompleteTask *)
LEMMA CompleteKeeps ==
  ASSUME SubordinateInv, CompleteTask
  PROVE  SubordinateInv'
<1> DEFINE a == arg["server"]
           t == a.msg.task
<1>1. CASE \E check : Stops(check)
  BY <1>1, StopsKeeps
<1>2. CASE /\ pc["server"] = "complete"
           /\ HandleTaskCompletion(t, running)
           /\ CleanUp(t) \/ UNCHANGED socketVars
           /\ Goto("server", IF t \in Delegated THEN "forward" ELSE "jobdone", a)
           /\ UNCHANGED <<request, raced>>
  <2>1. "server" \in Threads /\ t \in Tasks
    BY <1>2 DEF SubordinateInv, ThreadsOK, Threads, Handling
  <2>2. BindingsTyped' /\ BindingsInverse' /\ SharingOnlyByRace'
    BY <1>2, <2>1, EndKeepsBindings
  <2>3. WireOK'
    BY <1>2, CleanUpKeepsWire DEF SubordinateInv
  <2>4. ThreadsOK'
    <3>1. Goto("server", "forward", a) \/ Goto("server", "jobdone", a)
      BY <1>2
    <3> QED
      BY <2>1, <3>1, GotoKeepsThreads DEF SubordinateInv
  <2> QED
    BY <2>2, <2>3, <2>4 DEF SubordinateInv
<1> QED
  BY <1>1, <1>2 DEF CompleteTask, At

(* CompleteJob: the job's runnable set is emptied. *)
LEMMA JobKeeps ==
  ASSUME SubordinateInv, CompleteJob
  PROVE  SubordinateInv'
<1> DEFINE a == arg["server"]
           j == JobOf[a.msg.task]
<1>1. /\ pc["server"] = "jobdone"
      /\ runnable' = [runnable EXCEPT ![j] = {}]
      /\ UNCHANGED <<taskBinding, resBindings, resState, raced>>
      /\ UNCHANGED <<wire, stage, request>>
      /\ Goto("server", "schedule", a)
  BY DEF CompleteJob, At, HandleJobCompletion, bindingVars, socketVars
<1>2. "server" \in Threads /\ a.msg.task \in Tasks
  BY <1>1 DEF SubordinateInv, ThreadsOK, Threads, Handling
<1>3. ThreadsOK'
  BY <1>1, <1>2, GotoKeepsThreads DEF SubordinateInv
<1>4. BindingsTyped'
  BY <1>1 DEF SubordinateInv, BindingsTyped
<1>5. BindingsInverse' /\ SharingOnlyByRace' /\ WireOK'
  BY <1>1, SharingUnchanged, WireUnchanged DEF SubordinateInv
<1> QED
  BY <1>3, <1>4, <1>5 DEF SubordinateInv

(* CheckRunningTasksHealth *)
LEMMA HealthKeeps ==
  ASSUME SubordinateInv, NEW t \in Tasks, CheckRunningTasksHealth(t)
  PROVE  SubordinateInv'
<1>1. CASE \E check : Stops(check)
  BY <1>1, StopsKeeps
<1>2. CASE SimpleHandleTaskFailure(t) /\ CleanUp(t) /\ UNCHANGED <<pcVars, env, request, raced>>
  <2>1. BindingsTyped' /\ BindingsInverse' /\ SharingOnlyByRace'
    <3>1. CASE HandleTaskFailure(t, ClearedLists(t))
      BY <1>2, <3>1, EndKeepsBindings
    <3>2. CASE UNCHANGED <<taskBinding, resBindings, resState, runnable>>
      BY <1>2, <3>2, SharingUnchanged DEF SubordinateInv, BindingsTyped
    <3> QED
      BY <1>2, <3>1, <3>2 DEF SimpleHandleTaskFailure, Fail, bindingVars
  <2>2. WireOK'
    BY <1>2, CleanUpKeepsWire DEF SubordinateInv
  <2>3. ThreadsOK'
    BY <1>2, ThreadsUnchanged DEF SubordinateInv, pcVars
  <2> QED
    BY <2>1, <2>2, <2>3 DEF SubordinateInv
<1> QED
  BY <1>1, <1>2 DEF CheckRunningTasksHealth
(* TaskStarted: RunTask returns. *)
LEMMA StartedKeeps ==
  ASSUME SubordinateInv, NEW h \in Threads, TaskStarted(h)
  PROVE  SubordinateInv'
<1>1. /\ UNCHANGED <<taskBinding, resBindings, resState, runnable, raced>>
      /\ UNCHANGED <<wire, stage, request>>
      /\ Goto(h, "accepted", arg[h]) \/ Return(h)
  BY DEF TaskStarted, socketVars
<1>2. ThreadsOK'
  <2>1. "accepted" \notin Handling \cup {"schedule", "place"}
    BY DEF Handling
  <2> QED
    BY <1>1, <2>1, GotoKeepsThreads, ReturnKeepsThreads DEF SubordinateInv
<1> QED
  BY <1>1, <1>2, WireUnchanged, BindingsLeftAlone DEF SubordinateInv

(* The executor's threads touch neither the scheduler nor the sockets. *)
LEMMA ExecutorKeeps ==
  ASSUME SubordinateInv,
         \/ \E h \in Threads : Waits(h)
         \/ \E t \in Tasks : HandlerThread(t)
         \/ Mishap
  PROVE  SubordinateInv'
<1>1. /\ UNCHANGED <<taskBinding, resBindings, resState, runnable, raced>>
      /\ UNCHANGED <<wire, stage, request>> /\ UNCHANGED <<pc, arg>>
  BY DEF Waits, HandlerThread, Mishap, edsVars, socketVars, pcVars
<1> QED
  BY <1>1, WireUnchanged, ThreadsUnchanged, BindingsLeftAlone DEF SubordinateInv

(* Task processes and the parent: they only send, connect and leave. *)
LEMMA PeersKeep ==
  ASSUME SubordinateInv,
         \/ \E t \in Tasks : TaskProcess(t)
         \/ \E t \in Delegated, r \in Resources : ParentRequests(t, r)
         \/ \E how \in Endings : ParentCloses(how)
  PROVE  SubordinateInv'
<1>1. ASSUME WireOK', UNCHANGED <<edsVars, pcVars, raced>>
      PROVE  SubordinateInv'
  BY <1>1, ThreadsUnchanged, BindingsLeftAlone DEF SubordinateInv, edsVars, pcVars
<1>2. ASSUME NEW t \in Tasks, TaskProcess(t)
      PROVE  SubordinateInv'
  <2>1. CASE TaskConnects(t)
    <3>1. UNCHANGED <<wire, stage, request>> /\ UNCHANGED <<edsVars, pcVars, raced>>
      BY <2>1 DEF TaskConnects, Connect
    <3> QED
      BY <1>1, <3>1, WireUnchanged DEF SubordinateInv
  <2>2. CASE TaskReports(t)
    <3>1. StateMsg(t) \in Messages
      BY DEF StateMsg, Messages
    <3>2. PeerSends(t, StateMsg(t)) /\ UNCHANGED request /\ UNCHANGED <<edsVars, pcVars, raced>>
      BY <2>2 DEF TaskReports
    <3>3. request' \in [Delegated -> Knowledge]
      BY <3>2 DEF SubordinateInv, WireOK
    <3> QED
      BY <1>1, <3>1, <3>2, <3>3, SendKeepsWire DEF SubordinateInv
  <2>3. CASE \E how \in Endings, rest \in Rests : TaskExits(t, how, rest)
    <3>1. PICK how \in Endings, rest \in Rests :
            PeerLeaves(t, how, rest) /\ UNCHANGED request /\ UNCHANGED <<edsVars, pcVars, raced>>
      BY <2>3 DEF TaskExits
    <3>2. rest \in {<<>>, <<Torn>>}
      BY DEF Rests
    <3> QED
      BY <1>1, <3>1, <3>2, LeaveKeepsWire DEF SubordinateInv
  <2> QED
    BY <1>2, <2>1, <2>2, <2>3 DEF TaskProcess
<1>3. ASSUME NEW t \in Delegated, NEW r \in Resources, ParentRequests(t, r)
      PROVE  SubordinateInv'
  <2>1. t \in Tasks /\ request \in [Delegated -> Knowledge]
    BY SubordinateAssumption DEF SubordinateInv, WireOK
  <2>2. RequestMsg(t, r, request[t].last) \in Messages
    BY <2>1 DEF RequestMsg, Messages, Knowledge
  <2>3. /\ PeerSends(Delegator, RequestMsg(t, r, request[t].last))
        /\ UNCHANGED <<edsVars, pcVars, raced>>
    BY <1>3 DEF ParentRequests
  <2>4. request' \in [Delegated -> Knowledge]
    <3>1. Asked(t, r) \in Knowledge
      <4>1. PICK k \in Knowledge : k = request[t]
        BY <2>1
      <4>2. k.tries + 1 \in Nat
        BY SMT DEF Knowledge
      <4> QED
        BY <4>1, <4>2 DEF Asked, Knowledge
    <3> QED
      BY <1>3, <2>1, <3>1 DEF ParentRequests
  <2> QED
    BY <1>1, <2>2, <2>3, <2>4, SendKeepsWire DEF SubordinateInv
<1>4. ASSUME NEW how, ParentCloses(how)
      PROVE  SubordinateInv'
  <2>1. PeerLeaves(Delegator, how, <<>>) /\ UNCHANGED request /\ UNCHANGED <<edsVars, pcVars, raced>>
    BY <1>4 DEF ParentCloses
  <2> QED
    BY <1>1, <2>1, LeaveKeepsWire DEF SubordinateInv
<1> QED
  BY <1>2, <1>3, <1>4

(* At the start nothing is bound and no message is on its way. *)
LEMMA SubordinateStarts == Init => SubordinateInv
<1> SUFFICES ASSUME Init PROVE SubordinateInv
  OBVIOUS
<1>1. WireOK
  <2>1. /\ wire = [c \in Channels |-> <<>>]
        /\ stage = [c \in Channels |-> IF c = Delegator THEN "none" ELSE "new"]
        /\ request = [t \in Delegated |-> NoRequest]
    BY DEF Init, SocketsInit
  <2>2. NoRequest \in Knowledge
    BY DEF NoRequest, Knowledge
  <2>3. wire \in [Channels -> Seq(Messages)] /\ request \in [Delegated -> Knowledge]
    BY <2>1, <2>2, SMT
  <2>4. DOMAIN stage = Channels /\ \A c \in Channels : stage[c] # "body"
    BY <2>1
  <2> QED
    BY <2>3, <2>4 DEF WireOK
<1>2. ThreadsOK
  <2>1. pc = [h \in Threads |-> "idle"] /\ arg = [h \in Threads |-> <<>>] /\ "delegator" \in Threads
    BY DEF Init, Threads
  <2> QED
    BY <2>1 DEF ThreadsOK, Handling
<1>3. /\ taskBinding = [t \in Tasks |-> None] /\ resBindings = {}
      /\ resState = [r \in Resources |-> "IDLE"] /\ runnable = [j \in Jobs |-> {}]
  BY DEF Init, EdsInit, NothingSubmitted
<1>4. BindingsTyped /\ BindingsInverse /\ SharingOnlyByRace
  BY <1>3, ResourcesAssumption
     DEF BindingsTyped, ResourceStates, BindingsInverse, SharingOnlyByRace, BoundTasksForResource
<1> QED
  BY <1>1, <1>2, <1>4 DEF SubordinateInv

(* No step of any thread, process or peer breaks the invariant. *)
LEMMA SubordinateSteps == SubordinateInv /\ [Next]_vars => SubordinateInv'
<1> SUFFICES ASSUME SubordinateInv, [Next]_vars PROVE SubordinateInv'
  OBVIOUS
<1>0. "delegator" \in Threads /\ "server" \in Threads /\ "http" \in Threads
  BY DEF Threads
<1>1. CASE UNCHANGED vars
  <2>1. /\ UNCHANGED <<taskBinding, resBindings, resState, runnable, raced>>
        /\ UNCHANGED <<wire, stage, request>> /\ UNCHANGED <<pc, arg>>
    BY <1>1 DEF vars, edsVars, socketVars, pcVars
  <2> QED
    BY <2>1, WireUnchanged, ThreadsUnchanged, BindingsLeftAlone DEF SubordinateInv
<1>2. CASE DelegatorThread
  <2>1. Delegator \in Channels
    BY SubordinateAssumption
  <2> QED
    BY <1>0, <1>2, <2>1, ReceiveKeeps, FinishKeeps, CheckKeeps, PlaceKeeps, TellKeeps,
       ExecutorKeeps, StartedKeeps DEF DelegatorThread
<1>3. CASE ServerThread
  <2>1. Tasks \subseteq Channels
    BY SubordinateAssumption
  <2> QED
    BY <1>0, <1>3, <2>1, ReceiveKeeps, FinishKeeps, StateChangeKeeps, CompleteKeeps, TellKeeps,
       JobKeeps, SchedulerKeeps, ExecutorKeeps, StartedKeeps DEF ServerThread, Scheduling
<1>4. CASE Scheduling("http")
  BY <1>0, <1>4, SchedulerKeeps, ExecutorKeeps, StartedKeeps DEF Scheduling
<1>5. CASE MainThread \/ HealthThread \/ Mishap \/ \E t \in Tasks : HandlerThread(t)
  BY <1>5, MainKeeps, HealthKeeps, ExecutorKeeps DEF HealthThread
<1>6. CASE \/ \E t \in Tasks : TaskProcess(t)
           \/ \E t \in Delegated, r \in Resources : ParentRequests(t, r)
           \/ \E how \in Endings : ParentCloses(how)
  BY <1>6, PeersKeep
<1>7. CASE \E j \in Jobs : SubmitJob(j)
  BY <1>7, SubmitKeeps
<1> QED
  BY <1>1, <1>2, <1>3, <1>4, <1>5, <1>6, <1>7 DEF Next, Obliged

(* Tasks share a PU of a subordinate coordinator, or a PU with a task counts *)
(* as idle, only after a local task has taken the PU between the check in   *)
(* PlaceDelegatedTask (coordinator.cc) and its lock: whatever the threads,   *)
(* the task processes and the parent do, for any number of them.            *)
THEOREM PUsSharedOnlyByRace == Spec => []SharingOnlyByRace
<1>1. SubordinateInv => SharingOnlyByRace
  BY DEF SubordinateInv
<1> QED
  BY <1>1, SubordinateStarts, SubordinateSteps, PTL DEF Spec
=============================================================================
