----------------------------- MODULE Simulator ------------------------------
(***************************************************************************)
(* The trace-driven simulator (src/sim/simulator.cc, simulator_bridge.cc): *)
(* it feeds events to the flow scheduler, with a simulated clock in place  *)
(* of machines and task processes.  In online mode the events that fall    *)
(* into the run time of the solver are handled between the solver's        *)
(* decision and its application; in batch mode the solver takes no time.   *)
(*                                                                         *)
(* The process is sequential.  One step is one iteration of the replay     *)
(* loop up to its first event, one event, or one phase of a scheduling     *)
(* round; sim.pc says where the process is:                                *)
(*   "start"    about to load the trace                                    *)
(*   "loop"     about to test HasSimulationCompleted                       *)
(*   "machines" in ProcessSimulatorEvents for the initial machines         *)
(*   "load"     about to load task events and heartbeats                   *)
(*   "events"   in ProcessSimulatorEvents before a scheduler run           *)
(*   "tail"     in ProcessSimulatorEvents after the last run               *)
(*   "solver"   in ProcessSimulatorEvents while the solver runs            *)
(*   "apply"    about to apply the scheduling deltas                       *)
(*   "done"     the simulation is over                                     *)
(***************************************************************************)
EXTENDS FlowScheduler, CostModel, TraceLoader, TaskInterference

CONSTANTS
  Configs,       \* the traces and command line flags
  TimeZeroWait   \* TIME_ZERO_TOTAL_UNSCHEDULED_TIME

VARIABLES
  events,        \* event_manager_'s queue
  sim,           \* the local variables of ReplaySimulation and its callees
  round,         \* the round in progress: what RunSchedulingIteration holds
  numTasks,      \* job_num_tasks_, None for a job that has no entry
  kb             \* the statistics of tasks, and the latest samples of the PUs

simVars == <<events, sim, round, numTasks, kb>>
vars == <<edsVars, flowVars, config, removed, times, simVars>>

NoRound == [mapping |-> <<>>, start |-> 0, runtime |-> 0, completed |-> {}, removedPUs |-> {}]

(* The constructors *)
Init ==
  /\ NothingSubmitted
  /\ resState = [r \in Resources |-> "ABSENT"]
  /\ config \in Configs
  /\ g = EmptyGraph
  /\ cm = [InitialModel EXCEPT !.dfs = EmptyDFS(config.dfs, config.perRack, config.blocks)]
  /\ jobsToSchedule = {}
  /\ info = [reports |-> [bin \in {Binary[t] : t \in Tasks} |-> "none"],
             request |-> [t \in Tasks |-> None], label |-> [m \in Machines |-> NoLabel],
             sample |-> [m \in Machines |-> None]]
  /\ removed = {}
  /\ times = [now |-> 0, forced |-> config.forced,
              td |-> [t \in Tasks |-> [submit |-> 0, start |-> 0, finish |-> 0, total |-> 0,
                                       waited |-> 0, left |-> None]]]
  /\ events = <<>>
  /\ sim = [pc |-> "start", upTo |-> 0, runAt |-> 0, beatAt |-> 0, rounds |-> 0, runs |-> 0,
            read |-> 0, handled |-> 0, loaded |-> TRUE, costsAt |-> 0,
            seen |-> 0, rewound |-> FALSE, crowded |-> FALSE]
  /\ round = NoRound
  /\ numTasks = [j \in Jobs |-> None]
  /\ kb = [rows |-> [t \in Tasks |-> None], stats |-> [t \in Tasks |-> None],
           kind |-> [t \in Tasks |-> None], load |-> [p \in Resources |-> 0]]

-----------------------------------------------------------------------------
(* ReplaySimulation.  Three fields of sim are not in the code: the time of  *)
(* the latest event handled (seen), whether a scheduler run began earlier  *)
(* than that (rewound), and whether a machine was removed while several    *)
(* tasks ran on it (crowded).                                              *)

schedulerVars == <<edsVars, flowVars, config, removed>>

(***************************************************************************)
(* LoadTraceData.  The files of a Google trace are there only if the trace *)
(* processor did not stop half-way.                                        *)
(***************************************************************************)
LoadTraceData(index) ==
  LET google == config.loader = "google"
      left   == RunningTimes(config)
  IN  /\ sim.pc = "start"
      /\ UNCHANGED <<config, removed, round>>
      /\ IF google /\ JobsRuntimeEventsFail(config.trace)
         THEN FlowFail("JobsRuntimeEvents_runs") /\ UNCHANGED <<times, simVars>>
         ELSE IF UtilizationStatsFail(config, index)
         THEN FlowFail("LoadTaskUtilizationStats_task") /\ UNCHANGED <<times, simVars>>
         ELSE /\ events' = IF google THEN GoogleMachineEvents(config) ELSE SyntheticMachineEvents(config)
              /\ numTasks' = LoadJobsNumTasks(config)
              /\ kb' = [kb EXCEPT !.rows = UtilizationStats(config, index)]
              /\ times' = [times EXCEPT !.td = [t \in Tasks |-> [@[t] EXCEPT !.left = left[t]]]]
              /\ sim' = [sim EXCEPT !.pc = "loop"]
              /\ UNCHANGED <<edsVars, flowVars>>

(* Rounds and events are counted for their limits; without a limit (Never)  *)
(* a count stops at the number that the code tells from larger ones.       *)
Counted(n, most, limit) == IF limit = Never /\ n = most THEN n ELSE n + 1

(* The head of the loop.  The first time, the machines come first. *)
TestCompletion ==
  /\ sim.pc = "loop"
  /\ sim' = [sim EXCEPT !.pc =
       IF HasSimulationCompleted(config, events, sim.handled, sim.rounds) THEN "done"
       ELSE IF sim.rounds = 0 THEN "machines" ELSE "load", !.upTo = 0]
  /\ UNCHANGED <<schedulerVars, times, events, round, numTasks, kb>>

(* LoadTaskEvents and the heartbeats.  If there were no time for the next   *)
(* run, the loop over heartbeats would not end.                            *)
LoadEvents ==
  LET new == LoadTaskEvents(config, sim.read, sim.runAt + config.maxSolver)
      beats == Heartbeats(config, sim.beatAt, sim.runAt)
      inTime == sim.runAt <= config.end
  IN  /\ sim.pc = "load" /\ sim.runAt # Never
      /\ UNCHANGED <<config, removed, times, round, kb>>
      /\ IF \E t \in new.dropped : numTasks[JobOf[t]] = None
         THEN FlowFail("LoadTaskEvents_num_tasks") /\ UNCHANGED <<events, numTasks, sim>>
         ELSE /\ events' = AddEvents(AddEvents(events, new.events), beats)
              /\ numTasks' = [j \in Jobs |-> IF numTasks[j] = None THEN None
                               ELSE numTasks[j] - Cardinality({t \in new.dropped : JobOf[t] = j})]
              /\ sim' = [sim EXCEPT !.read = new.read, !.loaded = new.loaded,
                                    !.beatAt = @ + Len(beats) * config.beat,
                                    !.pc = IF inTime THEN "events" ELSE "tail",
                                    !.upTo = IF inTime THEN sim.runAt ELSE config.end]
              /\ UNCHANGED <<edsVars, flowVars>>

(* The end of the loop's body *)
AfterBody == IF ~sim.loaded /\ config.exitAfterLast THEN "done" ELSE "loop"

Handling == sim.pc \in {"machines", "events", "tail", "solver"}
NothingToHandle == Handling /\ GetTimeOfNextEvent(events) > sim.upTo

(* ProcessSimulatorEvents returns, outside of a round. *)
EventsHandled ==
  /\ NothingToHandle /\ sim.pc \in {"machines", "tail"}
  /\ sim' = [sim EXCEPT !.pc = IF @ = "machines" THEN "load" ELSE AfterBody]
  /\ UNCHANGED <<schedulerVars, times, events, round, numTasks, kb>>

(* ScheduleJobsHelper: the first two runs in online mode take no time. *)
AfterRun(runtime, q) ==
  [sim EXCEPT !.rounds = Counted(@, 3, config.maxRounds), !.pc = AfterBody,
              !.runAt = IF sim.rounds + 1 <= 2 /\ config.batchStep = 0 THEN @
                        ELSE GetTimeOfNextSchedulerRun(config, q, @, runtime)]

-----------------------------------------------------------------------------
(* Events *)

(* GetNextEvent: the clock, and what ProcessSimulatorEvents leaves *)
Handle(kind) == Handling /\ ~NothingToHandle /\ Head(events).kind = kind
Clock == UpdateCurrentTimestampIfSmaller(times.now, Head(events).time)
Popped == [sim EXCEPT !.handled = Counted(@, 0, config.maxEvents), !.seen = Max({@, Head(events).time})]

(* Mutant: the old end events stay in the queue. *)
UpdateTaskEndEventsAdding(q, old, new, out, into) ==
  FoldLeft(LAMBDA r, t : AddEvent(r, Event(new[t].finish, "TASK_END", t)), q, SetToSeq(into))

(* UpdateTaskEndEvents: the end events of tasks "out" go, in their place or  *)
(* anew those of tasks "into" come.                                        *)
UpdateTaskEndEvents(q, old, new, out, into) ==
  LET Without(r, t) == RemoveTaskEndRuntimeEvent(r, t, old[t].finish)
      With(r, t)    == AddEvent(r, Event(new[t].finish, "TASK_END", t))
  IN  FoldLeft(With, FoldLeft(Without, q, SetToSeq(out)), SetToSeq(into))

(* The tasks whose end event an update of interference moves *)
Shifted(before, after, gone) ==
  IF config.interference = "none" THEN {}
  ELSE {t \in Tasks : /\ before[t] # None /\ after[t] # None /\ times.td[t].left # None
                      /\ \/ before[t] # after[t]
                         \/ MachineOf(before[t]) \in Touched(before, after)}

(* The interference model's update; the synthetic first task of a Google    *)
(* trace starts when it was submitted.                                     *)
TimesAfter(now, before, after, evicted, completed, gone, early) ==
  IF config.interference = "none"
  THEN WithoutInterference(times.td, now, before, after, evicted, completed, config.end,
                           [t \in Tasks |-> IF t \in config.forced THEN times.td[t].submit ELSE now])
  ELSE WithInterference(times.td, now, before, after, evicted, completed, config.end, gone, early)

AddMachineEvent(rack) ==
  /\ Handle("ADD_MACHINE")
  /\ RegisterResource(Head(events).of, rack)
  /\ times' = [times EXCEPT !.now = Clock]
  /\ events' = Tail(events) /\ sim' = Popped
  /\ UNCHANGED <<info, config, removed, round, numTasks, kb>>

(***************************************************************************)
(* RemoveMachine: the tasks on the machine are evicted, one by one.  If    *)
(* the solver is running, the PUs are noted for RunSchedulingIteration.    *)
(***************************************************************************)
RemoveMachineEvent(later) ==
  LET m == Head(events).of
      victims == {t \in Tasks : \E r \in Below(m) : <<r, t>> \in resBindings}
      after == [t \in Tasks |-> IF t \in victims THEN None ELSE taskBinding[t]]
      td == TimesAfter(Clock, taskBinding, after, victims, {}, TRUE, {})
  IN  /\ Handle("REMOVE_MACHINE")
      /\ DeregisterResource(m, later)
      /\ times' = [times EXCEPT !.now = Clock, !.td = td]
      /\ events' = UpdateTaskEndEvents(Tail(events), times.td, td, victims, {})
      /\ sim' = [Popped EXCEPT !.crowded = @ \/ Cardinality(victims) > 1]
      /\ round' = [round EXCEPT !.removedPUs = IF sim.pc = "solver" THEN @ \cup PUsBelow(m) ELSE @]
      /\ UNCHANGED <<info, config, removed, numTasks, kb>>

(***************************************************************************)
(* AddMachineSamples and AddMachineSample: the usage of a PU is that of    *)
(* the tasks bound to it, as far as they have statistics.  A task is bound *)
(* to one PU of a machine.                                                 *)
(***************************************************************************)
MachineHeartbeat ==
  LET used(p) == SumOver({t \in BoundTasksForResource(p) : kb.stats[t] # None}, LAMBDA t : kb.stats[t].cpu)
  IN  /\ Handle("HEARTBEAT")
      /\ times' = [times EXCEPT !.now = Clock]
      /\ events' = Tail(events) /\ sim' = Popped
      /\ UNCHANGED <<config, removed, round, numTasks>>
      /\ IF \E p, q \in resBindings : p # q /\ p[2] = q[2] /\ MachineOf(p[1]) = MachineOf(q[1])
         THEN FlowFail("AddMachineSamples_bound") /\ UNCHANGED kb
         ELSE /\ kb' = [kb EXCEPT !.load = [p \in Resources |-> IF Registered(p) THEN used(p) ELSE @[p]]]
              /\ UNCHANGED <<edsVars, flowVars>>

(* AddTask for a task that was submitted before *)
TaskSubmittedAgain ==
  /\ Handle("TASK_SUBMIT") /\ taskState[Head(events).of] # "ABSENT"
  /\ times' = [times EXCEPT !.now = Clock]
  /\ events' = Tail(events) /\ sim' = Popped
  /\ UNCHANGED <<schedulerVars, round, numTasks, kb>>

(* SetTaskType, from the averages of cycles per instruction, memory         *)
(* accesses per instruction and page cache                                 *)
SetTaskType(s) ==
  CASE s # None /\ s.cpi < 900 /\ s.mai < 1 -> "RABBIT"
    [] s # None /\ ~(s.cpi < 900 /\ s.mai < 1) /\ s.mai > 5 /\ s.cache > 50 -> "DEVIL"
    [] s # None /\ s.cpi > 1600 /\ s.mai > 1 /\ ~(s.mai > 5 /\ s.cache > 50) -> "SHEEP"
    [] OTHER -> "TURTLE"

(* AddTask, AddTaskStats, AddTaskToJob and PopulateJob; the first task of a  *)
(* job becomes its root.                                                   *)
TaskSubmit(d) ==
  LET t == Head(events).of
      j == JobOf[t]
  IN  /\ taskState' = [taskState EXCEPT ![t] = "CREATED"]
      /\ jobState' = [jobState EXCEPT ![j] = IF @ = "ABSENT" THEN "CREATED" ELSE @]
      /\ jobsToSchedule' = jobsToSchedule \cup {j}
      /\ cm' = [cm EXCEPT !.dfs = d]
      /\ kb' = [kb EXCEPT !.rows[t] = None, !.stats[t] = kb.rows[t], !.kind[t] = SetTaskType(kb.rows[t])]
      /\ times' = [times EXCEPT !.now = Clock, !.td[t].submit = Clock,
                                !.td[t].waited = IF Clock = 0 THEN TimeZeroWait ELSE 0]
      /\ UNCHANGED <<producing, runnable, bindingVars, failedCheck, g, info>>

TaskSubmitEvent ==
  LET t == Head(events).of
      placements == IF config.model = "quincy" THEN AddFilesForTask(cm.dfs, t) ELSE {cm.dfs}
      luckless == config.model = "quincy" /\ (placements = {} \/ AddFilesMayFail(cm.dfs, t))
  IN  /\ Handle("TASK_SUBMIT") /\ taskState[t] = "ABSENT"
      /\ \/ \E d \in placements : TaskSubmit(d)
         \/ luckless /\ FlowFail("AddBlocksForTask_space") /\ UNCHANGED <<times, kb>>
      /\ events' = Tail(events) /\ sim' = Popped
      /\ UNCHANGED <<config, removed, round, numTasks>>

(***************************************************************************)
(* TaskCompleted: HandleTaskCompletion, which retimes the tasks that stay  *)
(* on the machine, HandleTaskFinalReport and, for the last task of a job,  *)
(* HandleJobCompletion.                                                    *)
(***************************************************************************)
TaskEndEvent ==
  LET t == Head(events).of
      j == JobOf[t]
      after == [taskBinding EXCEPT ![t] = None]
      td == TimesAfter(Clock, taskBinding, after, {}, {t}, FALSE, {})
      shifted == Shifted(taskBinding, after, FALSE)
  IN  /\ Handle("TASK_END")
      /\ HandleTaskCompletionAndReport(t, numTasks[j] = 1)
      /\ numTasks' = [numTasks EXCEPT ![j] = IF @ = 1 THEN None ELSE (@ - 1) % TimeWord]
      /\ kb' = [kb EXCEPT !.stats[t] = None]
      /\ times' = [times EXCEPT !.now = Clock, !.td = td]
      /\ events' = UpdateTaskEndEvents(Tail(events), times.td, td, shifted, shifted) /\ sim' = Popped
      /\ round' = [round EXCEPT !.completed = IF sim.pc = "solver" THEN @ \cup {t} ELSE @]
      /\ UNCHANGED <<config, removed>>

-----------------------------------------------------------------------------
(* ScheduleJobs and RunSchedulingIteration *)

(* Whether time-dependent costs are due; the subtraction may wrap around. *)
CostsDue(now) == now < config.costFrequency \/ sim.costsAt <= now - config.costFrequency

(* The solver's answer for p, the graph and the model before it *)
RoundPrepared(p, now, due) ==
  IF p.check # "none"
  THEN failedCheck' = p.check /\ UNCHANGED <<g, cm, sim, round>>
  ELSE \E mapping \in RunSolver(p.g), runtime \in config.runtimes :
         /\ g' = p.g /\ cm' = p.cm
         /\ round' = [NoRound EXCEPT !.mapping = mapping, !.start = now, !.runtime = runtime]
         /\ sim' = [sim EXCEPT !.pc = IF config.batchStep = 0 THEN "solver" ELSE "apply",
                      !.upTo = now + (IF sim.runs = 0 THEN 0 ELSE runtime),
                      !.runs = Min({@ + 1, 2}), !.costsAt = IF due THEN now ELSE @,
                      !.rewound = @ \/ now < sim.seen]
         /\ UNCHANGED failedCheck

(***************************************************************************)
(* The events before a scheduler run are handled, the clock moves to the   *)
(* time of the run, and the scheduler runs up to the solver's answer       *)
(* (mapping), which takes some time (runtime).  Without runnable tasks the *)
(* run ends here.                                                          *)
(***************************************************************************)
StartRound ==
  LET now   == UpdateCurrentTimestamp(config, times.now, sim.runAt)
      newly == BecomingRunnable(jobsToSchedule)
      st    == StatesForRound(newly)
      ready == ReadyForRound(newly)
      jobs  == {j \in jobsToSchedule : ready[j] # {}}
  IN  /\ NothingToHandle /\ sim.pc = "events" /\ times.now = now
      /\ taskState' = st /\ runnable' = ready
      /\ UNCHANGED <<jobState, producing, bindingVars, jobsToSchedule, info, config, removed,
                     times, events, numTasks, kb>>
      /\ IF jobs = {}
         THEN sim' = AfterRun(0, events) /\ UNCHANGED <<failedCheck, g, cm, round>>
         ELSE RoundPrepared(Prepared(NoChoice, CostsDue(now), jobs, st), now, CostsDue(now))

(* UpdateCurrentTimestamp before a run.  It may set the clock back behind   *)
(* events that were handled already.                                       *)
SetClock ==
  /\ NothingToHandle /\ sim.pc = "events"
  /\ times.now # UpdateCurrentTimestamp(config, times.now, sim.runAt)
  /\ times' = [times EXCEPT !.now = sim.runAt]
  /\ UNCHANGED <<schedulerVars, events, sim, round, numTasks, kb>>

(* The solver is done.  The clock moves to that time, unless it stands at 0. *)
SolverDone ==
  /\ NothingToHandle /\ sim.pc = "solver"
  /\ times' = [times EXCEPT !.now = IF @ # 0 /\ sim.runs > 1 THEN round.start + round.runtime ELSE @]
  /\ sim' = [sim EXCEPT !.pc = "apply"]
  /\ UNCHANGED <<schedulerVars, events, round, numTasks, kb>>

(* Moves inside a machine that come after another change on that machine *)
EarlyChoices(before, after) ==
  LET inside == MovedInside(before, after)
      evictedFrom == {MachineOf(before[t]) : t \in {u \in Tasks : before[u] # None /\ after[u] = None}}
      sure == {t \in inside : MachineOf(before[t]) \in evictedFrom}
      maybe == {t \in inside : MachineOf(before[t]) \in Touched(before, after)}
  IN  IF config.interference = "none" THEN {{}} ELSE {e \in SUBSET inside : sure \subseteq e /\ e \subseteq maybe}

(***************************************************************************)
(* The deltas that are still valid are applied, with OnTaskEviction,       *)
(* OnTaskMigration and OnTaskPlacement, and the clock goes back to the     *)
(* start of the round.                                                     *)
(***************************************************************************)
FinishRound ==
  LET now == times.now
      valid == StillValid(round.mapping, round.completed, round.removedPUs)
      early == {t \in Tasks : t \in DOMAIN valid /\ taskBinding[t] = None /\ t \notin config.forced
                              /\ now < times.td[t].submit}
  IN  /\ sim.pc = "apply"
      /\ round' = NoRound
      /\ UNCHANGED <<jobsToSchedule, info, config, removed, numTasks, kb>>
      /\ IF early # {}
         THEN /\ Fail("UpdateTaskTotalUnscheduledTime_start")
              /\ UNCHANGED <<g, cm, times, events, sim>>
         ELSE /\ ApplySchedulingDeltas(g, cm, NoChoice, round.mapping, valid, taskState, runnable)
              /\ LET after == taskBinding'
                     gone == {t \in Tasks : taskBinding[t] # None /\ after[t] = None}
                     into == PlacedIn(taskBinding, after)
                     shifted == Shifted(taskBinding, after, FALSE)
                 IN  \E e \in EarlyChoices(taskBinding, after) :
                       LET td == TimesAfter(now, taskBinding, after, gone, {}, FALSE, e)
                           q  == UpdateTaskEndEvents(events, times.td, td, gone \cup shifted,
                                                     into \cup shifted)
                       IN  /\ times' = [times EXCEPT !.td = td,
                                          !.now = UpdateCurrentTimestamp(config, now, round.start)]
                           /\ events' = q
                           /\ sim' = AfterRun(round.runtime, q)

Stopped == sim.pc = "done" \/ ~Alive

Step ==
  /\ Alive
  /\ \/ \E index \in 0 .. Len(config.initial) : LoadTraceData(index)
     \/ TestCompletion
     \/ LoadEvents
     \/ EventsHandled
     \/ Handling /\ \E rack \in RackChoicesFor(Now, cm) : AddMachineEvent(rack)
     \/ Handle("REMOVE_MACHINE") /\ \E later \in RemoveMachineChoices(Now, cm, Head(events).of) :
          RemoveMachineEvent(later)
     \/ MachineHeartbeat
     \/ TaskSubmittedAgain
     \/ TaskSubmitEvent
     \/ TaskEndEvent
     \/ SetClock
     \/ StartRound
     \/ SolverDone
     \/ FinishRound

Next == Step \/ (Stopped /\ UNCHANGED vars)

(* The process is sequential and runs until it stops: weak fairness of      *)
(* Step, which is enabled unless the process has stopped (no state          *)
(* deadlocks).                                                             *)
Fairness == []<>Stopped \/ []<><<TRUE>>_vars
Spec == Init /\ [][Next]_vars /\ Fairness

-----------------------------------------------------------------------------
(* Properties *)

(* What a trace says of a task: the events that start and end its runs, and *)
(* the time that it ran.                                                   *)
Transitions(trace, t) == SelectSeq(trace, LAMBDA e : e.task = t /\ e.type \notin {"SUBMIT", "UPDATE"})
IsEnd(e) == e.type \in Stops \cup {"FINISH"}
RanInTrace(trace, t) ==
  LET h == Transitions(trace, t)
  IN  SumOver({i \in DOMAIN h : IsEnd(h[i])}, LAMBDA i : h[i].time - (IF i = 1 THEN 0 ELSE h[i - 1].time))
StillRunning(trace, t) ==
  LET h == Transitions(trace, t)
  IN  IF h # <<>> /\ Last(h).type = "SCHEDULE" THEN EndOfTrace(trace) - Last(h).time ELSE 0

(* A task that was updated before the first event that starts or ends a run *)
(* of it, if that does not start one                                       *)
UpdatedUnscheduled(trace, t) ==
  /\ \E i \in DOMAIN trace : /\ trace[i].task = t /\ trace[i].type = "UPDATE"
                             /\ Transitions(SubSeq(trace, 1, i), t) = <<>>
  /\ LET h == Transitions(trace, t) IN h = <<>> \/ IsEnd(Head(h))

(* A task that ended only when it ran *)
EndsRunsOnly(trace, t) ==
  LET h == Transitions(trace, t)
  IN  ~UpdatedUnscheduled(trace, t) /\ \A i \in 2 .. Len(h) : IsEnd(h[i]) => h[i - 1].type = "SCHEDULE"

UpMachines == {m \in Machines : \A p \in PUsBelow(m) : Registered(p)}
Spare(S) == SumOver(S, LAMBDA m : cm.dfs.free[m])

(***************************************************************************)
(* The process ends early for six reasons only: a rack that lost all its   *)
(* machines is chosen for a new one; the blocks of a machine that goes, or *)
(* of a new task, find no space (or the draws of SimulatedHDFS miss it);   *)
(* the scheduler ran at a time before that of an event handled already, so *)
(* that a task starts before it was submitted; the trace has an update of  *)
(* a task, and no event that scheduled it; or statistics were loaded for a *)
(* task without a runtime, or in a synthetic trace twice for a task.  In   *)
(* particular no delta refers to a task or PU that went while the solver   *)
(* ran.                                                                    *)
(***************************************************************************)
SimFailuresExplained ==
  CASE failedCheck = "none" -> TRUE
    [] failedCheck = "AddMachine_inserted" -> ~(cm.dfs.spare \subseteq RackIDs(cm.dfs))
    [] failedCheck = "RemoveMachine_erased" ->
         \E m \in UpMachines : Spare(UpMachines \ {m}) < Cardinality(StoredOn(cm.dfs, m))
    [] failedCheck = "AddBlocksForTask_space" ->
         \/ cm.dfs.kind = "hdfs"
         \/ \E t \in Tasks : taskState[t] = "ABSENT" /\ Spare(UpMachines) < InputBlocks[t] * Replication
    [] failedCheck = "UpdateTaskTotalUnscheduledTime_start" ->
         sim.rewound /\ sim.rounds = 2 /\ config.batchStep = 0
    [] failedCheck = "JobsRuntimeEvents_runs" -> \E t \in Tasks : UpdatedUnscheduled(config.trace, t)
    [] failedCheck = "LoadTaskUtilizationStats_task" ->
         IF config.loader = "synthetic" THEN config.initial # <<>>
         ELSE config.oracle /\ \E u \in Range(config.usage) : Transitions(config.trace, u.task) = <<>>
    [] OTHER -> FALSE

(* A task has exactly one end event while it is bound, at the finish time in *)
(* its descriptor, and none otherwise: a stale event would complete a task *)
(* that was evicted, a lost one would leave it running forever.            *)
EndEventsMatch ==
  Alive => \A t \in Tasks :
    LET ends == {i \in DOMAIN events : events[i].kind = "TASK_END" /\ events[i].of = t}
    IN  IF taskBinding[t] = None THEN ends = {}
        ELSE \E i \in DOMAIN events : ends = {i} /\ events[i].time = times.td[t].finish

(***************************************************************************)
(* "We assume that the work conducted by a task until eviction is saved":  *)
(* without interference, what a task ran and what it has left add up to    *)
(* the time that it ran in the trace, over all of its runs (and, if it     *)
(* still ran at the end of the trace, not more than until then).  A task   *)
(* that is stopped while it waits is the exception: the processor counts   *)
(* the whole time before.  With interference, what is left never exceeds   *)
(* that runtime (it would wrap around), unless a machine went with several *)
(* tasks.                                                                  *)
(***************************************************************************)
WorkConserved ==
  sim.pc # "start" /\ ~sim.rewound => \A t \in Tasks \ (config.forced \cup config.filtered) :
    LET td  == times.td[t]
        ran == RanInTrace(config.trace, t)
    IN  IF config.loader = "google"
        THEN Transitions(config.trace, t) # <<>> /\ EndsRunsOnly(config.trace, t) =>
               td.total + (IF td.left = None THEN 0 ELSE td.left) \in ran .. ran + StillRunning(config.trace, t)
        ELSE td.left = None \/ td.left <= RunningTimes(config)[t] \/ sim.crowded

(***************************************************************************)
(* What the knowledge base says of tasks and machines comes from the usage *)
(* in the trace.  An average is one of samples of the task in the trace,   *)
(* or missing; the usage of a PU is not negative, unless a task that came  *)
(* has no CPU sample at all (it then counts as -1).  A task without        *)
(* samples of its instructions is a turtle, or a rabbit if the trace has   *)
(* usage of it, or its end.                                                *)
(***************************************************************************)
Samples(t, f) == {u[f] : u \in {v \in Range(config.usage) : v.task = t /\ v[f] >= 0}}
UsageFromTrace ==
  config.loader = "google" =>
    /\ \A t \in Tasks \ Range(config.initial), f \in UsageFields :
         kb.stats[t] # None /\ kb.stats[t][f] # Missing =>
           \E least, most \in Samples(t, f) : kb.stats[t][f] \in least .. most
    /\ \A p \in Resources :
         kb.load[p] < 0 => \E t \in Tasks : taskState[t] # "ABSENT" /\ Samples(t, "cpu") = {}
    /\ \A t \in Tasks \ Range(config.initial) :
         kb.kind[t] # None /\ Samples(t, "cpi") \cup Samples(t, "mai") = {} =>
           \/ kb.kind[t] = "TURTLE"
           \/ /\ kb.kind[t] = "RABBIT"
              /\ \/ \E u \in Range(config.usage) : u.task = t
                 \/ \E e \in Range(config.trace) : e.task = t /\ e.type = "FINISH"

(***************************************************************************)
(* Quincy's preferences are costs of transfers that the task can really    *)
(* have: no arc to a machine, a rack or the cluster is cheaper than the    *)
(* worst transfer it allows, wherever machines came and went, and no arc   *)
(* leads to a machine or rack that is gone.                                *)
(***************************************************************************)
CostsNeverUnderestimate ==
  config.model = "quincy" => \A t \in {u \in Tasks : cm.ecs[u] # None} :
    LET d == cm.dfs
    IN  /\ \A m \in Range(d.order) : cm.ecs[t][ClusterAgg] >= TransferCost(d, t, m)
        /\ \A ec \in DOMAIN cm.ecs[t] \ {ClusterAgg} :
             /\ ec[2] \in RackIDs(d)
             /\ cm.ecs[t][ec] >= RackTransferCost(d, t, ec[2])
        /\ \A m \in DOMAIN cm.prefs[t] :
             m \in Range(d.order) /\ cm.prefs[t][m] >= TransferCost(d, t, m)

(***************************************************************************)
(* The file system agrees with itself and with the cluster: its machines   *)
(* are those of the scheduler, replicas are on such machines, a task that  *)
(* was submitted and has not completed has all of them, and the space that *)
(* is used and the space that is free add up (where space is counted).     *)
(***************************************************************************)
BlocksAccounted ==
  config.model = "quincy" /\ Alive =>
    LET d == cm.dfs
    IN  /\ Range(d.order) = UpMachines /\ UpMachines = {m \in Machines : d.rack[m] # None}
        /\ \A k \in DOMAIN d.at : d.at[k] \in UpMachines
        /\ DOMAIN d.at = UNION {ReplicasOf(t) : t \in {u \in Tasks : taskState[u] \notin {"ABSENT", "COMPLETED"}}}
        /\ d.kind \in {"uniform", "hdfs"} => \A m \in UpMachines :
             d.free[m] + Cardinality(StoredOn(d, m)) = d.space

(* A simulation that no limit stops has submitted every task of the trace   *)
(* up to the end of the simulated time: the event that each call of        *)
(* LoadTaskEvents reads too far keeps the queue from running empty.        *)
TraceTasks ==
  Range(config.initial) \cup
  (IF config.loader = "google"
   THEN {e.task : e \in {x \in Range(config.trace) : IsKept(config, x) /\ x.time <= config.end}}
   ELSE UNION {Range(config.trace[k]) :
          k \in {i \in DOMAIN config.trace : i * config.interarrival <= config.end}})
WholeTraceReplayed ==
  sim.pc = "done" /\ ~config.exitAfterLast /\ sim.handled <= config.maxEvents /\
  sim.rounds < config.maxRounds => \A t \in TraceTasks : taskState[t] # "ABSENT"

(* Every simulation ends: scheduler runs move on in time or find an event   *)
(* to wait for.                                                            *)
SimTerminates == <>Stopped

=============================================================================
