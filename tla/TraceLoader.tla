----------------------------- MODULE TraceLoader ----------------------------
(***************************************************************************)
(* The trace loaders of the simulator (src/sim/google_trace_loader.cc and  *)
(* synthetic_trace_loader.cc).  x is the record of flags and input files   *)
(* (see MCSimulator):                                                      *)
(*   loader       which of the two loaders reads the trace                 *)
(*   trace        in a Google trace, the file of task events; in a         *)
(*                synthetic one the jobs, each a sequence of tasks         *)
(*   initial      tasks of the loader's own job: the synthetic job added   *)
(*                to a Google trace, or those that populate the cluster    *)
(*   filtered, filteredMachines   what sub-sampling a Google trace drops   *)
(* What the trace processor wrote for a Google trace is recomputed here.   *)
(***************************************************************************)
EXTENDS TraceProcessor

(* Machines *)

(***************************************************************************)
(* SyntheticTraceLoader::LoadMachineEvents: all machines come at time 0; a *)
(* machine that fails is back after the failure duration.  "failures" are  *)
(* the random draws, pairs of a time and a machine that is up then.        *)
(***************************************************************************)
SyntheticMachineEvents(x) ==
  LET Failing(q, f) == AddEvents(q, <<Event(f[1], "REMOVE_MACHINE", f[2]),
                                      Event(f[1] + x.outage, "ADD_MACHINE", f[2])>>)
  IN  FoldLeft(Failing, [i \in DOMAIN x.machines |-> Event(0, "ADD_MACHINE", x.machines[i])], x.failures)

(* GoogleTraceLoader::LoadMachineEvents: the loader reads the machine       *)
(* events up to the first one after the end of the simulation, and drops   *)
(* updates.                                                                *)
GoogleMachineEvents(x) ==
  LET late == {i \in DOMAIN x.machines : x.machines[i].time > x.end}
      read == IF late = {} THEN x.machines ELSE SubSeq(x.machines, 1, Min(late) - 1)
      kept == SelectSeq(read, LAMBDA e : e.of \notin x.filteredMachines /\ e.kind # "UPDATE_MACHINE")
  IN  AddEvents(<<>>, kept)

-----------------------------------------------------------------------------
(* What is known of the tasks before the simulation starts.  The jobs of a *)
(* synthetic trace count if they come before the end.                      *)

SyntheticTasks(x) ==
  UNION {Range(x.trace[k]) : k \in {i \in DOMAIN x.trace : (i - 1) * x.interarrival <= x.end}}

(* LoadTasksRunningTime; None for a task without an entry *)
RunningTimes(x) ==
  LET rows == JobsRuntimeEvents(x.trace)
      Google(t) == IF t \in DOMAIN rows /\ t \notin x.filtered THEN rows[t] ELSE None
      Synthetic(t) == IF t \in SyntheticTasks(x) THEN x.duration ELSE None
  IN  [t \in Tasks |-> IF t \in Range(x.initial) THEN x.initialRuntime
                       ELSE IF x.loader = "google" THEN Google(t) ELSE Synthetic(t)]

(* LoadJobsNumTasks; None for a job without an entry *)
LoadJobsNumTasks(x) ==
  LET rows == IF x.loader = "google" THEN JobsNumTasks(x.trace)
              ELSE [j \in {JobOf[t] : t \in SyntheticTasks(x)} |->
                      Cardinality({t \in SyntheticTasks(x) : JobOf[t] = j})]
      own  == {JobOf[t] : t \in Range(x.initial)}
  IN  [j \in Jobs |-> IF j \in own THEN Len(x.initial)
                      ELSE IF j \in DOMAIN rows THEN rows[j] ELSE None]

(***************************************************************************)
(* LoadTaskUtilizationStats.  The loop over the tasks that populate a      *)
(* synthetic trace sets the index too late: the statistics of a task go to *)
(* the one before, and the first go to an index that was not initialised,  *)
(* where 0 stands for one that no task has.                                *)
(***************************************************************************)
SomeUsage == [cpu |-> 500, cpi |-> 0, mai |-> 0, cache |-> 200]
NoUsage   == [f \in UsageFields |-> 0]
UtilizationStats(x, index) ==
  LET n    == Len(x.initial)
      rows == AggregateTaskUsage(x.trace, x.usage)
      Google(t) == IF t \in Range(x.initial) THEN NoUsage
                   ELSE IF t \in DOMAIN rows /\ t \notin x.filtered THEN rows[t] ELSE None
      filled == {x.initial[i] : i \in (1 .. n - 1) \cup ({index} \cap 1 .. n)}
      Synthetic(t) == IF t \in SyntheticTasks(x) \cup filled THEN SomeUsage ELSE None
  IN  [t \in Tasks |-> IF x.loader = "google" THEN Google(t) ELSE Synthetic(t)]

(* Statistics for a task that has some; with --task_duration_oracle, also    *)
(* for a task that has no runtime.                                         *)
UtilizationStatsFail(x, index) ==
  IF x.loader = "google"
  THEN x.oracle /\ \E t \in DOMAIN AggregateTaskUsage(x.trace, x.usage) \ x.filtered : RunningTimes(x)[t] = None
  ELSE index \in 1 .. Len(x.initial) - 1 \/ (x.oracle /\ index = 0 /\ x.initial # <<>>)

-----------------------------------------------------------------------------
(* Task events.  "read" is the position in the trace. *)

SubmitEvents(tasks, time) == [i \in DOMAIN tasks |-> Event(time, "TASK_SUBMIT", tasks[i])]

(* Submissions of tasks that the loader keeps *)
IsKept(x, e) == e.type = "SUBMIT" /\ e.task \notin x.filtered

(* Mutant: the loader stops before the first event that is too late. *)
LastReadInTime(x, read, upTo) ==
  LET late == {i \in read + 1 .. Len(x.trace) : IsKept(x, x.trace[i]) /\ x.trace[i].time > upTo}
  IN  IF late = {} THEN Len(x.trace) ELSE Min(late) - 1

(* How far one call reads: up to the first event that is later than upTo *)
LastRead(x, read, upTo) ==
  LET late == {i \in read + 1 .. Len(x.trace) : IsKept(x, x.trace[i]) /\ x.trace[i].time > upTo}
  IN  IF late = {} THEN Len(x.trace) ELSE Min(late)

(***************************************************************************)
(* GoogleTraceLoader::LoadTaskEvents.  The first call also submits a       *)
(* synthetic job, after a second.  A task that is filtered out no longer   *)
(* counts for its job.                                                     *)
(***************************************************************************)
GoogleTaskEvents(x, read, upTo) ==
  LET last == LastRead(x, read, upTo)
      seen == SubSeq(x.trace, read + 1, last)
      adds == SelectSeq(seen, LAMBDA e : IsKept(x, e))
      first == IF read = 0 THEN SubmitEvents(x.initial, 1) ELSE <<>>
  IN  [read |-> last, loaded |-> adds # <<>>,
       events |-> first \o [i \in DOMAIN adds |-> Event(adds[i].time, "TASK_SUBMIT", adds[i].task)],
       dropped |-> ({e.task : e \in Range(seen)} \ {x.trace[i].task : i \in 1..read}) \cap x.filtered]

(***************************************************************************)
(* SyntheticTraceLoader::LoadTaskEvents: job k is submitted at k times the *)
(* interarrival time; with the first one come the tasks that populate the  *)
(* cluster, at time 0.                                                     *)
(***************************************************************************)
SyntheticTaskEvents(x, read, upTo) ==
  LET Time(k) == k * x.interarrival
      late  == {k \in read + 1 .. Len(x.trace) : Time(k) > upTo}
      last  == IF late = {} THEN Len(x.trace) ELSE Min(late)
      jobs  == [i \in 1 .. last - read |-> SubmitEvents(x.trace[read + i], Time(read + i))]
      start == IF read = 0 THEN SubmitEvents(x.initial, 0) ELSE <<>>
  IN  IF Time(read + 1) > upTo THEN [read |-> read, loaded |-> TRUE, events |-> <<>>, dropped |-> {}]
      ELSE [read |-> last, loaded |-> TRUE, dropped |-> {}, events |-> start \o FlattenSeq(jobs)]

LoadTaskEvents(x, read, upTo) ==
  IF x.loader = "google" THEN GoogleTaskEvents(x, read, upTo) ELSE SyntheticTaskEvents(x, read, upTo)

=============================================================================
