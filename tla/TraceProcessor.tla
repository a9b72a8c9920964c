--------------------------- MODULE TraceProcessor ---------------------------
(***************************************************************************)
(* The program that prepares a Google cluster trace for the simulator      *)
(* (src/sim/google_trace_task_processor.cc): it computes how long each     *)
(* task ran, how many tasks each job has, and the average resource usage   *)
(* of each task.                                                           *)
(*                                                                         *)
(* trace is the file of task events, a sequence of records with a time, a  *)
(* type and a task in the order of time; usage is the file of resource     *)
(* usage, records with a time, a task and the values of UsageFields in     *)
(* thousandths, where a column that is empty counts as -1 (Missing).       *)
(* Minima, maxima and variances are written to the output, but nothing     *)
(* reads them: of the statistics, the model keeps the averages.            *)
(***************************************************************************)
EXTENDS Cluster, TLC, EventManager

UsageFields == {"cpu", "cpi", "mai", "cache"}
Missing == -1000

-----------------------------------------------------------------------------
(* JobsRuntimeEvents *)

(* A task that was not scheduled yet, as TaskRuntime() makes it *)
FreshRuntime == [runs |-> 0, last |-> -1, total |-> 0, runtime |-> 0]

Stops == {"EVICT", "FAIL", "KILL", "LOST"}

(***************************************************************************)
(* ExpandTaskEvent, where rt maps the tasks with events so far to their    *)
(* runtimes.  A task whose first event ends a run ran since time 0.  The   *)
(* time since the last schedule event is added even if the task had been   *)
(* stopped since (last is -1).                                             *)
(***************************************************************************)
ExpandTaskEvent(rt, e) ==
  LET known == e.task \in DOMAIN rt
      r     == IF known THEN rt[e.task] ELSE FreshRuntime
      ran   == IF known THEN e.time - r.last ELSE e.time
      ended == [r EXCEPT !.runs = @ + 1, !.total = @ + ran, !.last = -1]
  IN  CASE e.type = "SCHEDULE" -> (e.task :> [r EXCEPT !.last = e.time]) @@ rt
        [] e.type \in Stops    -> (e.task :> ended) @@ rt
        [] e.type = "FINISH"   -> (e.task :> [ended EXCEPT !.runtime = ran, !.last = IF known THEN -2 ELSE -1]) @@ rt
        [] e.type = "UPDATE"   -> (e.task :> r) @@ rt
        [] e.type = "SUBMIT"   -> rt

(* A task that finishes without being scheduled again; the check in the     *)
(* code comes after the first event of a task.                             *)
ExpandTaskEventFails(rt, e) == e.type = "FINISH" /\ e.task \in DOMAIN rt /\ rt[e.task].last < 0

Expanded(trace) == FoldLeft(ExpandTaskEvent, <<>>, trace)
EndOfTrace(trace) == Max({0} \cup {e.time : e \in {x \in Range(trace) : x.time < Never}})

(* The total runtime that is written for a task.  A task that still runs at *)
(* the end of the trace is assumed to run on: for ever if that is its first *)
(* run, otherwise as long as its other runs.                               *)
TotalRuntime(r, end) ==
  LET left    == end - r.last
      typical == IF r.runtime = 0 THEN r.total \div r.runs ELSE r.runtime
  IN  CASE r.last < 0                 -> r.total
        [] r.last >= 0 /\ r.runs = 0  -> left
        [] r.last >= 0 /\ r.runs > 0  -> r.total + Min({typical, left})

(* The average of no runs, for a task with nothing but updates *)
TotalRuntimeFails(r) == r.last < 0 /\ r.runs = 0 /\ r.runtime = 0

JobsRuntimeEvents(trace) ==
  LET rt == Expanded(trace) IN [t \in DOMAIN rt |-> TotalRuntime(rt[t], EndOfTrace(trace))]

JobsRuntimeEventsFail(trace) ==
  \/ \E i \in DOMAIN trace : ExpandTaskEventFails(Expanded(SubSeq(trace, 1, i - 1)), trace[i])
  \/ LET rt == Expanded(trace) IN \E t \in DOMAIN rt : TotalRuntimeFails(rt[t])

-----------------------------------------------------------------------------
(* JobsNumTasks: every submission counts, also that of a task that was      *)
(* submitted before.                                                       *)
JobsNumTasks(trace) ==
  LET submissions == {i \in DOMAIN trace : trace[i].type = "SUBMIT"}
  IN  [j \in {JobOf[trace[i].task] : i \in submissions} |->
         Cardinality({i \in submissions : JobOf[trace[i].task] = j})]

-----------------------------------------------------------------------------
(* AggregateTaskUsage *)

(* InitializeResourceUsageStats: the sum and the number of samples *)
NoSamples == [f \in UsageFields |-> [n |-> 0, sum |-> 0]]

(* Mutant: a missing value is a sample of -1. *)
UpdateUsageStatsMissing(s, u) ==
  [f \in UsageFields |-> [n |-> s[f].n + 1, sum |-> s[f].sum + u[f]]]

(* UpdateUsageStats and UpdateStats *)
UpdateUsageStats(s, u) ==
  [f \in UsageFields |-> IF u[f] < 0 THEN s[f] ELSE [n |-> s[f].n + 1, sum |-> s[f].sum + u[f]]]

(* PrintStats *)
Averages(s) == [f \in UsageFields |-> IF s[f].n = 0 THEN Missing ELSE s[f].sum \div s[f].n]

(* ProcessSchedulingEvents: tasks that finished after "upTo" and until      *)
(* "time" are written.  A task is written again if it finishes again; the  *)
(* first line counts.                                                      *)
ProcessSchedulingEvents(trace, s, time) ==
  LET now == {e.task : e \in {x \in Range(trace) : x.type = "FINISH" /\ x.time > s.upTo /\ x.time <= time}}
      row(t) == Averages(IF t \in DOMAIN s.stats THEN s.stats[t] ELSE NoSamples)
  IN  [s EXCEPT !.rows = @ @@ [t \in now |-> row(t)], !.upTo = Max({@, time}), !.finished = @ \cup now,
                !.stats = [t \in DOMAIN @ \ now |-> @[t]]]

(* One line of the usage file.  The events before the previous line are     *)
(* processed, so that a line soon after the end of its task still counts.  *)
UsageLine(trace, s, u) ==
  LET s1  == IF s.last < u.time THEN ProcessSchedulingEvents(trace, s, s.last) ELSE s
      old == IF u.task \in DOMAIN s1.stats THEN s1.stats[u.task] ELSE NoSamples
  IN  IF u.task \in s1.finished THEN [s1 EXCEPT !.last = u.time]
      ELSE [s1 EXCEPT !.last = u.time, !.stats = (u.task :> UpdateUsageStats(old, u)) @@ @]

(* What is left at the end of the files is written too. *)
AllRows(s) == s.rows @@ [t \in DOMAIN s.stats |-> Averages(s.stats[t])]
AtEndOfUsage(trace, s) == AllRows(ProcessSchedulingEvents(trace, s, s.last))

AggregateTaskUsage(trace, usage) ==
  LET start == [last |-> 0, upTo |-> -1, stats |-> <<>>, finished |-> {}, rows |-> <<>>]
  IN  AtEndOfUsage(trace, FoldLeft(LAMBDA s, u : UsageLine(trace, s, u), start, usage))

=============================================================================
