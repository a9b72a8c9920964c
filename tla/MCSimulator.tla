---------------------------- MODULE MCSimulator -----------------------------
(***************************************************************************)
(* Small traces for Simulator.  Job A has a root a and a task a1, job B a  *)
(* root b.  Machine m1 has PUs p1 and p2, machine m2 has PU p3, machine    *)
(* m3 has PU p4 and is only in some traces.                                *)
(***************************************************************************)
EXTENDS Simulator

CONSTANTS a, a1, b, jobA, jobB, m1, m2, m3, p1, p2, p3, p4

TasksAB == {a, a1, b}
JobOfAB == [t \in TasksAB |-> IF t = b THEN jobB ELSE jobA]
ParentAB == [t \in TasksAB |-> IF t = a1 THEN a ELSE None]
NoObjects == [t \in TasksAB |-> {}]
NoJobOutputs == [j \in {jobA, jobB} |-> {}]
BinaryAB == [t \in TasksAB |-> IF t = b THEN "B" ELSE "A"]

ThreeMachines == [r \in {m1, m2, m3, p1, p2, p3, p4} |->
                    CASE r \in {p1, p2} -> m1 [] r = p3 -> m2 [] r = p4 -> m3 [] OTHER -> Root]
CoreIds == [p \in {p1, p2, p3, p4} |-> IF p = p2 THEN 1 ELSE 0]
Capacities == [m \in {m1, m2, m3} |-> [bw |-> 100, cpu |-> 2, ram |-> 2]]
TaskKinds == [t \in TasksAB |-> "RABBIT"]
Excess == [f \in {<<0, 1>>} |-> 0]
Input == [t \in TasksAB |-> IF t = b THEN 0 ELSE 1]

Row(time, type, t) == [time |-> time, type |-> type, task |-> t]
Submit(time, t) == Row(time, "SUBMIT", t)
Run(time, t, duration) == <<Row(time, "SCHEDULE", t), Row(time + duration, "FINISH", t)>>

(* Machines in a Google trace: those at time 0, and one that fails *)
Machine(time, kind, m) == Event(time, kind, m)
Added(ms) == [i \in DOMAIN ms |-> Machine(0, "ADD_MACHINE", ms[i])]
Failing(time, m, outage) ==
  <<Machine(time, "REMOVE_MACHINE", m), Machine(time + outage, "ADD_MACHINE", m)>>

(* Usage of the CPU, and little of the rest *)
Usage(time, t, cpu) == [time |-> time, task |-> t, cpu |-> cpu, cpi |-> 1000, mai |-> 10, cache |-> 100]
Unknown(time, t) == [f \in UsageFields |-> Missing] @@ [time |-> time, task |-> t]

(***************************************************************************)
(* A Google trace, replayed online; b is the task of the synthetic job.    *)
(* Task a is evicted and runs again.                                       *)
(***************************************************************************)
Google ==
  [model |-> "quincy", preemption |-> FALSE, reschedule |-> TRUE, purge |-> TRUE, pspi |-> 0,
   dfs |-> "uniform", perRack |-> 1, blocks |-> 4, interference |-> "none", forced |-> {b},
   filtered |-> {}, filteredMachines |-> {},
   batchStep |-> 0, factor |-> 1, maxSolver |-> 2, runtimes |-> {1, 2}, costFrequency |-> 3,
   end |-> 9, beat |-> 4, maxEvents |-> Never, maxRounds |-> Never, exitAfterLast |-> FALSE,
   loader |-> "google", initial |-> <<b>>, initialRuntime |-> 1, oracle |-> FALSE,
   interarrival |-> 1, duration |-> 2, failures |-> <<>>, outage |-> 0,
   machines |-> Added(<<m1, m2>>) \o Failing(4, m1, 2),
   trace |-> <<Submit(0, a), Row(0, "SCHEDULE", a), Submit(3, a1), Row(3, "EVICT", a), Row(3, "SCHEDULE", a1),
               Row(5, "FINISH", a1), Submit(6, a), Row(6, "SCHEDULE", a), Row(7, "FINISH", a)>>,
   usage |-> <<Usage(0, a, 500), Unknown(2, a), [Usage(4, a1, 1000) EXCEPT !.cpi = 2000, !.mai = 3]>>]

OnlyA == <<Submit(0, a), Row(0, "UPDATE", a)>> \o Run(0, a, 4)
AThenA1(time) == <<Submit(0, a), Row(0, "SCHEDULE", a), Submit(time, a1), Row(4, "FINISH", a)>>
                 \o Run(8, a1, 2)

(* The first machine comes late: the third scheduler run goes back in time. *)
Late == [Google EXCEPT !.model = "octopus", !.trace = AThenA1(2),
           !.machines = <<Machine(1, "ADD_MACHINE", m1), Machine(4, "ADD_MACHINE", m2)>>]
LateData == [Late EXCEPT !.model = "quincy"]

(* Little space: it is short when a machine goes. *)
Crowded == [Google EXCEPT !.trace = AThenA1(1), !.dfs = "hdfs", !.blocks = 2,
              !.machines = Added(<<m1, m2>>) \o <<Machine(4, "REMOVE_MACHINE", m2)>>]
Tight == [Crowded EXCEPT !.dfs = "uniform"]

(* Both machines fail; machine m3 and what comes after the end is dropped. *)
Outage == [Google EXCEPT !.perRack = 2, !.trace = <<Submit(0, a)>> \o Run(0, a, 2), !.filteredMachines = {m3},
             !.machines = Added(<<m1, m2, m3>>) \o
               <<Machine(4, "REMOVE_MACHINE", m1), Machine(4, "UPDATE_MACHINE", m2),
                 Machine(5, "REMOVE_MACHINE", m2), Machine(6, "ADD_MACHINE", m1),
                 Machine(7, "ADD_MACHINE", m2), Machine(10, "REMOVE_MACHINE", m1)>>]

(* Two racks; a machine that data is on goes. *)
Racks == [Google EXCEPT !.perRack = 2, !.trace = OnlyA, !.usage = <<Unknown(1, a)>>,
            !.machines = Added(<<m2, m3, m1>>) \o Failing(2, m3, 3)]

(* The replay drops a1. *)
Filtered == [Google EXCEPT !.model = "octopus", !.filtered = {a1}, !.oracle = TRUE, !.trace = AThenA1(3)]

(* Nothing says how long task a runs. *)
Endless == [Filtered EXCEPT !.trace = <<Submit(0, a)>>, !.usage = <<>>]
NoOracle == [Endless EXCEPT !.usage = <<Usage(1, a, 0)>>]

(* Batches, with interference; jobs come at a fixed rate. *)
Synthetic == [Google EXCEPT !.batchStep = 3, !.interference = "quincy", !.preemption = TRUE,
                !.dfs = "bounded", !.perRack = 2, !.loader = "synthetic", !.forced = {},
                !.trace = <<<<a, a1>>>>, !.initialRuntime = 2, !.usage = <<>>,
                !.machines = <<m1, m2>>, !.failures = <<<<4, m1>>>>, !.outage = 2]
Skewed == [Synthetic EXCEPT !.batchStep = 0, !.dfs = "skewed",
             !.failures = <<<<3, m2>>, <<6, m1>>>>, !.outage = 1]
Colocated == [Synthetic EXCEPT !.batchStep = 1, !.model = "octopus", !.failures = <<<<1, m2>>, <<6, m1>>>>]
Prepopulated == [Colocated EXCEPT !.oracle = TRUE, !.initial = <<b, a1>>, !.trace = <<<<a>>>>]

(* A long pause between two tasks *)
Sparse == [Google EXCEPT !.trace = <<Submit(0, a)>> \o Run(0, a, 1) \o <<Submit(8, a1)>> \o Run(8, a1, 2),
             !.machines = Added(<<m1, m2>>)]

(* Limits *)
Limited == [Google EXCEPT !.maxRounds = 4, !.end = 3]
FewEvents == [Google EXCEPT !.maxEvents = 4, !.beat = 1]
ExitEarly == [Google EXCEPT !.exitAfterLast = TRUE, !.beat = 2]

(***************************************************************************)
(* What can happen to a task in a trace, up to MaxHistory events: it waits *)
(* (or runs since before the trace), it is scheduled, updated, it stops,   *)
(* and it may be submitted again.  These traces are loaded, not replayed.  *)
(***************************************************************************)
MaxHistory == 5
Types == {"SUBMIT", "SCHEDULE", "EVICT", "KILL", "FINISH", "UPDATE_PENDING", "UPDATE_RUNNING"}
Follows(type) ==
  CASE type \in {"SUBMIT", "UPDATE_PENDING"}   -> {"SCHEDULE", "KILL", "UPDATE_PENDING"}
    [] type \in {"SCHEDULE", "UPDATE_RUNNING"} -> {"EVICT", "FINISH", "UPDATE_RUNNING"}
    [] type \in {"EVICT", "KILL", "FINISH"}    -> {"SUBMIT"}
Lives == {h \in UNION {[1..n -> Types] : n \in 1..MaxHistory} :
            \A i \in 1 .. Len(h) - 1 : h[i + 1] \in Follows(h[i])}
TypeOf(type) == IF type \in {"UPDATE_PENDING", "UPDATE_RUNNING"} THEN "UPDATE" ELSE type
Histories == {[Google EXCEPT !.maxRounds = 0, !.usage = <<>>,
                 !.trace = [i \in DOMAIN h |-> Row(i * i, TypeOf(h[i]), a)]] : h \in Lives}

AllConfigs == {Google, Late, LateData, Crowded, Tight, Outage, Racks, Filtered, Endless, NoOracle, Synthetic,
               Skewed, Colocated, Prepopulated, Sparse, Limited, FewEvents, ExitEarly} \cup Histories

=============================================================================
