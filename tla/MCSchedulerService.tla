------------------------- MODULE MCSchedulerService -------------------------
(***************************************************************************)
(* Small instances of SchedulerService.  Job A is a root a, to which a1 is *)
(* appended; job B is a root alone.  Machine m1 has PU p1 below a core,    *)
(* machine m2 has PU p2.                                                   *)
(***************************************************************************)
EXTENDS SchedulerService, CostModel

CONSTANTS a, a1, b, jobA, jobB, m1, m2, core, p1, p2

TasksAB == {a, a1, b}
JobOfAB == [t \in TasksAB |-> IF t = b THEN jobB ELSE jobA]
ParentAB == [t \in TasksAB |-> IF t = a1 THEN a ELSE None]
NoObjects == [t \in TasksAB |-> {}]
NoJobOutputs == [j \in {jobA, jobB} |-> {}]
BinaryAB == [t \in TasksAB |-> IF t = a1 THEN "y" ELSE "x"]

TwoMachines == [r \in {m1, m2, core, p1, p2} |->
                  CASE r = p1 -> core [] r = core -> m1 [] r = p2 -> m2 [] OTHER -> Root]
CoreIds == [p \in {p1, p2} |-> IF p = p1 THEN 0 ELSE 1]
Capacities == [m \in {m1, m2} |-> [bw |-> 100, cpu |-> 2, ram |-> 2]]
TaskKinds == [t \in TasksAB |-> IF t = b THEN "DEVIL" ELSE "RABBIT"]
NoInput == [t \in TasksAB |-> 0]
Excess == [f \in {<<0, 1>>, <<1, 1>>} |-> IF f[1] = 0 THEN 0 ELSE 1718]

(* Plain clients: no labels, no statistics. *)
Plain(model) ==
  [model |-> model, preemption |-> FALSE, reschedule |-> TRUE, purge |-> TRUE, pspi |-> 0,
   waits |-> {0}, due |-> {FALSE}, requests |-> {None}, labels |-> {NoLabel}, samples |-> {},
   tasks |-> {a, a1}, changes |-> 2]

Octopus == [Plain("octopus") EXCEPT !.preemption = TRUE, !.tasks = {a, b}]
OctopusLong == [Plain("octopus") EXCEPT !.tasks = {a, b}, !.changes = 4]
Trivial == Plain("trivial")
TrivialP == [Plain("trivial") EXCEPT !.preemption = TRUE, !.reschedule = FALSE]
Random == [Plain("random") EXCEPT !.purge = FALSE]
Sjf == [Plain("sjf") EXCEPT !.waits = {0, 50}, !.due = BOOLEAN]
Void == [Plain("void") EXCEPT !.reschedule = FALSE]
Interference == Plain("interference")
Net == [Plain("net") EXCEPT !.changes = 3, !.requests =
          {[bw |-> 60, selectors |-> {[type |-> "IN_SET", values |-> {"ssd"}]}],
           [bw |-> 60, selectors |-> {[type |-> "NOT_IN_SET", values |-> {"ssd"}]}]},
          !.labels = {NoLabel, "ssd"}, !.samples = {30}]
WhareMap == [Plain("wharemap") EXCEPT !.tasks = {a, b}]
WhareMapI == [Plain("wharemap") EXCEPT !.pspi = 200]
Coco == [Plain("coco") EXCEPT !.requests = {[cpu |-> 1, ram |-> 1]},
                              !.samples = {[cpu |-> 2, ram |-> 2]},
                              !.changes = 3]

AllConfigs == {Octopus, OctopusLong, Trivial, TrivialP, Random, Sjf, Void, Interference, Net,
               WhareMap, WhareMapI, Coco}

-----------------------------------------------------------------------------
(* A round of the network model starts a task only on a machine whose       *)
(* labels satisfy the task's selectors, unless the class of the task was   *)
(* created by one with other selectors of the same hash.                   *)
SelectorsHonoured ==
  [][config.model = "net" =>
       \A t \in Tasks : RunsOn(t) = None /\ RunsOn(t)' # None =>
         \/ SatisfiesLabelSelectors(info.label[MachineOf(RunsOn(t)')], info.request[t].selectors)
         \/ cm'.selectorsOf[NetClass(cm'.taskBw[t], info.request[t].selectors)]
               # info.request[t].selectors]_vars

=============================================================================
