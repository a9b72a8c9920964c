------------------------- MODULE LazyGraphReduction -------------------------
(***************************************************************************)
(* Which tasks of a job become runnable: the lazy graph reduction of       *)
(* EventDrivenScheduler (src/scheduling/event_driven_scheduler.cc), which  *)
(* ComputeRunnableTasksForJob performs before every scheduling decision.   *)
(*                                                                         *)
(* The code runs a work list over the task tree.  What it computes does    *)
(* not depend on the order of that list, so it is stated here as the least *)
(* pair of sets closed under the pushes of the loop: the tasks it visits,  *)
(* and the tasks it sets to BLOCKING because something needs their output. *)
(***************************************************************************)

CONSTANTS
  Tasks,        \* task ids
  Jobs,         \* job ids
  Objects,      \* data object ids
  None,         \* "no task", "no resource"
  JobOf,        \* the job_id of a task's descriptor
  Parent,       \* the task whose "spawned" list holds this one; None: a root
  Deps,         \* the objects in a task's "dependencies"
  Outputs,      \* the objects in a task's "outputs"
  JobOutputs,   \* the "output_ids" of a job's descriptor
  Concrete,     \* objects whose dependency descriptors are consumable
  Public        \* objects whose references have scope PUBLIC

RootOf(j) == CHOOSE t \in Tasks : JobOf[t] = j /\ Parent[t] = None

(* A job has one root, and spawned tasks belong to the job of their parent. *)
ASSUME TaskTreeAssumption ==
  /\ None \notin Tasks
  /\ JobOf \in [Tasks -> Jobs]
  /\ Parent \in [Tasks -> Tasks \cup {None}]
  /\ \A t \in Tasks : Parent[t] # None => JobOf[Parent[t]] = JobOf[t]
  /\ \A j \in Jobs : \E t \in Tasks : JobOf[t] = j /\ Parent[t] = None

(* Data objects: a dependency or an output is an object. *)
ASSUME ObjectsAssumption ==
  /\ Deps \in [Tasks -> SUBSET Objects]
  /\ Outputs \in [Tasks -> SUBSET Objects]
  /\ JobOutputs \in [Jobs -> SUBSET Objects]

(* The children in a descriptor's "spawned" list: the tasks it spawned that *)
(* the task table already knows.                                           *)
SpawnedBy(st, t) == {c \in Tasks : Parent[c] = t /\ st[c] # "ABSENT"}

(* ProducingTasksForDataObjectID: the known tasks named as producers by the *)
(* references to o, those of other jobs only when the reference is public.  *)
ProducingTasksForDataObjectID(st, producing, o, j) ==
  {t \in producing[o] : st[t] # "ABSENT" /\ (JobOf[t] = j \/ o \in Public)}

(* An unconsumable dependency makes the task block. *)
WillBlock(t) == Deps[t] \ Concrete # {}

(* The tasks the first loop sets to BLOCKING: producers of job outputs that *)
(* have not started, or have failed.                                       *)
OutputProducers(st, producing, j) ==
  {t \in UNION {ProducingTasksForDataObjectID(st, producing, o, j) : o \in JobOutputs[j]} :
     st[t] \in {"CREATED", "FAILED"}}

(* Predecessors that a blocked task makes active. *)
Predecessors(st, producing, t, j) ==
  {p \in UNION {ProducingTasksForDataObjectID(st, producing, o, j) : o \in Deps[t] \ Concrete} :
     st[p] \in {"CREATED", "COMPLETED"}}

(* The children the loop pushes whatever their state: those with no outputs. *)
EagerChildren(st, t) == {c \in SpawnedBy(st, t) : Outputs[c] = {}}

(* The root enters the queue in these states. *)
RootQueued(st, j) == st[RootOf(j)] \in {"CREATED", "RUNNING", "RUNNABLE", "COMPLETED"}

(* A visited task looks at its dependencies only while it has not started. *)
NotStarted(st, blocking, t) == st[t] \in {"CREATED", "BLOCKING"} \/ t \in blocking

(* <<visited, blocking>> is closed under the pushes of the work list. *)
Closed(st, producing, j, visited, blocking) ==
  /\ OutputProducers(st, producing, j) \subseteq blocking
  /\ blocking \subseteq visited
  /\ RootQueued(st, j) => RootOf(j) \in visited
  /\ \A t \in visited :
       /\ EagerChildren(st, t) \subseteq visited
       /\ NotStarted(st, blocking, t) => Predecessors(st, producing, t, j) \subseteq blocking

(* The least closed pair: the tasks the work list visits, and those it sets *)
(* to BLOCKING on the way.  Only producers are ever set to BLOCKING.        *)
Reduction(st, producing, j) ==
  LET producers == UNION {producing[o] : o \in Objects}
      closed == {vb \in (SUBSET Tasks) \X (SUBSET producers) :
                   Closed(st, producing, j, vb[1], vb[2])}
  IN  [visited  |-> {t \in Tasks : \A vb \in closed : t \in vb[1]},
       blocking |-> {t \in producers : \A vb \in closed : t \in vb[2]}]

(* The tasks a reduction makes RUNNABLE and inserts into the runnable sets  *)
(* of their jobs.                                                          *)
NewlyRunnable(st, red) ==
  {t \in red.visited : NotStarted(st, red.blocking, t) /\ ~WillBlock(t)}

(* The task states after LazyGraphReduction. *)
Reduced(st, red) ==
  [t \in Tasks |-> CASE t \in NewlyRunnable(st, red)                 -> "RUNNABLE"
                     [] t \in red.blocking \ NewlyRunnable(st, red)  -> "BLOCKING"
                     [] OTHER                                        -> st[t]]

=============================================================================
