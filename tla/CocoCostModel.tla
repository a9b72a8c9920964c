--------------------------- MODULE CocoCostModel ----------------------------
(***************************************************************************)
(* The CoCo cost model (src/scheduling/flow/coco_cost_model.cc): a job's   *)
(* class points to the resources whose unreserved capacity holds another   *)
(* task, and costs grow with the load and with how badly the tasks that    *)
(* run there get along.                                                    *)
(*                                                                         *)
(* Of the resource vectors, CPU (a float) and RAM (an unsigned integer)    *)
(* are modelled; nobody asks for network or disk, whose cost is constant.  *)
(* In the model's state, members is task_ec_to_set_task_id_ and requestOf  *)
(* is task_ec_to_resource_request_, both by job; maxCap and minCap are     *)
(* max_machine_capacity_ and min_machine_capacity_.                        *)
(***************************************************************************)
EXTENDS SimpleCostModels

CONSTANTS
  TaskKind,    \* task_type of each task; all tasks of a job have the same one
  ExpExcess    \* <<used, total>> -> thousandths of e^(used/total) - 1

Dims == {"cpu", "ram"}
Kinds == {"TURTLE", "SHEEP", "RABBIT", "DEVIL"}
Omega == 1000
Nothing == [d \in Dims |-> 0]

(* NormalizeCost *)
NormalizeCost(raw, max) == IF max = 0 THEN 0 ELSE (raw * Omega) \div max

(* GetInterferenceScoreForTask: what a task of one kind costs another kind *)
PenaltyTable ==
  [TURTLE |-> [TURTLE |-> 50, SHEEP |-> 50,  RABBIT |-> 50,   DEVIL |-> 50],
   SHEEP  |-> [TURTLE |-> 10, SHEEP |-> 50,  RABBIT |-> 100,  DEVIL |-> 200],
   RABBIT |-> [TURTLE |-> 10, SHEEP |-> 50,  RABBIT |-> 200,  DEVIL |-> 1000],
   DEVIL  |-> [TURTLE |-> 10, SHEEP |-> 200, RABBIT |-> 1000, DEVIL |-> 200]]
Penalty(kind, other) == PenaltyTable[kind][other]

-----------------------------------------------------------------------------
(* What GatherStats and AccumulateResourceStats leave in the descriptors.   *)
(* A PU counts only when its machine has a sample in the knowledge base.   *)

Reporting(x, r) == {p \in PUsBelow(r) \cap x.leaves : x.sample[MachineOf(p)] # None}
CocoSlots(x, r) == MaxTasksPerPU * Cardinality(Reporting(x, r))
CocoBelow(x, r) == SumOver(Reporting(x, r), LAMBDA p : Cardinality(x.lists[p]))

(* available_resources: RAM is reported by every PU of a machine and added up. *)
Available(x, r) ==
  [d \in Dims |-> SumOver(Reporting(x, r), LAMBDA p : x.sample[MachineOf(p)][d])]

(* min_available_resources_below: zero stands for "not reported". *)
MinBelow(x, r) ==
  [d \in Dims |-> LET some == {x.sample[MachineOf(p)][d] : p \in Reporting(x, r)} \ {0}
                  IN  IF some = {} THEN 0 ELSE Min(some)]

RequestOf(x, t) == IF x.request[t] = None THEN Nothing ELSE x.request[t]

(* reserved_resources: the requests of the tasks in current_running_tasks *)
Reserved(x, r) ==
  [d \in Dims |-> SumOver(Reporting(x, r),
                    LAMBDA p : SumOver(x.lists[p], LAMBDA t : RequestOf(x, t)[d]))]

ChildCount(x, r) == Max({1, Cardinality({c \in Res \ {Root} : ResParent[c] = r})})

(* coco_interference_scores: every level divides by the number of children. *)
InterferenceScores(x, kind) ==
  LET Score[r \in Res] ==
        IF r \in Resources
        THEN SumOver(IF r \in Reporting(x, r) THEN x.lists[r] ELSE {},
                     LAMBDA t : Penalty(TaskKind[t], kind))
        ELSE SumOver({c \in Res \ {Root} : ResParent[c] = r},
                     LAMBDA c : Score[c] \div ChildCount(x, c))
  IN  Score

(* FlattenInterferenceScore *)
FlatPenalty(t) == SumOver(Kinds, LAMBDA k : Penalty(TaskKind[t], k))

(* ComputeInterferenceScore, from the statistics in the descriptors *)
ComputeInterferenceScore(x) ==
  LET Score[r \in Res] ==
        LET children == {c \in Res \ {Root} : ResParent[c] = r}
            siblings == Max({1, Cardinality(children) - 1})
            sum      == SumOver(children, LAMBDA c : Score[c] \div siblings)
        IN  CASE x.slots[r] = 0   -> 0
              [] x.slots[r] # 0 /\ r \in Resources -> SumOver(x.lists[r], FlatPenalty)
              [] OTHER            -> (sum * ExpExcess[<<x.below[r], x.slots[r]>>]) \div 1000
  IN  Score

-----------------------------------------------------------------------------
(* Arcs *)

JobClass(j) == <<"job", j>>

(* TaskToUnscheduledAgg: the three dimensions nobody asks for cost Omega each. *)
CocoTaskCosts(x, t) ==
  [unscheduled |-> SumOver(Dims, LAMBDA d : NormalizeCost(RequestOf(x, t)[d], x.cm.minCap[d]))
                   + 5 * Omega + 1 + 1 + x.wait,
   continuation |-> 0, preemption |-> 0]

(* TaskToEquivClassAggregator *)
CocoTaskArcs(x, t) ==
  JobClass(JobOf[t]) :>
    (IF x.request[t] = None THEN Arc(0, 0)
     ELSE Arc(SumOver(Dims, LAMBDA d : NormalizeCost(x.request[t][d], x.cm.maxCap[d])), 1))

(* TaskFitCount *)
TaskFitCount(x, request, avail) ==
  Min({Cardinality(x.known)} \cup {avail[d] \div request[d] : d \in {e \in Dims : request[e] > 0}})

(* CompareResourceVectors: RESOURCE_VECTOR_WHOLLY_FITS *)
WhollyFits(v, w) == \A d \in Dims : v[d] <= w[d]

(* Only machines have a capacity.  The subtraction of unsigned integers     *)
(* wraps around before max() sees it; that of floats does not.             *)
Unreserved(x, r) ==
  LET cap == IF r \in Machines THEN Capacity[r] ELSE Nothing
  IN  [cpu |-> Max({cap.cpu - Reserved(x, r).cpu, 0}),
       ram |-> (cap.ram - Reserved(x, r).ram) % Word]

(* TaskFitsUnderResourceAggregate: a request for no network or disk fits    *)
(* there, so that a task never "never fits".                               *)
TaskFits(x, request, r) ==
  CASE WhollyFits(request, Unreserved(x, r)) -> "ALWAYS_UNRESERVED"
    [] ~WhollyFits(request, Unreserved(x, r)) /\ WhollyFits(request, MinBelow(x, r)) ->
         "ALWAYS_AVAILABLE"
    [] OTHER -> "SOMETIMES_AVAILABLE"

(* GetOutgoingEquivClassPrefArcs: the search goes on below a resource as    *)
(* long as tasks fit there sometimes.                                      *)
CocoPreferred(x, request) ==
  LET up == {r \in Res \ {Root} : PUsBelow(r) \cap x.leaves # {}}
  IN  {r \in up : /\ TaskFits(x, request, r) = "ALWAYS_UNRESERVED"
                  /\ \A q \in Above[r] \ {r, Root} :
                       TaskFits(x, request, q) = "SOMETIMES_AVAILABLE"}

(* EquivClassToResourceNode *)
CocoClassArcs(x, ec) ==
  LET j == ec[2]
      request == x.cm.requestOf[j]
      kind == TaskKind[CHOOSE t \in x.cm.members[j] : TRUE]
  IN  [r \in CocoPreferred(x, request) |->
         Arc(InterferenceScores(x, kind)[r] \div ChildCount(x, r),
             TaskFitCount(x, request, Available(x, r)))]

(* ResourceNodeToResourceNode *)
CocoResourceCost(x, r) ==
  LET cap == Capacity[MachineOf(CHOOSE p \in PUsBelow(r) : TRUE)]
      load == CASE r \in Resources -> NormalizeCost(cap.cpu - Available(x, r).cpu, cap.cpu)
                [] r \in Machines  -> NormalizeCost((cap.ram - Available(x, r).ram) % Word, cap.ram)
                [] OTHER           -> 0
  IN  load + ComputeInterferenceScore(x)[r]

-----------------------------------------------------------------------------
(* The model's own state *)

(* AddMachine; machines that leave do not change the bounds. *)
CocoAddMachine(cm, m) ==
  [cm EXCEPT !.maxCap = [d \in Dims |-> Max({@[d], Capacity[m][d]})],
             !.minCap = [d \in Dims |-> IF @[d] = 0 THEN Capacity[m][d]
                                        ELSE Min({@[d], Capacity[m][d]})]]

(* GetTaskEquivClasses *)
CocoClassesSeen(cm, tasks) ==
  [cm EXCEPT !.members = [j \in Jobs |-> @[j] \cup {t \in tasks : JobOf[t] = j}]]

(* AddTask: the first task of a job fixes the request of the job's class;   *)
(* a descriptor without a request has an empty one.                        *)
CocoAddTask(cm, x, t) ==
  LET c1 == CocoClassesSeen(cm, {t})
  IN  IF cm.requestOf[JobOf[t]] # None THEN c1
      ELSE [c1 EXCEPT !.requestOf[JobOf[t]] = RequestOf(x, t)]

(* RemoveTask *)
CocoRemoveTask(cm, t) ==
  LET left == cm.members[JobOf[t]] \ {t}
  IN  [cm EXCEPT !.members[JobOf[t]] = left,
                 !.requestOf[JobOf[t]] = IF left = {} THEN None ELSE @]

(* GetTask: the statistics look up every task that a reporting PU lists. *)
CocoGatherFails(x) ==
  \E p \in x.leaves : x.sample[MachineOf(p)] # None /\ ~(x.lists[p] \subseteq x.known)

=============================================================================
