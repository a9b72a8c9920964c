------------------------------ MODULE Cluster -------------------------------
(***************************************************************************)
(* What the flow scheduler's components share: the tree of resources, the  *)
(* names of the nodes in the flow network, and arc descriptors.            *)
(*                                                                         *)
(* The resource topology is a tree: a coordinator at the root, machines    *)
(* below it, PUs (the Resources of EventDrivenScheduler) at the leaves,    *)
(* and possibly resources such as sockets or cores in between.             *)
(*                                                                         *)
(* A node of the flow network is named by the entity it stands for: a      *)
(* task, a job (its unscheduled aggregator), a resource, an equivalence    *)
(* class or the sink.  Node identifiers never clash (FlowGraph), so the    *)
(* entity identifies the node.                                             *)
(***************************************************************************)
EXTENDS EventDrivenScheduler, Integers, FiniteSets, FiniteSetsExt

CONSTANTS
  Machines,       \* resources of type RESOURCE_MACHINE
  Interior,       \* resources between a machine and its PUs
  Root,           \* the coordinator, root of the topology
  ResParent,      \* parent_id of every resource but the root
  Sink,           \* the sink of the flow network
  MaxTasksPerPU,  \* FLAGS_max_tasks_per_pu
  Word,           \* unsigned counters are computed modulo this number
  Binary,         \* the binary (or command line) a task runs
  NoLabel         \* the label of a machine without the key

Res == Resources \cup Machines \cup Interior \cup {Root}

ASSUME TopologyAssumption ==
  /\ Root \notin Resources \cup Machines \cup Interior
  /\ ResParent \in [Res \ {Root} -> Res \ Resources]
  /\ MaxTasksPerPU \in Nat \ {0}
  /\ Word \in Nat /\ Word > 2 * MaxTasksPerPU * Cardinality(Resources)

(* The resources on the way from r up to the root, r included. *)
Above[r \in Res] == IF r = Root THEN {Root} ELSE {r} \cup Above[ResParent[r]]

(* The subtree at r. *)
Below(r) == {q \in Res : r \in Above[q]}
PUsBelow(r) == Below(r) \cap Resources
MachineOf(p) == CHOOSE m \in Machines : m \in Above[p]

(* A machine has PUs, a PU belongs to one machine, and the PUs of a machine *)
(* are equally deep: the statistics are gathered breadth first from the    *)
(* PUs, and add up a resource only once all of its children are done.      *)
ASSUME MachinesAssumption ==
  /\ \A p, q \in Resources : Above[p] \cap Above[q] \cap Machines # {} =>
                             Cardinality(Above[p]) = Cardinality(Above[q])
  /\ \A p \in Resources : Cardinality(Above[p] \cap Machines) = 1
  /\ \A m \in Machines : ResParent[m] = Root /\ PUsBelow(m) # {}

(* A node is named by one thing only.  What names a node besides these is   *)
(* an equivalence class.                                                   *)
Entities == Tasks \cup Jobs \cup Res \cup {Sink}

ASSUME EntitiesAssumption ==
  /\ Tasks \cap Jobs = {} /\ Tasks \cap Res = {} /\ Jobs \cap Res = {}
  /\ Sink \notin Tasks \cup Jobs \cup Res /\ None \notin Entities

(* Tasks can be counted, and an unsigned counter can count them all. *)
ASSUME TasksFinite == IsFiniteSet(Tasks) /\ Cardinality(Tasks) < Word

(* Equivalence classes are tuples: the cluster aggregator, and others that  *)
(* the cost models define.                                                 *)
ClusterAgg == <<"CLUSTER_AGG">>

(* ArcDescriptor: cost_, capacity_ and min_flow_. *)
Arc(cost, cap) == [cost |-> cost, cap |-> cap, low |-> 0]

SumOver(S, f(_)) == MapThenSumSet(f, S)

=============================================================================
