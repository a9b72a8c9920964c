-------------------------- MODULE SimpleCostModels --------------------------
(***************************************************************************)
(* The cost models that keep little state of their own: trivial, random,   *)
(* shortest job first (SJF), Octopus, void and Quincy interference         *)
(* (src/scheduling/flow/<name>_cost_model.cc).                             *)
(*                                                                         *)
(* A cost model tells FlowGraphManager which arcs leave a task, which      *)
(* leave an equivalence class, and what every arc costs.  The operators    *)
(* take a record x with what the model looks at: the flags "model" and     *)
(* "preemption", its own state "cm", the graph's "leaves", the statistics  *)
(* "slots" and "below" of the resource descriptors, the "reports" in the   *)
(* knowledge base, and what chance and time decide in a round: the random  *)
(* PUs "pick" and "pickClass", the draw "dice" and the waiting time "wait". *)
(***************************************************************************)
EXTENDS Cluster, TLC

CONSTANTS
  CoreId,        \* the number in a PU's friendly name, "PU #<n>"
  Capacity,      \* the resource_capacity of each machine
  MaxArcCost,    \* FLAGS_flow_max_arc_cost
  AvgRuntime     \* the average runtime of a binary once it has a final report

(* num_free_slots, as the models compute it *)
Free(x, r) == (x.slots[r] - x.below[r]) % Word

CapacityFromResNodeToParent(x, r) == IF x.preemption THEN x.slots[r] ELSE Free(x, r)

BinaryClass(t) == <<"binary", Binary[t]>>
NoArcs == <<>>
ToMachines(x, cost) == [m \in x.cm.machines |-> Arc(cost[m], Free(x, m))]
SameCost(x, c) == [m \in x.cm.machines |-> c]

-----------------------------------------------------------------------------
(* Trivial: the cluster aggregator costs a bit more than a random PU, to    *)
(* which a task has a preference arc (FLAGS_num_pref_arcs_task_to_res is 1). *)

TrivialCosts == [unscheduled |-> 5, continuation |-> 0, preemption |-> 0, resource |-> 0]

TrivialArcs(x, u) ==
  CASE u \in Tasks     -> (BinaryClass(u) :> Arc(0, 1)) @@ (ClusterAgg :> Arc(2, 1)) @@
                          (x.pick[u] :> Arc(0, 1))
    [] u = ClusterAgg  -> ToMachines(x, SameCost(x, 0))
    [] OTHER           -> NoArcs

-----------------------------------------------------------------------------
(* Random: "dice" is the draw for the arc to the cluster aggregator, the    *)
(* only one that can exceed the cost of staying unscheduled.  A binary's    *)
(* class points to one random PU.                                          *)

RandomCosts ==
  [unscheduled |-> MaxArcCost \div 2 + 1, continuation |-> 0, preemption |-> 0, resource |-> 1]

RandomArcs(x, u) ==
  LET cluster == IF x.dice = "low" THEN -1 ELSE RandomCosts.unscheduled - 2
  IN  CASE u \in Tasks    -> (BinaryClass(u) :> Arc(0, 1)) @@ (ClusterAgg :> Arc(cluster, 1))
        [] u = ClusterAgg -> ToMachines(x, SameCost(x, 1))
        [] OTHER          -> x.pickClass :> Arc(1, Free(x, x.pickClass))

-----------------------------------------------------------------------------
(* Shortest job first: costs follow the average runtime of the binary. *)

SjfAverage(x, t) == IF x.reports[Binary[t]] # "none" THEN AvgRuntime ELSE 0

SjfCosts(x, t) ==
  [unscheduled |-> Max({x.wait, SjfAverage(x, t) * 100}), continuation |-> 0, preemption |-> 0]

(* TaskToClusterAggCost *)
SjfClusterCost(x, t) == SjfAverage(x, t) * 100 + 1

SjfArcs(x, u) ==
  CASE u \in Tasks    -> (BinaryClass(u) :> Arc(0, 1)) @@ (ClusterAgg :> Arc(SjfClusterCost(x, u), 1))
    [] u = ClusterAgg -> ToMachines(x, SameCost(x, 0))
    [] OTHER          -> NoArcs

-----------------------------------------------------------------------------
(* Octopus: busy machines and PUs cost more, which spreads the load. *)

BusyPUOffset == 100

(* Mutant: waiting costs nothing. *)
OctopusCostsFreeWaiting == [unscheduled |-> 0, continuation |-> 0, preemption |-> 1000000]

OctopusCosts == [unscheduled |-> 1000000, continuation |-> 0, preemption |-> 1000000]

OctopusResourceCost(x, r) ==
  x.below[r] * BusyPUOffset + (IF r \in Resources THEN CoreId[r] ELSE 0)

OctopusArcs(x, u) ==
  CASE u \in Tasks    -> ClusterAgg :> Arc(1, 1)
    [] u = ClusterAgg -> ToMachines(x, [m \in x.cm.machines |-> x.below[m] * BusyPUOffset])

-----------------------------------------------------------------------------
(* Void: every cost is zero, and each class reaches every machine. *)

VoidCosts == [unscheduled |-> 0, continuation |-> 0, preemption |-> 0, resource |-> 0]

VoidArcs(x, u) ==
  IF u \in Tasks THEN (<<"command", Binary[u]>> :> Arc(0, 1)) @@ (<<"task", u>> :> Arc(0, 1))
  ELSE ToMachines(x, SameCost(x, 0))

-----------------------------------------------------------------------------
(* Quincy interference: a stub.  It lists no arcs, and gives every arc that *)
(* FlowGraphManager adds anyway cost 0 and capacity 1.                     *)

InterferenceCosts == [unscheduled |-> 0, continuation |-> 0, preemption |-> 0, resource |-> 0]
InterferenceArcs == NoArcs

=============================================================================
