----------------------------- MODULE FlowSolver -----------------------------
(***************************************************************************)
(* One run of the flow solver as SolverDispatcher drives it                *)
(* (src/scheduling/flow/solver_dispatcher.cc): the network goes out, a     *)
(* minimum-cost flow comes back, and GetMappings reads from it which task  *)
(* goes to which PU.                                                       *)
(*                                                                         *)
(* The solver is a separate program.  It is modelled by what it computes:  *)
(* any flow of minimum cost that carries one unit from every task node to  *)
(* the sink and respects the bounds of the arcs.  An integral flow is a    *)
(* choice of one route per task, a route being a set of arcs; every way of *)
(* splitting a flow into routes is a choice of its own.                    *)
(*                                                                         *)
(* A network is a function from pairs of nodes to arc descriptors.         *)
(***************************************************************************)
EXTENDS Cluster, TLC

Nodes(net) == {a[1] : a \in DOMAIN net} \cup {a[2] : a \in DOMAIN net}

(* The routes from each node to the sink; arcs without capacity carry none. *)
RoutesToSink(net) ==
  LET open == {a \in DOMAIN net : net[a].cap > 0}
      Routes[u \in Nodes(net) \cup {Sink}] ==
        IF u = Sink THEN {{}}
        ELSE UNION {{r \cup {a} : r \in Routes[a[2]]} : a \in {b \in open : b[1] = u}}
  IN  Routes

Load(flow, a) == Cardinality({t \in DOMAIN flow : a \in flow[t]})

(* The flows of the tasks S that exceed no capacity, built task by task. *)
WithinCapacity(net, tasks) ==
  LET routes == RoutesToSink(net)
      Flows[S \in SUBSET tasks] ==
        IF S = {} THEN {<<>>}
        ELSE LET t == CHOOSE t \in S : TRUE
             IN  UNION {{flow @@ (t :> r) :
                           r \in {r \in routes[t] : \A a \in r : Load(flow, a) < net[a].cap}} :
                        flow \in Flows[S \ {t}]}
  IN  Flows[tasks]

RouteCost(net, r) == SumOver(r, LAMBDA a : net[a].cost)
FlowCost(net, flow) == SumOver(DOMAIN flow, LAMBDA t : RouteCost(net, flow[t]))

(* The flows that take every task somewhere within the bounds of every arc. *)
FeasibleFlows(net, tasks) ==
  {flow \in WithinCapacity(net, tasks) :
     /\ DOMAIN flow = tasks
     /\ \A t \in tasks : flow[t] \subseteq DOMAIN net
     /\ \A a \in DOMAIN net : net[a].low <= Load(flow, a) /\ Load(flow, a) <= net[a].cap}

MinCostFlows(net, tasks) ==
  LET flows == FeasibleFlows(net, tasks)
      best  == Min({FlowCost(net, flow) : flow \in flows})
  IN  {flow \in flows : FlowCost(net, flow) = best}

-----------------------------------------------------------------------------

(* The PU that a task's flow leads to; none if it stays unscheduled *)
Reaches(flow, t) == \E p \in Resources : <<p, Sink>> \in flow[t]
ReachedPU(flow, t) == CHOOSE p \in Resources : <<p, Sink>> \in flow[t]

(* Mutant: the tasks whose flow passes the unscheduled aggregator are mapped too. *)
MappingsOfAllTasks(flow) ==
  {[t \in DOMAIN flow |->
      IF Reaches(flow, t) THEN ReachedPU(flow, t) ELSE CHOOSE p \in Resources : TRUE]}

(***************************************************************************)
(* GetMappings walks the arcs with flow backwards from the PUs, breadth    *)
(* first, and hands each node's PUs to its predecessors.  It takes a node  *)
(* from the queue once: the PUs that reach the node later are lost, and as *)
(* many of the tasks behind it get no mapping.  A node's PUs come late     *)
(* over an arc whose destination is no nearer to the PUs than the node     *)
(* itself; when both are equally near, the order within the queue decides. *)
(* These are the sets of the arcs over which PUs come late.                *)
(***************************************************************************)
LateArcs(arcs) ==
  LET Level[u \in Nodes([a \in arcs |-> a])] ==
        IF u \in Resources THEN 0 ELSE 1 + Min({Level[a[2]] : a \in {b \in arcs : b[1] = u}})
      inner == {a \in arcs : a[1] \notin Resources}
      late  == {a \in inner : Level[a[2]] > Level[a[1]]}
      ties  == {a \in inner : Level[a[2]] = Level[a[1]]}
  IN  {late \cup lost : lost \in SUBSET ties}

GetMappings(flow) ==
  LET placed == {t \in DOMAIN flow : Reaches(flow, t)}
  IN  {[t \in {u \in placed : flow[u] \cap late = {}} |-> ReachedPU(flow, t)] :
         late \in LateArcs(UNION {flow[t] : t \in placed})}

(* Run: the task mappings a run may return; none if there is no feasible   *)
(* flow, in which case the solver's exit status ends the process.  A       *)
(* network without arcs has no tasks in it.                                *)
SolverMappings(net, tasks) ==
  IF net = <<>> THEN {<<>>} ELSE UNION {GetMappings(flow) : flow \in MinCostFlows(net, tasks)}

=============================================================================
