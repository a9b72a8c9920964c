----------------------------- MODULE FlowGraph ------------------------------
(***************************************************************************)
(* The flow network the flow scheduler keeps in memory                     *)
(* (src/scheduling/flow/flow_graph.{h,cc}, flow_graph_node.cc).            *)
(*                                                                         *)
(* A node is its identifier; of the rest of FlowGraphNode only the type is *)
(* kept, "task" or "other".  An arc is the pair <<source, destination>>:   *)
(* the arc maps of a node are keyed by the other end, so there is at most  *)
(* one arc between two nodes.  The two capacity bounds of an arc are one   *)
(* value, 0 when both are 0.                                               *)
(***************************************************************************)
EXTENDS Integers, Sequences

CONSTANTS
  Caps,            \* capacities an arc may be given
  Costs,           \* costs an arc may be given
  RandomizeIds,    \* FLAGS_randomize_flow_graph_node_ids
  InitialIds       \* the argument of PopulateUnusedIds in the constructor (50)

ASSUME CapsAssumption == Caps \subseteq Nat
ASSUME CostsAssumption == Costs \subseteq Int
ASSUME InitialIdsAssumption == InitialIds \in Nat \ {0, 1}
ASSUME RandomizeIdsAssumption == RandomizeIds \in BOOLEAN

VARIABLES
  nodeType,        \* node_map_: the type of each node, by identifier
  arcs,            \* arc_set_ and the nodes' arc maps: pair -> [cap, cost]
  unusedIds,       \* unused_ids_: a FIFO queue
  currentId        \* current_id_

graphVars == <<nodeType, arcs, unusedIds, currentId>>

NodeTypes == {"task", "other"}
Attributes == [cap : Caps \cup {0}, cost : Costs]
Nodes == DOMAIN nodeType

\* The orders in which PopulateUnusedIds may push the identifiers first..last.
Shuffles(first, last) ==
  {s \in [1..(last - first + 1) -> first..last] :
     \A i, j \in 1..(last - first + 1) : s[i] = s[j] => i = j}

\* FlowGraph::FlowGraph
GraphInit ==
  /\ nodeType = [n \in {} |-> "other"]
  /\ arcs = [a \in {} |-> [cap |-> 0, cost |-> 0]]
  /\ IF RandomizeIds
       THEN currentId = InitialIds /\ unusedIds \in Shuffles(1, InitialIds - 1)
       ELSE currentId = 1 /\ unusedIds = <<>>

\* A broken NextId: it forgets to pop the identifier it hands out.
NextIdWithoutPop(id) ==
  IF unusedIds = <<>>
  THEN /\ id = currentId /\ currentId' = currentId + 1
       /\ unusedIds' = unusedIds
  ELSE id = Head(unusedIds) /\ UNCHANGED <<unusedIds, currentId>>

\* NextId (with PopulateUnusedIds) hands out the identifier id.
NextId(id) ==
  IF unusedIds # <<>>
  THEN /\ id = Head(unusedIds)
       /\ unusedIds' = Tail(unusedIds)
       /\ UNCHANGED currentId
  ELSE IF RandomizeIds
       THEN /\ currentId' = 2 * currentId
            /\ \E s \in Shuffles(currentId, 2 * currentId - 1) :
                 id = Head(s) /\ unusedIds' = Tail(s)
       ELSE /\ id = currentId
            /\ currentId' = currentId + 1
            /\ UNCHANGED unusedIds

WithArc(g, a, attributes) ==
  [b \in DOMAIN g \cup {a} |-> IF b = a THEN attributes ELSE g[b]]

WithoutArcs(g, gone) == [b \in DOMAIN g \ gone |-> g[b]]

GraphAddNode(id, type) ==
  /\ NextId(id)
  /\ nodeType' = [n \in Nodes \cup {id} |-> IF n = id THEN type ELSE nodeType[n]]
  /\ UNCHANGED arcs

\* AddArc (CHECKs that both ends exist and that the arc does not) and ChangeArc.
GraphAddArc(src, dst, attributes) ==
  /\ {src, dst} \subseteq Nodes /\ <<src, dst>> \notin DOMAIN arcs
  /\ arcs' = WithArc(arcs, <<src, dst>>, attributes)
  /\ UNCHANGED <<nodeType, unusedIds, currentId>>

GraphChangeArc(a, attributes) ==
  /\ a \in DOMAIN arcs
  /\ arcs' = WithArc(arcs, a, attributes)
  /\ UNCHANGED <<nodeType, unusedIds, currentId>>

GraphDeleteArc(a) ==
  /\ a \in DOMAIN arcs
  /\ arcs' = WithoutArcs(arcs, {a})
  /\ UNCHANGED <<nodeType, unusedIds, currentId>>

IncidentArcs(n) == {a \in DOMAIN arcs : n \in {a[1], a[2]}}

\* A broken DeleteNode: only the incoming arcs go with the node.
DeleteNodeKeepingOutgoing(n) ==
  /\ n \in Nodes
  /\ unusedIds' = Append(unusedIds, n)
  /\ arcs' = WithoutArcs(arcs, {a \in DOMAIN arcs : a[2] = n})
  /\ nodeType' = [m \in Nodes \ {n} |-> nodeType[m]]
  /\ UNCHANGED currentId

GraphDeleteNode(n) ==
  /\ n \in Nodes
  /\ unusedIds' = Append(unusedIds, n)
  /\ arcs' = WithoutArcs(arcs, IncidentArcs(n))
  /\ nodeType' = [m \in Nodes \ {n} |-> nodeType[m]]
  /\ UNCHANGED currentId

-----------------------------------------------------------------------------
\* The identifiers NextId may still hand out belong to no live node, are
\* queued once each, and lie below current_id_: AddNode's CHECK that the
\* identifier is not in node_map_ never fails, however often identifiers are
\* given back and used again.
IdsNeverClash ==
  /\ \A i \in DOMAIN unusedIds : /\ unusedIds[i] \notin Nodes
                                  /\ unusedIds[i] \in 1..(currentId - 1)
  /\ \A i, j \in DOMAIN unusedIds : unusedIds[i] = unusedIds[j] => i = j
  /\ Nodes \subseteq 1..(currentId - 1)

\* Every arc joins two live nodes: deleting a node takes the arcs at both its
\* ends with it, so a reused identifier starts without arcs.
NoDanglingArcs == DOMAIN arcs \subseteq Nodes \X Nodes
=============================================================================
