----------------------- MODULE FlowGraphChangeManager -----------------------
(***************************************************************************)
(* Incremental flow scheduling: every change of the flow graph is also     *)
(* written to a log, the log is optimised and sent to a solver that keeps  *)
(* its own copy of the graph between rounds                                *)
(* (src/scheduling/flow/flow_graph_change_manager.{h,cc} and the export    *)
(* half of solver_dispatcher.cc, with FLAGS_incremental_flow).             *)
(*                                                                         *)
(* The caller is the flow graph manager: it adds an arc only where there   *)
(* is none, and a task node never has incoming arcs.  The comment a caller *)
(* attaches to a change is left out: it is a constant of the call site, so *)
(* two changes are equal when they come from the same one.                 *)
(***************************************************************************)
EXTENDS FlowGraph, FiniteSets

CONSTANTS
  FlagChoices,     \* the sets of optimisations a process may be started with
  Deletable,       \* the types of the nodes that may be removed
  MaxNodes,        \* bound: live nodes
  MaxChanges       \* bound: the changes logged in each round, a sequence

VARIABLES
  flags,           \* the optimisations that are on
  changes,         \* graph_changes_
  rounds,          \* exports so far; solver_ran_once_ is rounds > 0
  solver           \* the solver's copy of the graph: [nodes, arcs]

vars == <<graphVars, flags, changes, rounds, solver>>

Flags == {"remove_duplicate_changes", "merge_changes_to_same_arc",
          "purge_changes_before_node_removal"}

ASSUME FlagChoicesAssumption == FlagChoices \subseteq SUBSET Flags
ASSUME DeletableAssumption == Deletable \subseteq NodeTypes

-----------------------------------------------------------------------------
(* The log: DIMACSAddNode, DIMACSRemoveNode, DIMACSNewArc, DIMACSChangeArc *)

AddNodeChange(n) == [op |-> "n", node |-> n]
RemoveNodeChange(n) == [op |-> "r", node |-> n]
NewArcChange(a, v) == [op |-> "a", arc |-> a, cap |-> v.cap, cost |-> v.cost]
ChangeArcChange(a, v, oldCost) ==
  [op |-> "x", arc |-> a, cap |-> v.cap, cost |-> v.cost, oldCost |-> oldCost]

IsArcChange(c) == c.op \in {"a", "x"}
Ends(c) == IF IsArcChange(c) THEN {c.arc[1], c.arc[2]} ELSE {c.node}

\* The subsequence of the log at the positions that satisfy Keep.
KeepAt(log, Keep(_)) ==
  LET kept == SelectSeq([i \in DOMAIN log |-> i], Keep)
  IN  [k \in DOMAIN kept |-> log[kept[k]]]

\* Some node of the set is added strictly between positions i and j.
AddedBetween(log, i, j, nodes) ==
  \E k \in (i + 1)..(j - 1) : log[k].op = "n" /\ log[k].node \in nodes

\* RemoveDuplicateChanges: an arc change goes if node_to_change still has an
\* identical one; adding a node forgets the changes at its identifier.
RemoveDuplicateChanges(log) ==
  KeepAt(log, LAMBDA i :
    \/ ~IsArcChange(log[i])
    \/ \A j \in 1..(i - 1) :
         log[j] = log[i] => AddedBetween(log, j, i, Ends(log[i])))

\* A broken MergedInto: adding a node forgets nothing.
MergedAcrossReuse(log, i) ==
  CHOOSE j \in 1..i :
    /\ IsArcChange(log[j]) /\ log[j].arc = log[i].arc
    /\ \A k \in 1..(j - 1) : IsArcChange(log[k]) => log[k].arc # log[i].arc

\* MergeChangesToSameArc, arcs_src_changes: the position of the change that the
\* change at i is merged into.  Adding a node forgets the arcs out of its
\* identifier and leaves those into it.
MergedInto(log, i) ==
  CHOOSE j \in 1..i :
    /\ IsArcChange(log[j]) /\ log[j].arc = log[i].arc
    /\ ~AddedBetween(log, j, i, {log[i].arc[1]})
    /\ \A k \in 1..(j - 1) :
         IsArcChange(log[k]) /\ log[k].arc = log[i].arc =>
           AddedBetween(log, k, i, {log[i].arc[1]})

\* A broken MergedChange: the last change replaces the first, old cost included.
LastChangeOfGroup(log, i) ==
  log[CHOOSE k \in i..Len(log) :
        /\ IsArcChange(log[k]) /\ MergedInto(log, k) = i
        /\ \A l \in (k + 1)..Len(log) : IsArcChange(log[l]) => MergedInto(log, l) # i]

\* MergeChangesToSameArcHelper: the first change of a group stays, with the
\* values of the last; its type and its old cost are kept.
MergedChange(log, i) ==
  LET last == CHOOSE k \in i..Len(log) :
                /\ IsArcChange(log[k]) /\ MergedInto(log, k) = i
                /\ \A l \in (k + 1)..Len(log) :
                     IsArcChange(log[l]) => MergedInto(log, l) # i
  IN  [log[i] EXCEPT !.cap = log[last].cap, !.cost = log[last].cost]

MergeChangesToSameArc(log) ==
  LET merged == [i \in DOMAIN log |-> IF IsArcChange(log[i]) /\ MergedInto(log, i) = i
                                      THEN MergedChange(log, i) ELSE log[i]]
  IN  KeepAt(merged, LAMBDA i : IsArcChange(log[i]) => MergedInto(log, i) = i)

\* The CHECK_NOTNULL in MergeChangesToSameArc: when a node is added, each arc
\* recorded as leaving its identifier has an entry in arcs_dst_changes.
MergeAborts(log) ==
  \E i \in DOMAIN log, j \in DOMAIN log :
    /\ log[i].op = "n" /\ j < i
    /\ IsArcChange(log[j]) /\ log[j].arc[1] = log[i].node
    /\ ~AddedBetween(log, j, i, {log[i].node})
    /\ \A k \in 1..(i - 1) :
         IsArcChange(log[k]) /\ log[k].arc[2] = log[j].arc[2] =>
           AddedBetween(log, k, i, {log[j].arc[2]})

\* A broken RemovedLater: reuse of the identifier is not considered.
EverRemovedLater(log, i, n) ==
  \E j \in (i + 1)..Len(log) : log[j] = RemoveNodeChange(n)

\* PurgeChangesBeforeNodeRemoval, nodes_removed at position i of the backward
\* scan: the node is removed later, before its identifier is added again.
RemovedLater(log, i, n) ==
  \E j \in (i + 1)..Len(log) :
    log[j] = RemoveNodeChange(n) /\ ~AddedBetween(log, i, j, {n})

\* A broken PurgeChangesBeforeNodeRemoval: the backward scan misses the first
\* change, which is then not in the new log.
PurgeMissingFirst(log) ==
  KeepAt(log, LAMBDA i :
    /\ i > 1
    /\ log[i].op # "n" => \A n \in Ends(log[i]) : ~RemovedLater(log, i, n))

PurgeChangesBeforeNodeRemoval(log) ==
  KeepAt(log, LAMBDA i :
    log[i].op # "n" => \A n \in Ends(log[i]) : ~RemovedLater(log, i, n))

\* OptimizeChanges: the three passes, in this order, each under its flag.
OptimizeChanges(log) ==
  LET distinct == IF "remove_duplicate_changes" \in flags
                  THEN RemoveDuplicateChanges(log) ELSE log
      merged == IF "merge_changes_to_same_arc" \in flags
                THEN MergeChangesToSameArc(distinct) ELSE distinct
  IN  IF "purge_changes_before_node_removal" \in flags
      THEN PurgeChangesBeforeNodeRemoval(merged) ELSE merged

-----------------------------------------------------------------------------
(* The solver, a separate process: it applies the changes in order.        *)

Apply(g, c) ==
  CASE c.op = "n" -> [g EXCEPT !.nodes = @ \cup {c.node}]
    [] c.op = "r" -> [nodes |-> g.nodes \ {c.node},
                      arcs |-> WithoutArcs(g.arcs, {a \in DOMAIN g.arcs : c.node \in {a[1], a[2]}})]
    [] OTHER -> [g EXCEPT !.arcs = WithArc(@, c.arc, [cap |-> c.cap, cost |-> c.cost])]

Replay(g, log) ==
  LET after[i \in 0..Len(log)] == IF i = 0 THEN g ELSE Apply(after[i - 1], log[i])
  IN  after[Len(log)]

\* What a solver computes with: an arc without capacity is no arc.
Effective(g) == [g EXCEPT !.arcs = WithoutArcs(@, {a \in DOMAIN @ : @[a].cap = 0})]

-----------------------------------------------------------------------------
Init ==
  /\ GraphInit
  /\ flags \in FlagChoices
  /\ changes = <<>>
  /\ rounds = 0
  /\ solver = [nodes |-> {}, arcs |-> arcs]

AddGraphChange(c) ==
  /\ rounds < Len(MaxChanges) /\ Len(changes) < MaxChanges[rounds + 1]
  /\ changes' = Append(changes, c)
  /\ UNCHANGED <<flags, rounds, solver>>

AddNode(type) ==
  /\ Cardinality(Nodes) < MaxNodes
  /\ \E id \in 1..(2 * currentId) :
       GraphAddNode(id, type) /\ AddGraphChange(AddNodeChange(id))

AddArc(src, dst, v) ==
  /\ src # dst /\ nodeType[dst] # "task"
  /\ GraphAddArc(src, dst, v)
  /\ AddGraphChange(NewArcChange(<<src, dst>>, v))

\* ChangeArc, of which ChangeArcCapacity and ChangeArcCost are the cases in
\* which only the capacity or only the cost is new.
ChangeArc(a, v) ==
  /\ arcs[a] # v
  /\ GraphChangeArc(a, v)
  /\ AddGraphChange(ChangeArcChange(a, v, arcs[a].cost))

DeleteArc(a) ==
  /\ AddGraphChange(ChangeArcChange(a, [cap |-> 0, cost |-> arcs[a].cost], arcs[a].cost))
  /\ GraphDeleteArc(a)

DeleteNode(n) ==
  /\ nodeType[n] \in Deletable
  /\ AddGraphChange(RemoveNodeChange(n))
  /\ GraphDeleteNode(n)

\* ExportToSolver: ExportGraph sends the whole graph in the first round and the
\* optimised log afterwards; ResetChanges empties the log.
ExportToSolver ==
  /\ rounds < Len(MaxChanges)
  /\ rounds' = rounds + 1
  /\ solver' = IF rounds = 0 THEN [nodes |-> Nodes, arcs |-> arcs]
                             ELSE Replay(solver, OptimizeChanges(changes))
  /\ changes' = <<>>
  /\ UNCHANGED <<graphVars, flags>>

Next ==
  \/ \E type \in NodeTypes : AddNode(type)
  \/ \E src, dst \in Nodes, v \in [cap : Caps, cost : Costs] : AddArc(src, dst, v)
  \/ \E a \in DOMAIN arcs, v \in [cap : Caps, cost : Costs] : ChangeArc(a, v)
  \/ \E a \in DOMAIN arcs : DeleteArc(a)
  \/ \E n \in Nodes : DeleteNode(n)
  \/ ExportToSolver

Spec == Init /\ [][Next]_vars

-----------------------------------------------------------------------------
Graph == [nodes |-> Nodes, arcs |-> arcs]

\* After the first round the optimised log is the incremental delta: a solver
\* that applies it to its copy has the scheduler's graph, nodes and arcs with
\* their capacities and costs, although identifiers are reused, arcs deleted
\* and added again and changes merged into earlier ones.
DeltaReproducesGraph ==
  rounds > 0 => Effective(Replay(solver, OptimizeChanges(changes))) = Effective(Graph)

\* Every change of the optimised log can be applied where it stands: it adds a
\* node the solver does not have, removes one it has, or concerns an arc between
\* nodes it has.  Merging moves a value to an earlier place in the log and
\* purging drops changes around it; neither may leave a reference to a node
\* outside its lifetime.
EveryChangeApplies ==
  rounds > 0 =>
    LET log == OptimizeChanges(changes)
    IN  \A i \in DOMAIN log :
          LET g == Replay(solver, SubSeq(log, 1, i - 1))
          IN  IF log[i].op = "n" THEN log[i].node \notin g.nodes ELSE Ends(log[i]) \subseteq g.nodes

\* The old cost in a change is the cost the solver has for the arc when it reads
\* the change (the comment in MergeChangesToSameArcHelper relies on it).
OldCostIsTheSolvers ==
  rounds > 0 =>
    LET log == OptimizeChanges(changes)
    IN  \A i \in DOMAIN log :
          LET g == Replay(solver, SubSeq(log, 1, i - 1))
          IN  log[i].op = "x" /\ log[i].arc \in DOMAIN g.arcs =>
                log[i].oldCost = g.arcs[log[i].arc].cost

\* Optimising twice is optimising once: with FLAGS_debug_flow_graph the log is
\* optimised for the debug file and again for the solver.
OptimizingIsIdempotent ==
  OptimizeChanges(OptimizeChanges(changes)) = OptimizeChanges(changes)

\* Merging never runs into its CHECK_NOTNULL.
MergingNeverAborts == "merge_changes_to_same_arc" \in flags => ~MergeAborts(changes)
=============================================================================
