---------------------------- MODULE NetCostModel ----------------------------
(***************************************************************************)
(* The network-bandwidth cost model (src/scheduling/flow/net_cost_model.cc) *)
(* and the label selectors it honours (src/scheduling/label_utils.cc).     *)
(*                                                                         *)
(* A task class (bandwidth, selectors) points to the classes 0, 1, 2, ...  *)
(* of every machine whose labels satisfy the selectors; class i of a       *)
(* machine takes the (i+1)-th task, as long as i+1 times the bandwidth is  *)
(* still available there.                                                  *)
(*                                                                         *)
(* One label key is modelled: a machine's label is a value or NoLabel, and *)
(* a selector is a type and a set of values.                               *)
(***************************************************************************)
EXTENDS SimpleCostModels

CONSTANTS
  MaxMultiArcs   \* FLAGS_max_multi_arcs, the classes of each machine

(* SatisfiesLabelSelector *)
SatisfiesLabelSelector(label, s) ==
  CASE s.type = "IN_SET"         -> label \in s.values
    [] s.type = "NOT_IN_SET"     -> label \notin s.values
    [] s.type = "EXISTS_KEY"     -> label # NoLabel
    [] s.type = "NOT_EXISTS_KEY" -> label = NoLabel

SatisfiesLabelSelectors(label, selectors) ==
  \A s \in selectors : SatisfiesLabelSelector(label, s)

(* HashSelectors combines the keys and the values, and not the types. *)
HashSelectors(selectors) == {s.values : s \in selectors}

-----------------------------------------------------------------------------

NetCosts == [unscheduled |-> 2560000, continuation |-> 0, preemption |-> 0, resource |-> 0]

NetClass(bw, selectors) == <<"net", bw, HashSelectors(selectors)>>
GetMachineEC(m, index) == <<"machine", m, index>>

(***************************************************************************)
(* GetTaskEquivClasses: the class of the task's bandwidth, as AddTask      *)
(* recorded it, and of the selectors in its descriptor now.  The first     *)
(* task of a class fixes the selectors the class stands for.               *)
(***************************************************************************)
NetTaskClass(x, t) == NetClass(x.cm.taskBw[t], x.request[t].selectors)

NetTaskArcs(x, t) == NetTaskClass(x, t) :> Arc(0, 1)

NetClassesSeen(cm, x, tasks) ==
  LET new == {NetTaskClass(x, t) : t \in tasks} \ DOMAIN cm.selectorsOf
      first == [ec \in new |-> CHOOSE s \in {x.request[t].selectors :
                                 t \in {u \in tasks : NetTaskClass(x, u) = ec}} : TRUE]
  IN  [cm EXCEPT !.selectorsOf = first @@ @]

(* EquivClassToEquivClass and GetEquivClassToEquivClassesArcs. *)
NetArcToMachineClass(x, bw, m, index) ==
  Arc((index + 1) * bw - x.cm.available[m] + 1280000, 1)

NetUsableIndices(x, bw, m) == {i \in 0..(MaxMultiArcs - 1) : bw * (i + 1) <= x.cm.available[m]}

(* Mutant: the selectors of the class are not looked at. *)
NetClassArcsUnfiltered(x, ec) ==
  IF ec[1] = "machine" THEN ec[2] :> Arc(0, 1)
  ELSE LET dests == UNION {{GetMachineEC(m, i) : i \in NetUsableIndices(x, ec[2], m)} :
                           m \in x.cm.machines}
       IN  [d \in dests |-> NetArcToMachineClass(x, ec[2], d[2], d[3])]

(* GetOutgoingEquivClassPrefArcs: class i of a machine leads to the machine. *)
NetClassArcs(x, ec) ==
  IF ec[1] = "machine" THEN ec[2] :> Arc(0, 1)
  ELSE LET selected == {m \in x.cm.machines :
                          SatisfiesLabelSelectors(x.label[m], x.cm.selectorsOf[ec])}
           dests == UNION {{GetMachineEC(m, i) : i \in NetUsableIndices(x, ec[2], m)} :
                           m \in selected}
       IN  [d \in dests |-> NetArcToMachineClass(x, ec[2], d[2], d[3])]

(* AddMachine and AddTask insert only what is not there yet (CHECK), and   *)
(* RemoveMachine and RemoveTask are commented out.                         *)
NetAddMachineFails(cm, m) == m \in cm.machines
NetAddTaskFails(cm, t) == cm.taskBw[t] >= 0
NetAddTask(cm, x, t) == [cm EXCEPT !.taskBw[t] = x.request[t].bw]

(* GatherStats: with a sample in the knowledge base, what a machine has     *)
(* available is its capacity less the bandwidth in the latest sample.      *)
NetGatherStats(cm, x) ==
  [cm EXCEPT !.available = [m \in Machines |->
     IF m \in x.up /\ x.sample[m] # None THEN Capacity[m].bw - x.sample[m] ELSE @[m]]]

=============================================================================
