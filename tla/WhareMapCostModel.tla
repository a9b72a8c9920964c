------------------------- MODULE WhareMapCostModel --------------------------
(***************************************************************************)
(* The Whare-Map cost model (src/scheduling/flow/wharemap_cost_model.cc):  *)
(* it remembers how fast the tasks of a binary ran on each type of machine *)
(* (psi_map_, in picoseconds per instruction) and prefers the types that   *)
(* suit the binary.                                                        *)
(*                                                                         *)
(* The per-co-runner map xi_map_ always equals psi_map_: GatherStats counts *)
(* co-runners over an empty local list, so that every key has the same     *)
(* hash of counts.  A new best case is recorded with the comparison of a   *)
(* new worst case, so that best_case_psi_map_ always equals                *)
(* worst_case_psi_map_.  One map stands for each pair.                     *)
(*                                                                         *)
(* In the model's state, psi maps <<binary, type>> to the sum and number   *)
(* of samples, worst maps a binary to its worst average (0 if there is     *)
(* none), and typeAggs is machine_aggs_.                                   *)
(***************************************************************************)
EXTENDS SimpleCostModels

(* An average that divides by an instruction count of zero is infinite; as  *)
(* an integer cost it becomes the smallest one.                            *)
OutOfRange == -1000000

NumPrefArcsAggToRes == 2    \* FLAGS_num_pref_arcs_agg_to_res

(* ComputeMachineTypeHash: the kinds of the resources below a machine *)
MachineType(m) == <<Cardinality(Below(m) \cap Interior), Cardinality(PUsBelow(m))>>

CommandClass(t) == <<"command", Binary[t]>>
TypeClass(type) == <<"type", type>>

(* AverageFromVec *)
AveragePsPI(samples) == samples.sum \div samples.n

(* GetAvgPsPIForTEC of the knowledge base, which counts in units a hundred  *)
(* times coarser than the model does.                                      *)
KbAveragePsPI(x, bin) ==
  LET known == {k \in DOMAIN x.cm.psi : k[1] = bin}
      total == SumOver(known, LAMBDA k : x.cm.psi[k].sum)
      count == SumOver(known, LAMBDA k : x.cm.psi[k].n)
  IN  CASE x.reports[bin] = "none"           -> 0
        [] x.reports[bin] = "instructions"   -> total \div (100 * count)
        [] x.reports[bin] = "noInstructions" -> OutOfRange

(* The average for a binary on a machine type, relative to the best case *)
RelativePsPI(x, bin, type) == (AveragePsPI(x.cm.psi[<<bin, type>>]) * 100) \div x.cm.worst[bin]

(* TaskToUnscheduledAgg *)
WhareTaskCosts(x, t) ==
  LET bin  == Binary[t]
      norm == IF x.cm.worst[bin] = 0 THEN 100
              ELSE (KbAveragePsPI(x, bin) * 100) \div x.cm.worst[bin] + 1
  IN  [unscheduled |-> 97 + Max({x.wait, norm}), continuation |-> 0, preemption |-> 0]

(* TaskToClusterAggCost *)
TaskToClusterAggCost(x, t) ==
  IF x.cm.worst[Binary[t]] = 0 THEN KbAveragePsPI(x, Binary[t]) ELSE 100

WhareTaskArcs(x, t) ==
  (CommandClass(t) :> Arc(0, 1)) @@ (<<"job", JobOf[t]>> :> Arc(0, 1)) @@
  (ClusterAgg :> Arc(TaskToClusterAggCost(x, t), 1))

(* EquivClassToResourceNode for the class of a command *)
WhareCostToMachine(x, bin, m) ==
  IF <<bin, MachineType(m)>> \in DOMAIN x.cm.psi
  THEN RelativePsPI(x, bin, MachineType(m)) ELSE MaxArcCost

(* The machines that beat the worst case, the cheapest first and not too many *)
WharePreferred(x, bin) ==
  LET worst == IF x.cm.worst[bin] # 0 THEN 100 ELSE KbAveragePsPI(x, bin)
      good  == {m \in x.cm.machines : WhareCostToMachine(x, bin, m) < worst}
  IN  CHOOSE S \in SUBSET good :
        /\ Cardinality(S) = Min({Cardinality(good), NumPrefArcsAggToRes})
        /\ \A m \in S, n \in good \ S :
             WhareCostToMachine(x, bin, m) <= WhareCostToMachine(x, bin, n)

MachinesOfType(x, type) == {m \in x.cm.machines : MachineType(m) = type}

(* EquivClassToEquivClass, with GetECOutgoingCapacity *)
WhareTypeArc(x, bin, type) ==
  IF <<bin, type>> \in DOMAIN x.cm.psi
  THEN Arc(RelativePsPI(x, bin, type), SumOver(MachinesOfType(x, type), LAMBDA m : x.slots[m]))
  ELSE Arc(0, 0)

(* GetOutgoingEquivClassPrefArcs and GetEquivClassToEquivClassesArcs *)
WhareClassArcs(x, ec) ==
  CASE ec = ClusterAgg     -> ToMachines(x, SameCost(x, 0))
    [] ec[1] = "command"   ->
         [m \in WharePreferred(x, ec[2]) |-> Arc(WhareCostToMachine(x, ec[2], m), Free(x, m))] @@
         [d \in {TypeClass(type) : type \in x.cm.typeAggs} |-> WhareTypeArc(x, ec[2], d[2])]
    [] ec[1] = "type"      -> [m \in MachinesOfType(x, ec[2]) |-> Arc(0, Free(x, m))]
    [] ec[1] = "job"       -> NoArcs

WhareResourceCost(r) == IF r \in Resources THEN CoreId[r] ELSE 0

-----------------------------------------------------------------------------

WhareAddMachine(cm, m) ==
  [cm EXCEPT !.machines = @ \cup {m}, !.typeAggs = @ \cup {MachineType(m)}]

(***************************************************************************)
(* RemoveMachine counts how many machines of the type it passes before it  *)
(* finds m, and drops the type when it passed exactly one: "later" says    *)
(* that m comes second.                                                    *)
(***************************************************************************)
WhareRemoveMachine(cm, m, later) ==
  [cm EXCEPT !.machines = @ \ {m},
             !.typeAggs = IF later THEN @ \ {MachineType(m)} ELSE @]

(* RemoveTask for a completed task: RecordMECtoPsPIMapping *)
WhareTaskCompleted(cm, x, t, p) ==
  LET key  == <<Binary[t], MachineType(MachineOf(p))>>
      old  == IF key \in DOMAIN cm.psi THEN cm.psi[key] ELSE [sum |-> 0, n |-> 0]
      new  == [sum |-> old.sum + x.pspi, n |-> old.n + 1]
  IN  IF x.pspi = 0 THEN cm
      ELSE [cm EXCEPT !.psi = (key :> new) @@ @,
                      !.worst[Binary[t]] = Max({@, AveragePsPI(new)})]

=============================================================================
