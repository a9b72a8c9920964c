---------------------------- MODULE SimulatedDFS ----------------------------
(***************************************************************************)
(* The distributed file system that the simulator keeps for Quincy         *)
(* (src/sim/dfs/): machines in racks, and the replicas of the input blocks *)
(* of every task.  A file system is a record d:                            *)
(*   kind, perRack, space   --simulated_dfs_type, --machines_per_rack and  *)
(*            --simulated_dfs_blocks_per_machine                           *)
(*   order    machines_, in the order in which the machines came           *)
(*   rack     machine_to_rack_ec_, None for a machine that is not there    *)
(*   spare    racks_with_spare_links_                                      *)
(*   next     unique_rack_id_                                              *)
(*   free     machine_num_free_blocks_                                     *)
(*   at       task_to_data_locations_: the machine of each replica, which  *)
(*            is a triple of a task, a block and a number                  *)
(* Sizes are in blocks.  An operator that draws machines at random returns *)
(* the set of all file systems it may leave; if the set is empty, the code *)
(* ends the process: there is no machine with space, or none at all.       *)
(***************************************************************************)
EXTENDS Cluster, TLC, SequencesExt

CONSTANTS
  Replication,       \* FLAGS_simulated_dfs_replication_factor
  InputBlocks        \* the blocks that AddFilesForTask computes from a task's runtime

EmptyDFS(kind, perRack, space) ==
  [kind |-> kind, perRack |-> perRack, space |-> space, order |-> <<>>, rack |-> [m \in Machines |-> None],
   spare |-> {}, next |-> 0, free |-> [m \in Machines |-> 0], at |-> <<>>]

MachinesInRack(d, r) == {m \in Machines : d.rack[m] = r}
RackIDs(d) == {d.rack[m] : m \in Machines} \ {None}
StoredOn(d, m) == {k \in DOMAIN d.at : d.at[k] = m}

(* GetFileLocations: the blocks of task t with a replica on a machine of S, *)
(* each counted once.                                                      *)
BlocksOn(d, t, S) == Cardinality({k[2] : k \in {q \in DOMAIN d.at : q[1] = t /\ d.at[q] \in S}})

-----------------------------------------------------------------------------
(* Machines *)

(* The rack a new machine joins: any with spare links, or a new one.  A     *)
(* rack that lost all machines is deleted, but keeps its spare links.      *)
RackChoices(d) == IF d.spare # {} THEN d.spare ELSE {d.next}
AddMachineToRackFails(d, r) == r \in d.spare /\ r \notin RackIDs(d)

(* AddMachine *)
AddMachineToRack(d, m, r) ==
  LET full == Cardinality(MachinesInRack(d, r)) + 1 = d.perRack
  IN  [d EXCEPT !.rack[m] = r, !.order = Append(@, m), !.free[m] = d.space,
                !.next = IF r \in d.spare THEN @ ELSE @ + 1,
                !.spare = IF full THEN @ \ {r} ELSE @ \cup {r}]

(* The ways to put replicas S on machines ms without exceeding their space. *)
Fitting(d, S, ms) ==
  {f \in [S -> ms] : \A m \in ms : Cardinality({k \in S : f[k] = m}) <= d.free[m]}

(* Mutant: the machines that receive replicas keep their space. *)
StoreForFree(d, f) == [d EXCEPT !.at = f @@ @]

(* PlaceBlockOnRandomMachine for all replicas in the domain of f *)
Store(d, f) ==
  [d EXCEPT !.at = f @@ @, !.free = [m \in Machines |-> @[m] - Cardinality({k \in DOMAIN f : f[k] = m})]]

(***************************************************************************)
(* RemoveMachine, in SimulatedUniformDFS and then in SimulatedDFS: the     *)
(* replicas move to random machines; a rack that is left empty goes.       *)
(***************************************************************************)
RemoveMachineFromRack(d, m) ==
  LET rest == Range(d.order) \ {m}
      left == MachinesInRack(d, d.rack[m]) \ {m}
      d1   == [d EXCEPT !.rack[m] = None, !.free[m] = 0,
                        !.order = SelectSeq(@, LAMBDA q : q # m),
                        !.spare = IF left = {} THEN @ ELSE @ \cup {d.rack[m]}]
  IN  {Store(d1, f) : f \in Fitting(d1, StoredOn(d, m), rest)}

-----------------------------------------------------------------------------
(* Files *)

ReplicasOf(t) == {t} \X (1..InputBlocks[t]) \X (1..Replication)

(* SimulatedUniformDFS *)
AddUniform(d, t) == {Store(d, f) : f \in Fitting(d, ReplicasOf(t), Range(d.order))}

(* SimulatedSkewedDFS: the first machine gets nothing unless it is alone,   *)
(* and no space is taken.                                                  *)
AddSkewed(d, t) ==
  LET n  == Len(d.order)
      ms == IF n = 1 THEN {d.order[1]} ELSE {d.order[i] : i \in 2..n}
  IN  {[d EXCEPT !.at = f @@ @] : f \in [ReplicasOf(t) -> ms]}

(***************************************************************************)
(* SimulatedBoundedDFS: replicas go to a pool of machines drawn for the    *)
(* job.  When a draw finds a full machine, the pool may be refreshed; the  *)
(* replica then goes to a machine of the new pool, while the space is      *)
(* taken from the machine of the old pool at the same index.               *)
(***************************************************************************)
PlaceInPool(s, k) ==
  LET d     == s.dfs
      space == {m \in Range(d.order) : d.free[m] > 0}
      Put(m, from, pool) ==
        [dfs |-> [d EXCEPT !.at = (k :> m) @@ @, !.free[from] = @ - 1], pool |-> pool]
      kept  == {Put(m, m, s.pool) : m \in s.pool \cap space}
      fresh == {Put(c[1], c[2], space) : c \in {e \in space \X space : e[2] \in s.pool \/ e[2] = e[1]}}
  IN  IF s.pool \subseteq space THEN kept ELSE kept \cup fresh

AddBounded(d, t) ==
  LET spread == Min({Cardinality({u \in Tasks : JobOf[u] = JobOf[t]}) * Replication, Len(d.order)})
      pools  == {p \in SUBSET Range(d.order) : p # {} /\ Cardinality(p) <= spread}
      Step(states, k) == UNION {PlaceInPool(s, k) : s \in states}
  IN  {s.dfs : s \in FoldLeft(Step, {[dfs |-> d, pool |-> p] : p \in pools}, SetToSeq(ReplicasOf(t)))}

(* SimulatedHDFS: the first replicas go to one machine with enough space,   *)
(* the others of a block to machines of one other rack.                    *)
AddHdfs(d, t) ==
  LET first == {k \in ReplicasOf(t) : k[3] = 1}
      Fits(f) ==
        \E m \in Range(d.order) :
          /\ \A k \in first : f[k] = m
          /\ \A k, q \in ReplicasOf(t) \ first : k[2] = q[2] => d.rack[f[k]] = d.rack[f[q]]
          /\ \A k \in ReplicasOf(t) \ first : d.rack[f[k]] # d.rack[m]
  IN  {Store(d, f) : f \in {h \in Fitting(d, ReplicasOf(t), Range(d.order)) : Fits(h)}}

(* AddFilesForTask; a service has no input. *)
AddFilesForTask(d, t) ==
  CASE InputBlocks[t] = 0                             -> {d}
    [] Len(d.order) = 0                               -> {}
    [] Len(d.order) > 0 /\ d.kind = "uniform"         -> AddUniform(d, t)
    [] Len(d.order) > 0 /\ d.kind = "skewed"          -> AddSkewed(d, t)
    [] Len(d.order) > 0 /\ d.kind = "bounded"         -> AddBounded(d, t)
    [] Len(d.order) > 0 /\ d.kind = "hdfs"            -> AddHdfs(d, t)

(* SimulatedHDFS draws a machine as often as there are machines, and gives  *)
(* up even if one has space.                                               *)
AddFilesMayFail(d, t) ==
  /\ InputBlocks[t] > 0 /\ d.kind = "hdfs"
  /\ \E m \in Range(d.order) : d.free[m] < InputBlocks[t]

(* RemoveBlocksForTask *)
RemoveFilesForTask(d, t) ==
  LET kept == {k \in DOMAIN d.at : k[1] # t}
  IN  [d EXCEPT !.at = [k \in kept |-> @[k]],
                !.free = [m \in Machines |-> @[m] + Cardinality(StoredOn(d, m) \ kept)]]

=============================================================================
