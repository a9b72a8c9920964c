---------------------------- MODULE MCSubordinate ---------------------------
(***************************************************************************)
(* Small instances of Subordinate: two delegated tasks d1 and d2 and a     *)
(* local job with the task l1, on one PU.  Each environment stresses one   *)
(* kind of trouble.                                                        *)
(***************************************************************************)
EXTENDS Subordinate

CONSTANTS d1, d2, l1, jobD, jobL

MCTasks == {d1, d2, l1}
MCDelegated == {d1, d2}
MCJobOf == (d1 :> jobD) @@ (d2 :> jobD) @@ (l1 :> jobL)
MCParent == [t \in MCTasks |-> None]
NoObjects == [t \in MCTasks |-> {}]
NoJobOutputs == [j \in {jobD, jobL} |-> {}]
MCChannels == MCTasks \cup {Delegator}

Quiet == [parent |-> Address, listen |-> Address, tasks |-> {d1}, requests |-> 1,
          leaves |-> FALSE, breaks |-> FALSE, mishaps |-> FALSE]

MCEnvironments ==
  (* the parent is known by name, and may leave *)
  {[Quiet EXCEPT !.parent = n, !.listen = m, !.leaves = TRUE, !.breaks = TRUE] : n, m \in Names}
  (* a local job competes for the PU, and the parent tries again *)
  \cup {[Quiet EXCEPT !.tasks = {d1, l1}, !.requests = 2]}
  (* two delegated tasks follow each other, over connections that break *)
  \cup {[Quiet EXCEPT !.tasks = {d1, d2}, !.breaks = TRUE]}
  (* forks fail and waits end early *)
  \cup {[Quiet EXCEPT !.mishaps = TRUE]}

=============================================================================
