--------------------------- MODULE MCCoordinator ----------------------------
(***************************************************************************)
(* Small instances of Coordinator.  Two jobs: job A is a root with one     *)
(* submitted child and one child it spawns while it runs; job B is a root  *)
(* alone.                                                                  *)
(***************************************************************************)
EXTENDS Coordinator, TLC

CONSTANTS a, a1, a2, b, jobA, jobB, obj

TwoJobsTasks == {a, a1, a2, b}
TwoJobs == {jobA, jobB}
TwoJobsJobOf == [t \in TwoJobsTasks |-> IF t = b THEN jobB ELSE jobA]
TwoJobsParent == [t \in TwoJobsTasks |-> IF t \in {a1, a2} THEN a ELSE None]
NoObjects == [t \in TwoJobsTasks |-> {}]
PUSymmetry == Permutations(Resources)

NoJobOutputs == [j \in TwoJobs |-> {}]

(* Job A alone. *)
JobATasks == {a, a1, a2}
JobAJobOf == [t \in JobATasks |-> jobA]
JobAParent == [t \in JobATasks |-> IF t = a THEN None ELSE a]
JobANoObjects == [t \in JobATasks |-> {}]
JobANoOutputs == [j \in {jobA} |-> {}]

(* Job A promises obj, which its root produces, and a1 depends on it: the   *)
(* root runs again when it fails, and when a1 still waits for obj.         *)
RootOutput == [t \in JobATasks |-> IF t = a THEN {obj} ELSE {}]
ChildNeedsOutput == [t \in JobATasks |-> IF t = a1 THEN {obj} ELSE {}]
JobAOutput == [j \in {jobA} |-> {obj}]

=============================================================================
