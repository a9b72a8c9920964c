------------------------------ MODULE Placement ------------------------------
(***************************************************************************)
(* What a scheduler promises, whatever algorithm it uses: at any time, a   *)
(* task runs on at most one PU that is there, no PU runs more tasks than   *)
(* it has slots for, and what is over stays over.  A scheduling round may  *)
(* start, move and stop tasks at will within these limits; outside a round *)
(* no task starts or moves, and a task stops because it ended, failed, was *)
(* removed or lost its PU.                                                 *)
(***************************************************************************)
EXTENDS Naturals, FiniteSets

CONSTANTS Task, PU, Slots, Nowhere

VARIABLES
  where,   \* the PU each task runs on
  up,      \* the PUs that are there
  over     \* the tasks that completed or were removed

TypeOK ==
  /\ where \in [Task -> PU \cup {Nowhere}]
  /\ up \subseteq PU
  /\ over \subseteq Task

Allowed(w, present, ended) ==
  /\ \A t \in Task : w[t] # Nowhere => w[t] \in present /\ t \notin ended
  /\ \A p \in PU : Cardinality({t \in Task : w[t] = p}) <= Slots

Init ==
  /\ where = [t \in Task |-> Nowhere]
  /\ up = {}
  /\ over = {}

Round ==
  /\ where' \in [Task -> up \cup {Nowhere}]
  /\ Allowed(where', up, over)
  /\ UNCHANGED <<up, over>>

(* A task stops, or a task that does not run is over. *)
Stop ==
  /\ \E t \in Task :
       /\ where' = [where EXCEPT ![t] = Nowhere]
       /\ over' \in {over, over \cup {t}}
  /\ UNCHANGED up

Arrive ==
  /\ up \subseteq up' /\ up' \subseteq PU
  /\ UNCHANGED <<where, over>>

Leave ==
  /\ up' \subseteq up
  /\ where' = [t \in Task |-> IF where[t] \in up' THEN where[t] ELSE Nowhere]
  /\ UNCHANGED over

Next == Round \/ Stop \/ Arrive \/ Leave

Spec == Init /\ [][Next]_<<where, up, over>>

=============================================================================
