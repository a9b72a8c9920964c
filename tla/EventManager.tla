---------------------------- MODULE EventManager ----------------------------
(***************************************************************************)
(* The simulator's clock and its queue of events                           *)
(* (src/sim/event_manager.cc, src/sim/simulated_wall_time.cc).             *)
(*                                                                         *)
(* The queue is a multimap ordered by time, in which events with equal     *)
(* times keep the order of their insertion: a sequence of records with a   *)
(* time, a kind and the task or machine concerned.  x is the record of     *)
(* command line flags; time is in seconds, and the trace speed-up is 1.    *)
(***************************************************************************)
EXTENDS Integers, FiniteSets, SequencesExt

CONSTANT Never    \* UINT64_MAX as a time

Event(time, kind, of) == [time |-> time, kind |-> kind, of |-> of]

AddEvent(q, e) == InsertAt(q, Cardinality({i \in DOMAIN q : q[i].time <= e.time}) + 1, e)
AddEvents(q, es) == FoldLeft(AddEvent, q, es)

(* RemoveTaskEndRuntimeEvent: only an event at exactly that time is found. *)
RemoveTaskEndRuntimeEvent(q, t, time) ==
  LET found == {i \in DOMAIN q : q[i] = Event(time, "TASK_END", t)}
  IN  IF found = {} THEN q ELSE RemoveAt(q, Min(found))

GetTimeOfNextEvent(q) == IF q = <<>> THEN Never ELSE Head(q).time

(* Events that may change a placement; a heartbeat is not one. *)
Decisive(q) == SelectSeq(q, LAMBDA e : e.kind # "HEARTBEAT")

(* Mutant: with nothing to do, the scheduler runs again at the same time. *)
GetTimeOfNextSchedulerRunAtOnce(x, q, at, runtime) ==
  IF x.batchStep > 0 THEN at + x.batchStep ELSE at + runtime * x.factor

(* GetTimeOfNextSchedulerRun after a run at time "at" *)
GetTimeOfNextSchedulerRun(x, q, at, runtime) ==
  CASE x.batchStep > 0                   -> at + x.batchStep
    [] x.batchStep = 0 /\ runtime > 0    -> at + runtime * x.factor
    [] x.batchStep = 0 /\ runtime = 0    -> GetTimeOfNextEvent(Decisive(q))

HasSimulationCompleted(x, q, handled, rounds) ==
  \/ x.end < GetTimeOfNextEvent(q)
  \/ handled > x.maxEvents
  \/ rounds >= x.maxRounds
  \/ q = <<>>

(* UpdateCurrentTimestamp does nothing in batch mode. *)
UpdateCurrentTimestamp(x, now, time) == IF x.batchStep = 0 THEN time ELSE now
UpdateCurrentTimestampIfSmaller(now, time) == Max({now, time})

(* The heartbeats that the main loop adds for times from "from" up to "at" *)
Heartbeats(x, from, at) ==
  IF at < from THEN <<>>
  ELSE [i \in 1 .. (at - from) \div x.beat + 1 |-> Event(from + (i - 1) * x.beat, "HEARTBEAT", "machines")]

=============================================================================
