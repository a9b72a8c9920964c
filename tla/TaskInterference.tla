-------------------------- MODULE TaskInterference --------------------------
(***************************************************************************)
(* How long simulated tasks run (src/sim/interference/): on their own, or  *)
(* slowed down by the other tasks of their machine, as in Quincy.          *)
(*                                                                         *)
(* td maps every task to the times in its descriptor: submit, start,       *)
(* finish, total (total_run_time) and waited (total_unscheduled_time), and *)
(* to left, its entry in task_runtime_: the time it still has to run alone, *)
(* None if it does not end in the trace.  A step of the scheduler changes  *)
(* the bindings "before" to "after"; what the handlers do for its tasks,   *)
(* one after the other, is stated for all of them at once: a second update *)
(* of a task in the same instant finds that no time has passed.            *)
(***************************************************************************)
EXTENDS Cluster

CONSTANTS
  SlowDown,   \* one task slows its machine's tasks down by a fraction 1/SlowDown
  TimeWord    \* unsigned times are computed modulo this number

(* ComputeTaskTotalRunTime, and what is left of a task after some time *)
Elapsed(td, now) == (now - td.start) % TimeWord
TotalRunTime(td, now) == (td.total + Elapsed(td, now)) % TimeWord

(* TimeWithInterferenceToTraceTime and TraceTimeToTimeWithInterference, with *)
(* n tasks on the machine; half a unit is rounded up.  A time that wrapped *)
(* around is too large for the conversion, which then yields 0.            *)
ToTraceTime(time, n) == (2 * time * SlowDown + SlowDown + n) \div (2 * (SlowDown + n))
ToSimTime(time, n) ==
  IF time > TimeWord \div 2 THEN 0 ELSE (2 * time * (SlowDown + n) + SlowDown) \div (2 * SlowDown)

OnMachine(bindings, m) == {t \in Tasks : bindings[t] # None /\ MachineOf(bindings[t]) = m}
TasksOn(bindings, m) == Cardinality(OnMachine(bindings, m))

(* The tasks that a step placed, and those it moved *)
PlacedIn(before, after) == {t \in Tasks : before[t] = None /\ after[t] # None}
MovedIn(before, after)  == {t \in Tasks : None \notin {before[t], after[t]} /\ before[t] # after[t]}
MovedInside(before, after) == {t \in MovedIn(before, after) : MachineOf(before[t]) = MachineOf(after[t])}

(* The machines with other tasks than before *)
Touched(before, after) ==
  {m \in Machines : OnMachine(before, m) # OnMachine(after, m)}

-----------------------------------------------------------------------------
(* The handlers for one task *)

(* OnTaskCompletion; the task leaves task_runtime_. *)
Completed(td, now) == [td EXCEPT !.total = TotalRunTime(td, now), !.left = None]

Worked(td, executed) == IF td.left = None THEN None ELSE (td.left - executed) % TimeWord

(* Mutant: the work done before an eviction is lost. *)
EvictedFromScratch(td, now, executed) ==
  [td EXCEPT !.total = TotalRunTime(td, now), !.start = 0, !.submit = now]

(* OnTaskEviction *)
Evicted(td, now, executed) ==
  [td EXCEPT !.total = TotalRunTime(td, now), !.left = Worked(td, executed),
             !.start = 0, !.submit = now]

(* OnTaskMigration, without the end time *)
Moved(td, now, executed) ==
  [td EXCEPT !.total = TotalRunTime(td, now), !.left = Worked(td, executed),
             !.start = now, !.submit = now]

(* OnTaskPlacement, where runs is the time from now to the end *)
Placed(td, now, runs, end) ==
  [td EXCEPT !.start = now, !.waited = @ + now - td.submit,
             !.finish = IF td.left = None THEN end + 1 ELSE (now + runs) % TimeWord]

(* UpdateEndTimeForRunningTask, with n tasks on the machine before, k after *)
Retimed(td, now, n, k) ==
  LET left == Worked(td, ToTraceTime(Elapsed(td, now), n))
  IN  [td EXCEPT !.total = TotalRunTime(td, now), !.left = left, !.start = now,
                 !.finish = (now + ToSimTime(left, k)) % TimeWord]

-----------------------------------------------------------------------------
(***************************************************************************)
(* NoTaskInterference: "evicted" and "completed" are the tasks that lost   *)
(* their binding, and at[t] is the time a placed task starts.              *)
(***************************************************************************)
WithoutInterference(td, now, before, after, evicted, completed, end, at) ==
  [t \in Tasks |->
     CASE t \in completed               -> Completed(td[t], now)
       [] t \in evicted                 -> Evicted(td[t], now, Elapsed(td[t], now))
       [] t \in MovedIn(before, after)  -> Moved(td[t], now, Elapsed(td[t], now))
       [] t \in PlacedIn(before, after) -> Placed(td[t], at[t], td[t].left, end)
       [] OTHER                         -> td[t]]

(***************************************************************************)
(* QuincyTaskInterference: the tasks of every touched machine are retimed. *)
(* If the machine itself goes ("gone"), its PUs are no longer known, and a *)
(* task counts as alone.  A task that moves to another PU of its machine   *)
(* counts once too often, unless an earlier update ("early") accounted for *)
(* its time already.                                                       *)
(***************************************************************************)
WithInterference(td, now, before, after, evicted, completed, end, gone, early) ==
  LET n(t) == TasksOn(before, MachineOf(before[t]))
      k(t) == TasksOn(after, MachineOf(after[t]))
      inside == MovedInside(before, after)
      share(t) == IF t \in inside \ early THEN n(t) + 1 ELSE IF gone THEN 1 ELSE n(t)
      executed(t) == ToTraceTime(Elapsed(td[t], now), share(t))
      Ends(new, t) == IF new.left = None THEN new
                      ELSE [new EXCEPT !.finish = (now + ToSimTime(new.left, k(t))) % TimeWord]
  IN  [t \in Tasks |->
         CASE t \in completed -> Completed(td[t], now)
           [] t \in evicted   -> Evicted(td[t], now, executed(t))
           [] t \in MovedIn(before, after) -> Ends(Moved(td[t], now, executed(t)), t)
           [] t \in PlacedIn(before, after) ->
                Placed(td[t], now, IF td[t].left = None THEN 0 ELSE ToSimTime(td[t].left, k(t)), end)
           [] /\ before[t] # None /\ before[t] = after[t] /\ td[t].left # None
              /\ MachineOf(before[t]) \in Touched(before, after) -> Retimed(td[t], now, n(t), k(t))
           [] OTHER -> td[t]]

=============================================================================
