---------------------------- MODULE LocalExecutor ---------------------------
(***************************************************************************)
(* LocalExecutor (src/engine/executors/local_executor.cc) and the          *)
(* TaskHealthChecker.  RunTask starts a handler thread for the task, which *)
(* forks the task's process, and waits on a condition variable until that  *)
(* thread notifies it.  The wait has no predicate, and the notification is *)
(* given without the mutex: one that comes before the wait is lost.        *)
(*                                                                         *)
(* Each PU has an executor of its own, with its own condition variable.    *)
(* RunTask is only called under scheduling_lock_, so there is at most one  *)
(* waiter.                                                                 *)
(***************************************************************************)
EXTENDS EventDrivenScheduler

VARIABLES
  handler,   \* the thread in task_handler_threads_, and how far it has come
  waiter,    \* the task that RunTask starts, and where it is in the wait
  process    \* the process of a task

executorVars == <<handler, waiter, process>>

NoWaiter == [task |-> None, phase |-> "none"]

ExecutorInit ==
  /\ handler = [t \in Tasks |-> "none"]
  /\ waiter = NoWaiter
  /\ process = [t \in Tasks |-> "none"]

(* RunTask up to the wait. *)
RunTask(t) ==
  /\ handler' = [handler EXCEPT ![t] = "created"]
  /\ waiter' = [task |-> t, phase |-> "entering"]
  /\ UNCHANGED process

(* The wait releases the mutex. *)
WaitForNotification ==
  /\ waiter.phase = "entering"
  /\ waiter' = [waiter EXCEPT !.phase = "waiting"]
  /\ UNCHANGED <<handler, process>>

(* A condition variable may wake up without having been notified. *)
SpuriousWakeup ==
  /\ waiter.phase = "waiting"
  /\ waiter' = [waiter EXCEPT !.phase = "woken"]
  /\ UNCHANGED <<handler, process>>

(* RunProcessSync: fork, and the child's PID is recorded ... *)
Fork(t) ==
  /\ handler[t] = "created"
  /\ handler' = [handler EXCEPT ![t] = "forked"]
  /\ process' = [process EXCEPT ![t] = "alive"]
  /\ UNCHANGED waiter

(* ... or it fails, and the thread returns without a notification. *)
ForkFails(t) ==
  /\ handler[t] = "created"
  /\ handler' = [handler EXCEPT ![t] = "failed"]
  /\ UNCHANGED <<waiter, process>>

(* notify_one, then waitpid *)
Notify(t) ==
  /\ handler[t] = "forked"
  /\ handler' = [handler EXCEPT ![t] = "waiting"]
  /\ waiter' = IF waiter.phase = "waiting" /\ taskBinding[t] = taskBinding[waiter.task]
               THEN [waiter EXCEPT !.phase = "woken"] ELSE waiter
  /\ UNCHANGED process

HandlerExits(t) ==
  /\ handler[t] = "waiting"
  /\ process[t] = "gone"
  /\ handler' = [handler EXCEPT ![t] = "exited"]
  /\ UNCHANGED <<waiter, process>>

(* TaskHealthChecker::CheckTaskLiveness: the thread can be joined. *)
HandlerHasExited(t) == handler[t] \in {"failed", "exited"}

(* CleanUpCompletedTask: the thread and the PID are dropped and the process *)
(* is killed; a PID must be there.                                         *)
CleanUpFails(t) == handler[t] \in {"none", "created", "failed"}

CleanUpCompletedTask(t) ==
  /\ handler' = [handler EXCEPT ![t] = "none"]
  /\ process' = [process EXCEPT ![t] = "gone"]
  /\ UNCHANGED waiter

(* RunTask will not return: the notification came before the wait, or the   *)
(* fork failed.                                                            *)
NeverNotified ==
  /\ waiter.task # None
  /\ waiter.phase \in {"entering", "waiting"}
  /\ handler[waiter.task] \in {"waiting", "exited", "failed"}

=============================================================================
