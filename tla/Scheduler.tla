----------------------------- MODULE Scheduler -----------------------------
(***************************************************************************)
(* The contract of the Scheduler interface (internal/scheduler) as the     *)
(* runtime uses it.  Which of the queued fibers Next returns is the policy *)
(* of the implementation (FIFO, round robin, priority, work stealing); the *)
(* contract leaves it open, so what is shown of the runtime over this      *)
(* module holds under each of them.  The runtime schedules a fiber at most *)
(* once, so a set is enough.                                               *)
(***************************************************************************)
EXTENDS Fiber

VARIABLES runQueue,     \* the fibers waiting to be picked
          schedRunning, \* Start was called last
          schedStopped  \* Schedule and Next reject

schedVars == <<runQueue, schedRunning, schedStopped>>

SchedInit == runQueue = {} /\ schedRunning = FALSE /\ schedStopped = FALSE

\* Schedule, after the stopped test passed: the test and the append are two
\* critical sections, so Stop and Clear may run between them.
Schedule(f) ==
  /\ runQueue' = runQueue \cup {f}
  /\ UNCHANGED <<schedRunning, schedStopped>>

\* What filterFinishedInPlace leaves of the queue.
Unfinished(fb) == {f \in runQueue : ~IsFinished(fb[f])}

\* Mutant of TakeNext: the fibers behind the one taken are dropped.
TakeNextDrops(fb, f) ==
  /\ f \in Unfinished(fb)
  /\ runQueue' = {}
  /\ UNCHANGED <<schedRunning, schedStopped>>

\* Next, after the stopped test passed: drop the finished entries, take one.
TakeNext(fb, f) ==
  /\ f \in Unfinished(fb)
  /\ runQueue' = Unfinished(fb) \ {f}
  /\ UNCHANGED <<schedRunning, schedStopped>>

\* Next returning ErrNoFibers: the finished entries are dropped all the same.
NextEmpty(fb) ==
  /\ Unfinished(fb) = {}
  /\ runQueue' = {}
  /\ UNCHANGED <<schedRunning, schedStopped>>

\* Remove, and the removal that MarkCompleted performs.
Remove(f) ==
  /\ runQueue' = runQueue \ {f}
  /\ UNCHANGED <<schedRunning, schedStopped>>

SchedulerStart ==
  /\ ~schedRunning
  /\ schedRunning' = TRUE /\ schedStopped' = FALSE
  /\ UNCHANGED runQueue

\* Stop is rejected when the scheduler is not running.
SchedulerStop ==
  /\ schedRunning' = FALSE
  /\ schedStopped' = (schedStopped \/ schedRunning)
  /\ UNCHANGED runQueue

\* Mutant of Clear: the queue survives.
ClearKeepsQueue ==
  /\ schedStopped' = FALSE
  /\ UNCHANGED <<runQueue, schedRunning>>

\* Clear also re-opens a stopped scheduler.
Clear ==
  /\ runQueue' = {} /\ schedStopped' = FALSE
  /\ UNCHANGED schedRunning
=============================================================================
