---------------------------- MODULE BaseScheduler ----------------------------
(***************************************************************************)
(* BaseScheduler with the Next of FIFOScheduler, which is also that of     *)
(* RoundRobinScheduler apart from the time stamp it takes                  *)
(* (internal/scheduler/scheduler.go, fifo.go, roundrobin.go).  Each fiber  *)
(* is scheduled once, by a goroutine of its own.  Schedule tests the       *)
(* stopped flag in one critical section and appends in another one.        *)
(***************************************************************************)
EXTENDS Integers, Sequences, FiniteSets, FiniteSetsExt

CONSTANTS Fibers,
          CompletedMax, CompletedTarget,  \* 4096 and 2048 in the code
          MaxMarks                        \* bound: MarkCompleted calls per fiber

VARIABLES runQueue, blockedQueue, running, stopped,
          completed, totalScheduled, totalCompleted,
          at,        \* where each fiber stands
          arrived,   \* history: the fibers in the order they entered the run queue
          marks,     \* number of MarkCompleted calls for each fiber
          pruned     \* history: the identifiers dropped from the completed set

statVars == <<completed, totalScheduled, totalCompleted, marks, pruned>>
vars == <<runQueue, blockedQueue, running, stopped, statVars, at, arrived>>

Init ==
  /\ runQueue = <<>> /\ blockedQueue = <<>> /\ running = FALSE /\ stopped = FALSE
  /\ completed = {} /\ totalScheduled = 0 /\ totalCompleted = 0
  /\ at = [f \in Fibers |-> "new"]
  /\ arrived = <<>>
  /\ marks = [f \in Fibers |-> 0]
  /\ pruned = {}

Elements(q) == {q[i] : i \in DOMAIN q}
Without(q, f) == SelectSeq(q, LAMBDA g : g # f)
Goto(f, from, to) == at[f] = from /\ at' = [at EXCEPT ![f] = to]

\* The stopped test of Schedule.
ScheduleTest(f) ==
  /\ ~ stopped
  /\ Goto(f, "new", "tested")
  /\ UNCHANGED <<runQueue, blockedQueue, running, stopped, statVars, arrived>>

\* The rest of Schedule; the scheduler may have been stopped or cleared meanwhile.
ScheduleAppend(f) ==
  /\ Goto(f, "tested", "queued")
  /\ runQueue' = Append(runQueue, f)
  /\ arrived' = Append(arrived, f)
  /\ totalScheduled' = totalScheduled + 1
  /\ UNCHANGED <<blockedQueue, running, stopped, completed, totalCompleted, marks, pruned>>

\* Next; without fibers it returns ErrNoFibers and changes nothing.
NextFiber ==
  /\ ~ stopped /\ runQueue # <<>>
  /\ Goto(Head(runQueue), "queued", "taken")
  /\ runQueue' = Tail(runQueue)
  /\ arrived' = Without(arrived, Head(runQueue))
  /\ UNCHANGED <<blockedQueue, running, stopped, statVars>>

BlockFiber(f) ==
  /\ at[f] \in {"queued", "taken"}
  /\ at' = [at EXCEPT ![f] = "blocked"]
  /\ runQueue' = Without(runQueue, f)
  /\ arrived' = Without(arrived, f)
  /\ blockedQueue' = Append(blockedQueue, f)
  /\ UNCHANGED <<running, stopped, statVars>>

UnblockFiber(f) ==
  /\ f \in Elements(blockedQueue)
  /\ at' = [at EXCEPT ![f] = "queued"]
  /\ blockedQueue' = Without(blockedQueue, f)
  /\ runQueue' = Append(runQueue, f)
  /\ arrived' = Append(arrived, f)
  /\ UNCHANGED <<running, stopped, statVars>>

\* removeLocked: out of the run queue, or else out of the blocked queue.
removeLocked(f) ==
  /\ runQueue' = Without(runQueue, f)
  /\ arrived' = Without(arrived, f)
  /\ blockedQueue' = IF f \in Elements(runQueue) THEN blockedQueue
                                                 ELSE Without(blockedQueue, f)

Remove(f) ==
  /\ f \in Elements(runQueue) \cup Elements(blockedQueue)
  /\ at' = [at EXCEPT ![f] = "out"]
  /\ removeLocked(f)
  /\ UNCHANGED <<running, stopped, statVars>>

\* What may be left of the completed set: beyond the maximum, the range loop over
\* the map deletes the difference in an arbitrary order.
Pruned(ids) ==
  IF Cardinality(ids) <= CompletedMax THEN {ids}
  ELSE {ids \ gone : gone \in kSubset(CompletedMax - CompletedTarget, ids)}

\* The bookkeeping of MarkCompleted.
Count(f) ==
  IF f \in completed
    THEN UNCHANGED <<completed, totalCompleted>>
    ELSE /\ totalCompleted' = totalCompleted + 1
         /\ completed' \in Pruned(completed \cup {f})

\* The first call of MarkCompleted for a fiber ends it; more calls may follow.
MarkCompleted(f) ==
  /\ at[f] \in {"taken", "done"} /\ marks[f] < MaxMarks
  /\ at' = [at EXCEPT ![f] = "done"]
  /\ Count(f)
  /\ IF f \in completed
       THEN UNCHANGED <<runQueue, blockedQueue, arrived>>
       ELSE removeLocked(f)
  /\ marks' = [marks EXCEPT ![f] = @ + 1]
  /\ pruned' = pruned \cup ((completed \cup {f}) \ completed')
  /\ UNCHANGED <<running, stopped, totalScheduled>>

Start ==
  /\ ~ running
  /\ running' = TRUE /\ stopped' = FALSE
  /\ UNCHANGED <<runQueue, blockedQueue, statVars, at, arrived>>

Stop ==
  /\ running
  /\ running' = FALSE /\ stopped' = TRUE
  /\ UNCHANGED <<runQueue, blockedQueue, statVars, at, arrived>>

\* Clear drops the queues and the statistics and accepts work again.
Clear ==
  /\ runQueue' = <<>> /\ blockedQueue' = <<>> /\ arrived' = <<>>
  /\ completed' = {} /\ totalScheduled' = 0 /\ totalCompleted' = 0
  /\ at' = [f \in Fibers |-> IF at[f] \in {"queued", "blocked", "done"} THEN "out" ELSE at[f]]
  /\ marks' = [f \in Fibers |-> 0] /\ pruned' = {}
  /\ stopped' = FALSE
  /\ UNCHANGED running

Next ==
  \/ NextFiber \/ Start \/ Stop \/ Clear
  \/ \E f \in Fibers :
       \/ ScheduleTest(f) \/ ScheduleAppend(f) \/ BlockFiber(f) \/ UnblockFiber(f)
       \/ Remove(f) \/ MarkCompleted(f)

Spec == Init /\ [][Next]_vars
-----------------------------------------------------------------------------
\* Type invariant; in particular the completed set stays within its bound.
TypeOK ==
  /\ runQueue \in Seq(Fibers) /\ blockedQueue \in Seq(Fibers) /\ arrived \in Seq(Fibers)
  /\ running \in BOOLEAN /\ stopped \in BOOLEAN
  /\ completed \subseteq Fibers /\ Cardinality(completed) <= CompletedMax
  /\ totalScheduled \in Nat /\ totalCompleted \in Nat
  /\ at \in [Fibers -> {"new", "tested", "queued", "taken", "blocked", "done", "out"}]
  /\ marks \in [Fibers -> 0..MaxMarks]
  /\ pruned \subseteq Fibers

\* The queues agree with the calls made, each fiber being in at most one of them.
QueuesExact ==
  /\ Elements(runQueue) = {f \in Fibers : at[f] = "queued"}
  /\ Elements(blockedQueue) = {f \in Fibers : at[f] = "blocked"}
  /\ Len(runQueue) + Len(blockedQueue)
       = Cardinality({f \in Fibers : at[f] \in {"queued", "blocked"}})

\* Next takes the fiber that has been in the run queue longest.
ArrivalOrder ==
  [][\A f \in Fibers : at[f] = "queued" /\ at'[f] = "taken" => f = arrived[1]]_vars

\* Every completed fiber is counted, and counted once as long as its identifier
\* has not been pruned.
CompletionsCounted ==
  LET ended == {f \in Fibers : at[f] = "done"}
  IN /\ Cardinality(ended) <= totalCompleted
     /\ pruned = {} => totalCompleted = Cardinality(ended)
=============================================================================
