------------------------------ MODULE Runtime ------------------------------
(***************************************************************************)
(* The runtime core (internal/runtime/runtime.go): admission of fibers by  *)
(* concurrent Spawn calls, the execution loop that dispatches them, the    *)
(* goroutine of each dispatched fiber, and Start / Stop / Reset.           *)
(*                                                                         *)
(* Every element of Fibers is one Spawn call and the fiber it creates, so  *)
(* all Spawn calls run concurrently with each other.  A step is what the   *)
(* code does between two points where another goroutine can interfere: one *)
(* atomic counter operation or one critical section of rt.mu, fibersMu or  *)
(* the scheduler's mutex.  lifecycleMu makes Start, Stop and Reset one     *)
(* process (lc), and Stop joins the execution loop before it finishes, so  *)
(* there is at most one loop.  The main observer fiber is never scheduled  *)
(* nor counted and is left out; events and log lines are left out.         *)
(***************************************************************************)
EXTENDS Scheduler, Integers, FiniteSets

CONSTANTS Fibers,            \* Spawn calls and the fibers they create
          NoFiber,           \* no fiber is picked
          NumWorkers,        \* dispatch slots of a run
          FiberCaps,         \* the caps WithMaxFibers is given, 0 = unlimited
          ResultCapacity,    \* capacity of a run's result channel
          ParentCancellable, \* StartWithContext got a cancellable context
          MaxEpochs,         \* bound: number of Start calls
          MaxResets          \* bound: number of Reset calls

ASSUME FibersAssumption == IsFiniteSet(Fibers) /\ NoFiber \notin Fibers
ASSUME WorkersAssumption == NumWorkers \in Nat \ {0} /\ ResultCapacity \in Nat \ {0}
ASSUME CapsAssumption == FiberCaps \subseteq Nat
ASSUME BoundsAssumption == MaxEpochs \in Nat /\ MaxResets \in Nat
                           /\ ParentCancellable \in BOOLEAN

VARIABLES
  fb,               \* the fiber objects
  sp,               \* where each Spawn call stands
  gor,              \* where each fiber's dispatch goroutine stands
  run,              \* the run (epoch) that dispatched a fiber, 0 = none
  fibers,           \* rt.fibers
  admitted,         \* rt.admitted
  draining,         \* rt.draining
  activeFiberCount, \* rt.activeFiberCount
  maxFibers,        \* rt.maxFibers, which New sets for good
  epoch,            \* rt.epoch
  stopped,          \* rt.stopped is closed
  ctxDone,          \* rt.runCtx is done
  loop,             \* the execution loop of the current run
  picked,           \* the fiber Next handed to the loop
  active,           \* the loop's count of occupied slots
  results,          \* completions waiting in the run's result channel
  lc,               \* the Start/Stop/Reset process
  reapList,         \* reaped fibers whose bookkeeping is not yet reversed
  metrics,          \* TotalFibersCreated, TotalFibersCompleted, ActiveFibers
  \* history
  reaped,           \* every fiber a Stop reaped
  orphaned,         \* fibers Reset dropped from rt.fibers with their count
  resets            \* number of Reset calls

spawnVars == <<fibers, admitted, draining, activeFiberCount>>
runVars   == <<epoch, stopped, ctxDone, maxFibers>>
loopVars  == <<loop, picked, active, results>>
lcVars    == <<lc, reapList, reaped, orphaned, resets>>
vars == <<fb, sp, gor, run, spawnVars, runVars, loopVars, lcVars, metrics, schedVars>>

SpawnFailed == {"notStarted", "capped", "schedErr", "stoppedErr"}
SpawnPC == {"idle", "reserve", "overCap", "register", "schedule", "append",
            "unregister", "undo", "recheck", "commit", "abort", "removeOwned",
            "removeStale", "release", "record", "ok"} \cup SpawnFailed
GoPC    == {"none", "ready", "running", "complete", "unlink", "release",
            "report", "gone"}
LoopPC  == {"off", "select", "tick", "pop", "dispatch"}
LcPC    == {"idle", "stopSched", "stopJoin", "reapScan", "reapRelease",
            "stopWait", "resetClear"}

IsRunning == epoch > 0 /\ ~stopped

InFlight == {f \in Fibers : gor[f] \notin {"none", "gone"}}

Init ==
  /\ fb = [f \in Fibers |-> NewFiber]
  /\ sp = [f \in Fibers |-> "idle"]
  /\ gor = [f \in Fibers |-> "none"]
  /\ run = [f \in Fibers |-> 0]
  /\ fibers = {} /\ admitted = {} /\ draining = FALSE /\ activeFiberCount = 0
  /\ epoch = 0 /\ stopped = TRUE /\ ctxDone = FALSE /\ maxFibers \in FiberCaps
  /\ loop = "off" /\ picked = NoFiber /\ active = 0 /\ results = 0
  /\ lc = "idle" /\ reapList = {} /\ reaped = {} /\ orphaned = {} /\ resets = 0
  /\ metrics = [created |-> 0, completed |-> 0, active |-> 0]
  /\ SchedInit

-----------------------------------------------------------------------------
(* Spawn *)

SpawnStep(f, from, to) == sp[f] = from /\ sp' = [sp EXCEPT ![f] = to]

\* First check of the runtime state, under rt.mu.
SpawnCheck(f) ==
  /\ SpawnStep(f, "idle", IF IsRunning THEN "reserve" ELSE "notStarted")
  /\ UNCHANGED <<fb, gor, run, spawnVars, runVars, loopVars, lcVars, metrics, schedVars>>

\* Mutant of OverCap: the comparison is off by one.
OverCapByOne(n) == maxFibers > 0 /\ n > maxFibers + 1

OverCap(n) == maxFibers > 0 /\ n > maxFibers

\* Count first, compare after: the increment is visible before it is undone.
SpawnReserve(f) ==
  /\ activeFiberCount' = activeFiberCount + 1
  /\ SpawnStep(f, "reserve", IF OverCap(activeFiberCount') THEN "overCap" ELSE "register")
  /\ UNCHANGED <<fb, gor, run, fibers, admitted, draining, runVars, loopVars, lcVars,
                 metrics, schedVars>>

\* The three places where a failing Spawn gives its count back.
SpawnGiveBack(f) ==
  /\ \/ SpawnStep(f, "overCap", "capped")
     \/ SpawnStep(f, "undo", "schedErr")
     \/ SpawnStep(f, "release", "stoppedErr")
  /\ activeFiberCount' = activeFiberCount - 1
  /\ UNCHANGED <<fb, gor, run, fibers, admitted, draining, runVars, loopVars, lcVars,
                 metrics, schedVars>>

SpawnRegister(f) ==
  /\ SpawnStep(f, "register", "schedule")
  /\ fibers' = fibers \cup {f}
  /\ UNCHANGED <<fb, gor, run, admitted, draining, activeFiberCount, runVars, loopVars,
                 lcVars, metrics, schedVars>>

\* Schedule's stopped test.  A fiber that Reset dropped and that now fails is
\* counted back by "undo", so it is no orphan.
SpawnScheduleTest(f) ==
  /\ SpawnStep(f, "schedule", IF schedStopped THEN "unregister" ELSE "append")
  /\ orphaned' = IF schedStopped THEN orphaned \ {f} ELSE orphaned
  /\ UNCHANGED <<fb, gor, run, spawnVars, runVars, loopVars, lc, reapList, reaped,
                 resets, metrics, schedVars>>

SpawnAppend(f) ==
  /\ SpawnStep(f, "append", "recheck")
  /\ Schedule(f)
  /\ UNCHANGED <<fb, gor, run, spawnVars, runVars, loopVars, lcVars, metrics>>

SpawnUnregister(f) ==
  /\ SpawnStep(f, "unregister", "undo")
  /\ fibers' = fibers \ {f}
  /\ UNCHANGED <<fb, gor, run, admitted, draining, activeFiberCount, runVars, loopVars,
                 lcVars, metrics, schedVars>>

\* Second check: is the current run's context done?
SpawnRecheck(f) ==
  /\ SpawnStep(f, "recheck", IF ctxDone THEN "abort" ELSE "commit")
  /\ UNCHANGED <<fb, gor, run, spawnVars, runVars, loopVars, lcVars, metrics, schedVars>>

\* Mutant of SpawnCommit: the drain gate is not tested.
SpawnCommitUngated(f) ==
  /\ SpawnStep(f, "commit", "record")
  /\ admitted' = admitted \cup {f}
  /\ UNCHANGED <<fb, gor, run, fibers, draining, activeFiberCount, runVars, loopVars,
                 lcVars, metrics, schedVars>>

\* The critical section of fibersMu that admits the fiber ...
SpawnCommit(f) ==
  /\ ~draining
  /\ SpawnStep(f, "commit", "record")
  /\ admitted' = admitted \cup {f}
  /\ UNCHANGED <<fb, gor, run, fibers, draining, activeFiberCount, runVars, loopVars,
                 lcVars, metrics, schedVars>>

\* Mutant of SpawnRollback: it decrements without looking whether f was there.
SpawnRollbackAlways(f) ==
  /\ \/ sp[f] = "abort"
     \/ sp[f] = "commit" /\ draining
  /\ sp' = [sp EXCEPT ![f] = "removeOwned"]
  /\ fibers' = fibers \ {f} /\ admitted' = admitted \ {f}
  /\ UNCHANGED <<fb, gor, run, draining, activeFiberCount, runVars, loopVars, lcVars,
                 metrics, schedVars>>

\* ... or rolls back: whoever removes f from rt.fibers owns the decrement.
SpawnRollback(f) ==
  /\ \/ sp[f] = "abort"
     \/ sp[f] = "commit" /\ draining
  /\ sp' = [sp EXCEPT ![f] = IF f \in fibers THEN "removeOwned" ELSE "removeStale"]
  /\ fibers' = fibers \ {f} /\ admitted' = admitted \ {f}
  /\ UNCHANGED <<fb, gor, run, draining, activeFiberCount, runVars, loopVars, lcVars,
                 metrics, schedVars>>

SpawnRemove(f) ==
  /\ \/ SpawnStep(f, "removeOwned", "release")
     \/ SpawnStep(f, "removeStale", "stoppedErr")
  /\ Remove(f)
  /\ UNCHANGED <<fb, gor, run, spawnVars, runVars, loopVars, lcVars, metrics>>

\* RecordFiberCreated, and Spawn returns the ID.
SpawnRecord(f) ==
  /\ SpawnStep(f, "record", "ok")
  /\ metrics' = [metrics EXCEPT !.created = @ + 1, !.active = @ + 1]
  /\ UNCHANGED <<fb, gor, run, spawnVars, runVars, loopVars, lcVars, schedVars>>

-----------------------------------------------------------------------------
(* The execution loop *)

LoopResult ==
  /\ loop = "select" /\ results > 0
  /\ results' = results - 1
  /\ active' = IF active > 0 THEN active - 1 ELSE 0
  /\ UNCHANGED <<fb, sp, gor, run, spawnVars, runVars, loop, picked, lcVars, metrics,
                 schedVars>>

\* The ticker fires; select may prefer it to a done context.
LoopTick ==
  /\ loop = "select"
  /\ loop' = "tick"
  /\ UNCHANGED <<fb, sp, gor, run, spawnVars, runVars, picked, active, results, lcVars,
                 metrics, schedVars>>

\* Mutant of LoopNext: one slot too many.
LoopNextOneMore ==
  /\ loop = "tick"
  /\ loop' = IF active <= NumWorkers /\ ~schedStopped THEN "pop" ELSE "select"
  /\ UNCHANGED <<fb, sp, gor, run, spawnVars, runVars, picked, active, results, lcVars,
                 metrics, schedVars>>

\* One round of the inner loop: a free slot, then Next's stopped test ...
LoopNext ==
  /\ loop = "tick"
  /\ loop' = IF active < NumWorkers /\ ~schedStopped THEN "pop" ELSE "select"
  /\ UNCHANGED <<fb, sp, gor, run, spawnVars, runVars, picked, active, results, lcVars,
                 metrics, schedVars>>

\* ... and Next's critical section.
LoopPop ==
  /\ loop = "pop"
  /\ \/ NextEmpty(fb) /\ loop' = "select" /\ UNCHANGED picked
     \/ \E f \in runQueue : TakeNext(fb, f) /\ loop' = "dispatch" /\ picked' = f
  /\ UNCHANGED <<fb, sp, gor, run, spawnVars, runVars, active, results, lcVars, metrics>>

\* dispatch: mark the fiber running and start its goroutine.
LoopDispatch ==
  /\ loop = "dispatch"
  /\ loop' = "tick" /\ picked' = NoFiber
  /\ IF IsRunnable(fb[picked])
       THEN /\ fb' = [fb EXCEPT ![picked] = MarkScheduled(@)]
            /\ gor' = [gor EXCEPT ![picked] = "ready"]
            /\ run' = [run EXCEPT ![picked] = epoch]
            /\ active' = active + 1
       ELSE UNCHANGED <<fb, gor, run, active>>
  /\ UNCHANGED <<sp, spawnVars, runVars, results, lcVars, metrics, schedVars>>

\* The context is done: drain the results and return.
LoopExit ==
  /\ loop = "select" /\ ctxDone
  /\ loop' = "off" /\ active' = 0 /\ results' = 0
  /\ UNCHANGED <<fb, sp, gor, run, spawnVars, runVars, picked, lcVars, metrics, schedVars>>

-----------------------------------------------------------------------------
(* The goroutine of a dispatched fiber *)

GoStep(f, from, to) == gor[f] = from /\ gor' = [gor EXCEPT ![f] = to]

\* f.Run up to the call of the fiber function.
GoRun(f) ==
  /\ GoStep(f, "ready", IF CanRun(fb[f]) THEN "running" ELSE "complete")
  /\ fb' = IF CanRun(fb[f]) THEN [fb EXCEPT ![f] = RunStart(@)] ELSE fb
  /\ UNCHANGED <<sp, run, spawnVars, runVars, loopVars, lcVars, metrics, schedVars>>

\* The fiber function blocks on a synchronization primitive and is woken.
FiberBlock(f) ==
  /\ gor[f] = "running" /\ ~IsBlocked(fb[f])
  /\ fb' = [fb EXCEPT ![f] = Block(@)]
  /\ UNCHANGED <<sp, gor, run, spawnVars, runVars, loopVars, lcVars, metrics, schedVars>>

FiberUnblock(f) ==
  /\ gor[f] = "running" /\ IsBlocked(fb[f])
  /\ fb' = [fb EXCEPT ![f] = Unblock(@)]
  /\ UNCHANGED <<sp, gor, run, spawnVars, runVars, loopVars, lcVars, metrics, schedVars>>

\* The fiber function returns or panics.
GoReturn(f) ==
  /\ ~IsBlocked(fb[f])
  /\ GoStep(f, "running", "complete")
  /\ fb' = [fb EXCEPT ![f] = RunFinish(@)]
  /\ UNCHANGED <<sp, run, spawnVars, runVars, loopVars, lcVars, metrics, schedVars>>

\* The gauge is never decremented below zero.
Pred(n) == IF n > 0 THEN n - 1 ELSE 0

\* complete: RecordFiberCompleted, then scheduler.MarkCompleted.
GoComplete(f) ==
  /\ GoStep(f, "complete", "unlink")
  /\ metrics' = [metrics EXCEPT !.completed = @ + 1, !.active = Pred(@)]
  /\ Remove(f)
  /\ UNCHANGED <<fb, sp, run, spawnVars, runVars, loopVars, lcVars>>

\* complete: the critical section of fibersMu.
GoUnlink(f) ==
  /\ GoStep(f, "unlink", IF f \in fibers THEN "release" ELSE "report")
  /\ fibers' = fibers \ {f} /\ admitted' = admitted \ {f}
  /\ UNCHANGED <<fb, sp, run, draining, activeFiberCount, runVars, loopVars, lcVars,
                 metrics, schedVars>>

GoRelease(f) ==
  /\ GoStep(f, "release", "report")
  /\ activeFiberCount' = activeFiberCount - 1
  /\ UNCHANGED <<fb, sp, run, fibers, admitted, draining, runVars, loopVars, lcVars,
                 metrics, schedVars>>

\* Mutant of GoReport: the send does not watch the run's context.
GoReportOnly(f) ==
  /\ GoStep(f, "report", "gone")
  /\ run[f] = epoch /\ results < ResultCapacity /\ results' = results + 1
  /\ UNCHANGED <<fb, sp, run, spawnVars, runVars, loop, picked, active, lcVars, metrics,
                 schedVars>>

\* Report to the loop of the run that dispatched f, or see that run cancelled.
\* The result channel of an earlier run has no reader any more.
GoReport(f) ==
  /\ GoStep(f, "report", "gone")
  /\ \/ run[f] = epoch /\ results < ResultCapacity /\ results' = results + 1
     \/ (run[f] < epoch \/ ctxDone) /\ UNCHANGED results
  /\ UNCHANGED <<fb, sp, run, spawnVars, runVars, loop, picked, active, lcVars, metrics,
                 schedVars>>

-----------------------------------------------------------------------------
(* Start, Stop and Reset, serialized by lifecycleMu *)

LcStep(from, to) == lc = from /\ lc' = to

\* rt.mu is held throughout; a Spawn in its fibersMu or scheduler sections can
\* only do meanwhile what it could also do just before or just after.
Start ==
  /\ epoch < MaxEpochs
  /\ lc = "idle" /\ ~IsRunning
  /\ SchedulerStart
  /\ draining' = FALSE
  /\ epoch' = epoch + 1 /\ stopped' = FALSE /\ ctxDone' = FALSE
  /\ loop' = "select" /\ active' = 0 /\ results' = 0
  /\ UNCHANGED <<fb, sp, gor, run, fibers, admitted, activeFiberCount, maxFibers, picked,
                 lcVars, metrics>>

\* The context given to StartWithContext is cancelled.
ParentCancel ==
  /\ ParentCancellable /\ IsRunning /\ ~ctxDone
  /\ ctxDone' = TRUE
  /\ UNCHANGED <<fb, sp, gor, run, spawnVars, epoch, stopped, maxFibers, loopVars, lcVars,
                 metrics, schedVars>>

\* Stop: cancel the run's context.
StopCancel ==
  /\ IsRunning /\ LcStep("idle", "stopSched")
  /\ ctxDone' = TRUE
  /\ UNCHANGED <<fb, sp, gor, run, spawnVars, epoch, stopped, maxFibers, loopVars, reapList,
                 reaped, orphaned, resets, metrics, schedVars>>

StopScheduler ==
  /\ LcStep("stopSched", "stopJoin")
  /\ SchedulerStop
  /\ UNCHANGED <<fb, sp, gor, run, spawnVars, runVars, loopVars, reapList, reaped,
                 orphaned, resets, metrics>>

\* lifecycleWG.Wait returns, then reapPending empties the scheduler.
ReapClear ==
  /\ loop = "off"
  /\ LcStep("stopJoin", "reapScan")
  /\ Clear
  /\ UNCHANGED <<fb, sp, gor, run, spawnVars, runVars, loopVars, reapList, reaped,
                 orphaned, resets, metrics>>

\* Mutant of Reapable: fibers still in the middle of Spawn are reaped too.
ReapableUncommitted == {f \in fibers : IsRunnable(fb[f])}

\* The fibers reapPending's scan discards.
Reapable == {f \in fibers \cap admitted : IsRunnable(fb[f])}

ReapScan ==
  /\ LcStep("reapScan", "reapRelease")
  /\ draining' = TRUE
  /\ fibers' = fibers \ Reapable /\ admitted' = admitted \ Reapable
  /\ reapList' = Reapable /\ reaped' = reaped \cup Reapable
  /\ UNCHANGED <<fb, sp, gor, run, activeFiberCount, runVars, loopVars, orphaned, resets,
                 metrics, schedVars>>

\* One round of reapPending's second loop: the counter and RecordFiberCancelled.
ReapRelease(f) ==
  /\ lc = "reapRelease" /\ f \in reapList
  /\ reapList' = reapList \ {f}
  /\ activeFiberCount' = activeFiberCount - 1
  /\ metrics' = [metrics EXCEPT !.active = Pred(@)]
  /\ UNCHANGED <<fb, sp, gor, run, fibers, admitted, draining, runVars, loopVars, lc,
                 reaped, orphaned, resets, schedVars>>

ReapDone ==
  /\ reapList = {} /\ LcStep("reapRelease", "stopWait")
  /\ UNCHANGED <<fb, sp, gor, run, spawnVars, runVars, loopVars, reapList, reaped,
                 orphaned, resets, metrics, schedVars>>

\* The run's in-flight fibers are joined, or the caller's context expires first
\* (if both happen select may report either: the state is the same).
Joined == \A f \in InFlight : run[f] # epoch

StopReturn ==
  /\ LcStep("stopWait", "idle")
  /\ stopped' = TRUE
  /\ UNCHANGED <<fb, sp, gor, run, spawnVars, epoch, ctxDone, maxFibers, loopVars, reapList,
                 reaped, orphaned, resets, metrics, schedVars>>

StopJoined  == Joined /\ StopReturn
StopTimeout == ~Joined /\ StopReturn

\* Reset: forget every fiber (activeFiberCount is left as it is) ...
ResetMaps ==
  /\ resets < MaxResets
  /\ ~IsRunning /\ LcStep("idle", "resetClear")
  /\ fibers' = {} /\ admitted' = {} /\ draining' = FALSE
  /\ orphaned' = orphaned \cup {f \in fibers : sp[f] # "unregister"}
  /\ resets' = resets + 1
  /\ UNCHANGED <<fb, sp, gor, run, activeFiberCount, runVars, loopVars, reapList, reaped,
                 metrics, schedVars>>

\* ... then clear the scheduler and the metrics.
ResetClear ==
  /\ LcStep("resetClear", "idle")
  /\ Clear
  /\ metrics' = [created |-> 0, completed |-> 0, active |-> 0]
  /\ UNCHANGED <<fb, sp, gor, run, spawnVars, runVars, loopVars, reapList, reaped,
                 orphaned, resets>>

-----------------------------------------------------------------------------
SpawnRest(f) ==
  \/ SpawnReserve(f) \/ SpawnGiveBack(f) \/ SpawnRegister(f) \/ SpawnScheduleTest(f)
  \/ SpawnAppend(f) \/ SpawnUnregister(f) \/ SpawnRecheck(f) \/ SpawnCommit(f)
  \/ SpawnRollback(f) \/ SpawnRemove(f) \/ SpawnRecord(f)

Spawn(f) == SpawnCheck(f) \/ SpawnRest(f)

Goroutine(f) ==
  \/ GoRun(f) \/ FiberBlock(f) \/ FiberUnblock(f) \/ GoReturn(f) \/ GoComplete(f)
  \/ GoUnlink(f) \/ GoRelease(f) \/ GoReport(f)

Loop == LoopResult \/ LoopTick \/ LoopNext \/ LoopPop \/ LoopDispatch \/ LoopExit

Lifecycle ==
  \/ Start \/ ParentCancel \/ StopCancel \/ StopScheduler \/ ReapClear \/ ReapScan
  \/ (\E f \in Fibers : ReapRelease(f)) \/ ReapDone \/ StopJoined \/ StopTimeout
  \/ ResetMaps \/ ResetClear

Next == (\E f \in Fibers : Spawn(f) \/ Goroutine(f)) \/ Loop \/ Lifecycle

Spec == Init /\ [][Next]_vars
-----------------------------------------------------------------------------
(* Properties *)

\* Type invariant: every program counter, counter and set stays in range; in
\* particular activeFiberCount and the ActiveFibers gauge never go negative.
TypeOK ==
  /\ fb \in [Fibers -> FiberRecord]
  /\ sp \in [Fibers -> SpawnPC]
  /\ gor \in [Fibers -> GoPC]
  /\ run \in [Fibers -> 0..epoch]
  /\ fibers \subseteq Fibers /\ admitted \subseteq Fibers /\ runQueue \subseteq Fibers
  /\ reapList \subseteq Fibers /\ reaped \subseteq Fibers /\ orphaned \subseteq Fibers
  /\ activeFiberCount \in Nat /\ epoch \in Nat /\ active \in Nat /\ results \in Nat
  /\ resets \in Nat /\ maxFibers \in FiberCaps
  /\ draining \in BOOLEAN /\ stopped \in BOOLEAN /\ ctxDone \in BOOLEAN
  /\ schedRunning \in BOOLEAN /\ schedStopped \in BOOLEAN
  /\ loop \in LoopPC /\ lc \in LcPC /\ picked \in Fibers \cup {NoFiber}
  /\ metrics \in [created : Nat, completed : Nat, active : Nat]

\* The Spawn calls that hold one count of activeFiberCount themselves: they
\* have not handed it to rt.fibers yet, or took it back and will return it.
SpawnHolds ==
  {f \in Fibers : sp[f] \in {"overCap", "register", "unregister", "undo",
                             "removeOwned", "release"}}

\* The counts some goroutine still answers for: held by a Spawn call, carried
\* by an entry of rt.fibers, or about to be returned by complete or the reap.
Owed == SpawnHolds \cup fibers \cup {f \in Fibers : gor[f] = "release"} \cup reapList

\* The Spawn calls that have not published their fiber to anyone ...
Unpublished ==
  {f \in Fibers : sp[f] \in {"idle", "reserve", "overCap", "register", "notStarted",
                             "capped"}}

\* ... and those that published it in rt.fibers but not to the scheduler.
Unscheduled ==
  {f \in Fibers : sp[f] \in {"schedule", "append", "unregister", "undo", "schedErr"}}

\* Who owns a fiber's count, and why nobody else believes to own it: the
\* argument behind the comments of Spawn ("exactly one of {complete,
\* reapPending, this rollback} does - never two"), reapPending and admitted.
Ownership ==
  /\ \A f \in Unpublished : f \notin fibers /\ f \notin orphaned
  /\ \A f \in Unpublished \cup Unscheduled :
       /\ f \notin runQueue /\ picked # f /\ gor[f] = "none"
       /\ f \notin admitted /\ f \notin reapList
  /\ \A f \in Fibers :
       /\ sp[f] \in {"schedule", "append"} => f \in fibers \cup orphaned
       /\ sp[f] \in {"unregister", "undo", "schedErr"} => f \notin orphaned
       /\ sp[f] \in {"undo", "schedErr"} => f \notin fibers
       /\ sp[f] \in {"removeOwned", "release"} =>
            f \notin fibers /\ f \notin orphaned /\ f \notin reapList /\ gor[f] # "release"
       /\ f \in admitted \cup reapList => sp[f] \in {"record", "ok"}
       /\ f \in fibers => f \notin reapList /\ f \notin orphaned /\ gor[f] # "release"
       /\ f \in reapList => f \notin orphaned /\ gor[f] # "release"
       /\ f \in orphaned => gor[f] # "release"
  /\ lc # "reapRelease" => reapList = {}

\* activeFiberCount is the number of counts owed plus those of the fibers that
\* Reset dropped from rt.fibers: complete, reapPending and Spawn's rollback
\* race for every fiber and exactly one of them decrements.
CountExact == activeFiberCount = Cardinality(Owed \cup orphaned)

\* WithMaxFibers "caps the total number of simultaneously admitted fibers",
\* whatever the Spawn calls interleave with: the fibers of rt.fibers, with those
\* about to enter it or to give their count back, never outnumber the cap.
CapHolds ==
  maxFibers > 0 =>
    Cardinality({f \in Owed \cup orphaned : sp[f] # "overCap"}) <= maxFibers

\* The state of a fiber object tells where its goroutine is: reapPending's test
\* for StateReady finds exactly the fibers without one, MarkScheduled and Run
\* never meet a finished fiber, and IsFinished means the function returned.
StateTracksGoroutine ==
  \A f \in Fibers :
    /\ gor[f] = "none" => fb[f] = NewFiber
    /\ gor[f] = "ready" => fb[f].state = "Running" /\ CanRun(fb[f])
    /\ gor[f] = "running" => /\ fb[f].state \in {"Running", "Blocked"}
                             /\ fb[f].runStarted /\ ~fb[f].completion
    /\ gor[f] \notin {"none", "ready", "running"} => IsFinished(fb[f]) /\ fb[f].completion

\* No fiber is dispatched twice, in one run or in two: a fiber is in at most one
\* of the scheduler, the loop's hands and its goroutine.
QueuedNeverStarted ==
  \A f \in Fibers :
    /\ f \in runQueue \/ picked = f => gor[f] = "none"
    /\ f \in runQueue => picked # f

\* The counting argument: kept by every step of Spawn, the loop, the goroutines,
\* Start, Stop and Reset, and none of its parts is inductive without the others.
CountInv == TypeOK /\ Ownership /\ QueuedNeverStarted /\ StateTracksGoroutine /\ CountExact

\* Stop's reap and Spawn's commit are ordered by fibersMu: a stopped runtime
\* has no loop and no admitted fiber that waits for one.
StoppedIsQuiet ==
  stopped => /\ loop = "off"
             /\ \A f \in fibers \cap admitted : gor[f] # "none"

\* A fiber discarded by Stop is not left in the scheduler, where the next run
\* would find it: "they cannot execute in a subsequent Start (F1)".
ReapedNeverRuns ==
  \A f \in reaped : f \notin runQueue /\ picked # f /\ gor[f] = "none"

InFlightOf(e) == {f \in InFlight : run[f] = e}

\* The loop's local slot counter agrees with the goroutines it started, across
\* completions, the result channel and cancellation: a run never has more than
\* NumWorkers fibers in flight and no slot leaks while it is not cancelled.
SlotsExact ==
  loop # "off" =>
    LET used == Cardinality(InFlightOf(epoch)) + results
    IN  /\ used <= active /\ active <= NumWorkers
        /\ ~ctxDone => used = active

\* How the process of Start, Stop and Reset, the loop and the flags it shares
\* with Spawn go together: a Stop under way has cancelled the run and joins the
\* loop before it reaps, and the reap closes the gate for commits.
Phases ==
  /\ epoch = 0 => stopped /\ \A f \in Fibers : sp[f] \in {"idle", "notStarted"}
  /\ stopped => lc \in {"idle", "resetClear"} /\ loop = "off" /\ (epoch = 0 \/ ctxDone)
  /\ lc = "resetClear" => stopped
  /\ lc \notin {"idle", "resetClear"} => ctxDone
  /\ lc \in {"reapScan", "reapRelease", "stopWait"} => loop = "off"
  /\ lc \in {"reapRelease", "stopWait"} => draining
  /\ picked \in Fibers <=> loop = "dispatch"
  /\ loop \in {"pop", "dispatch"} => active < NumWorkers

\* Why a commit cannot slip past the reap: between Clear and the scan the fibers
\* past their second check are in no queue, after the scan every admitted fiber
\* has a goroutine, and when Reset opens the gate the calls still before their
\* commit have lost their entry of rt.fibers.
ReapBarrier ==
  /\ lc = "reapScan" =>
       \A f \in Fibers : sp[f] \in {"commit", "record", "ok"} => f \notin runQueue
  /\ stopped \/ lc \in {"reapRelease", "stopWait"} =>
       \A f \in fibers \cap admitted : gor[f] # "none"
  /\ stopped /\ ~draining => \A f \in fibers : sp[f] # "commit"
  /\ \A f \in reaped : sp[f] \in {"record", "ok"}

\* The inductive invariant of RuntimeProofs.
IInv == CountInv /\ Phases /\ ReapBarrier /\ ReapedNeverRuns /\ SlotsExact

\* A Spawn that succeeded left its fiber with someone: the scheduler, the loop,
\* its goroutine, or a Stop that reaped it (lc = "reapScan" is that reap, half
\* way).  "it will always return an error (never silently succeed against a
\* stopped scheduler)" (Spawn).
SuccessIsOwned ==
  \A f \in Fibers :
    sp[f] \in {"record", "ok"} /\ gor[f] = "none" /\ lc # "reapScan"
      => f \in runQueue \/ picked = f \/ f \in reaped

-----------------------------------------------------------------------------
(* Liveness.  A goroutine that can take a step takes it.  Go's select picks  *)
(* among its ready cases at random, so a case that is ready again and again  *)
(* is taken (strong fairness).  Fiber functions are assumed to return and    *)
(* blocked fibers to be woken.  Calls of the API, the cancellation of a      *)
(* parent context and the expiry of Stop's context may never happen.         *)

\* A fiber is spawned and returns once, so that fairness to all is fairness to each.
FiberFair ==
  /\ WF_vars(\E f \in Fibers : SpawnRest(f))
  /\ SF_vars(\E f \in Fibers : GoReturn(f))

GoFair(f) ==
  WF_vars(GoRun(f) \/ FiberUnblock(f) \/ GoComplete(f) \/ GoUnlink(f) \/ GoRelease(f)
          \/ GoReport(f))

LoopFair ==
  /\ WF_vars(LoopTick \/ LoopNext \/ LoopPop \/ LoopDispatch)
  /\ SF_vars(LoopResult) /\ SF_vars(LoopExit)

LcFair ==
  WF_vars(StopScheduler \/ ReapClear \/ ReapScan \/ (\E f \in Fibers : ReapRelease(f))
          \/ ReapDone \/ StopJoined \/ ResetClear)

Fairness == FiberFair /\ (\A f \in Fibers : GoFair(f)) /\ LoopFair /\ LcFair

\* Every fiber whose Spawn succeeded is executed to the end or reaped by Stop,
\* also when the result channel is smaller than the number of slots.
AdmittedCompletes ==
  \A f \in Fibers : sp[f] = "ok" ~> gor[f] = "gone" \/ f \in reaped

\* Stop and Reset return when the fiber functions do: nobody waits for a
\* goroutine that waits for them.
LifecycleReturns == lc # "idle" ~> lc = "idle"

FairSpec == Spec /\ Fairness

\* "When ctx is cancelled the runtime behaves as if Stop were called with a
\* background context" (StartWithContext): a run whose context is done ends up
\* stopped.
CancelledMeansStopped == ctxDone ~> stopped
=============================================================================
