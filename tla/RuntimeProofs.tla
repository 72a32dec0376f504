--------------------------- MODULE RuntimeProofs ---------------------------
(***************************************************************************)
(* Proofs about the runtime core, for every set of Spawn calls and every   *)
(* value of the other constants: first what one step does to each part of  *)
(* the invariants, then the counting argument and the cap, then what it    *)
(* says about runs (what Stop leaves behind, that reaped fibers never run, *)
(* that the loop's slots are exact) and about a single run.                *)
(***************************************************************************)
EXTENDS MCRuntime, TLAPS

USE DEF vars, spawnVars, runVars, loopVars, lcVars, schedVars

\* The methods of a fiber keep it a fiber.
LEMMA FiberStep ==
  ASSUME NEW f \in FiberRecord
  PROVE  /\ RunStart(f) \in FiberRecord /\ RunFinish(f) \in FiberRecord
         /\ Block(f) \in FiberRecord /\ Unblock(f) \in FiberRecord
         /\ MarkScheduled(f) \in FiberRecord
<1>1. /\ RunStart(f) \in FiberRecord /\ RunFinish(f) \in FiberRecord
      /\ Block(f) \in FiberRecord /\ MarkScheduled(f) \in FiberRecord
  BY Zenon DEF RunStart, RunFinish, Block, MarkScheduled, FiberRecord, FiberState
<1>2. Unblock(f) \in FiberRecord
  BY Zenon DEF Unblock, FiberRecord, FiberState
<1> QED  BY <1>1, <1>2

\* RecordFiberCreated and RecordFiberCompleted keep the counters natural.
LEMMA MetricsStep ==
  ASSUME metrics \in [created : Nat, completed : Nat, active : Nat]
  PROVE  /\ [metrics EXCEPT !.created = @ + 1, !.active = @ + 1]
              \in [created : Nat, completed : Nat, active : Nat]
         /\ [metrics EXCEPT !.completed = @ + 1, !.active = Pred(@)]
              \in [created : Nat, completed : Nat, active : Nat]
         /\ [metrics EXCEPT !.active = Pred(@)]
              \in [created : Nat, completed : Nat, active : Nat]
<1>1. /\ metrics.created + 1 \in Nat /\ metrics.completed + 1 \in Nat
      /\ metrics.active + 1 \in Nat /\ Pred(metrics.active) \in Nat
  BY SMT DEF Pred
<1> QED  BY <1>1, Zenon

\* Every step keeps the variables in their types, given that it keeps the
\* counter a natural number (which is a matter of counting, see CountStep).
LEMMA TypeStep ==
  ASSUME TypeOK, [Next]_vars, activeFiberCount' \in Nat
  PROVE  TypeOK'
<1> USE DEF TypeOK, SpawnPC, SpawnFailed, GoPC, LoopPC, LcPC
<1>1. ASSUME NEW f \in Fibers, Spawn(f) PROVE TypeOK'
  <2>1. CASE SpawnCheck(f) \/ SpawnReserve(f) \/ SpawnGiveBack(f)
    BY <2>1 DEF SpawnCheck, SpawnReserve, SpawnGiveBack, SpawnStep
  <2>2. CASE SpawnRegister(f) \/ SpawnScheduleTest(f) \/ SpawnAppend(f)
    BY <2>2 DEF SpawnRegister, SpawnScheduleTest, SpawnAppend, SpawnStep, Schedule
  <2>3. CASE SpawnUnregister(f) \/ SpawnRecheck(f) \/ SpawnCommit(f)
    BY <2>3 DEF SpawnUnregister, SpawnRecheck, SpawnCommit, SpawnStep
  <2>4. CASE SpawnRollback(f) \/ SpawnRemove(f)
    BY <2>4 DEF SpawnRollback, SpawnRemove, SpawnStep, Remove
  <2>5. CASE SpawnRecord(f)
    <3>1. metrics' \in [created : Nat, completed : Nat, active : Nat]
      BY <2>5, MetricsStep DEF SpawnRecord
    <3> QED  BY <2>5, <3>1 DEF SpawnRecord, SpawnStep
  <2> QED  BY <1>1, <2>1, <2>2, <2>3, <2>4, <2>5, Zenon DEF Spawn, SpawnRest
<1>2. ASSUME NEW f \in Fibers, Goroutine(f) PROVE TypeOK'
  <2>1. CASE GoRun(f) \/ FiberBlock(f) \/ FiberUnblock(f) \/ GoReturn(f)
    <3>1. fb' \in [Fibers -> FiberRecord]
      BY <2>1, FiberStep DEF GoRun, FiberBlock, FiberUnblock, GoReturn
    <3> QED  BY <2>1, <3>1 DEF GoRun, FiberBlock, FiberUnblock, GoReturn, GoStep
  <2>2. CASE GoComplete(f)
    <3>1. metrics' \in [created : Nat, completed : Nat, active : Nat]
      BY <2>2, MetricsStep DEF GoComplete
    <3> QED  BY <2>2, <3>1 DEF GoComplete, GoStep, Remove
  <2>3. CASE GoUnlink(f) \/ GoRelease(f) \/ GoReport(f)
    BY <2>3 DEF GoUnlink, GoRelease, GoReport, GoStep
  <2> QED  BY <1>2, <2>1, <2>2, <2>3, Zenon DEF Goroutine
<1>3. CASE LoopResult \/ LoopTick \/ LoopNext \/ LoopExit
  BY <1>3 DEF LoopResult, LoopTick, LoopNext, LoopExit
<1>4. CASE LoopPop
  BY <1>4 DEF LoopPop, TakeNext, NextEmpty, Unfinished
<1>5. CASE LoopDispatch
  BY <1>5, FiberStep DEF LoopDispatch
<1>6. CASE Start
  <2>1. run' \in [Fibers -> 0..epoch'] /\ epoch' \in Nat
    BY <1>6 DEF Start
  <2> QED  BY <1>6, <2>1, Zenon DEF Start, SchedulerStart
<1>7. CASE StopCancel
  BY <1>7 DEF StopCancel, LcStep
<1>8. CASE StopScheduler \/ ReapClear
  BY <1>8, Zenon DEF StopScheduler, ReapClear, LcStep, SchedulerStop, Clear
<1>9. CASE StopReturn
  BY <1>9 DEF StopReturn, LcStep
<1>10. CASE ResetMaps
  <2>1. {f \in fibers : sp[f] # "unregister"} \subseteq Fibers
    OBVIOUS
  <2>2. orphaned' \subseteq Fibers /\ resets' \in Nat
    BY <1>10, <2>1 DEF ResetMaps
  <2> QED  BY <1>10, <2>2, Zenon DEF ResetMaps, LcStep
<1>11. CASE ResetClear
  BY <1>11, Zenon DEF ResetClear, LcStep, Clear
<1>12. ASSUME NEW f \in Fibers, ReapRelease(f) PROVE TypeOK'
  <2>1. metrics' \in [created : Nat, completed : Nat, active : Nat]
    BY <1>12, MetricsStep DEF ReapRelease
  <2> QED  BY <1>12, <2>1 DEF ReapRelease
<1>13. CASE ReapScan
  BY <1>13 DEF ReapScan, LcStep, Reapable
<1>14. CASE ReapDone
  BY <1>14 DEF ReapDone, LcStep
<1>15. CASE ParentCancel
  BY <1>15 DEF ParentCancel
<1>16. CASE UNCHANGED vars
  BY <1>16
<1> QED
  BY <1>1, <1>2, <1>3, <1>4, <1>5, <1>6, <1>7, <1>8, <1>9, <1>10, <1>11, <1>12, <1>13,
     <1>14, <1>15, <1>16, Zenon DEF Next, Loop, Lifecycle, StopJoined, StopTimeout

\* The part of the types that most arguments look at.
Kinds ==
  /\ sp \in [Fibers -> SpawnPC] /\ gor \in [Fibers -> GoPC] /\ fb \in [Fibers -> FiberRecord]
  /\ fibers \subseteq Fibers /\ admitted \subseteq Fibers /\ runQueue \subseteq Fibers
  /\ reapList \subseteq Fibers /\ reaped \subseteq Fibers /\ orphaned \subseteq Fibers

\* The type invariant says at least what sort of value each of them is.
LEMMA TypesAreKinds == TypeOK => Kinds
BY DEF TypeOK, Kinds

\* The steps of the loop and of the lifecycle that only move slots and flags ...
Quiet ==
  \/ LoopResult \/ LoopTick \/ LoopNext \/ LoopExit
  \/ Start \/ ParentCancel \/ StopCancel \/ StopScheduler \/ StopJoined \/ StopTimeout
  \/ UNCHANGED vars

\* ... leave every fiber where it is.
LEMMA QuietSteps ==
  ASSUME Quiet
  PROVE  /\ UNCHANGED <<fb, sp, gor, fibers, admitted, activeFiberCount, maxFibers, reapList,
                        reaped, orphaned, runQueue, picked>>
         /\ lc' = "reapRelease" <=> lc = "reapRelease"
<1>1. CASE LoopResult \/ LoopTick \/ LoopNext \/ LoopExit
  BY <1>1 DEF LoopResult, LoopTick, LoopNext, LoopExit
<1>2. CASE Start \/ ParentCancel \/ StopCancel \/ StopScheduler
  BY <1>2 DEF Start, ParentCancel, StopCancel, StopScheduler, LcStep, SchedulerStart,
              SchedulerStop
<1>3. CASE StopJoined \/ StopTimeout \/ UNCHANGED vars
  BY <1>3 DEF StopJoined, StopTimeout, StopReturn, LcStep
<1> QED  BY <1>1, <1>2, <1>3, Zenon DEF Quiet

\* The steps of the runtime, with the quiet ones together.
LEMMA Steps ==
  ASSUME [Next]_vars
  PROVE  \/ \E f \in Fibers : Spawn(f) \/ Goroutine(f)
         \/ LoopPop \/ LoopDispatch
         \/ ReapClear \/ ReapScan \/ ReapDone \/ (\E f \in Fibers : ReapRelease(f))
         \/ ResetMaps \/ ResetClear
         \/ Quiet
BY Zenon DEF Next, Loop, Lifecycle, Quiet

\* Every step keeps the ownership rules: the rules mention only the program
\* counters, the sets they own and the scheduler.
LEMMA OwnershipStep ==
  ASSUME TypeOK, Ownership, [Next]_vars
  PROVE  Ownership'
<1> USE TypesAreKinds DEF Kinds, Ownership, Unpublished, Unscheduled
<1>1. ASSUME NEW f \in Fibers, Spawn(f) PROVE Ownership'
  <2>1. CASE SpawnCheck(f) \/ SpawnReserve(f) \/ SpawnGiveBack(f)
    BY <2>1 DEF SpawnCheck, SpawnReserve, SpawnGiveBack, SpawnStep
  <2>2. CASE SpawnRegister(f) \/ SpawnScheduleTest(f) \/ SpawnAppend(f)
    BY <2>2 DEF SpawnRegister, SpawnScheduleTest, SpawnAppend, SpawnStep, Schedule
  <2>3. CASE SpawnUnregister(f) \/ SpawnRecheck(f) \/ SpawnCommit(f)
    BY <2>3 DEF SpawnUnregister, SpawnRecheck, SpawnCommit, SpawnStep
  <2>4. CASE SpawnRollback(f) \/ SpawnRemove(f) \/ SpawnRecord(f)
    BY <2>4 DEF SpawnRollback, SpawnRemove, SpawnRecord, SpawnStep, Remove
  <2> QED  BY <1>1, <2>1, <2>2, <2>3, <2>4, Zenon DEF Spawn, SpawnRest
<1>2. ASSUME NEW f \in Fibers, Goroutine(f) PROVE Ownership'
  <2>1. CASE GoRun(f) \/ FiberBlock(f) \/ FiberUnblock(f) \/ GoReturn(f) \/ GoComplete(f)
    BY <2>1 DEF GoRun, FiberBlock, FiberUnblock, GoReturn, GoComplete, GoStep, Remove
  <2>2. CASE GoUnlink(f) \/ GoRelease(f) \/ GoReport(f)
    BY <2>2 DEF GoUnlink, GoRelease, GoReport, GoStep
  <2> QED  BY <1>2, <2>1, <2>2, Zenon DEF Goroutine
<1>3. CASE LoopPop
  BY <1>3 DEF LoopPop, TakeNext, NextEmpty, Unfinished
<1>4. CASE LoopDispatch
  <2>1. \A f \in Fibers : picked # f => gor'[f] = gor[f]
    BY <1>4 DEF LoopDispatch
  <2>2. \A f \in Fibers : gor[f] # "release" => gor'[f] # "release"
    BY <1>4 DEF LoopDispatch
  <2>3. /\ picked' \notin Fibers
        /\ UNCHANGED <<sp, fibers, admitted, reapList, orphaned, runQueue, lc>>
    BY <1>4, FibersAssumption DEF LoopDispatch
  <2> QED  BY <2>1, <2>2, <2>3
<1>5. CASE ReapClear \/ ReapScan
  BY <1>5 DEF ReapClear, ReapScan, LcStep, Clear, Reapable
<1>6. CASE ReapDone \/ \E f \in Fibers : ReapRelease(f)
  BY <1>6 DEF ReapDone, ReapRelease, LcStep
<1>7. CASE ResetMaps \/ ResetClear
  BY <1>7 DEF ResetMaps, ResetClear, LcStep, Clear
<1>8. CASE Quiet
  BY <1>8, QuietSteps
<1> QED  BY <1>1, <1>2, <1>3, <1>4, <1>5, <1>6, <1>7, <1>8, Steps, Zenon

\* Every step keeps a fiber in one place between Schedule and its goroutine.
LEMMA QueuedStep ==
  ASSUME TypeOK, Ownership, QueuedNeverStarted, [Next]_vars
  PROVE  QueuedNeverStarted'
<1>a. Kinds /\ \A f \in Unscheduled : f \notin runQueue /\ picked # f /\ gor[f] = "none"
  BY TypesAreKinds DEF Ownership
<1> USE <1>a DEF Kinds, Unscheduled, QueuedNeverStarted
<1>1. ASSUME NEW f \in Fibers, Spawn(f) PROVE QueuedNeverStarted'
  <2>1. CASE SpawnAppend(f) \/ SpawnRemove(f)
    BY <2>1 DEF SpawnAppend, SpawnRemove, SpawnStep, Schedule, Remove
  <2>2. CASE SpawnCheck(f) \/ SpawnReserve(f) \/ SpawnGiveBack(f) \/ SpawnRegister(f)
             \/ SpawnScheduleTest(f)
    BY <2>2 DEF SpawnCheck, SpawnReserve, SpawnGiveBack, SpawnRegister, SpawnScheduleTest
  <2>3. CASE SpawnUnregister(f) \/ SpawnRecheck(f) \/ SpawnCommit(f) \/ SpawnRollback(f)
             \/ SpawnRecord(f)
    BY <2>3 DEF SpawnUnregister, SpawnRecheck, SpawnCommit, SpawnRollback, SpawnRecord
  <2> QED  BY <1>1, <2>1, <2>2, <2>3, Zenon DEF Spawn, SpawnRest
<1>2. ASSUME NEW f \in Fibers, Goroutine(f) PROVE QueuedNeverStarted'
  <2>1. CASE GoRun(f) \/ FiberBlock(f) \/ FiberUnblock(f) \/ GoReturn(f) \/ GoComplete(f)
    BY <2>1 DEF GoRun, FiberBlock, FiberUnblock, GoReturn, GoComplete, GoStep, Remove
  <2>2. CASE GoUnlink(f) \/ GoRelease(f) \/ GoReport(f)
    BY <2>2 DEF GoUnlink, GoRelease, GoReport, GoStep
  <2> QED  BY <1>2, <2>1, <2>2, Zenon DEF Goroutine
<1>3. CASE LoopPop
  BY <1>3 DEF LoopPop, TakeNext, NextEmpty, Unfinished
<1>4. CASE LoopDispatch
  <2>1. picked' \notin Fibers /\ UNCHANGED runQueue
    BY <1>4, FibersAssumption DEF LoopDispatch
  <2>2. \A f \in Fibers : picked # f => gor'[f] = gor[f] /\ fb'[f] = fb[f]
    BY <1>4 DEF LoopDispatch
  <2> QED  BY <2>1, <2>2
<1>5. CASE ReapClear \/ ReapScan \/ ReapDone \/ \E f \in Fibers : ReapRelease(f)
  BY <1>5 DEF ReapClear, ReapScan, ReapDone, ReapRelease, Clear
<1>6. CASE ResetMaps \/ ResetClear
  BY <1>6 DEF ResetMaps, ResetClear, Clear
<1>7. CASE Quiet
  BY <1>7, QuietSteps
<1> QED  BY <1>1, <1>2, <1>3, <1>4, <1>5, <1>6, <1>7, Steps, Zenon

\* What Block, Unblock and MarkScheduled do to a fiber that has not completed.
LEMMA FiberFields ==
  ASSUME NEW f \in FiberRecord, ~f.completion
  PROVE  /\ Block(f).state = "Blocked"
         /\ f.runStarted => Unblock(f).state = "Running"
         /\ MarkScheduled(f).state = "Running"
         /\ Block(f).runStarted = f.runStarted /\ ~Block(f).completion
         /\ Unblock(f).runStarted = f.runStarted /\ ~Unblock(f).completion
         /\ MarkScheduled(f).runStarted = f.runStarted /\ ~MarkScheduled(f).completion
BY DEF Block, Unblock, MarkScheduled, FiberRecord, FiberState

\* Every step keeps the fiber objects in step with their goroutines.
LEMMA StateStep ==
  ASSUME TypeOK, QueuedNeverStarted, StateTracksGoroutine, [Next]_vars
  PROVE  StateTracksGoroutine'
<1> USE TypesAreKinds DEF Kinds, StateTracksGoroutine
<1>1. ASSUME NEW f \in Fibers, Spawn(f) PROVE StateTracksGoroutine'
  BY <1>1, Zenon DEF Spawn, SpawnRest, SpawnCheck, SpawnReserve, SpawnGiveBack, SpawnRegister,
     SpawnScheduleTest, SpawnAppend, SpawnUnregister, SpawnRecheck, SpawnCommit,
     SpawnRollback, SpawnRemove, SpawnRecord
<1>2. ASSUME NEW f \in Fibers, GoRun(f) PROVE StateTracksGoroutine'
  BY <1>2 DEF GoRun, GoStep, CanRun, RunStart
<1>3. ASSUME NEW f \in Fibers, FiberBlock(f) PROVE StateTracksGoroutine'
  <2>1. fb'[f] = Block(fb[f]) /\ \A g \in Fibers \ {f} : fb'[g] = fb[g]
    BY <1>3 DEF FiberBlock
  <2>2. gor' = gor /\ gor[f] = "running" /\ fb[f] \in FiberRecord
    BY <1>3 DEF FiberBlock
  <2>3. fb[f].runStarted /\ ~fb[f].completion
    BY <2>2
  <2>4. /\ Block(fb[f]).state = "Blocked" /\ ~Block(fb[f]).completion
        /\ Block(fb[f]).runStarted = fb[f].runStarted
    BY <2>2, <2>3, FiberFields, Zenon
  <2>5. fb'[f].state = "Blocked" /\ fb'[f].runStarted /\ ~fb'[f].completion
    BY <2>1, <2>3, <2>4, Zenon
  <2> QED  BY <2>1, <2>2, <2>5
<1>4. ASSUME NEW f \in Fibers, FiberUnblock(f) PROVE StateTracksGoroutine'
  <2>1. fb'[f] = Unblock(fb[f]) /\ \A g \in Fibers \ {f} : fb'[g] = fb[g]
    BY <1>4 DEF FiberUnblock
  <2>2. gor' = gor /\ gor[f] = "running" /\ fb[f] \in FiberRecord
    BY <1>4 DEF FiberUnblock
  <2>3. fb[f].runStarted /\ ~fb[f].completion
    BY <2>2
  <2>4. /\ Unblock(fb[f]).state = "Running" /\ ~Unblock(fb[f]).completion
        /\ Unblock(fb[f]).runStarted = fb[f].runStarted
    BY <2>2, <2>3, FiberFields, Zenon
  <2>5. fb'[f].state = "Running" /\ fb'[f].runStarted /\ ~fb'[f].completion
    BY <2>1, <2>3, <2>4, Zenon
  <2> QED  BY <2>1, <2>2, <2>5
<1>5. ASSUME NEW f \in Fibers, GoReturn(f) PROVE StateTracksGoroutine'
  <2>1. /\ fb'[f] = RunFinish(fb[f]) /\ gor'[f] = "complete" /\ fb[f] \in FiberRecord
        /\ \A g \in Fibers \ {f} : fb'[g] = fb[g] /\ gor'[g] = gor[g]
    BY <1>5 DEF GoReturn, GoStep
  <2>2. IsFinished(fb'[f]) /\ fb'[f].completion
    BY <2>1 DEF RunFinish, IsFinished, FiberRecord
  <2> QED  BY <2>1, <2>2
<1>6. ASSUME NEW f \in Fibers, GoComplete(f) \/ GoUnlink(f) \/ GoRelease(f) \/ GoReport(f)
      PROVE  StateTracksGoroutine'
  BY <1>6 DEF GoComplete, GoUnlink, GoRelease, GoReport, GoStep
<1>7. CASE LoopDispatch
  <2>1. CASE picked \in Fibers
    <3>1. gor[picked] = "none" /\ fb[picked] = NewFiber
      BY <2>1 DEF QueuedNeverStarted
    <3>2. /\ fb'[picked] = MarkScheduled(fb[picked]) /\ gor'[picked] = "ready"
          /\ \A g \in Fibers \ {picked} : fb'[g] = fb[g] /\ gor'[g] = gor[g]
      BY <1>7, <2>1, <3>1 DEF LoopDispatch, IsRunnable, NewFiber
    <3>3. ~fb[picked].completion /\ ~fb[picked].runStarted
      <4>1. ~NewFiber.completion /\ ~NewFiber.runStarted
        BY DEF NewFiber
      <4> QED  BY <3>1, <4>1
    <3>4. fb[picked] \in FiberRecord
      BY <2>1
    <3>5. fb'[picked].state = "Running" /\ CanRun(fb'[picked])
      BY <3>2, <3>3, <3>4, FiberFields, SMTT(30) DEF CanRun
    <3> QED  BY <2>1, <3>2, <3>5
  <2>2. CASE picked \notin Fibers
    BY <1>7, <2>2 DEF LoopDispatch
  <2> QED  BY <2>1, <2>2
<1>8. CASE LoopPop \/ ReapClear \/ ReapScan \/ ReapDone \/ (\E f \in Fibers : ReapRelease(f))
            \/ ResetMaps \/ ResetClear
  BY <1>8 DEF LoopPop, ReapClear, ReapScan, ReapDone, ReapRelease, ResetMaps, ResetClear
<1>9. CASE Quiet
  BY <1>9, QuietSteps
<1> QED
  BY <1>1, <1>2, <1>3, <1>4, <1>5, <1>6, <1>7, <1>8, <1>9, Steps, Zenon DEF Goroutine

\* The counts some goroutine answers for, and those Reset dropped.
Held == Owed \cup orphaned

\* What each step does to the counter and to the counts held: nothing, take a
\* count nobody held, or return one that somebody held.
LEMMA HeldStep ==
  ASSUME TypeOK, Ownership, QueuedNeverStarted, [Next]_vars
  PROVE  \/ Held' = Held /\ UNCHANGED activeFiberCount
         \/ \E f \in Fibers \ Held :
              Held' = Held \cup {f} /\ activeFiberCount' = activeFiberCount + 1
         \/ \E f \in Held :
              Held' = Held \ {f} /\ activeFiberCount' = activeFiberCount - 1
<1> USE TypesAreKinds DEF Kinds, Ownership, Unpublished, Unscheduled, Held, Owed, SpawnHolds
<1> DEFINE Same == Held' = Held /\ UNCHANGED activeFiberCount
           Take(f) == /\ f \notin Held /\ Held' = Held \cup {f}
                      /\ activeFiberCount' = activeFiberCount + 1
           Give(f) == /\ f \in Held /\ Held' = Held \ {f}
                      /\ activeFiberCount' = activeFiberCount - 1
<1>1. ASSUME NEW f \in Fibers, SpawnReserve(f) PROVE Take(f)
  BY <1>1, Zenon DEF SpawnReserve, SpawnStep
<1>2. ASSUME NEW f \in Fibers, SpawnGiveBack(f) PROVE Give(f)
  BY <1>2 DEF SpawnGiveBack, SpawnStep
<1>3. ASSUME NEW f \in Fibers, SpawnCheck(f) \/ SpawnRegister(f) PROVE Same
  BY <1>3 DEF SpawnCheck, SpawnRegister, SpawnStep
<1>4. ASSUME NEW f \in Fibers, SpawnScheduleTest(f) \/ SpawnAppend(f) PROVE Same
  BY <1>4 DEF SpawnScheduleTest, SpawnAppend, SpawnStep
<1>5. ASSUME NEW f \in Fibers, SpawnUnregister(f) PROVE Same
  BY <1>5 DEF SpawnUnregister, SpawnStep
<1>6. ASSUME NEW f \in Fibers, SpawnRecheck(f) \/ SpawnCommit(f) PROVE Same
  BY <1>6 DEF SpawnRecheck, SpawnCommit, SpawnStep
<1>7. ASSUME NEW f \in Fibers, SpawnRollback(f) PROVE Same
  BY <1>7 DEF SpawnRollback, SpawnStep
<1>8. ASSUME NEW f \in Fibers, SpawnRemove(f) \/ SpawnRecord(f) PROVE Same
  BY <1>8 DEF SpawnRemove, SpawnRecord, SpawnStep
<1>9. ASSUME NEW f \in Fibers,
             GoRun(f) \/ FiberBlock(f) \/ FiberUnblock(f) \/ GoReturn(f) \/ GoComplete(f)
      PROVE  Same
  BY <1>9 DEF GoRun, FiberBlock, FiberUnblock, GoReturn, GoComplete, GoStep
<1>10. ASSUME NEW f \in Fibers, GoUnlink(f) PROVE Same
  BY <1>10 DEF GoUnlink, GoStep
<1>11. ASSUME NEW f \in Fibers, GoRelease(f) PROVE Give(f)
  BY <1>11 DEF GoRelease, GoStep
<1>12. ASSUME NEW f \in Fibers, GoReport(f) PROVE Same
  BY <1>12, Zenon DEF GoReport, GoStep
<1>13. ASSUME LoopPop \/ LoopDispatch PROVE Same
  BY <1>13, Zenon DEF LoopPop, LoopDispatch, QueuedNeverStarted
<1>14. ASSUME ReapClear \/ ReapScan \/ ReapDone PROVE Same
  BY <1>14, Zenon DEF ReapClear, ReapScan, ReapDone, LcStep, Reapable
<1>15. ASSUME NEW f \in Fibers, ReapRelease(f) PROVE Give(f)
  BY <1>15 DEF ReapRelease
<1>16. ASSUME ResetMaps \/ ResetClear PROVE Same
  BY <1>16, Zenon DEF ResetMaps, ResetClear, LcStep
<1>17. ASSUME Quiet PROVE Same
  BY <1>17, QuietSteps, Zenon
<1> HIDE DEF Same, Take, Give
<1>18. Same \/ (\E f \in Fibers : Take(f)) \/ (\E f \in Fibers : Give(f))
  BY <1>1, <1>2, <1>3, <1>4, <1>5, <1>6, <1>7, <1>8, <1>9, <1>10, <1>11, <1>12, <1>13,
     <1>14, <1>15, <1>16, <1>17, Steps, Zenon DEF Spawn, SpawnRest, Goroutine
<1> QED  BY <1>18, Zenon DEF Same, Take, Give

\* Only SpawnReserve raises the counter, and only SpawnGiveBack lets a rejected
\* Spawn call go.
LEMMA ReserveFrame ==
  ASSUME TypeOK, [Next]_vars
  PROVE  \/ \E f \in Fibers : SpawnReserve(f) \/ SpawnGiveBack(f)
         \/ /\ \A g \in Fibers : sp[g] = "overCap" => sp'[g] = "overCap"
            /\ activeFiberCount' <= activeFiberCount
<1> USE DEF TypeOK
<1> DEFINE Frame == /\ \A g \in Fibers : sp[g] = "overCap" => sp'[g] = "overCap"
                    /\ activeFiberCount' <= activeFiberCount
<1>1. ASSUME NEW f \in Fibers, Spawn(f)
      PROVE  SpawnReserve(f) \/ SpawnGiveBack(f) \/ Frame
  <2>1. CASE SpawnCheck(f) \/ SpawnRegister(f) \/ SpawnScheduleTest(f)
             \/ SpawnAppend(f) \/ SpawnUnregister(f) \/ SpawnRecheck(f)
    BY <2>1, SMTT(30) DEF SpawnStep, SpawnCheck, SpawnRegister, SpawnScheduleTest, SpawnAppend,
                SpawnUnregister, SpawnRecheck
  <2>2. CASE SpawnCommit(f) \/ SpawnRollback(f) \/ SpawnRemove(f) \/ SpawnRecord(f)
    BY <2>2 DEF SpawnStep, SpawnCommit, SpawnRollback, SpawnRemove, SpawnRecord
  <2> QED  BY <1>1, <2>1, <2>2, Zenon DEF Spawn, SpawnRest
<1>2. ASSUME NEW f \in Fibers, Goroutine(f) PROVE Frame
  BY <1>2 DEF Goroutine, GoRun, FiberBlock, FiberUnblock, GoReturn, GoComplete, GoUnlink,
              GoRelease, GoReport
<1>3. CASE Loop
  BY <1>3, SMTT(30) DEF Loop, LoopResult, LoopTick, LoopNext, LoopPop, LoopDispatch, LoopExit
<1>4. CASE Lifecycle
  BY <1>4 DEF Lifecycle, Start, ParentCancel, StopCancel, StopScheduler, ReapClear,
              ReapScan, ReapRelease, ReapDone, StopJoined, StopTimeout, StopReturn,
              ResetMaps, ResetClear
<1>5. CASE UNCHANGED vars
  BY <1>5
<1> QED  BY <1>1, <1>2, <1>3, <1>4, <1>5, Zenon DEF Next

\* Nobody changes the cap of a runtime.
LEMMA CapStays == [Next]_vars => maxFibers' = maxFibers
<1> SUFFICES ASSUME [Next]_vars PROVE maxFibers' = maxFibers
  OBVIOUS
<1>1. ASSUME NEW f \in Fibers, Spawn(f) PROVE maxFibers' = maxFibers
  BY <1>1, Zenon DEF Spawn, SpawnRest, SpawnCheck, SpawnReserve, SpawnGiveBack, SpawnRegister,
              SpawnScheduleTest, SpawnAppend, SpawnUnregister, SpawnRecheck, SpawnCommit,
              SpawnRollback, SpawnRemove, SpawnRecord
<1>2. ASSUME NEW f \in Fibers, Goroutine(f) PROVE maxFibers' = maxFibers
  BY <1>2 DEF Goroutine, GoRun, FiberBlock, FiberUnblock, GoReturn, GoComplete, GoUnlink,
              GoRelease, GoReport
<1>3. CASE Loop
  BY <1>3, Zenon DEF Loop, LoopResult, LoopTick, LoopNext, LoopPop, LoopDispatch, LoopExit
<1>4. CASE Lifecycle
  BY <1>4, Zenon DEF Lifecycle, Start, ParentCancel, StopCancel, StopScheduler, ReapClear,
              ReapScan, ReapRelease, ReapDone, StopJoined, StopTimeout, StopReturn,
              ResetMaps, ResetClear
<1>5. CASE UNCHANGED vars
  BY <1>5
<1> QED  BY <1>1, <1>2, <1>3, <1>4, <1>5, Zenon DEF Next

-----------------------------------------------------------------------------
(* What the steps do to a run: its flags, the reap and the slots *)

\* Every step keeps the flags of a run, its loop and the lifecycle in step.
LEMMA PhasesStep ==
  ASSUME TypeOK, Phases, [Next]_vars
  PROVE  Phases'
<1>a. /\ sp \in [Fibers -> SpawnPC] /\ epoch \in Nat /\ active \in Nat
      /\ loop \in LoopPC /\ lc \in LcPC /\ picked \in Fibers \cup {NoFiber}
      /\ fibers \subseteq Fibers /\ runQueue \subseteq Fibers
  BY DEF TypeOK
<1> USE <1>a DEF Phases
<1>1. ASSUME NEW f \in Fibers, Spawn(f) PROVE Phases'
  <2>1. CASE SpawnCheck(f)
    BY <2>1 DEF SpawnCheck, SpawnStep, IsRunning
  <2>2. CASE SpawnReserve(f) \/ SpawnGiveBack(f) \/ SpawnRegister(f) \/ SpawnScheduleTest(f)
    BY <2>2 DEF SpawnReserve, SpawnGiveBack, SpawnRegister, SpawnScheduleTest, SpawnStep
  <2>3. CASE SpawnAppend(f) \/ SpawnUnregister(f) \/ SpawnRecheck(f) \/ SpawnCommit(f)
    BY <2>3 DEF SpawnAppend, SpawnUnregister, SpawnRecheck, SpawnCommit, SpawnStep
  <2>4. CASE SpawnRollback(f) \/ SpawnRemove(f) \/ SpawnRecord(f)
    BY <2>4 DEF SpawnRollback, SpawnRemove, SpawnRecord, SpawnStep
  <2> QED  BY <1>1, <2>1, <2>2, <2>3, <2>4, Zenon DEF Spawn, SpawnRest
<1>2. ASSUME NEW f \in Fibers, Goroutine(f) PROVE Phases'
  BY <1>2 DEF Goroutine, GoRun, FiberBlock, FiberUnblock, GoReturn, GoComplete, GoUnlink,
              GoRelease, GoReport
<1>3. CASE Loop
  <2>1. CASE LoopResult \/ LoopTick \/ LoopNext \/ LoopExit
    BY <2>1 DEF LoopResult, LoopTick, LoopNext, LoopExit, LoopPC
  <2>2. CASE LoopPop
    BY <2>2 DEF LoopPop
  <2>3. CASE LoopDispatch
    BY <2>3, FibersAssumption, Zenon DEF LoopDispatch
  <2> QED  BY <1>3, <2>1, <2>2, <2>3, Zenon DEF Loop
<1>4. CASE Lifecycle
  <2>1. CASE Start \/ ParentCancel \/ StopCancel
    BY <2>1 DEF Start, ParentCancel, StopCancel, LcStep, IsRunning
  <2>2. CASE StopScheduler \/ ReapClear \/ ReapScan \/ ReapDone
    BY <2>2 DEF StopScheduler, ReapClear, ReapScan, ReapDone, LcStep, LcPC
  <2>3. CASE \E f \in Fibers : ReapRelease(f)
    BY <2>3 DEF ReapRelease
  <2>4. CASE StopJoined \/ StopTimeout
    BY <2>4, Zenon DEF StopJoined, StopTimeout, StopReturn, LcStep
  <2>5. CASE ResetMaps \/ ResetClear
    BY <2>5 DEF ResetMaps, ResetClear, LcStep, IsRunning
  <2> QED  BY <1>4, <2>1, <2>2, <2>3, <2>4, <2>5, Zenon DEF Lifecycle
<1>5. CASE UNCHANGED vars
  BY <1>5
<1> QED  BY <1>1, <1>2, <1>3, <1>4, <1>5, Zenon DEF Next

\* Reapable picks the fibers of rt.fibers that are admitted and were never
\* dispatched: the state of a fiber tells whether it has a goroutine.
LEMMA ReapableAre ==
  ASSUME TypeOK, StateTracksGoroutine
  PROVE  Reapable = {f \in fibers \cap admitted : gor[f] = "none"}
<1>1. \A f \in Fibers : IsRunnable(fb[f]) <=> gor[f] = "none"
  <2> SUFFICES ASSUME NEW f \in Fibers PROVE IsRunnable(fb[f]) <=> gor[f] = "none"
    OBVIOUS
  <2>1. NewFiber.state = "Ready"
    BY DEF NewFiber
  <2>2. gor[f] # "none" => fb[f].state \in {"Running", "Blocked", "Finished"}
    BY DEF StateTracksGoroutine, IsFinished
  <2> QED  BY <2>1, <2>2, Zenon DEF StateTracksGoroutine, IsRunnable
<1> QED  BY <1>1 DEF Reapable, TypeOK

\* Every step keeps the barrier between the reap and the commits.
LEMMA BarrierStep ==
  ASSUME CountInv, Phases, ReapBarrier, [Next]_vars
  PROVE  ReapBarrier'
<1>a. Kinds /\ (\A f \in admitted : sp[f] \in {"record", "ok"}) /\ TypeOK /\ StateTracksGoroutine
  BY Zenon DEF Kinds, CountInv, TypeOK, Ownership
<1> USE <1>a DEF Kinds, Phases, ReapBarrier
<1>1. ASSUME NEW f \in Fibers, Spawn(f) PROVE ReapBarrier'
  <2>1. CASE SpawnCheck(f) \/ SpawnReserve(f) \/ SpawnGiveBack(f)
    BY <2>1 DEF SpawnCheck, SpawnReserve, SpawnGiveBack, SpawnStep
  <2>2. CASE SpawnRegister(f) \/ SpawnUnregister(f)
    BY <2>2 DEF SpawnRegister, SpawnUnregister, SpawnStep
  <2>3. CASE SpawnScheduleTest(f) \/ SpawnAppend(f)
    BY <2>3 DEF SpawnScheduleTest, SpawnAppend, SpawnStep, Schedule
  <2>4. CASE SpawnRecheck(f)
    BY <2>4, Zenon DEF SpawnRecheck, SpawnStep
  <2>5. CASE SpawnCommit(f)
    BY <2>5, Zenon DEF SpawnCommit, SpawnStep
  <2>6. CASE SpawnRollback(f)
    BY <2>6, Zenon DEF SpawnRollback
  <2>7. CASE SpawnRemove(f) \/ SpawnRecord(f)
    BY <2>7 DEF SpawnRemove, SpawnRecord, SpawnStep, Remove
  <2> QED  BY <1>1, <2>1, <2>2, <2>3, <2>4, <2>5, <2>6, <2>7, Zenon DEF Spawn, SpawnRest
<1>2. ASSUME NEW f \in Fibers, Goroutine(f) PROVE ReapBarrier'
  <2>1. CASE GoRun(f) \/ GoReturn(f) \/ GoComplete(f)
    BY <2>1 DEF GoRun, GoReturn, GoComplete, GoStep, Remove
  <2>2. CASE FiberBlock(f) \/ FiberUnblock(f)
    BY <2>2 DEF FiberBlock, FiberUnblock
  <2>3. CASE GoUnlink(f) \/ GoRelease(f) \/ GoReport(f)
    BY <2>3 DEF GoUnlink, GoRelease, GoReport, GoStep
  <2> QED  BY <1>2, <2>1, <2>2, <2>3, Zenon DEF Goroutine
<1>3. CASE Loop
  <2>1. CASE LoopResult \/ LoopTick \/ LoopNext \/ LoopExit
    BY <2>1 DEF LoopResult, LoopTick, LoopNext, LoopExit
  <2>2. CASE LoopPop
    BY <2>2, Zenon DEF LoopPop
  <2>3. CASE LoopDispatch
    BY <2>3, Zenon DEF LoopDispatch
  <2> QED  BY <1>3, <2>1, <2>2, <2>3, Zenon DEF Loop
<1>4. CASE Lifecycle
  <2>1. CASE Start \/ ParentCancel \/ StopCancel
    BY <2>1 DEF Start, ParentCancel, StopCancel, LcStep, SchedulerStart
  <2>2. CASE StopScheduler \/ ReapClear
    BY <2>2 DEF StopScheduler, ReapClear, LcStep, SchedulerStop, Clear
  <2>3. CASE ReapScan
    BY <2>3, ReapableAre, Zenon DEF ReapScan, LcStep
  <2>4. CASE ReapDone \/ \E f \in Fibers : ReapRelease(f)
    BY <2>4 DEF ReapDone, ReapRelease, LcStep
  <2>5. CASE StopJoined \/ StopTimeout
    BY <2>5, Zenon DEF StopJoined, StopTimeout, StopReturn, LcStep
  <2>6. CASE ResetMaps \/ ResetClear
    BY <2>6, Zenon DEF ResetMaps, ResetClear, LcStep, Clear
  <2> QED  BY <1>4, <2>1, <2>2, <2>3, <2>4, <2>5, <2>6, Zenon DEF Lifecycle
<1>5. CASE UNCHANGED vars
  BY <1>5, Zenon
<1> QED  BY <1>1, <1>2, <1>3, <1>4, <1>5, Zenon DEF Next

\* Every step leaves the reaped fibers alone, and a reap takes only fibers that
\* nobody else can get hold of.
LEMMA ReapedStep ==
  ASSUME CountInv, Phases, ReapBarrier, ReapedNeverRuns, [Next]_vars
  PROVE  ReapedNeverRuns'
<1>a. Kinds /\ (\A f \in admitted : sp[f] \in {"record", "ok"}) /\ TypeOK /\ StateTracksGoroutine
  BY Zenon DEF Kinds, CountInv, TypeOK, Ownership
<1> USE <1>a DEF Kinds, Phases, ReapBarrier, ReapedNeverRuns
<1>1. ASSUME NEW f \in Fibers, Spawn(f) PROVE ReapedNeverRuns'
  <2>1. CASE SpawnCheck(f) \/ SpawnReserve(f)
    BY <2>1, Zenon DEF SpawnCheck, SpawnReserve
  <2>5. CASE SpawnGiveBack(f) \/ SpawnRegister(f)
    BY <2>5, Zenon DEF SpawnGiveBack, SpawnRegister
  <2>2. CASE SpawnUnregister(f) \/ SpawnScheduleTest(f) \/ SpawnRecheck(f)
    BY <2>2, Zenon DEF SpawnUnregister, SpawnScheduleTest, SpawnRecheck
  <2>3. CASE SpawnAppend(f) \/ SpawnRemove(f)
    BY <2>3, Zenon DEF SpawnAppend, SpawnRemove, SpawnStep, Schedule, Remove
  <2>4. CASE SpawnCommit(f) \/ SpawnRollback(f) \/ SpawnRecord(f)
    BY <2>4 DEF SpawnCommit, SpawnRollback, SpawnRecord
  <2> QED  BY <1>1, <2>1, <2>2, <2>3, <2>4, <2>5, Zenon DEF Spawn, SpawnRest
<1>2. ASSUME NEW f \in Fibers, Goroutine(f) PROVE ReapedNeverRuns'
  <2>1. CASE GoRun(f) \/ GoReturn(f)
    BY <2>1 DEF GoRun, GoReturn, GoStep
  <2>4. CASE GoComplete(f)
    BY <2>4 DEF GoComplete, GoStep, Remove
  <2>2. CASE FiberBlock(f) \/ FiberUnblock(f)
    BY <2>2, Zenon DEF FiberBlock, FiberUnblock
  <2>3. CASE GoUnlink(f) \/ GoRelease(f) \/ GoReport(f)
    BY <2>3, Zenon DEF GoUnlink, GoRelease, GoReport, GoStep
  <2> QED  BY <1>2, <2>1, <2>2, <2>3, <2>4, Zenon DEF Goroutine
<1>3. CASE Loop
  <2>1. CASE LoopResult \/ LoopTick \/ LoopNext \/ LoopExit
    BY <2>1, Zenon DEF LoopResult, LoopTick, LoopNext, LoopExit
  <2>2. CASE LoopPop
    BY <2>2, Zenon DEF LoopPop, TakeNext, NextEmpty, Unfinished
  <2>3. CASE LoopDispatch
    BY <2>3, FibersAssumption, Zenon DEF LoopDispatch
  <2> QED  BY <1>3, <2>1, <2>2, <2>3, Zenon DEF Loop
<1>4. CASE Lifecycle
  <2>1. CASE Start \/ ParentCancel \/ StopCancel
    BY <2>1, Zenon DEF Start, ParentCancel, StopCancel, SchedulerStart
  <2>2. CASE StopScheduler \/ ReapClear
    BY <2>2, Zenon DEF StopScheduler, ReapClear, SchedulerStop, Clear
  <2>3. CASE ReapScan
    <3>1. \A f \in Reapable : gor[f] = "none" /\ sp[f] \in {"record", "ok"}
      BY ReapableAre
    <3>2. picked \notin Fibers
      BY <2>3, Zenon DEF ReapScan, LcStep
    <3>3. \A f \in Reapable : f \notin runQueue /\ picked # f
      BY <2>3, <3>1, <3>2, ReapableAre, Zenon DEF ReapScan, LcStep
    <3> QED  BY <2>3, <3>1, <3>3, Zenon DEF ReapScan
  <2>4. CASE ReapDone \/ \E f \in Fibers : ReapRelease(f)
    BY <2>4 DEF ReapDone, ReapRelease
  <2>5. CASE StopJoined \/ StopTimeout
    BY <2>5, Zenon DEF StopJoined, StopTimeout, StopReturn
  <2>6. CASE ResetMaps \/ ResetClear
    BY <2>6, Zenon DEF ResetMaps, ResetClear, Clear
  <2> QED  BY <1>4, <2>1, <2>2, <2>3, <2>4, <2>5, <2>6, Zenon DEF Lifecycle
<1>5. CASE UNCHANGED vars
  BY <1>5, Zenon
<1> QED  BY <1>1, <1>2, <1>3, <1>4, <1>5, Zenon DEF Next

\* The fibers in flight of the current run.
Busy == InFlightOf(epoch)

\* The steps that touch no slot: all but the loop's results, dispatches and exit,
\* Start, and a goroutine's report.
LEMMA SlotsFrame ==
  ASSUME TypeOK, [Next]_vars
  PROVE  \/ LoopResult \/ LoopDispatch \/ LoopExit \/ Start
         \/ \E f \in Fibers : GoReport(f)
         \/ /\ Busy' = Busy /\ UNCHANGED <<active, results>>
            /\ loop' # "off" => loop # "off"
            /\ ctxDone => ctxDone'
<1> USE DEF TypeOK, Busy, InFlightOf, InFlight
<1> DEFINE Frame == /\ Busy' = Busy /\ UNCHANGED <<active, results>>
                    /\ loop' # "off" => loop # "off"
                    /\ ctxDone => ctxDone'
<1>1. ASSUME NEW f \in Fibers, Spawn(f) PROVE Frame
  BY <1>1, Zenon DEF Spawn, SpawnRest, SpawnCheck, SpawnReserve, SpawnGiveBack, SpawnRegister,
     SpawnScheduleTest, SpawnAppend, SpawnUnregister, SpawnRecheck, SpawnCommit,
     SpawnRollback, SpawnRemove, SpawnRecord
<1>2. ASSUME NEW f \in Fibers, Goroutine(f) PROVE GoReport(f) \/ Frame
  <2>1. CASE GoRun(f) \/ GoReturn(f) \/ GoComplete(f)
    BY <2>1 DEF GoRun, GoReturn, GoComplete, GoStep
  <2>2. CASE FiberBlock(f) \/ FiberUnblock(f)
    BY <2>2, Zenon DEF FiberBlock, FiberUnblock
  <2>3. CASE GoUnlink(f) \/ GoRelease(f)
    BY <2>3, Zenon DEF GoUnlink, GoRelease, GoStep
  <2> QED  BY <1>2, <2>1, <2>2, <2>3, Zenon DEF Goroutine
<1>3. ASSUME Loop PROVE LoopResult \/ LoopDispatch \/ LoopExit \/ Frame
  BY <1>3, Zenon DEF Loop, LoopTick, LoopNext, LoopPop
<1>4. ASSUME Lifecycle PROVE Start \/ Frame
  BY <1>4 DEF Lifecycle, ParentCancel, StopCancel, StopScheduler, ReapClear, ReapScan,
     ReapRelease, ReapDone, StopJoined, StopTimeout, StopReturn, ResetMaps, ResetClear
<1>5. CASE UNCHANGED vars
  BY <1>5
<1> QED  BY <1>1, <1>2, <1>3, <1>4, <1>5, Zenon DEF Next

\* Every step of a single run keeps what OneRunInv adds: Reset and a second Start
\* are what would break it.
LEMMA OneRunStep ==
  ASSUME IInv, OneRunInv, [OneRunNext]_vars
  PROVE  OneRunInv'
<1>a. /\ Kinds /\ epoch \in Nat /\ TypeOK /\ QueuedNeverStarted /\ StateTracksGoroutine
      /\ Phases /\ ReapBarrier
  BY Zenon DEF Kinds, IInv, CountInv, TypeOK
<1> USE <1>a DEF Kinds, Phases, ReapBarrier, OneRunInv
<1>1. ASSUME NEW f \in Fibers, Spawn(f) PROVE OneRunInv'
  <2> USE DEF SpawnStep
  <2>1. CASE SpawnCheck(f) \/ SpawnReserve(f)
    BY <2>1 DEF SpawnCheck, SpawnReserve
  <2>6. CASE SpawnGiveBack(f) \/ SpawnRegister(f)
    BY <2>6 DEF SpawnGiveBack, SpawnRegister
  <2>2. CASE SpawnUnregister(f) \/ SpawnScheduleTest(f)
    BY <2>2 DEF SpawnUnregister, SpawnScheduleTest
  <2>3. CASE SpawnAppend(f) \/ SpawnRecheck(f)
    BY <2>3 DEF SpawnAppend, SpawnRecheck, Schedule
  <2>4. CASE SpawnCommit(f) \/ SpawnRecord(f)
    BY <2>4 DEF SpawnCommit, SpawnRecord
  <2>5. CASE SpawnRollback(f) \/ SpawnRemove(f)
    BY <2>5 DEF SpawnRollback, SpawnRemove, Remove
  <2> QED  BY <1>1, <2>1, <2>2, <2>3, <2>4, <2>5, <2>6, Zenon DEF Spawn, SpawnRest
<1>2. ASSUME NEW f \in Fibers, Goroutine(f) PROVE OneRunInv'
  <2>1. CASE GoRun(f) \/ GoReturn(f)
    BY <2>1 DEF GoRun, GoReturn, GoStep
  <2>4. CASE GoComplete(f)
    BY <2>4 DEF GoComplete, GoStep, Remove
  <2>2. CASE FiberBlock(f) \/ FiberUnblock(f)
    BY <2>2 DEF FiberBlock, FiberUnblock
  <2>3. CASE GoUnlink(f) \/ GoRelease(f) \/ GoReport(f)
    BY <2>3 DEF GoUnlink, GoRelease, GoReport, GoStep
  <2> QED  BY <1>2, <2>1, <2>2, <2>3, <2>4, Zenon DEF Goroutine
<1>3. CASE Loop
  <2>1. CASE LoopResult \/ LoopTick \/ LoopNext \/ LoopExit
    BY <2>1 DEF LoopResult, LoopTick, LoopNext, LoopExit
  <2>2. CASE LoopPop
    <3>1. Unfinished(fb) = runQueue
      BY DEF Unfinished, QueuedNeverStarted, StateTracksGoroutine, IsFinished, NewFiber
    <3> QED  BY <2>2, <3>1, FibersAssumption, Zenon DEF LoopPop, TakeNext, NextEmpty
  <2>3. CASE LoopDispatch
    <3>1. picked \in Fibers /\ gor[picked] = "none"
      BY <2>3, Zenon DEF LoopDispatch, QueuedNeverStarted
    <3>2. IsRunnable(fb[picked])
      BY <3>1 DEF StateTracksGoroutine, IsRunnable, NewFiber
    <3>3. gor' = [gor EXCEPT ![picked] = "ready"]
      BY <2>3, <3>2, Zenon DEF LoopDispatch
    <3> QED  BY <2>3, <3>1, <3>3, Zenon DEF LoopDispatch
  <2> QED  BY <1>3, <2>1, <2>2, <2>3, Zenon DEF Loop
<1>4. CASE OneRun
  <2>1. CASE StartOnce \/ StopCancel
    BY <2>1 DEF StartOnce, Start, StopCancel, LcStep, IsRunning, SchedulerStart
  <2>2. CASE StopScheduler \/ ReapClear
    BY <2>2 DEF StopScheduler, ReapClear, LcStep, SchedulerStop, Clear
  <2>3. CASE ReapScan
    BY <2>3, ReapableAre, Zenon DEF ReapScan, LcStep
  <2>4. CASE ReapDone \/ \E f \in Fibers : ReapRelease(f)
    BY <2>4 DEF ReapDone, ReapRelease, LcStep
  <2>5. CASE StopJoined \/ StopTimeout
    BY <2>5, Zenon DEF StopJoined, StopTimeout, StopReturn, LcStep
  <2> QED  BY <1>4, <2>1, <2>2, <2>3, <2>4, <2>5, Zenon DEF OneRun
<1>5. CASE UNCHANGED vars
  BY <1>5, Zenon
<1> QED  BY <1>1, <1>2, <1>3, <1>4, <1>5, Zenon DEF OneRunNext

-----------------------------------------------------------------------------
(* Counting *)

INSTANCE FiniteSetTheorems

\* The counts held are finitely many: each belongs to a Spawn call.
LEMMA HeldFinite ==
  ASSUME TypeOK
  PROVE  Held \subseteq Fibers /\ IsFiniteSet(Held) /\ Cardinality(Held) \in Nat
<1>1. Held \subseteq Fibers
  BY DEF Held, Owed, SpawnHolds, TypeOK
<1> QED  BY <1>1, FibersAssumption, FS_Subset, FS_CardinalityType

\* The counter follows the counts held, so it stays a natural number.
LEMMA CountStep ==
  ASSUME TypeOK, Ownership, QueuedNeverStarted, CountExact, [Next]_vars
  PROVE  activeFiberCount' = Cardinality(Held') /\ activeFiberCount' \in Nat
<1>1. /\ IsFiniteSet(Held) /\ Cardinality(Held) \in Nat
      /\ activeFiberCount = Cardinality(Held)
  BY HeldFinite DEF CountExact, Held
<1>2. CASE Held' = Held /\ UNCHANGED activeFiberCount
  BY <1>1, <1>2
<1>3. ASSUME NEW f \in Fibers \ Held, Held' = Held \cup {f},
             activeFiberCount' = activeFiberCount + 1
      PROVE  activeFiberCount' = Cardinality(Held') /\ activeFiberCount' \in Nat
  BY <1>1, <1>3, FS_AddElement
<1>4. ASSUME NEW f \in Held, Held' = Held \ {f},
             activeFiberCount' = activeFiberCount - 1
      PROVE  activeFiberCount' = Cardinality(Held') /\ activeFiberCount' \in Nat
  <2>1. IsFiniteSet(Held \ {f}) /\ Cardinality(Held \ {f}) = Cardinality(Held) - 1
    BY <1>1, FS_RemoveElement, Zenon
  <2>2. Cardinality(Held \ {f}) \in Nat
    BY <2>1, FS_CardinalityType
  <2> QED  BY <1>1, <1>4, <2>1, <2>2, Zenon
<1> QED  BY <1>2, <1>3, <1>4, HeldStep, Zenon

\* The invariant holds of a new runtime ...
LEMMA InitCountInv == Init => CountInv
<1> SUFFICES ASSUME Init PROVE CountInv
  OBVIOUS
<1> USE DEF Init, SchedInit
<1>1. TypeOK
  <2>1. NewFiber \in FiberRecord
    BY Zenon DEF FiberRecord, FiberState, NewFiber
  <2>2. metrics \in [created : Nat, completed : Nat, active : Nat]
    OBVIOUS
  <2>3. run \in [Fibers -> 0..epoch]
    OBVIOUS
  <2> QED  BY <2>1, <2>2, <2>3, Zenon DEF TypeOK, SpawnPC, GoPC, LoopPC, LcPC
<1>2. Ownership
  BY FibersAssumption, Zenon DEF Ownership, Unpublished, Unscheduled
<1>3. QueuedNeverStarted /\ StateTracksGoroutine
  BY FibersAssumption, Zenon DEF QueuedNeverStarted, StateTracksGoroutine
<1>4. CountExact
  <2>1. Owed \cup orphaned = {}
    BY Zenon DEF Owed, SpawnHolds
  <2> QED  BY <2>1, FS_EmptySet, Zenon DEF CountExact
<1> QED  BY <1>1, <1>2, <1>3, <1>4 DEF CountInv

\* ... every step of Spawn, the loop, a goroutine or the lifecycle keeps it ...
LEMMA NextCountInv == CountInv /\ [Next]_vars => CountInv'
<1> SUFFICES ASSUME CountInv, [Next]_vars PROVE CountInv'
  OBVIOUS
<1> USE DEF CountInv
<1>1. activeFiberCount' = Cardinality(Held') /\ activeFiberCount' \in Nat
  BY CountStep, Zenon
<1>2. TypeOK' /\ Ownership' /\ QueuedNeverStarted' /\ StateTracksGoroutine'
  BY <1>1, TypeStep, OwnershipStep, QueuedStep, StateStep, Zenon
<1>3. CountExact'
  BY <1>1, Zenon DEF CountExact, Held
<1> QED  BY <1>2, <1>3

\* ... so it always holds.
THEOREM CountInvariance == Spec => []CountInv
BY InitCountInv, NextCountInv, PTL DEF Spec

\* Every variable of the runtime stays in its type; in particular the admission
\* counter never goes negative, whatever Spawn, complete, Stop and Reset do.
THEOREM TypeCorrect == Spec => []TypeOK
BY CountInvariance, PTL DEF CountInv

\* activeFiberCount is exact: of complete, reapPending and Spawn's rollback,
\* exactly one returns the count of a fiber, for any number of Spawn calls.
THEOREM CountIsExact == Spec => []CountExact
BY CountInvariance, PTL DEF CountInv

\* No fiber is dispatched twice, for any number of runs and workers.
THEOREM DispatchedOnce == Spec => []QueuedNeverStarted
BY CountInvariance, PTL DEF CountInv

\* A fiber's state tells where its goroutine is, so that reapPending's test for
\* StateReady discards no fiber that has one.
THEOREM StateTracks == Spec => []StateTracksGoroutine
BY CountInvariance, PTL DEF CountInv

\* The counts that are not about to be rejected.
Admitting == {f \in Held : sp[f] # "overCap"}

\* A count is taken below the cap or marked for rejection; the others only go.
LEMMA CapStep ==
  ASSUME CountInv, CapHolds, [Next]_vars
  PROVE  CapHolds'
<1> SUFFICES ASSUME maxFibers > 0 PROVE Cardinality(Admitting') <= maxFibers
  BY CapStays, Zenon DEF CapHolds, Admitting, Held
<1>a. TypeOK /\ Kinds /\ Ownership /\ QueuedNeverStarted /\ activeFiberCount \in Nat
  BY TypesAreKinds, Zenon DEF CountInv, TypeOK
<1> USE <1>a
<1>0. maxFibers \in Nat
  BY CapsAssumption, Zenon DEF TypeOK
<1>1. TypeOK' /\ Kinds' /\ activeFiberCount' = Cardinality(Held')
  <2>1. TypeOK' /\ activeFiberCount' = Cardinality(Held')
    BY NextCountInv, Zenon DEF CountInv, CountExact, Held
  <2> QED  BY <2>1, Zenon DEF Kinds, TypeOK
<1>2. /\ Held \subseteq Fibers /\ IsFiniteSet(Held)
      /\ Held' \subseteq Fibers /\ IsFiniteSet(Held')
  <2>1. Held' \subseteq Fibers
    BY <1>1, Zenon DEF Held, Owed, SpawnHolds, Kinds
  <2> QED  BY <2>1, HeldFinite, FibersAssumption, FS_Subset, Zenon
<1>3. /\ IsFiniteSet(Admitting) /\ Cardinality(Admitting) \in Nat
      /\ IsFiniteSet(Admitting') /\ Cardinality(Admitting') \in Nat
      /\ Cardinality(Admitting') <= Cardinality(Held')
  <2>1. Admitting \subseteq Held /\ Admitting' \subseteq Held'
    BY Zenon DEF Admitting
  <2> QED  BY <1>2, <2>1, FS_Subset, FS_CardinalityType, Zenon
<1>4. Cardinality(Admitting) <= maxFibers
  BY Zenon DEF CapHolds, Admitting, Held
<1>5. CASE Admitting' \subseteq Admitting
  <2>1. Cardinality(Admitting') <= Cardinality(Admitting)
    BY <1>3, <1>5, FS_Subset, Zenon
  <2> QED  BY <1>3, <1>4, <2>1, <1>0
<1>6. CASE activeFiberCount' <= maxFibers
  BY <1>1, <1>3, <1>6, <1>0, FS_CardinalityType, <1>2
<1>7. ASSUME NEW f \in Fibers, SpawnReserve(f)
      PROVE  Admitting' \subseteq Admitting \/ activeFiberCount' <= maxFibers
  <2>1. CASE OverCap(activeFiberCount')
    BY <1>7, <2>1, Zenon DEF SpawnReserve, SpawnStep, Admitting, Held, Owed, SpawnHolds, Kinds
  <2>2. CASE ~OverCap(activeFiberCount')
    BY <1>7, <1>0, <2>2 DEF OverCap, SpawnReserve
  <2> QED  BY <2>1, <2>2, Zenon
<1>8. ASSUME NEW f \in Fibers, SpawnGiveBack(f) PROVE Admitting' \subseteq Admitting
  <2>1. f \notin fibers /\ f \notin orphaned /\ f \notin reapList /\ gor[f] # "release"
    <3>1. sp[f] \in {"overCap", "undo", "release"}
      BY <1>8, Zenon DEF SpawnGiveBack, SpawnStep
    <3> QED  BY <3>1, Zenon DEF Ownership, Unpublished, Unscheduled
  <2> QED  BY <1>8, <2>1 DEF SpawnGiveBack, SpawnStep, Admitting, Held, Owed, SpawnHolds, Kinds
<1>9. ASSUME \A g \in Fibers : sp[g] = "overCap" => sp'[g] = "overCap",
             activeFiberCount' <= activeFiberCount
      PROVE  Admitting' \subseteq Admitting
  <2>1. Held' \subseteq Held
    BY <1>9, HeldStep
  <2> QED  BY <1>2, <1>9, <2>1, Zenon DEF Admitting
<1> QED  BY <1>5, <1>6, <1>7, <1>8, <1>9, ReserveFrame, Zenon

\* The cap is never exceeded, for every cap and any number of Spawn calls.
THEOREM CapIsHeld == Spec => []CapHolds
<1>1. Init => CapHolds
  <2> SUFFICES ASSUME Init PROVE CapHolds
    OBVIOUS
  <2>1. {f \in Owed \cup orphaned : sp[f] # "overCap"} = {}
    BY Zenon DEF Init, Owed, SpawnHolds
  <2>2. maxFibers \in Nat /\ Cardinality({}) = 0
    BY CapsAssumption, FS_EmptySet, Zenon DEF Init
  <2> QED  BY <2>1, <2>2 DEF CapHolds
<1>2. CountInv /\ CapHolds /\ [Next]_vars => CapHolds'
  BY CapStep, Zenon
<1> QED  BY <1>1, <1>2, CountInvariance, PTL DEF Spec

-----------------------------------------------------------------------------
(* Runs: what Stop leaves behind, and the slots of the loop *)

\* They are finitely many.
LEMMA BusyFinite ==
  /\ Busy \subseteq Fibers /\ IsFiniteSet(Busy) /\ Cardinality(Busy) \in Nat
  /\ Busy' \subseteq Fibers /\ IsFiniteSet(Busy') /\ Cardinality(Busy') \in Nat
<1>1. Busy \subseteq Fibers /\ Busy' \subseteq Fibers
  BY Zenon DEF Busy, InFlightOf, InFlight
<1> QED  BY <1>1, FibersAssumption, FS_Subset, FS_CardinalityType

\* What SlotsExact says is about Busy.
LEMMA SlotsAbout ==
  /\ SlotsExact <=> (loop # "off" =>
       /\ Cardinality(Busy) + results <= active /\ active <= NumWorkers
       /\ ~ctxDone => Cardinality(Busy) + results = active)
  /\ SlotsExact' <=> (loop' # "off" =>
       /\ Cardinality(Busy') + results' <= active' /\ active' <= NumWorkers
       /\ ~ctxDone' => Cardinality(Busy') + results' = active')
BY Zenon DEF SlotsExact, Busy

\* Every step keeps the slots exact.
LEMMA SlotsStep ==
  ASSUME CountInv, Phases, SlotsExact, [Next]_vars
  PROVE  SlotsExact'
<1>a. /\ gor \in [Fibers -> GoPC] /\ run \in [Fibers -> 0..epoch] /\ epoch \in Nat
      /\ active \in Nat /\ results \in Nat /\ QueuedNeverStarted
  BY Zenon DEF CountInv, TypeOK
<1> USE <1>a
<1>0. /\ Cardinality(Busy) \in Nat /\ Cardinality(Busy') \in Nat
      /\ NumWorkers \in Nat \ {0}
  BY BusyFinite, WorkersAssumption, Zenon
<1>1. CASE LoopResult
  <2>1. Busy' = Busy /\ UNCHANGED <<loop, ctxDone>>
    BY <1>1, Zenon DEF LoopResult, Busy, InFlightOf, InFlight
  <2>2. /\ loop # "off" /\ results > 0 /\ results' = results - 1
        /\ active' = IF active > 0 THEN active - 1 ELSE 0
    BY <1>1, Zenon DEF LoopResult
  <2> QED  BY <1>0, <2>1, <2>2, SlotsAbout
<1>2. CASE LoopDispatch
  <2>1. picked \in Fibers /\ active < NumWorkers /\ loop = "dispatch"
    BY <1>2, Zenon DEF LoopDispatch, Phases
  <2>2. UNCHANGED <<results, ctxDone, epoch>>
    BY <1>2, Zenon DEF LoopDispatch
  <2>3. CASE IsRunnable(fb[picked])
    <3>1. picked \notin Busy
      BY <2>1, Zenon DEF QueuedNeverStarted, Busy, InFlightOf, InFlight
    <3>2. Busy' = Busy \cup {picked}
      BY <1>2, <2>1, <2>2, <2>3, Zenon DEF LoopDispatch, Busy, InFlightOf, InFlight
    <3>3. Cardinality(Busy') = Cardinality(Busy) + 1
      BY <3>1, <3>2, BusyFinite, FS_AddElement, Zenon
    <3>4. active' = active + 1
      BY <1>2, <2>3, Zenon DEF LoopDispatch
    <3> QED  BY <1>0, <2>1, <2>2, <3>3, <3>4, SlotsAbout
  <2>4. CASE ~IsRunnable(fb[picked])
    <3>1. Busy' = Busy /\ active' = active
      BY <1>2, <2>4, Zenon DEF LoopDispatch, Busy, InFlightOf, InFlight
    <3> QED  BY <1>0, <2>1, <2>2, <3>1, SlotsAbout, Zenon
  <2> QED  BY <2>3, <2>4
<1>3. CASE LoopExit
  BY <1>3, SlotsAbout, Zenon DEF LoopExit
<1>4. CASE Start
  <2>1. \A f \in Fibers : run'[f] # epoch'
    BY <1>4 DEF Start
  <2>2. Busy' = {}
    BY <2>1, Zenon DEF Busy, InFlightOf, InFlight
  <2>3. active' = 0 /\ results' = 0
    BY <1>4, Zenon DEF Start
  <2> QED  BY <1>0, <2>2, <2>3, FS_EmptySet, SlotsAbout
<1>5. ASSUME NEW f \in Fibers, GoReport(f) PROVE SlotsExact'
  <2>1. UNCHANGED <<loop, active, ctxDone, epoch, run>>
    BY <1>5, Zenon DEF GoReport
  <2>2. CASE f \in Busy
    <3>1. Busy' = Busy \ {f}
      BY <1>5, <2>1, Zenon DEF GoReport, GoStep, Busy, InFlightOf, InFlight
    <3>2. Cardinality(Busy') = Cardinality(Busy) - 1
      BY <2>2, <3>1, BusyFinite, FS_RemoveElement, Zenon
    <3>3. results' = results + 1 \/ (results' = results /\ ctxDone)
      BY <1>5, <2>2 DEF GoReport, Busy, InFlightOf
    <3> QED  BY <1>0, <2>1, <3>2, <3>3, SlotsAbout
  <2>3. CASE f \notin Busy
    <3>1. gor[f] = "report" /\ run[f] # epoch
      BY <1>5, <2>3, Zenon DEF GoReport, GoStep, Busy, InFlightOf, InFlight
    <3>2. Busy' = Busy /\ results' = results
      BY <1>5, <2>1, <3>1, Zenon DEF GoReport, GoStep, Busy, InFlightOf, InFlight
    <3> QED  BY <1>0, <2>1, <3>2, SlotsAbout, Zenon
  <2> QED  BY <2>2, <2>3, Zenon
<1>6. CASE /\ Busy' = Busy /\ UNCHANGED <<active, results>>
           /\ loop' # "off" => loop # "off"
           /\ ctxDone => ctxDone'
  BY <1>0, <1>6, SlotsAbout, Zenon
<1>7. TypeOK
  BY Zenon DEF CountInv
<1> QED  BY <1>1, <1>2, <1>3, <1>4, <1>5, <1>6, <1>7, SlotsFrame, Zenon

\* The whole invariant holds of a new runtime, and every step keeps it.
THEOREM Invariance == Spec => []IInv
<1>1. Init => IInv
  <2> SUFFICES ASSUME Init PROVE IInv
    OBVIOUS
  <2>1. Phases /\ ReapBarrier /\ ReapedNeverRuns
    BY FibersAssumption, Zenon DEF Init, Phases, ReapBarrier, ReapedNeverRuns
  <2>2. SlotsExact
    BY SlotsAbout, Zenon DEF Init
  <2> QED  BY <2>1, <2>2, InitCountInv DEF IInv
<1>2. IInv /\ [Next]_vars => IInv'
  <2> SUFFICES ASSUME IInv, [Next]_vars PROVE IInv'
    OBVIOUS
  <2>1. CountInv'
    BY NextCountInv, Zenon DEF IInv
  <2>2. TypeOK
    BY DEF IInv, CountInv
  <2>3. Phases' /\ ReapBarrier' /\ ReapedNeverRuns' /\ SlotsExact'
    BY <2>2, PhasesStep, BarrierStep, ReapedStep, SlotsStep, Zenon DEF IInv
  <2> QED  BY <2>1, <2>3, Zenon DEF IInv
<1> QED  BY <1>1, <1>2, PTL DEF Spec

\* A stopped runtime has no loop and no admitted fiber that waits for one,
\* whatever Spawn calls Stop and Reset raced with.
THEOREM StopIsQuiet == Spec => []StoppedIsQuiet
<1>1. IInv => StoppedIsQuiet
  BY Zenon DEF IInv, Phases, ReapBarrier, StoppedIsQuiet
<1> QED  BY <1>1, Invariance, PTL

\* A fiber that a Stop reaped never runs, in no later run and however many
\* there are.
THEOREM ReapedStayOut == Spec => []ReapedNeverRuns
BY Invariance, PTL DEF IInv

\* No run ever has more than NumWorkers fibers in flight, and its loop loses no
\* slot, for every number of workers and every capacity of the result channel.
THEOREM SlotsAreExact == Spec => []SlotsExact
BY Invariance, PTL DEF IInv

-----------------------------------------------------------------------------
(* A single run *)

\* In a single run Spawn never reports success for a fiber that nobody has: the
\* scheduler, the loop, its goroutine or the reap of Stop does.
THEOREM SuccessMeansOwned == OneRunSpec => []SuccessIsOwned
<1>1. Init => OneRunInv
  BY DEF Init, OneRunInv
<1>2. [OneRunNext]_vars => [Next]_vars
  BY Zenon DEF OneRunNext, OneRun, StartOnce, Next, Lifecycle
<1>3. OneRunSpec => Spec
  BY <1>2, PTL DEF OneRunSpec, Spec
<1>4. IInv /\ OneRunInv /\ [OneRunNext]_vars => OneRunInv'
  BY OneRunStep, Zenon
<1>5. IInv /\ OneRunInv => SuccessIsOwned
  <2> SUFFICES ASSUME IInv, OneRunInv, NEW f \in Fibers, sp[f] \in {"record", "ok"},
                      gor[f] = "none", lc # "reapScan",
                      f \notin runQueue, picked # f, f \notin reaped
               PROVE  FALSE
    BY Zenon DEF SuccessIsOwned
  <2>1. f \in fibers \cap admitted
    BY Zenon DEF OneRunInv
  <2>2. stopped \/ lc \in {"reapRelease", "stopWait"}
    BY Zenon DEF OneRunInv
  <2> QED  BY <2>1, <2>2, Zenon DEF IInv, ReapBarrier
<1> QED  BY <1>1, <1>3, <1>4, <1>5, Invariance, PTL DEF OneRunSpec
=============================================================================
