----------------------------- MODULE SpawnGroup -----------------------------
(***************************************************************************)
(* SpawnGroup (internal/runtime/spawn_group.go) on top of the runtime: one *)
(* group spawns every fiber, each from a goroutine of its own, and one     *)
(* goroutine waits.  The function given to Runtime.Spawn ends with         *)
(* sg.wg.Done(); sync.WaitGroup is its counter (which panics below zero    *)
(* and is allowed to go there here, so that a property can say it does     *)
(* not).                                                                   *)
(***************************************************************************)
EXTENDS Runtime

CONSTANT StopOverlaps   \* Stop may be called while Spawn calls are under way

ASSUME GroupAssumption == StopOverlaps \in BOOLEAN

VARIABLES wg,       \* the counter of sg.wg
          grp,      \* where each SpawnGroup.Spawn call stands
          fnDone,   \* the fibers whose function has called wg.Done
          waiter,   \* where the Wait call stands
          reported  \* the errors Wait returned, by fiber

groupVars == <<wg, grp, fnDone, waiter, reported>>
allVars == <<vars, groupVars>>

GroupPC == {"idle", "spawn", "record", "done", "failed", "append", "member"}

GroupInit ==
  /\ Init
  /\ wg = 0 /\ grp = [f \in Fibers |-> "idle"] /\ fnDone = {}
  /\ waiter = "idle" /\ reported = {}

\* sg.errs and sg.ids
Errs == {f \in Fibers : grp[f] \in {"done", "failed"}}
IDs  == {f \in Fibers : grp[f] = "member"}

GroupGoto(f, from, to) == grp[f] = from /\ grp' = [grp EXCEPT ![f] = to]

Spawning == {f \in Fibers : grp[f] = "spawn"}

\* Mutant of GroupAdd: the counter is only raised once the Spawn succeeded.
GroupAddLate(f) ==
  /\ StopOverlaps \/ lc = "idle"
  /\ GroupGoto(f, "idle", "spawn")
  /\ UNCHANGED <<wg, vars, fnDone, waiter, reported>>

GroupAdd(f) ==
  /\ StopOverlaps \/ lc = "idle"
  /\ GroupGoto(f, "idle", "spawn")
  /\ wg' = wg + 1
  /\ UNCHANGED <<vars, fnDone, waiter, reported>>

GroupSpawn(f) == grp[f] = "spawn" /\ Spawn(f) /\ UNCHANGED groupVars

\* Runtime.Spawn has returned.
GroupSpawned(f) ==
  /\ \/ sp[f] \in SpawnFailed /\ GroupGoto(f, "spawn", "record")
     \/ sp[f] = "ok" /\ GroupGoto(f, "spawn", "append")
  /\ UNCHANGED <<vars, wg, fnDone, waiter, reported>>

\* Mutant of GroupErr: Done comes before the error is appended.
GroupErrDoneFirst(f) ==
  /\ \/ GroupGoto(f, "record", "append") /\ wg' = wg - 1
     \/ sp[f] \in SpawnFailed /\ GroupGoto(f, "append", "failed") /\ UNCHANGED wg
  /\ UNCHANGED <<vars, fnDone, waiter, reported>>

\* The error is appended, then Done is called.
GroupErr(f) ==
  /\ \/ GroupGoto(f, "record", "done") /\ UNCHANGED wg
     \/ GroupGoto(f, "done", "failed") /\ wg' = wg - 1
  /\ UNCHANGED <<vars, fnDone, waiter, reported>>

GroupId(f) ==
  /\ sp[f] = "ok" /\ GroupGoto(f, "append", "member")
  /\ UNCHANGED <<vars, wg, fnDone, waiter, reported>>

\* Mutant of FnDone: the deferred Done is lost.
FnDoneLost(f) ==
  /\ gor[f] = "running" /\ ~IsBlocked(fb[f]) /\ f \notin fnDone
  /\ fnDone' = fnDone \cup {f}
  /\ UNCHANGED <<vars, wg, grp, waiter, reported>>

\* fn has returned or panicked: the deferred Done of the fiber function.
FnDone(f) ==
  /\ gor[f] = "running" /\ ~IsBlocked(fb[f]) /\ f \notin fnDone
  /\ wg' = wg - 1 /\ fnDone' = fnDone \cup {f}
  /\ UNCHANGED <<vars, grp, waiter, reported>>

\* The goroutine of f; its function returns, and does nothing else, after Done.
GroupGoroutine(f) ==
  /\ \/ f \notin fnDone /\ (FiberBlock(f) \/ FiberUnblock(f))
     \/ f \in fnDone /\ GoReturn(f)
     \/ GoRun(f) \/ GoComplete(f) \/ GoUnlink(f) \/ GoRelease(f) \/ GoReport(f)
  /\ UNCHANGED groupVars

WaitBegins ==
  /\ waiter = "idle" /\ waiter' = "waiting"
  /\ UNCHANGED <<vars, wg, grp, fnDone, reported>>

\* wg.Wait returns ...
WaitWakes ==
  /\ waiter = "waiting" /\ wg = 0
  /\ waiter' = "awake"
  /\ UNCHANGED <<vars, wg, grp, fnDone, reported>>

\* ... and the errors are copied under sg.mu.
WaitReturns ==
  /\ waiter = "awake" /\ waiter' = "returned"
  /\ reported' = Errs
  /\ UNCHANGED <<vars, wg, grp, fnDone>>

GroupLifecycle ==
  /\ StopOverlaps \/ lc # "idle" \/ Spawning = {}
  /\ Lifecycle
  /\ UNCHANGED groupVars

GroupCall(f) == GroupAdd(f) \/ GroupSpawn(f) \/ GroupSpawned(f) \/ GroupErr(f) \/ GroupId(f)

GroupNext ==
  \/ \E f \in Fibers : GroupCall(f) \/ FnDone(f) \/ GroupGoroutine(f)
  \/ WaitBegins \/ WaitWakes \/ WaitReturns
  \/ Loop /\ UNCHANGED groupVars
  \/ GroupLifecycle

GroupSpec == GroupInit /\ [][GroupNext]_allVars

-----------------------------------------------------------------------------
(* Properties *)

\* Type invariant of the group; the counter is never negative, where
\* sync.WaitGroup would panic.
GroupTypeOK ==
  /\ wg \in 0..Cardinality(Fibers)
  /\ grp \in [Fibers -> GroupPC]
  /\ fnDone \subseteq Fibers /\ reported \subseteq Fibers
  /\ waiter \in {"idle", "waiting", "awake", "returned"}

\* "Wait blocks until every fiber in the group finishes" (api.md): when the
\* counter lets Wait go, every call of Spawn that began has either failed or
\* its function has run to the end.
WaitMeansFinished ==
  [][waiter = "waiting" /\ waiter' = "awake" =>
       \A f \in Fibers : grp[f] # "idle" => f \in fnDone \/ sp[f] \in SpawnFailed]_allVars

\* "Append the error before Done() so Wait() cannot return before the error is
\* visible in sg.errs": the calls that had failed when Wait woke are reported.
ErrorsVisible ==
  [][waiter = "waiting" /\ waiter' = "awake" =>
       \A f \in Fibers : grp[f] # "idle" /\ sp[f] \in SpawnFailed => f \in Errs]_allVars

\* Wait returns, unless a Stop discarded one of the group's fibers before it
\* ran: its function, and so its Done, is never called.
WaitEnds == waiter = "waiting" ~> waiter = "returned" \/ reaped # {}
=============================================================================
