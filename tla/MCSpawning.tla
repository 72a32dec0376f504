----------------------------- MODULE MCSpawning -----------------------------
(***************************************************************************)
(* The two extensions of Spawn for TLC.  A behaviour uses one: a group, on *)
(* a runtime with a slot for every fiber, or results and timeouts, on one  *)
(* with a single slot.  The variables of the other do not change.          *)
(***************************************************************************)
EXTENDS SpawnGroup

CONSTANT TimedFiber   \* a fiber that is always made by SpawnWithTimeout

ASSUME SpawningAssumption == TimedFiber \in Fibers

VARIABLES use, kind, fn, ch, timedOut, received

Ext == INSTANCE SpawnExt WITH NumWorkers <- 1

extVars == <<kind, fn, ch, timedOut, received>>

MCInit ==
  /\ GroupInit /\ Ext!ExtInit /\ use \in {"group", "ext"}
  /\ kind[TimedFiber] = "timed"
  /\ use = "group" => \A f \in Fibers : kind[f] = "timed"

Called == {f \in Fibers : sp[f] # "idle"}
Calling == {f \in Called : sp[f] \notin {"ok"} \cup SpawnFailed}

\* Bounds of the results and timeouts: one goroutine makes the calls, and only one
\* call if the runtime is stopped.
ExtBound ==
  /\ Cardinality(Calling') <= 1
  /\ lc' # "idle" \/ (epoch' > 0 /\ stopped') => Cardinality(Called') <= 1

\* Bounds of the groups: Wait is called first, as it changes nothing before it
\* wakes up, so that an early call stands for the later ones; and no call of Spawn
\* begins after it woke up.
GroupBound ==
  /\ waiter' # "idle"
  /\ waiter \in {"awake", "returned"} => \A f \in Fibers : grp[f] = "idle" => grp'[f] = "idle"

MCNext ==
  /\ UNCHANGED use
  /\ \/ use = "group" /\ GroupNext /\ GroupBound /\ UNCHANGED extVars
     \/ use = "ext" /\ Ext!ExtNext /\ ExtBound /\ UNCHANGED groupVars

mcVars == <<use, allVars, extVars>>

\* A step of the use at hand.
Fair(GroupStep, ExtStep) ==
  /\ UNCHANGED use
  /\ \/ use = "group" /\ GroupStep /\ UNCHANGED extVars
     \/ use = "ext" /\ ExtStep /\ UNCHANGED groupVars

\* Fairness as in Runtime.  A call of Spawn or of the group's Wait, once begun, goes
\* on; the functions given to a group and to SpawnWithResult end; timers fire.
\* Every fiber takes finitely many of the steps of a call and one of the other kinds,
\* so that one condition for all fibers says as much as one for each.
MCSpec ==
  /\ MCInit /\ [][MCNext]_mcVars
  /\ WF_mcVars(Fair(\E f \in Fibers : GroupSpawn(f) \/ GroupSpawned(f) \/ GroupErr(f) \/ GroupId(f),
                   \E f \in Fibers : SpawnRest(f) /\ UNCHANGED extVars))
  /\ SF_mcVars(Fair(\E f \in Fibers : FnDone(f), \E f \in Fibers : Ext!TimerFires(f)))
  /\ \A f \in Fibers : WF_mcVars(Fair(GroupGoroutine(f), Ext!ExtGoes(f)))
  /\ WF_mcVars(Fair(LoopTick \/ LoopNext \/ LoopPop \/ LoopDispatch,
                   Ext!LoopTick \/ Ext!LoopNext \/ Ext!LoopPop \/ Ext!LoopDispatch)
              /\ UNCHANGED <<groupVars, extVars>>)
  /\ SF_mcVars(LoopResult /\ UNCHANGED <<use, groupVars, extVars>>)
  /\ SF_mcVars(LoopExit /\ UNCHANGED <<use, groupVars, extVars>>)
  /\ WF_mcVars(Fair(lc # "idle" /\ GroupLifecycle, lc # "idle" /\ Lifecycle /\ UNCHANGED extVars))
  /\ WF_mcVars(Fair(WaitWakes \/ WaitReturns, \E f \in Fibers : Ext!Send(f)))

-----------------------------------------------------------------------------
\* The counter of a group never goes below zero, and the result of a fiber is
\* delivered once, or not at all if its function panicked.
ResultsExact == GroupTypeOK /\ (use = "ext" => Ext!ResultsExact)

\* A function that hangs costs no slot longer than its timeout, a result that
\* nobody reads blocks no fiber, and a goroutine abandoned by its fiber ends when
\* its function does.  A fiber is spawned once, so all of them together are settled
\* at last.
SlotsComeBack == []<>(use = "group" \/ \A f \in Fibers : Ext!Settled(f))
=============================================================================
