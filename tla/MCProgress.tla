----------------------------- MODULE MCProgress -----------------------------
(***************************************************************************)
(* What must go on beside the fibers, for TLC: the calls of Next on the    *)
(* priority scheduler and on the work-stealing scheduler, and the checks   *)
(* of the deadlock detector.  A behaviour uses one of the three, picked by *)
(* the initial state; the variables of the others keep their initial       *)
(* values.                                                                 *)
(***************************************************************************)
EXTENDS DeadlockDetector

CONSTANTS PrioFibers, Priorities, AgeEvery, AgeCap,      \* PriorityScheduler
          StealFibers, StealWorkers                      \* WorkStealing

ASSUME ProgressAssumption ==
  /\ Priorities \subseteq 0..AgeCap /\ AgeEvery > 0
  /\ StealFibers \subseteq PrioFibers /\ StealWorkers > 0

VARIABLES part,
          pqueue, popCount, blockedQueue, priority, created, finished, clearing,
          where, panicked,                                         \* PriorityScheduler
          localQueue, running, stopped, blocked, at, scan, nextWorker, loop, workerIdx,
          victims, ctl, duringNext, duringClear                    \* WorkStealing

prioVars == <<pqueue, popCount, blockedQueue, priority, created, finished, clearing,
              where, panicked>>
stealVars == <<localQueue, running, stopped, blocked, at, scan, nextWorker, loop,
               workerIdx, victims, ctl, duringNext, duringClear>>
progressVars == <<part, prioVars, stealVars, vars>>

\* Nobody lowers a priority; fibers finish while they are queued.
Prio == INSTANCE PriorityScheduler WITH
          Fibers <- PrioFibers, Adjusted <- {}, NewPriorities <- {}, FinishQueued <- TRUE
Steal == INSTANCE WorkStealing WITH NumWorkers <- StealWorkers

ProgressInit ==
  /\ part \in {"priority", "stealing", "detector"}
  /\ Prio!Init /\ Steal!StealInit /\ Init
  /\ part # "detector" => timeout = Horizon

\* A step A of one part.
PrioStep(A) == part = "priority" /\ A /\ UNCHANGED <<part, stealVars, vars>>
StealStep(A) == part = "stealing" /\ A /\ UNCHANGED <<part, prioVars, vars>>
DetectorStep(A) == part = "detector" /\ A /\ UNCHANGED <<part, prioVars, stealVars>>

\* Bound of the detector: SetEnabled is called while it is stopped.  Only Start reads
\* what it sets, so that a later call would change nothing before the next Start.
SetBetweenRuns == enabled' = enabled \/ rt = "stopped"

ProgressNext ==
  PrioStep(Prio!Next) \/ StealStep(Steal!StealNext) \/ DetectorStep(Next /\ SetBetweenRuns)

\* The execution loop of the runtime keeps asking for the next fiber.
Ask ==
  \/ PrioStep(Prio!NextFiber /\ UNCHANGED clearing)
  \/ StealStep(Steal!NextCall /\ UNCHANGED <<running, stopped>>)

\* The detector's goroutine runs and time passes; the fibers and the callers of
\* the API owe nothing.
DetectorFairness ==
  /\ WF_progressVars(DetectorStep(Tick)) /\ WF_progressVars(DetectorStep(DetectorStart))
  /\ SF_progressVars(DetectorStep(CheckBegins))
  /\ WF_progressVars(DetectorStep(CheckEnds \/ \E f \in Fibers : ScanFiber(f)))

ProgressSpec ==
  /\ ProgressInit /\ [][ProgressNext]_progressVars
  /\ WF_progressVars(Ask) /\ DetectorFairness
-----------------------------------------------------------------------------
Queued(f) ==
  \/ part = "priority" /\ where[f] = "queued"
  \/ part = "stealing" /\ f \in StealFibers /\ at[f] = "queued" /\ ~stopped

\* A queued fiber gets its turn while the loop asks for fibers: ageing brings it
\* to the top of PriorityScheduler, and work stealing looks into its queue unless
\* somebody stops the scheduler.
QueuedGetsTurn == \A f \in PrioFibers : Queued(f) ~> ~Queued(f)
=============================================================================
