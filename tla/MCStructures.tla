---------------------------- MODULE MCStructures ----------------------------
(***************************************************************************)
(* The schedulers, the metrics and the event tracker for TLC.  A behaviour *)
(* uses one of them, picked by the initial state; the variables of the     *)
(* others keep their initial values.  The priority scheduler comes in two  *)
(* uses: with callers that block fibers and change priorities, and with    *)
(* fibers that finish while they are queued.                               *)
(***************************************************************************)
EXTENDS Telemetry, WorkStealing, TLC

CONSTANTS SchedFibers, CompletedMax, CompletedTarget, MaxMarks,    \* BaseScheduler
          Priorities, NewPriorities, AgeEvery, AgeCap,             \* PriorityScheduler
          MaxAway   \* bound: fibers in use and not in the heap, at once

ASSUME StructuresAssumption ==
  /\ CompletedTarget \in 0..CompletedMax
  /\ Priorities \cup NewPriorities \subseteq 0..AgeCap /\ AgeEvery > 0 /\ MaxAway \in Nat
  /\ NoEvent \notin Events /\ IsFiniteSet(Fibers) /\ maxCompletedTracked \in Nat

VARIABLES object,
          runQueue, blockedQueue, completed, totalScheduled,       \* BaseScheduler
          totalCompleted, baseAt, arrived, marks, pruned,
          pqueue, popCount, prioBlocked, priority, created,        \* PriorityScheduler
          finished, clearing, where, panicked

baseVars == <<runQueue, blockedQueue, completed, totalScheduled, totalCompleted,
              baseAt, arrived, marks, pruned>>
prioVars == <<pqueue, popCount, prioBlocked, priority, created, finished, clearing,
              where, panicked>>
\* WorkStealing but for what it shares with BaseScheduler.
poolVars == <<localQueue, blocked, at, scan, loopVars, ctl, duringNext, duringClear>>
trackerVars == <<events, head, tail, count>>
structureVars == <<object, running, stopped, baseVars, prioVars, poolVars, vars, trackerVars>>

Base == INSTANCE BaseScheduler WITH Fibers <- SchedFibers, at <- baseAt
Adjusting == INSTANCE PriorityScheduler WITH
               Fibers <- SchedFibers, blockedQueue <- prioBlocked,
               Adjusted <- SchedFibers, FinishQueued <- FALSE
Finishing == INSTANCE PriorityScheduler WITH
               Fibers <- SchedFibers, blockedQueue <- prioBlocked,
               Adjusted <- {}, FinishQueued <- TRUE

\* Bounds of the histogram.
Bounds == <<2, 3>>

Objects == {"base", "adjusting", "finishing", "stealing", "metrics", "tracker"}

StructureInit ==
  /\ object \in Objects
  /\ Base!Init /\ Adjusting!Init /\ StealInit /\ Init /\ Tracker!Init

BaseNext ==
  /\ object = "base" /\ Base!Next
  /\ UNCHANGED <<object, prioVars, poolVars, vars, trackerVars>>

PriorityNext ==
  /\ \/ object = "adjusting" /\ Adjusting!Next
     \/ object = "finishing" /\ Finishing!Next
  /\ Cardinality({f \in SchedFibers : where'[f] \notin {"out", "queued"}}) <= MaxAway
  /\ UNCHANGED <<object, running, stopped, baseVars, poolVars, vars, trackerVars>>

StealingNext ==
  /\ object = "stealing" /\ StealNext
  /\ UNCHANGED <<object, baseVars, prioVars, vars, trackerVars>>

MeterNext ==
  /\ object = "metrics" /\ Next
  /\ UNCHANGED <<object, running, stopped, baseVars, prioVars, poolVars, trackerVars>>

TrackerNext ==
  /\ object = "tracker" /\ Tracker!Next
  /\ UNCHANGED <<object, running, stopped, baseVars, prioVars, poolVars, vars>>

StructureNext == BaseNext \/ PriorityNext \/ StealingNext \/ MeterNext \/ TrackerNext

StructureSpec == StructureInit /\ [][StructureNext]_structureVars

Interchangeable == Permutations(SchedFibers)
-----------------------------------------------------------------------------
\* Type invariant of the schedulers, the metrics and the tracker.
StructureTypeOK ==
  /\ object \in Objects
  /\ object = "base" => Base!TypeOK
  /\ object \in {"adjusting", "finishing"} => Adjusting!TypeOK
  /\ object = "stealing" => StealTypeOK
  /\ object = "metrics" => TypeOK
  /\ object = "tracker" => Tracker!TypeOK

\* A structure holds what the calls put there.  Whatever calls were made of a
\* scheduler, a fiber is in one queue, once, or blocked, or gone, and
\* BaseScheduler counts every completion; the buckets of the histogram count the
\* durations recorded up to their bounds; GetRecentEvents and GetEvents read the
\* same events from the ring, one backwards and one forwards.
ContentsExact ==
  /\ StructureTypeOK
  /\ object = "base" => Base!QueuesExact /\ Base!CompletionsCounted
  /\ object \in {"adjusting", "finishing"} => Adjusting!NobodyLost
  /\ object = "metrics" => HistogramExact
  /\ object = "tracker" => Tracker!RecentIsSuffix

\* PriorityScheduler: the index field is the position in the heap, as long as
\* RemoveFinished finds nothing to remove.
IndexIsPosition == object = "adjusting" => Adjusting!IndexIsPosition

\* Next returns the fiber its policy names: the one that has been in the run
\* queue longest, or the best one after ageing.
PolicyKept == Base!ArrivalOrder /\ Adjusting!BestFirst
=============================================================================
