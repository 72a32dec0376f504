------------------------------ MODULE Metrics ------------------------------
(***************************************************************************)
(* The counters and the run-time histogram (internal/metrics/metrics.go)   *)
(* and the order in which the runtime calls them.  Every method runs under *)
(* the mutex of the object, so each is one step; but Spawn, the goroutine  *)
(* of the fiber, Stop and Reset call them without a common lock, so the    *)
(* calls for one fiber come in several orders.  Each fiber is spawned      *)
(* once.  Left out: time stamps, averages, stack memory, the steal rate,   *)
(* and the methods that nobody calls (RecordYield, RecordFiberBlocked ...).*)
(***************************************************************************)
EXTENDS Integers, Sequences, FiniteSets, FiniteSetsExt, Functions

CONSTANTS Fibers,
          histogramBounds,     \* ascending; the last bucket has no bound
          Durations,           \* CPU times of fibers
          maxCompletedTracked

ASSUME MetricsAssumption ==
  IsFiniteSet(Fibers) /\ Durations \subseteq Int /\ maxCompletedTracked \in Nat

VARIABLES total,        \* the per-run counters
          resetOffset, panics,
          ActiveFibers, PeakFiberCount,
          tracked,      \* the map `completed'
          buckets,      \* Count per bucket
          \* the runtime
          spawn, run,   \* per fiber: where Spawn and its execution stand
          \* history
          observed,     \* how often each duration was recorded since Reset
          live,         \* fibers whose creation was recorded since Reset, not their end
          foreign,      \* fibers whose end was recorded since Reset and that were not live
          late          \* fibers whose creation was recorded since Reset, after their end

gauges == <<ActiveFibers, PeakFiberCount, live, foreign, late>>
histogram == <<buckets, observed>>
vars == <<total, resetOffset, panics, tracked, gauges, histogram, spawn, run>>

Counters == {"fibersCreated", "fibersCompleted", "contextSwitches", "scheduleCalls"}
Zero == [c \in Counters |-> 0]
Buckets == 1..(Len(histogramBounds) + 1)

NewLatencyHistogram == [i \in Buckets |-> 0]

Init ==
  /\ total = Zero /\ resetOffset = Zero /\ panics = 0
  /\ ActiveFibers = 0 /\ PeakFiberCount = 0 /\ tracked = {}
  /\ buckets = NewLatencyHistogram /\ observed = [d \in Durations |-> 0]
  /\ spawn = [f \in Fibers |-> "none"] /\ run = [f \in Fibers |-> "none"]
  /\ live = {} /\ foreign = {} /\ late = {}

Goto(v, f, from, to) == v[f] = from /\ v' = [v EXCEPT ![f] = to]

Bump(c) == total' = [total EXCEPT ![c] = @ + 1]

Ended(f) == run[f] \in {"done", "failed", "reaped"}
-----------------------------------------------------------------------------
(* Metrics and LatencyHistogram *)

Fits(d, i) == i = Len(histogramBounds) + 1 \/ d <= histogramBounds[i]

\* The first bucket that fits, and all above it.
Record(d) ==
  buckets' = [i \in Buckets |->
                buckets[i] + IF i >= Min({j \in Buckets : Fits(d, j)}) THEN 1 ELSE 0]

RecordFiberCreated(f) ==
  /\ Bump("fibersCreated")
  /\ ActiveFibers' = ActiveFibers + 1
  /\ PeakFiberCount' = Max({ActiveFibers + 1, PeakFiberCount})
  /\ IF Ended(f) THEN late' = late \cup {f} /\ UNCHANGED live
                 ELSE live' = live \cup {f} /\ UNCHANGED late
  /\ UNCHANGED foreign

\* Mutant of Leaves: the last fiber stays in the gauge.
LeavesButOne(f) ==
  /\ ActiveFibers' = IF ActiveFibers > 1 THEN ActiveFibers - 1 ELSE ActiveFibers
  /\ live' = live \ {f}
  /\ foreign' = IF f \in live THEN foreign ELSE foreign \cup {f}
  /\ UNCHANGED <<PeakFiberCount, late>>

\* A fiber ends: the gauge is decremented unless it is zero.
Leaves(f) ==
  /\ ActiveFibers' = Max({ActiveFibers - 1, 0})
  /\ live' = live \ {f}
  /\ foreign' = IF f \in live THEN foreign ELSE foreign \cup {f}
  /\ UNCHANGED <<PeakFiberCount, late>>

\* Any entries go: the iteration of a map has no order.
trimCompletedMap(ids, target) == {kept \in SUBSET ids : Cardinality(kept) = target}

\* The fiber is entered and, above the limit, the map is cut to half of it.
Track(f) ==
  LET ids == tracked \cup {f}
  IN  IF Cardinality(ids) > maxCompletedTracked
        THEN tracked' \in trimCompletedMap(ids, maxCompletedTracked \div 2)
        ELSE tracked' = ids

RecordFiberCompleted(f, d) ==
  IF f \in tracked
    THEN UNCHANGED <<total, tracked, gauges, histogram>>
    ELSE /\ Track(f) /\ Bump("fibersCompleted") /\ Leaves(f)
         /\ IF d > 0 THEN Record(d) /\ observed' = [observed EXCEPT ![d] = @ + 1]
                     ELSE UNCHANGED histogram

\* Mutant of MetricsReset: the calls of the run are forgotten.
MetricsResetForgets ==
  /\ total' = Zero
  /\ ActiveFibers' = 0 /\ PeakFiberCount' = 0 /\ tracked' = {}
  /\ buckets' = NewLatencyHistogram /\ observed' = [d \in Durations |-> 0]
  /\ live' = {} /\ foreign' = {} /\ late' = {}
  /\ UNCHANGED <<resetOffset, panics>>

\* Metrics.Reset
MetricsReset ==
  /\ resetOffset' = [c \in Counters |-> resetOffset[c] + total[c]]
  /\ total' = Zero
  /\ ActiveFibers' = 0 /\ PeakFiberCount' = 0 /\ tracked' = {}
  /\ buckets' = NewLatencyHistogram /\ observed' = [d \in Durations |-> 0]
  /\ live' = {} /\ foreign' = {} /\ late' = {}
  /\ UNCHANGED panics

\* GetLifetimeSnapshot
Lifetime(c) == total[c] + resetOffset[c]
-----------------------------------------------------------------------------
(* The calls of the runtime *)

\* Spawn schedules f ...
SpawnSchedules(f) ==
  /\ Goto(spawn, f, "none", "scheduled") /\ run' = [run EXCEPT ![f] = "queued"]
  /\ UNCHANGED <<total, resetOffset, panics, tracked, gauges, histogram>>

\* ... and meets Stop: f is withdrawn, unless it was dispatched, ...
SpawnRollsBack(f) ==
  /\ Goto(spawn, f, "scheduled", "failed")
  /\ run' = IF run[f] = "queued" THEN [run EXCEPT ![f] = "withdrawn"] ELSE run
  /\ UNCHANGED <<total, resetOffset, panics, tracked, gauges, histogram>>

\* ... or commits, and afterwards records the creation ...
SpawnCommits(f) ==
  /\ Goto(spawn, f, "scheduled", "admitted")
  /\ UNCHANGED <<total, resetOffset, panics, tracked, gauges, histogram, run>>

SpawnRecords(f) ==
  /\ Goto(spawn, f, "admitted", "created") /\ RecordFiberCreated(f)
  /\ UNCHANGED <<resetOffset, panics, tracked, histogram, run>>

\* ... and the call of the scheduler (RecordScheduleCall).
SpawnReturns(f) ==
  /\ Goto(spawn, f, "created", "returned") /\ Bump("scheduleCalls")
  /\ UNCHANGED <<resetOffset, panics, tracked, gauges, histogram, run>>

\* dispatch: RecordContextSwitch
Dispatch(f) ==
  /\ Goto(run, f, "queued", "running") /\ Bump("contextSwitches")
  /\ UNCHANGED <<resetOffset, panics, tracked, gauges, histogram, spawn>>

\* complete: RecordFiberCompleted, and RecordFiberPanic if the function panicked.
Complete(f, d, result) ==
  /\ Goto(run, f, "running", result)
  /\ RecordFiberCompleted(f, d)
  /\ panics' = IF result = "failed" THEN panics + 1 ELSE panics
  /\ UNCHANGED <<resetOffset, spawn>>

\* reapPending: RecordFiberCancelled, for a fiber that is admitted and queued.
Reap(f) ==
  /\ spawn[f] \in {"admitted", "created", "returned"}
  /\ Goto(run, f, "queued", "reaped") /\ Leaves(f)
  /\ UNCHANGED <<total, resetOffset, panics, tracked, histogram, spawn>>

\* Runtime.Reset, after a Stop that reaped but perhaps gave up waiting for the
\* fibers that run.  A fiber whose Spawn is under way leaves the queue.
Reset ==
  /\ \A f \in Fibers : run[f] = "queued" => spawn[f] = "scheduled"
  /\ run' = [f \in Fibers |-> IF run[f] = "queued" THEN "lost" ELSE run[f]]
  /\ MetricsReset
  /\ UNCHANGED spawn

Next ==
  \/ \E f \in Fibers :
       \/ SpawnSchedules(f) \/ SpawnRollsBack(f) \/ SpawnCommits(f) \/ SpawnRecords(f)
       \/ SpawnReturns(f) \/ Dispatch(f) \/ Reap(f)
       \/ \E d \in Durations, result \in {"done", "failed"} : Complete(f, d, result)
  \/ Reset

Spec == Init /\ [][Next]_vars
-----------------------------------------------------------------------------
(* Properties *)

\* Type invariant: the map of completed fibers keeps its limit, and the gauge
\* never exceeds its peak.
TypeOK ==
  /\ {total, resetOffset} \subseteq [Counters -> Nat] /\ panics \in Nat
  /\ PeakFiberCount \in Nat /\ ActiveFibers \in 0..PeakFiberCount
  /\ tracked \subseteq Fibers /\ Cardinality(tracked) <= maxCompletedTracked
  /\ buckets \in [Buckets -> Nat] /\ observed \in [Durations -> Nat]
  /\ spawn \in [Fibers -> {"none", "scheduled", "failed", "admitted", "created", "returned"}]
  /\ run \in [Fibers -> {"none", "queued", "running", "done", "failed", "reaped",
                         "withdrawn", "lost"}]

\* The lifetime counters and the panics count each call once, whatever Reset and
\* the trimming of the completed map do: GetLifetimeSnapshot promises Prometheus
\* counters that never decrease.
LifetimeExact ==
  LET In(v, S) == Cardinality({f \in Fibers : v[f] \in S})
  IN  /\ Lifetime("fibersCreated") = In(spawn, {"created", "returned"})
      /\ Lifetime("scheduleCalls") = In(spawn, {"returned"})
      /\ Lifetime("contextSwitches") = In(run, {"running", "done", "failed"})
      /\ Lifetime("fibersCompleted") = In(run, {"done", "failed"})
      /\ panics = In(run, {"failed"})

\* Why each call counts once: a fiber is tracked, and its creation or its end is
\* remembered, only after the call that says so, and each call is made once.
CallOrder ==
  /\ \A f \in Fibers : spawn[f] = "none" => run[f] = "none"
  /\ \A f \in tracked : run[f] \in {"done", "failed"}
  /\ live \cup late \subseteq {f \in Fibers : spawn[f] \in {"created", "returned"}}
  /\ foreign \subseteq {f \in Fibers : Ended(f)}

\* ActiveFibers "can drift by a bounded amount" (injectActiveCount): it exceeds
\* the live fibers by at most those whose end overtook the record of their
\* creation, and misses at most those whose end it saw without their creation.
DriftBounded ==
  LET drift == ActiveFibers - Cardinality(live)
  IN  -Cardinality(foreign) <= drift /\ drift <= Cardinality(late)

\* A bucket holds the recorded durations up to its bound, the last one all.
HistogramExact ==
  \A i \in Buckets : buckets[i] = SumFunctionOnSet(observed, {d \in Durations : Fits(d, i)})
=============================================================================
