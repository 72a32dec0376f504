-------------------------- MODULE DeadlockDetector --------------------------
(***************************************************************************)
(* The deadlock detector (internal/runtime/deadlock.go) beside the fibers  *)
(* it watches.  Time is counted in check intervals; the code only compares *)
(* the time since lastProgress with the timeout, so that difference, cut   *)
(* off at the largest timeout, is the clock.  The scan clones the fibers   *)
(* one after the other while they go on changing; fibersMu, which it       *)
(* holds, only keeps entries from coming and going.  Each Start makes a    *)
(* new detector with the configuration of the one before; the detector's   *)
(* started flag only guards against a second Start of the same object,     *)
(* which the runtime never makes.  A fiber that ended stands for a new one *)
(* when it is spawned again.                                               *)
(***************************************************************************)
EXTENDS Fiber, Integers, Sequences, FiniteSets, FiniteSetsExt

CONSTANTS Fibers, NumWorkers,
          Timeouts,            \* values of SetTimeout, in check intervals
          MaxHistory           \* maxDeadlockHistory

ASSUME DetectorAssumption ==
  /\ IsFiniteSet(Fibers) /\ NumWorkers \in Nat \ {0} /\ MaxHistory \in Nat \ {0}
  /\ Timeouts \subseteq Nat \ {0} /\ \E h \in Timeouts : \A t \in Timeouts : t <= h

VARIABLES
  \* the runtime
  fb, fibers,        \* the fiber objects, rt.fibers
  slots,             \* the fibers that hold a slot of the current run
  rt,                \* "stopped", "running" or "stopping"
  \* the current detector
  enabled, timeout,
  idle,              \* time since lastProgress
  deadlockActive,
  deadlocks,         \* per entry: Resolved
  stopChan,          \* closed
  det,               \* its goroutine
  due,               \* a tick waits in ticker.C
  todo, seen,        \* the scan: fibers to clone, fibers found per state
  \* history
  ran,               \* fibers running since the scan at hand began
  quiet              \* time since Start or a scan during all of which a fiber ran

fiberVars == <<fb, fibers, slots>>
scanVars == <<det, due, todo, seen>>
history == <<ran, quiet>>
vars == <<fiberVars, rt, enabled, timeout, idle, deadlockActive, deadlocks, stopChan,
          scanVars, history>>

Horizon == Max(Timeouts)
Later(t) == Min({t + 1, Horizon})

NothingSeen == [Ready |-> 0, Running |-> 0, Blocked |-> 0, Finished |-> 0]

Init ==
  /\ fb = [f \in Fibers |-> NewFiber] /\ fibers = {} /\ slots = {}
  /\ rt = "stopped"
  /\ enabled = TRUE /\ timeout \in Timeouts /\ idle = 0
  /\ deadlockActive = FALSE /\ deadlocks = <<>> /\ stopChan = FALSE
  /\ det = "off" /\ due = FALSE /\ todo = {} /\ seen = NothingSeen
  /\ ran = {} /\ quiet = 0

-----------------------------------------------------------------------------
(* The fibers *)

InState(objects, among, s) == {f \in among : objects[f].state = s}

\* Every change of the fibers passes through here.
FibersBecome(objects, among, holders) ==
  /\ fb' = objects /\ fibers' = among /\ slots' = holders
  /\ ran' = ran \cap InState(objects, among, "Running")

FiberStep(objects, among, holders) ==
  /\ FibersBecome(objects, among, holders)
  /\ UNCHANGED <<rt, enabled, timeout, idle, deadlockActive, deadlocks, stopChan,
                 scanVars, quiet>>

Scanning == det = "scan" /\ todo # {}

Spawn(f) ==
  /\ rt = "running" /\ ~Scanning /\ f \notin fibers
  /\ FiberStep([fb EXCEPT ![f] = NewFiber], fibers \cup {f}, slots)

\* dispatch, and Run up to the fiber function.
Dispatch(f) ==
  /\ rt # "stopped" /\ f \in fibers /\ IsRunnable(fb[f]) /\ Cardinality(slots) < NumWorkers
  /\ FiberStep([fb EXCEPT ![f] = RunStart(MarkScheduled(@))], fibers, slots \cup {f})

BlockFiber(f) ==
  /\ f \in fibers /\ fb[f].state = "Running"
  /\ FiberStep([fb EXCEPT ![f] = Block(@)], fibers, slots)

UnblockFiber(f) ==
  /\ f \in fibers /\ IsBlocked(fb[f])
  /\ FiberStep([fb EXCEPT ![f] = Unblock(@)], fibers, slots)

Return(f) ==
  /\ f \in fibers /\ fb[f].state = "Running"
  /\ FiberStep([fb EXCEPT ![f] = RunFinish(@)], fibers, slots)

\* complete, up to the result the loop receives.
Complete(f) ==
  /\ f \in fibers /\ IsFinished(fb[f]) /\ ~Scanning
  /\ FiberStep(fb, fibers \ {f}, slots \ {f})

-----------------------------------------------------------------------------
(* Start and Stop of the runtime *)

\* A new detector, configured like its predecessor, and its goroutine.
StartWithContext ==
  /\ rt = "stopped"
  /\ rt' = "running"
  /\ idle' = 0 /\ deadlockActive' = FALSE /\ deadlocks' = <<>> /\ stopChan' = FALSE
  /\ det' = "start" /\ due' = FALSE
  /\ FibersBecome(fb, fibers, {})
  /\ quiet' = 0
  /\ UNCHANGED <<enabled, timeout, todo, seen>>

\* Stop closes the detector's channel ...
StopDetector ==
  /\ rt = "running"
  /\ rt' = "stopping" /\ stopChan' = TRUE
  /\ UNCHANGED <<fiberVars, enabled, timeout, idle, deadlockActive, deadlocks, scanVars,
                 history>>

\* ... joins its goroutine, reaps what was not dispatched and waits for the
\* fibers in flight, or gives up waiting.
StopReturns ==
  /\ rt = "stopping" /\ det = "off"
  /\ rt' = "stopped"
  /\ FibersBecome(fb, fibers \ InState(fb, fibers, "Ready"), slots)
  /\ UNCHANGED <<enabled, timeout, idle, deadlockActive, deadlocks, stopChan, scanVars,
                 quiet>>

-----------------------------------------------------------------------------
(* The detector *)

DetectorSame == UNCHANGED <<rt, fiberVars, enabled, timeout, stopChan>>

\* Time passes; a ticker whose channel is full drops the tick.
Tick ==
  /\ idle' = Later(idle) /\ quiet' = Later(quiet)
  /\ due' = (det \in {"select", "scan"})
  /\ UNCHANGED <<det, todo, seen, deadlockActive, deadlocks, ran>> /\ DetectorSame

\* Start looks at enabled once.
DetectorStart ==
  /\ det = "start"
  /\ det' = IF enabled THEN "select" ELSE "off"
  /\ UNCHANGED <<due, todo, seen, idle, deadlockActive, deadlocks, history>> /\ DetectorSame

DetectorExit ==
  /\ det = "select" /\ stopChan
  /\ det' = "off" /\ due' = FALSE
  /\ UNCHANGED <<todo, seen, idle, deadlockActive, deadlocks, history>> /\ DetectorSame

\* The select may prefer a tick to the closed channel.
CheckBegins ==
  /\ det = "select" /\ due
  /\ due' = FALSE
  /\ det' = IF rt # "stopped" THEN "scan" ELSE "select"
  /\ todo' = fibers /\ seen' = NothingSeen
  /\ ran' = InState(fb, fibers, "Running")
  /\ UNCHANGED <<idle, deadlockActive, deadlocks, quiet>> /\ DetectorSame

\* GetAllFibers clones f.
ScanFiber(f) ==
  /\ det = "scan" /\ f \in todo
  /\ todo' = todo \ {f}
  /\ seen' = [seen EXCEPT ![fb[f].state] = @ + 1]
  /\ UNCHANGED <<det, due, idle, deadlockActive, deadlocks, history>> /\ DetectorSame

\* Mutant of noRunnable: any blocked fiber is suspicious.
noRunnableBlocked == seen.Blocked > 0 /\ (seen.Ready = 0 \/ seen.Blocked >= NumWorkers)

\* Mutant of noRunnable: a ready fiber always counts as progress.
noRunnableReady == seen.Running = 0 /\ seen.Blocked > 0 /\ seen.Ready = 0

noRunnable ==
  /\ seen.Running = 0 /\ seen.Blocked > 0
  /\ seen.Ready = 0 \/ seen.Blocked >= NumWorkers

\* Append an entry and keep the last MaxHistory.
Recorded(resolved) ==
  LET all == Append(deadlocks, resolved)
  IN  IF Len(all) > MaxHistory THEN SubSeq(all, Len(all) - MaxHistory + 1, Len(all)) ELSE all

\* Mutant of Conclude: a resolved episode stays active.
ConcludeSticky(since) ==
  IF noRunnable /\ since >= timeout /\ ~deadlockActive
    THEN deadlockActive' = TRUE /\ deadlocks' = Recorded(FALSE)
    ELSE IF ~noRunnable /\ deadlockActive
      THEN deadlocks' = Recorded(TRUE) /\ UNCHANGED deadlockActive
      ELSE UNCHANGED <<deadlockActive, deadlocks>>

\* An episode begins or ends.
Conclude(since) ==
  IF noRunnable /\ since >= timeout /\ ~deadlockActive
    THEN deadlockActive' = TRUE /\ deadlocks' = Recorded(FALSE)
    ELSE IF ~noRunnable /\ deadlockActive
      THEN deadlockActive' = FALSE /\ deadlocks' = Recorded(TRUE)
      ELSE UNCHANGED <<deadlockActive, deadlocks>>

CheckEnds ==
  /\ det = "scan" /\ todo = {}
  /\ det' = "select"
  /\ idle' = IF noRunnable THEN idle ELSE 0
  /\ Conclude(idle')
  /\ quiet' = IF ran = {} THEN quiet ELSE 0
  /\ seen' = NothingSeen
  /\ ran' = {}
  /\ UNCHANGED <<due, todo>> /\ DetectorSame

ClearDeadlocks ==
  /\ deadlocks' = <<>> /\ deadlockActive' = FALSE
  /\ UNCHANGED <<idle, scanVars, history>> /\ DetectorSame

SetEnabled(b) ==
  /\ enabled' = b
  /\ UNCHANGED <<fiberVars, rt, timeout, idle, deadlockActive, deadlocks, stopChan,
                 scanVars, history>>

SetTimeout(t) ==
  /\ timeout' = t
  /\ UNCHANGED <<fiberVars, rt, enabled, idle, deadlockActive, deadlocks, stopChan,
                 scanVars, history>>

-----------------------------------------------------------------------------
FiberNext(f) == Spawn(f) \/ Dispatch(f) \/ BlockFiber(f) \/ UnblockFiber(f) \/ Return(f)
                \/ Complete(f)

Detector == DetectorStart \/ DetectorExit \/ CheckBegins \/ CheckEnds
            \/ \E f \in Fibers : ScanFiber(f)

Api == StartWithContext \/ StopDetector \/ StopReturns \/ ClearDeadlocks
       \/ (\E b \in BOOLEAN : SetEnabled(b)) \/ (\E t \in Timeouts : SetTimeout(t))

Next == (\E f \in Fibers : FiberNext(f)) \/ Tick \/ Detector \/ Api

Spec == Init /\ [][Next]_vars

-----------------------------------------------------------------------------
(* Properties *)

\* Type invariant: the history never grows beyond maxDeadlockHistory.
TypeOK ==
  /\ fb \in [Fibers -> FiberRecord] /\ fibers \subseteq Fibers /\ slots \subseteq Fibers
  /\ rt \in {"stopped", "running", "stopping"} /\ det \in {"off", "start", "select", "scan"}
  /\ {enabled, deadlockActive, stopChan, due} \subseteq BOOLEAN
  /\ timeout \in Timeouts /\ {idle, quiet} \subseteq 0..Horizon
  /\ deadlocks \in Seq(BOOLEAN) /\ Len(deadlocks) <= MaxHistory
  /\ todo \subseteq fibers /\ ran \subseteq fibers
  /\ \A s \in FiberState : seen[s] \in 0..Cardinality(Fibers)

\* The history alternates between an episode and its resolution and agrees
\* with deadlockActive, whatever ClearDeadlocks and the cut took from it.
HistoryAlternates ==
  /\ \A i \in 1..(Len(deadlocks) - 1) : deadlocks[i + 1] = ~deadlocks[i]
  /\ deadlocks # <<>> => deadlocks[Len(deadlocks)] = ~deadlockActive
  /\ deadlocks = <<>> => ~deadlockActive

\* The history of the detector is cut at its limit, alternates, and agrees with
\* deadlockActive.
HistoryKept == TypeOK /\ HistoryAlternates

Suspects == deadlockActive' /\ ~deadlockActive

\* Suspicion needs patience: the detector reports nothing until the timeout has
\* passed since the run began and since the last check during which some fiber
\* ran from beginning to end, although the clones of one check are not taken
\* at one instant.
PatientSuspicion == [][Suspects => quiet >= timeout]_vars

\* Nothing runs, and what is ready finds every slot held by a blocked fiber.
Stuck ==
  LET ready == InState(fb, fibers, "Ready")
      blocked == InState(fb, fibers, "Blocked")
  IN  /\ InState(fb, fibers, "Running") = {} /\ blocked # {}
      /\ ready = {} \/ (slots \subseteq blocked /\ Cardinality(slots) >= NumWorkers)

Watching == rt = "running" /\ det # "off"

\* If a run gets stuck for good, its detector says so and keeps saying so: also
\* when the fibers that hold all slots wait for one that is still queued.
StuckIsReported == <>[](Stuck /\ Watching) => []<>deadlockActive
=============================================================================
