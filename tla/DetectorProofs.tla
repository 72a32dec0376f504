--------------------------- MODULE DetectorProofs ---------------------------
(***************************************************************************)
(* Proofs about the deadlock detector: its history is well formed, and it  *)
(* suspects a deadlock only after the timeout, although a check clones one *)
(* fiber after the other while the fibers go on.                           *)
(***************************************************************************)
EXTENDS DeadlockDetector, FiniteSetTheorems, TLAPS

-----------------------------------------------------------------------------
(* The inductive invariant *)

\* The scan: only a check in progress has fibers to clone, each fiber is counted
\* once, and a fiber that has been running since the check began is either still
\* to be cloned or was counted as running.
ScanInv ==
  /\ DOMAIN seen = FiberState
  /\ seen["Ready"] + seen["Running"] + seen["Blocked"] + seen["Finished"]
       + Cardinality(todo) <= Cardinality(Fibers)
  /\ det # "scan" => todo = {}
  /\ rt = "stopped" => det = "off"
  /\ ran \subseteq InState(fb, fibers, "Running")
  /\ det = "scan" => \A f \in ran : f \in todo \/ seen["Running"] > 0

\* The detector's clock is never ahead of the time since a fiber ran through a
\* whole check.
ClockInv == idle <= quiet

DetectorInv == TypeOK /\ HistoryAlternates /\ ScanInv /\ ClockInv

-----------------------------------------------------------------------------
(* Operators of the model *)

\* The largest timeout is a timeout.
LEMMA HorizonIsTimeout ==
  Horizon \in Nat \ {0} /\ \A t \in Timeouts : t <= Horizon
<1>1. PICK h \in Timeouts : \A t \in Timeouts : t <= h
  BY DetectorAssumption
<1>2. \A x \in Timeouts : (\A y \in Timeouts : x >= y) <=> x = h
  BY <1>1, DetectorAssumption
<1>3. Max(Timeouts) = h
  BY <1>2 DEF Max
<1> QED  BY <1>1, <1>3, DetectorAssumption DEF Horizon

\* The clock counts up to the largest timeout, and keeps the order of two times.
LEMMA LaterKeepsOrder ==
  ASSUME NEW a \in 0..Horizon, NEW b \in 0..Horizon, a <= b
  PROVE  Later(a) \in 0..Horizon /\ Later(b) \in 0..Horizon /\ Later(a) <= Later(b)
<1>1. ASSUME NEW t \in 0..Horizon
      PROVE  Later(t) = IF t + 1 <= Horizon THEN t + 1 ELSE Horizon
  <2>1. CASE t + 1 <= Horizon
    <3>1. \A x \in {t + 1, Horizon} : (\A y \in {t + 1, Horizon} : x <= y) <=> x = t + 1
      BY <2>1, HorizonIsTimeout
    <3> QED  BY <2>1, <3>1 DEF Later, Min
  <2>2. CASE ~(t + 1 <= Horizon)
    <3>1. \A x \in {t + 1, Horizon} : (\A y \in {t + 1, Horizon} : x <= y) <=> x = Horizon
      BY <2>2, HorizonIsTimeout
    <3> QED  BY <2>2, <3>1 DEF Later, Min
  <2> QED  BY <2>1, <2>2
<1> QED  BY <1>1, HorizonIsTimeout

\* The methods of a fiber return a fiber.
LEMMA FiberMethods ==
  ASSUME NEW r \in FiberRecord
  PROVE  /\ NewFiber \in FiberRecord /\ RunStart(MarkScheduled(r)) \in FiberRecord
         /\ Block(r) \in FiberRecord /\ Unblock(r) \in FiberRecord
         /\ RunFinish(r) \in FiberRecord
<1>1. NewFiber \in FiberRecord /\ MarkScheduled(r) \in FiberRecord
  BY DEF NewFiber, MarkScheduled, FiberRecord, FiberState
<1>2. RunStart(MarkScheduled(r)) \in FiberRecord
  BY <1>1, Zenon DEF RunStart, FiberRecord, FiberState
<1>3. Block(r) \in FiberRecord /\ Unblock(r) \in FiberRecord /\ RunFinish(r) \in FiberRecord
  BY Zenon DEF Block, Unblock, RunFinish, FiberRecord, FiberState
<1> QED  BY <1>1, <1>2, <1>3

\* The entry a check appends is the opposite of the one before; what is left when
\* the oldest goes still alternates.
LEMMA RecordedAlternates ==
  ASSUME TypeOK, HistoryAlternates
  PROVE  LET q == Recorded(deadlockActive)
         IN  /\ q \in Seq(BOOLEAN) /\ Len(q) \in 1..MaxHistory
             /\ \A i \in 1..(Len(q) - 1) : q[i + 1] # q[i]
             /\ q[Len(q)] = deadlockActive
<1> DEFINE all == Append(deadlocks, deadlockActive)
<1>1. deadlockActive \in BOOLEAN /\ deadlocks \in Seq(BOOLEAN) /\ Len(deadlocks) <= MaxHistory
      /\ Len(deadlocks) \in Nat /\ MaxHistory \in Nat \ {0}
  BY DetectorAssumption DEF TypeOK
<1>2. \A a, b \in BOOLEAN : (a = ~b) => a # b
  OBVIOUS
<1>3. \A i \in 1..Len(deadlocks) : deadlocks[i] \in BOOLEAN
  BY <1>1
<1>4. \A i \in 1..(Len(deadlocks) - 1) :
        i \in 1..Len(deadlocks) /\ i + 1 \in 1..Len(deadlocks)
  BY <1>1
<1>5. \A i \in 1..(Len(deadlocks) - 1) : deadlocks[i + 1] # deadlocks[i]
  BY <1>2, <1>3, <1>4, Zenon DEF HistoryAlternates
<1>6. Len(deadlocks) > 0 => deadlocks[Len(deadlocks)] # deadlockActive
  <2>1. ASSUME Len(deadlocks) > 0 PROVE deadlocks # <<>> /\ Len(deadlocks) \in 1..Len(deadlocks)
    BY <1>1, <2>1
  <2> QED  BY <1>1, <1>2, <1>3, <2>1, Zenon DEF HistoryAlternates
<1>7. /\ all \in Seq(BOOLEAN) /\ Len(all) = Len(deadlocks) + 1
      /\ \A i \in 1..Len(deadlocks) : all[i] = deadlocks[i]
      /\ all[Len(all)] = deadlockActive
  BY <1>1
<1>8. \A i \in 1..(Len(all) - 1) : all[i + 1] # all[i]
  BY <1>1, <1>5, <1>6, <1>7
<1> HIDE DEF all
<1>9. CASE Len(all) > MaxHistory
  <2> DEFINE q == SubSeq(all, Len(all) - MaxHistory + 1, Len(all))
  <2>1. Len(all) = MaxHistory + 1
    BY <1>1, <1>7, <1>9
  <2>2. q \in Seq(BOOLEAN) /\ Len(q) = MaxHistory /\ \A i \in 1..MaxHistory : q[i] = all[i + 1]
    BY <1>1, <1>7, <2>1
  <2> HIDE DEF q
  <2>3. /\ \A i \in 1..(Len(q) - 1) : q[i + 1] # q[i]
        /\ q[Len(q)] = deadlockActive /\ Len(q) \in 1..MaxHistory
    <3>1. /\ Len(q) \in 1..MaxHistory /\ Len(q) + 1 = Len(all)
          /\ \A i \in 1..(Len(q) - 1) : /\ i \in 1..MaxHistory /\ i + 1 \in 1..MaxHistory
                                       /\ i + 1 \in 1..(Len(all) - 1)
      BY <1>1, <2>1, <2>2
    <3> QED  BY <1>7, <1>8, <2>2, <3>1, Zenon
  <2> QED  BY <1>9, <2>2, <2>3, Zenon DEF Recorded, q, all
<1>10. CASE ~(Len(all) > MaxHistory)
  <2>1. Len(all) \in 1..MaxHistory
    BY <1>1, <1>7, <1>10
  <2> QED  BY <1>7, <1>8, <1>10, <2>1 DEF Recorded, all
<1> QED  BY <1>9, <1>10

\* What a check concludes keeps the history well formed.
LEMMA ConcludeKeepsHistory ==
  ASSUME TypeOK, HistoryAlternates, NEW since, Conclude(since)
  PROVE  /\ deadlockActive' \in BOOLEAN
         /\ deadlocks' \in Seq(BOOLEAN) /\ Len(deadlocks)' <= MaxHistory
         /\ HistoryAlternates'
<1> DEFINE q == Recorded(deadlockActive)
<1>1. deadlockActive \in BOOLEAN
  BY DEF TypeOK
<1>2. \/ deadlockActive' = ~deadlockActive /\ deadlocks' = q
      \/ deadlockActive' = deadlockActive /\ deadlocks' = deadlocks
  BY <1>1, Zenon DEF Conclude
<1>3. CASE deadlockActive' = ~deadlockActive /\ deadlocks' = q
  <2>1. /\ q \in Seq(BOOLEAN) /\ Len(q) \in 1..MaxHistory
        /\ \A i \in 1..(Len(q) - 1) : q[i + 1] # q[i]
        /\ q[Len(q)] = deadlockActive
    BY RecordedAlternates
  <2> HIDE DEF q
  <2>2. q # <<>> /\ Len(q) <= MaxHistory
    BY <2>1, DetectorAssumption
  <2>3. \A i \in 1..(Len(q) - 1) : q[i] \in BOOLEAN /\ q[i + 1] \in BOOLEAN
    BY <2>1
  <2>4. \A a, b \in BOOLEAN : a # b => (a = ~b)
    BY Zenon
  <2>5. \A i \in 1..(Len(q) - 1) : q[i + 1] = ~q[i]
    BY <2>1, <2>3, <2>4, Zenon
  <2>6. q[Len(q)] = ~deadlockActive'
    BY <1>1, <1>3, <2>1, Zenon
  <2> QED  BY <1>1, <1>3, <2>1, <2>2, <2>5, <2>6, Zenon DEF HistoryAlternates
<1>4. CASE deadlockActive' = deadlockActive /\ deadlocks' = deadlocks
  BY <1>1, <1>4, Zenon DEF HistoryAlternates, TypeOK
<1> QED  BY <1>2, <1>3, <1>4

-----------------------------------------------------------------------------
(* The steps *)

\* The history is a matter of deadlocks and deadlockActive.
LEMMA HistorySame ==
  ASSUME HistoryAlternates, deadlocks' = deadlocks, deadlockActive' = deadlockActive
  PROVE  HistoryAlternates'
BY Zenon DEF HistoryAlternates

\* A cleared history.
LEMMA HistoryCleared ==
  ASSUME deadlocks' = <<>>, deadlockActive' = FALSE
  PROVE  HistoryAlternates' /\ deadlocks' \in Seq(BOOLEAN) /\ Len(deadlocks)' <= MaxHistory
BY DetectorAssumption DEF HistoryAlternates

\* Fibers change state, come and go: the scan has cloned what it has cloned, and a
\* fiber that leaves the state Running is no longer one that ran all the time.
LEMMA FiberStepKeeps ==
  ASSUME DetectorInv,
         NEW objects \in [Fibers -> FiberRecord], NEW among \in SUBSET Fibers,
         NEW holders \in SUBSET Fibers, todo \subseteq among,
         FiberStep(objects, among, holders)
  PROVE  DetectorInv'
<1>1. TypeOK'
  BY DEF DetectorInv, TypeOK, FiberStep, FibersBecome, InState, scanVars
<1>2. HistoryAlternates'
  BY HistorySame DEF DetectorInv, FiberStep
<1>3. ScanInv'
  BY DEF DetectorInv, ScanInv, FiberStep, FibersBecome, InState, scanVars
<1>4. ClockInv'
  BY DEF DetectorInv, ClockInv, FiberStep
<1> QED  BY <1>1, <1>2, <1>3, <1>4 DEF DetectorInv

\* What the runtime, the loop and the fibers do between two steps of the detector
\* leaves its history alone, and a fiber that stops running leaves ran.
LEMMA FibersKeep ==
  ASSUME DetectorInv, NEW f \in Fibers, FiberNext(f)
  PROVE  DetectorInv'
<1>1. /\ fb \in [Fibers -> FiberRecord] /\ fibers \in SUBSET Fibers /\ slots \in SUBSET Fibers
      /\ todo \subseteq fibers
  BY DEF DetectorInv, TypeOK
<1>2. ~Scanning => todo = {}
  BY DEF DetectorInv, ScanInv, Scanning
<1>3. fb[f] \in FiberRecord
  BY <1>1
<1>4. CASE Spawn(f)
  <2>1. [fb EXCEPT ![f] = NewFiber] \in [Fibers -> FiberRecord]
    BY <1>1, <1>3, FiberMethods
  <2>2. fibers \cup {f} \in SUBSET Fibers /\ todo \subseteq fibers \cup {f}
    BY <1>1
  <2>3. FiberStep([fb EXCEPT ![f] = NewFiber], fibers \cup {f}, slots)
    BY <1>4 DEF Spawn
  <2> QED  BY <1>1, <2>1, <2>2, <2>3, FiberStepKeeps, Zenon
<1>5. CASE Dispatch(f)
  <2>1. [fb EXCEPT ![f] = RunStart(MarkScheduled(@))] \in [Fibers -> FiberRecord]
    BY <1>1, <1>3, FiberMethods
  <2>2. slots \cup {f} \in SUBSET Fibers
    BY <1>1
  <2>3. FiberStep([fb EXCEPT ![f] = RunStart(MarkScheduled(@))], fibers, slots \cup {f})
    BY <1>5 DEF Dispatch
  <2> QED  BY <1>1, <2>1, <2>2, <2>3, FiberStepKeeps, Zenon
<1>6. CASE BlockFiber(f)
  <2>1. [fb EXCEPT ![f] = Block(@)] \in [Fibers -> FiberRecord]
    BY <1>1, <1>3, FiberMethods
  <2>2. FiberStep([fb EXCEPT ![f] = Block(@)], fibers, slots)
    BY <1>6 DEF BlockFiber
  <2> QED  BY <1>1, <2>1, <2>2, FiberStepKeeps, Zenon
<1>7. CASE UnblockFiber(f)
  <2>1. [fb EXCEPT ![f] = Unblock(@)] \in [Fibers -> FiberRecord]
    BY <1>1, <1>3, FiberMethods
  <2>2. FiberStep([fb EXCEPT ![f] = Unblock(@)], fibers, slots)
    BY <1>7 DEF UnblockFiber
  <2> QED  BY <1>1, <2>1, <2>2, FiberStepKeeps, Zenon
<1>8. CASE Return(f)
  <2>1. [fb EXCEPT ![f] = RunFinish(@)] \in [Fibers -> FiberRecord]
    BY <1>1, <1>3, FiberMethods
  <2> QED  BY <1>1, <1>8, <2>1, FiberStepKeeps, Zenon DEF Return
<1>9. CASE Complete(f)
  <2>1. todo \subseteq fibers \ {f} /\ fibers \ {f} \in SUBSET Fibers /\ slots \ {f} \in SUBSET Fibers
    BY <1>1, <1>2, <1>9 DEF Complete
  <2> QED  BY <1>1, <1>9, <2>1, FiberStepKeeps DEF Complete
<1> QED  BY <1>4, <1>5, <1>6, <1>7, <1>8, <1>9 DEF FiberNext

\* Nothing has been seen.
LEMMA NothingIsSeen ==
  /\ DOMAIN NothingSeen = FiberState
  /\ \A s \in FiberState : NothingSeen[s] = 0
BY DEF NothingSeen, FiberState

\* A new run begins with an empty history, a clock at zero and no scan.
LEMMA StartKeeps ==
  ASSUME DetectorInv, StartWithContext
  PROVE  DetectorInv'
<1>1. TypeOK'
  <2>1. 0 \in 0..Horizon
    BY HorizonIsTimeout
  <2>2. fb' = fb /\ fibers' = fibers /\ slots' = {} /\ ran' \subseteq ran
    BY DEF StartWithContext, FibersBecome
  <2> QED  BY <2>1, <2>2, HistoryCleared, Zenon DEF DetectorInv, TypeOK, StartWithContext
<1>2. HistoryAlternates'
  BY HistoryCleared, Zenon DEF StartWithContext
<1>3. ScanInv'
  BY DEF DetectorInv, ScanInv, StartWithContext, FibersBecome, InState
<1>4. ClockInv'
  BY DEF ClockInv, StartWithContext
<1> QED  BY <1>1, <1>2, <1>3, <1>4 DEF DetectorInv

\* Stop has joined the detector before it reaps.
LEMMA StopKeeps ==
  ASSUME DetectorInv, StopDetector \/ StopReturns
  PROVE  DetectorInv'
<1>1. TypeOK'
  <2>1. CASE StopDetector
    BY <2>1 DEF DetectorInv, TypeOK, StopDetector, fiberVars, scanVars, history
  <2>2. CASE StopReturns
    BY <2>2, Zenon DEF DetectorInv, TypeOK, ScanInv, StopReturns, FibersBecome, InState, scanVars
  <2> QED  BY <2>1, <2>2
<1>2. HistoryAlternates'
  BY HistorySame DEF DetectorInv, StopDetector, StopReturns
<1>3. ScanInv'
  <2>1. CASE StopDetector
    BY <2>1 DEF DetectorInv, ScanInv, StopDetector, fiberVars, scanVars, history
  <2>2. CASE StopReturns
    BY <2>2 DEF DetectorInv, ScanInv, StopReturns, FibersBecome, InState, scanVars
  <2> QED  BY <2>1, <2>2
<1>4. ClockInv'
  BY DEF DetectorInv, ClockInv, StopDetector, StopReturns, history
<1> QED  BY <1>1, <1>2, <1>3, <1>4 DEF DetectorInv

\* The calls that set a field.
LEMMA SettersKeep ==
  ASSUME DetectorInv,
         ClearDeadlocks \/ (\E b \in BOOLEAN : SetEnabled(b)) \/ (\E t \in Timeouts : SetTimeout(t))
  PROVE  DetectorInv'
<1> USE DEF ClearDeadlocks, SetEnabled, SetTimeout, DetectorSame, fiberVars, scanVars, history
<1>1. TypeOK'
  BY HistoryCleared, Zenon DEF DetectorInv, TypeOK
<1>2. HistoryAlternates'
  BY HistoryCleared, HistorySame, Zenon DEF DetectorInv
<1>3. ScanInv'
  BY DEF DetectorInv, ScanInv, InState
<1>4. ClockInv'
  BY DEF DetectorInv, ClockInv
<1> QED  BY <1>1, <1>2, <1>3, <1>4 DEF DetectorInv

\* Both clocks go on.
LEMMA TickKeeps ==
  ASSUME DetectorInv, Tick
  PROVE  DetectorInv'
<1>1. idle \in 0..Horizon /\ quiet \in 0..Horizon /\ idle <= quiet
  BY DEF DetectorInv, TypeOK, ClockInv
<1>2. idle' \in 0..Horizon /\ quiet' \in 0..Horizon /\ idle' <= quiet'
  BY <1>1, LaterKeepsOrder DEF Tick
<1>3. TypeOK'
  BY <1>2 DEF DetectorInv, TypeOK, Tick, DetectorSame, fiberVars
<1>4. HistoryAlternates'
  BY HistorySame DEF DetectorInv, Tick
<1>5. ScanInv'
  BY DEF DetectorInv, ScanInv, InState, Tick, DetectorSame, fiberVars
<1> QED  BY <1>2, <1>3, <1>4, <1>5 DEF DetectorInv, ClockInv

\* The goroutine of the detector comes and goes between two checks.
LEMMA GoroutineKeeps ==
  ASSUME DetectorInv, DetectorStart \/ DetectorExit
  PROVE  DetectorInv'
<1> USE DEF DetectorStart, DetectorExit, DetectorSame, fiberVars, history
<1>1. TypeOK'
  BY Zenon DEF DetectorInv, TypeOK
<1>2. HistoryAlternates'
  BY HistorySame DEF DetectorInv
<1>3. ScanInv'
  BY DEF DetectorInv, ScanInv, InState
<1>4. ClockInv'
  BY DEF DetectorInv, ClockInv
<1> QED  BY <1>1, <1>2, <1>3, <1>4 DEF DetectorInv

\* A check begins: all fibers are to be cloned.
LEMMA CheckBeginsKeeps ==
  ASSUME DetectorInv, CheckBegins
  PROVE  DetectorInv'
<1> USE DEF CheckBegins, DetectorSame, fiberVars
<1>1. /\ IsFiniteSet(Fibers) /\ fibers \subseteq Fibers /\ Cardinality(Fibers) \in Nat
      /\ Cardinality(fibers) \in Nat /\ Cardinality(fibers) <= Cardinality(Fibers)
  BY DetectorAssumption, FS_Subset, FS_CardinalityType, Zenon DEF DetectorInv, TypeOK
<1>2. det' = "scan" /\ rt' # "stopped"
  BY DEF DetectorInv, ScanInv
<1>3. DOMAIN seen' = FiberState /\ \A s \in FiberState : seen'[s] = 0
  BY NothingIsSeen
<1>4. TypeOK'
  <2>1. \A s \in FiberState : seen'[s] \in 0..Cardinality(Fibers)
    BY <1>1, <1>3
  <2> QED  BY <1>2, <2>1, Zenon DEF DetectorInv, TypeOK, InState
<1>5. HistoryAlternates'
  BY HistorySame DEF DetectorInv
<1>6. ScanInv'
  <2>1. seen'["Ready"] = 0 /\ seen'["Running"] = 0 /\ seen'["Blocked"] = 0 /\ seen'["Finished"] = 0
    BY <1>3 DEF FiberState
  <2> QED  BY <1>1, <1>2, <1>3, <2>1 DEF DetectorInv, ScanInv, InState
<1>7. ClockInv'
  BY DEF DetectorInv, ClockInv
<1> QED  BY <1>4, <1>5, <1>6, <1>7 DEF DetectorInv

\* A fiber is cloned and counted by the state it has then.
LEMMA ScanFiberKeeps ==
  ASSUME DetectorInv, NEW f \in Fibers, ScanFiber(f)
  PROVE  DetectorInv'
<1> USE DEF ScanFiber, DetectorSame, fiberVars, history
<1>1. /\ IsFiniteSet(todo) /\ Cardinality(Fibers) \in Nat /\ Cardinality(todo) \in Nat
      /\ Cardinality(todo') = Cardinality(todo) - 1
  <2>1. IsFiniteSet(Fibers) /\ todo \subseteq Fibers /\ f \in todo /\ todo' = todo \ {f}
    BY DetectorAssumption DEF DetectorInv, TypeOK
  <2>2. IsFiniteSet(todo)
    BY <2>1, FS_Subset
  <2> QED  BY <2>1, <2>2, FS_RemoveElement, FS_CardinalityType
<1> DEFINE st == fb[f].state
<1>2. /\ st \in {"Ready", "Running", "Blocked", "Finished"}
      /\ seen' = [seen EXCEPT ![st] = @ + 1] /\ fb' = fb
  BY DEF DetectorInv, TypeOK, FiberRecord, FiberState
<1>3. /\ DOMAIN seen = {"Ready", "Running", "Blocked", "Finished"}
      /\ seen["Ready"] \in Nat /\ seen["Running"] \in Nat
      /\ seen["Blocked"] \in Nat /\ seen["Finished"] \in Nat
      /\ seen["Ready"] + seen["Running"] + seen["Blocked"] + seen["Finished"]
           + Cardinality(todo) <= Cardinality(Fibers)
  BY <1>1 DEF DetectorInv, TypeOK, ScanInv, FiberState
<1>4. f \in ran => st = "Running"
  BY Zenon DEF DetectorInv, ScanInv, InState
<1> HIDE DEF st
<1>5. /\ DOMAIN seen' = {"Ready", "Running", "Blocked", "Finished"}
      /\ seen'["Ready"] \in Nat /\ seen'["Running"] \in Nat
      /\ seen'["Blocked"] \in Nat /\ seen'["Finished"] \in Nat
      /\ seen'["Ready"] + seen'["Running"] + seen'["Blocked"] + seen'["Finished"]
           = seen["Ready"] + seen["Running"] + seen["Blocked"] + seen["Finished"] + 1
      /\ seen'["Running"] >= seen["Running"] /\ (st = "Running" => seen'["Running"] > 0)
  <2>1. CASE st = "Ready"
    BY <1>2, <1>3, <2>1
  <2>2. CASE st = "Running"
    BY <1>2, <1>3, <2>2
  <2>3. CASE st = "Blocked"
    BY <1>2, <1>3, <2>3
  <2>4. CASE st = "Finished"
    BY <1>2, <1>3, <2>4
  <2> QED  BY <1>2, <2>1, <2>2, <2>3, <2>4, Zenon
<1>6. seen'["Ready"] + seen'["Running"] + seen'["Blocked"] + seen'["Finished"]
        + Cardinality(todo') <= Cardinality(Fibers)
  BY <1>1, <1>3, <1>5
<1>7. TypeOK'
  <2>1. Cardinality(todo') \in Nat
    BY <1>1, FS_RemoveElement, FS_CardinalityType
  <2>2. \A s \in FiberState : seen'[s] \in 0..Cardinality(Fibers)
    BY <1>1, <1>5, <1>6, <2>1 DEF FiberState
  <2> QED  BY <2>2, Zenon DEF DetectorInv, TypeOK
<1>8. HistoryAlternates'
  BY HistorySame DEF DetectorInv
<1>9. ScanInv'
  <2>1. \A g \in ran : g \in todo' \/ seen'["Running"] > 0
    BY <1>3, <1>4, <1>5 DEF DetectorInv, ScanInv
  <2> QED  BY <1>2, <1>5, <1>6, <2>1, Zenon DEF DetectorInv, ScanInv, FiberState
<1>10. ClockInv'
  BY DEF DetectorInv, ClockInv
<1> QED  BY <1>7, <1>8, <1>9, <1>10 DEF DetectorInv

\* A check ends.  If a fiber ran from its beginning to its end, it was counted as
\* running, and the detector's clock goes back to zero.
LEMMA CheckEndsKeeps ==
  ASSUME DetectorInv, CheckEnds
  PROVE  DetectorInv'
<1> USE DEF CheckEnds, DetectorSame, fiberVars
<1>1. Conclude(idle')
  OBVIOUS
<1>2. /\ deadlockActive' \in BOOLEAN
      /\ deadlocks' \in Seq(BOOLEAN) /\ Len(deadlocks)' <= MaxHistory
      /\ HistoryAlternates'
  BY <1>1, ConcludeKeepsHistory DEF DetectorInv
<1>3. idle \in 0..Horizon /\ quiet \in 0..Horizon /\ idle <= quiet /\ 0 \in 0..Horizon
  BY HorizonIsTimeout DEF DetectorInv, TypeOK, ClockInv
<1>4. ran # {} => ~noRunnable
  BY DEF DetectorInv, TypeOK, ScanInv, FiberState, noRunnable
<1>5. idle' \in 0..Horizon /\ quiet' \in 0..Horizon /\ idle' <= quiet'
  BY <1>3, <1>4
<1>6. Cardinality(Fibers) \in Nat /\ DOMAIN seen' = FiberState /\ \A s \in FiberState : seen'[s] = 0
  BY NothingIsSeen, DetectorAssumption, FS_CardinalityType
<1>7. TypeOK'
  <2>1. \A s \in FiberState : seen'[s] \in 0..Cardinality(Fibers)
    BY <1>6
  <2> QED  BY <1>2, <1>5, <2>1, Zenon DEF DetectorInv, TypeOK
<1>8. ScanInv'
  <2>1. seen'["Ready"] = 0 /\ seen'["Running"] = 0 /\ seen'["Blocked"] = 0 /\ seen'["Finished"] = 0
    BY <1>6 DEF FiberState
  <2>2. Cardinality(todo') = 0
    BY FS_EmptySet
  <2> QED  BY <1>6, <2>1, <2>2 DEF DetectorInv, ScanInv, InState
<1> QED  BY <1>2, <1>5, <1>7, <1>8 DEF DetectorInv, ClockInv

\* NewDeadlockDetector: no history, no check, and a clock at zero.
LEMMA DetectorInvInit == Init => DetectorInv
<1> SUFFICES ASSUME Init PROVE DetectorInv
  OBVIOUS
<1>1. Cardinality(Fibers) \in Nat /\ Cardinality({}) = 0 /\ 0 \in 0..Horizon
  BY DetectorAssumption, FS_CardinalityType, FS_EmptySet, HorizonIsTimeout
<1>2. DOMAIN seen = FiberState /\ \A s \in FiberState : seen[s] = 0
  BY NothingIsSeen DEF Init
<1>3. TypeOK
  <2>1. \A s \in FiberState : seen[s] \in 0..Cardinality(Fibers)
    <3>1. 0 \in 0..Cardinality(Fibers)
      BY <1>1
    <3> QED  BY <1>2, <3>1
  <2>2. fb \in [Fibers -> FiberRecord]
    <3>1. NewFiber \in FiberRecord
      BY DEF NewFiber, FiberRecord, FiberState
    <3> QED  BY <3>1 DEF Init
  <2>3. deadlocks \in Seq(BOOLEAN) /\ Len(deadlocks) <= MaxHistory
    BY DetectorAssumption DEF Init
  <2> QED  BY <1>1, <2>1, <2>2, <2>3, Zenon DEF Init, TypeOK
<1>4. HistoryAlternates
  BY DEF Init, HistoryAlternates
<1>5. ScanInv
  <2>1. seen["Ready"] = 0 /\ seen["Running"] = 0 /\ seen["Blocked"] = 0 /\ seen["Finished"] = 0
    BY <1>2 DEF FiberState
  <2> QED  BY <1>1, <1>2, <2>1 DEF Init, ScanInv, InState
<1>6. ClockInv
  BY DEF Init, ClockInv
<1> QED  BY <1>3, <1>4, <1>5, <1>6 DEF DetectorInv

\* Every step of the fibers, of the detector's goroutine and of its API keeps it.
LEMMA DetectorInvStep == DetectorInv /\ [Next]_vars => DetectorInv'
<1> SUFFICES ASSUME DetectorInv, [Next]_vars PROVE DetectorInv'
  OBVIOUS
<1>1. CASE \E f \in Fibers : FiberNext(f)
  BY <1>1, FibersKeep
<1>2. CASE Tick
  BY <1>2, TickKeeps
<1>3. CASE Detector
  BY <1>3, GoroutineKeeps, CheckBeginsKeeps, CheckEndsKeeps, ScanFiberKeeps DEF Detector
<1>4. CASE Api
  BY <1>4, StartKeeps, StopKeeps, SettersKeep DEF Api
<1>5. CASE UNCHANGED vars
  <2> USE <1>5 DEF vars, fiberVars, scanVars, history
  <2>1. TypeOK'
    BY Zenon DEF DetectorInv, TypeOK
  <2>2. HistoryAlternates'
    BY HistorySame DEF DetectorInv
  <2>3. ScanInv' /\ ClockInv'
    BY Zenon DEF DetectorInv, ScanInv, ClockInv, InState
  <2> QED  BY <2>1, <2>2, <2>3 DEF DetectorInv
<1> QED  BY <1>1, <1>2, <1>3, <1>4, <1>5 DEF Next

-----------------------------------------------------------------------------
(* Results *)

\* The inductive invariant of the detector.
THEOREM DetectorInvariance == Spec => []DetectorInv
BY DetectorInvInit, DetectorInvStep, PTL DEF Spec

\* The history that GetDetectedDeadlocks returns stays within maxDeadlockHistory,
\* alternates between an episode and its resolution, and agrees with
\* deadlockActive, for any timeouts and any number of fibers.
THEOREM HistoryIsKept == Spec => []HistoryKept
<1>1. DetectorInv => HistoryKept
  BY DEF DetectorInv, HistoryKept
<1> QED  BY <1>1, DetectorInvariance, PTL

\* Only a check that saw nobody run, with a clock that has reached the timeout,
\* sets deadlockActive.
LEMMA SuspicionStep == DetectorInv /\ [Next]_vars => [Suspects => quiet >= timeout]_vars
<1> SUFFICES ASSUME DetectorInv, Next, Suspects PROVE quiet >= timeout
  OBVIOUS
<1>1. CheckEnds
  BY Zenon DEF Next, Suspects, FiberNext, Spawn, Dispatch, BlockFiber, UnblockFiber, Return, Complete,
         FiberStep, Tick, Detector, DetectorStart, DetectorExit, CheckBegins, ScanFiber, Api,
         StartWithContext, StopDetector, StopReturns, ClearDeadlocks, SetEnabled, SetTimeout
<1>2. noRunnable /\ idle' >= timeout
  BY <1>1, Zenon DEF CheckEnds, Conclude, Suspects
<1>3. idle' = idle
  BY <1>1, <1>2 DEF CheckEnds
<1>4. idle \in Nat /\ quiet \in Nat /\ timeout \in Nat /\ idle <= quiet
  BY HorizonIsTimeout, DetectorAssumption DEF DetectorInv, TypeOK, ClockInv
<1> QED  BY <1>2, <1>3, <1>4

\* checkForDeadlock suspects nothing before the timeout has passed since the run
\* began and since the last check during all of which some fiber ran.
THEOREM SuspicionIsPatient == Spec => PatientSuspicion
BY DetectorInvariance, SuspicionStep, PTL DEF Spec, PatientSuspicion
=============================================================================
