----------------------------- MODULE SyncProofs -----------------------------
(***************************************************************************)
(* The synchronization primitives: the inductive invariants of LockProofs  *)
(* and ChannelProofs put together, and what follows for every number of    *)
(* fibers, permits, values and every capacity.                             *)
(***************************************************************************)
EXTENDS MCSync, LockProofs, ChannelProofs, FiniteSetTheorems

\* There are finitely many fibers, so sets of them and queues are counted.
LEMMA FibersAreCounted == Counting
<1>1. ASSUME NEW S \in SUBSET Fibers
      PROVE  IsFiniteSet(S) /\ Cardinality(S) \in Nat /\ (Cardinality(S) = 0 <=> S = {})
  <2>1. IsFiniteSet(S)
    BY FS_Subset, WaitingFibersAssumption
  <2> QED  BY <2>1, FS_CardinalityType, FS_EmptySet
<1>2. ASSUME NEW S \in SUBSET Fibers, NEW f \in Fibers \ S
      PROVE  Cardinality(S \cup {f}) = Cardinality(S) + 1
  BY <1>1, FS_AddElement
<1>3. ASSUME NEW S \in SUBSET Fibers, NEW f \in S
      PROVE  Cardinality(S \ {f}) = Cardinality(S) - 1
  BY <1>1, FS_RemoveElement
<1>4. ASSUME NEW S \in SUBSET Fibers, NEW T \in SUBSET Fibers, S \cap T = {}
      PROVE  Cardinality(S \cup T) = Cardinality(S) + Cardinality(T)
  <2>1. Cardinality(S \cup T) = Cardinality(S) + Cardinality(T) - Cardinality(S \cap T)
    BY <1>1, FS_Union
  <2>2. Cardinality(S \cap T) = 0
    BY <1>4, FS_EmptySet
  <2> QED  BY <1>1, <2>1, <2>2
<1>5. ASSUME NEW q, IsQueue(q)
      PROVE  Len(q) = Cardinality(Elements(q))
  <2>1. q \in Seq(Fibers) /\ Len(q) \in Nat
    BY <1>5 DEF IsQueue
  <2>2. IsFiniteSet(1..Len(q)) /\ Cardinality(1..Len(q)) = Len(q)
    <3>1. 1 \in Int /\ Len(q) \in Int /\ Len(q) = IF 1 > Len(q) THEN 0 ELSE Len(q) - 1 + 1
      BY <2>1
    <3> QED  BY <3>1, FS_Interval, Zenon
  <2>3. q \in Bijection(1..Len(q), Elements(q))
    BY <1>5, <2>1 DEF IsQueue, Elements, Bijection, Injection, IsInjective, Surjection
  <2>4. ExistsBijection(1..Len(q), Elements(q))
    BY <2>3 DEF ExistsBijection
  <2> QED  BY <2>2, <2>4, FS_Bijection
<1> QED  BY <1>1, <1>2, <1>3, <1>4, <1>5, Zenon DEF Counting

\* The invariant of the object in use, and what the ordering of the others needs:
\* an object that is not used has no waiters.
SyncInv ==
  /\ object \in {"mutex", "rwmutex", "group", "semaphore", "channel"}
  /\ WaiterInv
  /\ readers \in Nat
  /\ object # "semaphore" => permitQueue = <<>>
  /\ object = "mutex" => MutexInv
  /\ object = "rwmutex" => RWInv
  /\ object = "group" => GroupInv
  /\ object = "semaphore" => SemInv
  /\ object = "channel" => ChannelInv

\* It holds of new objects.
LEMMA SyncInitially == SyncInit => SyncInv /\ Abstract!Init
<1> SUFFICES ASSUME SyncInit PROVE SyncInv /\ Abstract!Init
  OBVIOUS
<1>1. /\ object \in {"mutex", "rwmutex", "group", "semaphore", "channel"}
      /\ Mutex!Init /\ RW!Init /\ Group!Init /\ Sem!Init /\ Init
  BY DEF SyncInit
<1>2. MutexInv /\ GroupInv
  BY <1>1, MutexInit, GroupInit
<1>3. RWInv
  BY <1>1, RWInit, FibersAreCounted
<1>4. SemInv
  BY <1>1, SemInit, FibersAreCounted
<1>5. ChannelInv /\ Abstract!Init
  BY <1>1, ChannelInit, FibersAreCounted
<1>6. readers \in Nat /\ permitQueue = <<>>
  BY <1>1 DEF RW!Init, Sem!Init
<1>7. WaiterInv
  BY <1>2 DEF MutexInv
<1> QED  BY <1>1, <1>2, <1>3, <1>4, <1>5, <1>6, <1>7 DEF SyncInv

\* Every step of the object in use keeps it.
LEMMA SyncStep == SyncInv /\ [SyncNext]_syncVars => SyncInv'
<1> SUFFICES ASSUME SyncInv, [SyncNext]_syncVars PROVE SyncInv'
  OBVIOUS
<1>0. Counting
  BY FibersAreCounted
<1>1. CASE object = "mutex" /\ Mutex!Next /\ UNCHANGED <<object, rwVars, groupVars, semVars>>
  <2>1. MutexInv'
    BY <1>1, MutexStep DEF SyncInv
  <2>2. WaiterInv'
    BY <2>1, Zenon DEF MutexInv
  <2>3. object' = "mutex" /\ readers' = readers /\ permitQueue' = permitQueue
    BY <1>1 DEF rwVars, semVars
  <2> QED  BY <1>1, <2>1, <2>2, <2>3 DEF SyncInv
<1>2. CASE object = "rwmutex" /\ RW!Next /\ UNCHANGED <<object, mutexVars, groupVars, semVars>>
  <2>1. RWInv'
    BY <1>0, <1>2, RWStep, Zenon DEF SyncInv
  <2>2. WaiterInv'
    BY <2>1 DEF RWInv
  <2>3. readers' \in Nat
    <3>1. readers' = Cardinality(Reading') /\ Reading' \in SUBSET Fibers
      BY <2>1, Zenon DEF RWInv, Reading, RW!In, Granted, Cardinality
    <3> QED  BY <1>0, <3>1, Zenon DEF Counting
  <2>4. object' = "rwmutex" /\ permitQueue' = permitQueue
    BY <1>2, Zenon DEF semVars
  <2> QED  BY <1>2, <2>1, <2>2, <2>3, <2>4 DEF SyncInv
<1>3. CASE object = "group" /\ Group!Next /\ UNCHANGED <<object, mutexVars, rwVars, semVars>>
  <2>1. GroupInv'
    BY <1>3, GroupStep DEF SyncInv
  <2>2. WaiterInv'
    BY <2>1 DEF GroupInv
  <2>3. object' = "group" /\ readers' = readers /\ permitQueue' = permitQueue
    BY <1>3 DEF rwVars, semVars
  <2> QED  BY <1>3, <2>1, <2>2, <2>3, Zenon DEF SyncInv
<1>4. CASE object = "semaphore" /\ Sem!Next /\ UNCHANGED <<object, mutexVars, rwVars, groupVars>>
  <2>1. SemInv'
    BY <1>0, <1>4, SemStep, Zenon DEF SyncInv
  <2>2. WaiterInv'
    BY <2>1, Zenon DEF SemInv
  <2>3. object' = "semaphore" /\ readers' = readers
    BY <1>4, Zenon DEF rwVars
  <2> QED  BY <1>4, <2>1, <2>2, <2>3, Zenon DEF SyncInv
<1>5. CASE object = "channel" /\ Next /\ UNCHANGED <<object, lockVars>>
  <2>1. ChannelInv'
    BY <1>0, <1>5, ChannelStep, Zenon DEF SyncInv
  <2>2. WaiterInv'
    BY <2>1, Zenon DEF ChannelInv, ShapeInv, QueueInv
  <2>3. object' = "channel" /\ readers' = readers /\ permitQueue' = permitQueue
    BY <1>5, Zenon DEF lockVars, rwVars, semVars
  <2> QED  BY <1>5, <2>1, <2>2, <2>3, Zenon DEF SyncInv
<1>6. CASE UNCHANGED syncVars
  <2>1. UNCHANGED <<object, lockVars, vars>>
    BY <1>6 DEF syncVars
  <2>2. UNCHANGED <<fb, pc, ready>>
    BY <2>1, Zenon DEF vars, waiterVars
  <2>3. UNCHANGED <<locked, owner, mutexQueue, readers, writer, readerQueue, writerQueue>>
    BY <2>1, Zenon DEF lockVars, mutexVars, rwVars
  <2>4. UNCHANGED <<counter, groupQueue, sawZero, permits, maxPermits, permitQueue, signals, used>>
    BY <2>1, Zenon DEF lockVars, groupVars, semVars
  <2>7. Parked' = Parked /\ Granted' = Granted /\ (WaiterInv => WaiterInv')
    BY <2>2, Zenon DEF Parked, Granted, WaiterInv
  <2>8. MutexInv => MutexInv'
    BY <2>2, <2>3, <2>7, Zenon DEF MutexInv
  <2>9. RWInv => RWInv'
    BY <2>2, <2>3, <2>7, Zenon DEF RWInv, Reading, RW!In
  <2>10. GroupInv => GroupInv'
    BY <2>2, <2>4, <2>7, Zenon DEF GroupInv
  <2>11. SemInv => SemInv'
    BY <2>2, <2>4, <2>7, Zenon DEF SemInv, Holders
  <2>12. ChannelInv => ChannelInv'
    BY <2>1, ChannelStutters
  <2> QED  BY <2>1, <2>3, <2>4, <2>7, <2>8, <2>9, <2>10, <2>11, <2>12, Zenon DEF SyncInv
<1> QED  BY <1>1, <1>2, <1>3, <1>4, <1>5, <1>6 DEF SyncNext, LockNext, ChannelNext

\* The object in use is always as its invariant says.
LEMMA SyncInvariance == SyncSpec => []SyncInv
<1>1. SyncInit => SyncInv
  BY SyncInitially
<1> QED  BY <1>1, SyncStep, PTL DEF SyncSpec

\* What the invariant says of the object in use.
LEMMA SyncInvImplies == SyncInv => NobodyForgotten /\ OwnershipExact /\ ValuesExact
<1> SUFFICES ASSUME SyncInv PROVE NobodyForgotten /\ OwnershipExact /\ ValuesExact
  OBVIOUS
<1>0. Counting
  BY FibersAreCounted, Zenon
<1>1. object = "mutex" => Mutex!TypeOK /\ Mutex!QueueExact /\ Mutex!HolderOwns /\ Mutex!OwnerWillUnlock
  BY <1>0, MutexInvImplies DEF SyncInv
<1>2. object = "rwmutex" => /\ RW!TypeOK /\ RW!QueuesExact /\ RW!FreeHasNoWaiters /\ RW!ExclusionExact
  BY <1>0, RWInvImplies, Zenon DEF SyncInv
<1>3. object = "group" => Group!TypeOK /\ Group!NobodyWaitsAtZero
  BY <1>0, GroupInvImplies, Zenon DEF SyncInv
<1>4. object = "semaphore" => Sem!TypeOK /\ Sem!NobodyWaitsForAvailable /\ Sem!PermitsConserved
  BY <1>0, SemInvImplies, Zenon DEF SyncInv
<1>5. object = "channel" => TypeOK /\ NobodyWaitsInVain /\ ResultsHonest /\ NothingLost
  BY <1>0, ChannelInvImplies, Zenon DEF SyncInv
<1>6. BlockedIsParked
  BY WaiterInvImplies, Zenon DEF SyncInv
<1> QED  BY <1>1, <1>2, <1>3, <1>4, <1>5, <1>6, Zenon
         DEF NobodyForgotten, SyncTypeOK, OwnershipExact, ValuesExact

-----------------------------------------------------------------------------
\* Nobody is forgotten by a FiberMutex, FiberRWMutex, FiberWaitGroup, FiberSemaphore
\* or FiberChannel: the queues are the parked callers, whatever calls were
\* cancelled, the fibers in state Blocked are those that wait, and nobody waits for
\* what is there.
THEOREM NobodyIsForgotten == SyncSpec => []NobodyForgotten
<1>1. SyncInv => NobodyForgotten
  BY SyncInvImplies, Zenon
<1> QED  BY <1>1, SyncInvariance, PTL

\* Lock, Unlock, Acquire and Release: the owner of a FiberMutex is the fiber that
\* holds it or was handed it, a FiberRWMutex writer excludes everybody, and permits
\* are neither lost nor made, however the calls race with cancelled contexts.
THEOREM OwnershipIsExact == SyncSpec => []OwnershipExact
<1>1. SyncInv => OwnershipExact
  BY SyncInvImplies, Zenon
<1> QED  BY <1>1, SyncInvariance, PTL

\* Send and Receive: a Send reports whether the channel took its value, and every
\* value handed out was received once or is held by a woken receiver, whatever
\* races with Close and with contexts.
THEOREM ValuesAreExact == SyncSpec => []ValuesExact
<1>1. SyncInv => ValuesExact
  BY SyncInvImplies, Zenon
<1> QED  BY <1>1, SyncInvariance, PTL

\* Unlock and Release hand over to the oldest waiter, and while a writer waits no
\* reader enters a FiberRWMutex.
THEOREM HandsOverInOrder == SyncSpec => HandedOverInOrder
<1> DEFINE MutexOrdered == mutexQueue # <<>> /\ owner' # owner => owner' = Head(mutexQueue)
           RWOrdered == writerQueue # <<>> /\ writerQueue' # <<>> =>
                          /\ readers' <= readers
                          /\ writer' \in {writer, NoFiber, Head(writerQueue)}
           SemOrdered == permitQueue # <<>> => Sem!Holders' \subseteq Sem!Holders \cup {Head(permitQueue)}
<1>0. Counting
  BY FibersAreCounted, Zenon
<1>1. SyncInv /\ [SyncNext]_syncVars => [MutexOrdered]_(Mutex!vars)
  <2> SUFFICES ASSUME SyncInv, [SyncNext]_syncVars PROVE MutexOrdered
    OBVIOUS
  <2>1. CASE object = "mutex" /\ Mutex!Next
    BY <2>1, MutexOrder, Zenon DEF SyncInv
  <2>2. CASE UNCHANGED mutexVars
    BY <2>2, Zenon DEF mutexVars
  <2> QED  BY <2>1, <2>2, Zenon DEF SyncNext, LockNext, ChannelNext, syncVars, lockVars
<1>2. SyncInv /\ [SyncNext]_syncVars => [RWOrdered]_(RW!vars)
  <2> SUFFICES ASSUME SyncInv, [SyncNext]_syncVars PROVE RWOrdered
    OBVIOUS
  <2>1. CASE object = "rwmutex" /\ RW!Next
    BY <1>0, <2>1, RWOrder, Zenon DEF SyncInv
  <2>2. CASE UNCHANGED rwVars
    BY <2>2, SMTT(30) DEF rwVars, SyncInv
  <2> QED  BY <2>1, <2>2, Zenon DEF SyncNext, LockNext, ChannelNext, syncVars, lockVars
<1>3. SyncInv /\ [SyncNext]_syncVars => [SemOrdered]_(Sem!vars)
  <2> SUFFICES ASSUME SyncInv, [SyncNext]_syncVars PROVE SemOrdered \/ UNCHANGED Sem!vars
    OBVIOUS
  <2>1. CASE object = "semaphore" /\ Sem!Next
    <3>1. Sem!Holders = Holders /\ Sem!Holders' = Holders'
      BY Zenon DEF Sem!Holders, Holders, Sem!Granted, Granted, Sem!Waiting, Waiting
    <3> QED  BY <2>1, <3>1, SemOrder, Zenon DEF SyncInv
  <2>2. CASE object # "semaphore"
    BY <2>2, Zenon DEF SyncInv
  <2>3. CASE UNCHANGED syncVars
    BY <2>3, Zenon DEF syncVars, lockVars, semVars, vars, waiterVars, Sem!vars, Sem!waiterVars, Sem!semVars
  <2> QED  BY <2>1, <2>2, <2>3, Zenon DEF SyncNext, LockNext, ChannelNext
<1>4. SyncSpec => [][MutexOrdered]_(Mutex!vars)
  BY <1>1, SyncInvariance, PTL DEF SyncSpec
<1>5. SyncSpec => [][RWOrdered]_(RW!vars)
  BY <1>2, SyncInvariance, PTL DEF SyncSpec
<1>6. SyncSpec => [][SemOrdered]_(Sem!vars)
  BY <1>3, SyncInvariance, PTL DEF SyncSpec
<1> QED  BY <1>4, <1>5, <1>6, Zenon
         DEF HandedOverInOrder, Mutex!NoOvertaking, RW!WriterPreferred, Sem!PermitsInOrder

\* Wait of FiberWaitGroup returns nil only if the counter was zero during the call.
THEOREM WaitMeansZero == SyncSpec => ReturnMeansZero
<1>1. SyncInv /\ [SyncNext]_syncVars => [object = "group" => Group!ReturnsAtZero]_syncVars
  <2> SUFFICES ASSUME SyncInv, SyncNext, object = "group" PROVE Group!ReturnsAtZero
    OBVIOUS
  <2>1. Group!Next /\ GroupInv
    BY Zenon DEF SyncNext, LockNext, ChannelNext, SyncInv
  <2> QED  BY <2>1, GroupReturns, Zenon
<1> QED  BY <1>1, SyncInvariance, PTL DEF SyncSpec, ReturnMeansZero

\* A FiberChannel is a bounded FIFO: Send calls are taken in order, none after
\* Close, values are received in the order they were taken, and at most capacity
\* are kept.
THEOREM ImplementsFifo == SyncSpec => IsBoundedFifo
<1>1. SyncInit => Abstract!Init
  BY SyncInitially
<1>2. SyncInv /\ [SyncNext]_syncVars => [Abstract!Next]_(Abstract!fifoVars)
  <2> SUFFICES ASSUME SyncInv, [SyncNext]_syncVars PROVE [Abstract!Next]_(Abstract!fifoVars)
    OBVIOUS
  <2>1. CASE ChannelNext
    BY <2>1, FifoStep, FibersAreCounted DEF ChannelNext, SyncInv
  <2>2. CASE UNCHANGED <<accepted, delivered, closed, capacity>>
    BY <2>2 DEF Abstract!fifoVars
  <2>3. LockNext \/ UNCHANGED syncVars => UNCHANGED <<accepted, delivered, closed, capacity>>
    BY Zenon DEF LockNext, syncVars, vars, chanVars, history
  <2> QED  BY <2>1, <2>2, <2>3 DEF SyncNext
<1> QED  BY <1>1, <1>2, SyncInvariance, PTL DEF SyncSpec, IsBoundedFifo, Abstract!Spec

\* The same of a channel alone, with no bound but MaxSends.
THEOREM ChannelIsFifo == Spec => IsBoundedFifo
<1>1. Init => ChannelInv /\ Abstract!Init
  BY ChannelInit, FibersAreCounted, Zenon
<1>2. ChannelInv /\ [Next]_vars => ChannelInv' /\ [Abstract!Next]_(Abstract!fifoVars)
  <2> SUFFICES ASSUME ChannelInv, [Next]_vars PROVE ChannelInv' /\ [Abstract!Next]_(Abstract!fifoVars)
    OBVIOUS
  <2>1. CASE Next
    BY <2>1, ChannelStep, FifoStep, FibersAreCounted, Zenon
  <2>2. CASE UNCHANGED vars
    BY <2>2, ChannelStutters, Zenon DEF Abstract!fifoVars, vars, chanVars, history
  <2> QED  BY <2>1, <2>2, Zenon
<1> QED  BY <1>1, <1>2, PTL DEF Spec, IsBoundedFifo, Abstract!Spec
=============================================================================
