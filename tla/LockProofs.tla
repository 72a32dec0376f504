----------------------------- MODULE LockProofs -----------------------------
(***************************************************************************)
(* FiberMutex, FiberRWMutex, FiberWaitGroup and FiberSemaphore: an         *)
(* inductive invariant of each, kept by every critical section of its      *)
(* methods and by every race with a context that is done.                  *)
(***************************************************************************)
EXTENDS Locks, WaiterProofs

-----------------------------------------------------------------------------
(* FiberMutex *)

\* Between them, the fibers that know that they hold the mutex and those who
\* were handed it are its owner; the queue lists the parked callers, and nobody
\* is parked at a free mutex.
MutexInv ==
  /\ WaiterInv /\ pc \in [Fibers -> Mutex!PC]
  /\ locked \in BOOLEAN /\ owner \in Fibers \cup {NoFiber}
  /\ IsQueue(mutexQueue) /\ Elements(mutexQueue) = Parked
  /\ ~locked => mutexQueue = <<>>
  /\ locked => owner \in Fibers
  /\ \A f \in Fibers : pc[f] = "holding" \/ f \in Granted <=> locked /\ owner = f

\* FiberMutex follows the protocol of Waiter.
LEMMA MutexWaits ==
  /\ \A f, s : /\ Mutex!Park(f, s) => Park(f, s)
               /\ Mutex!WaitEnds(f, s) => WaitEnds(f, s)
               /\ Mutex!CancelTooLate(f, s) => CancelTooLate(f, s)
  /\ \A f : /\ Mutex!CtxDone(f) => CtxDone(f)
            /\ Mutex!Withdraw(f) => Withdraw(f)
            /\ Mutex!CancelReturns(f) => CancelReturns(f)
  /\ \A S : Mutex!Wake(S) => Wake(S)
  /\ \A q : Mutex!Elements(q) = Elements(q)
  /\ \A q, f : Mutex!Dequeue(q, f) = Dequeue(q, f)
  /\ \A f, s, t : Mutex!Goto(f, s, t) => pc[f] \in s /\ pc' = [pc EXCEPT ![f] = t]
<1>1. \A f, s : /\ Mutex!Park(f, s) => Park(f, s)
                /\ Mutex!WaitEnds(f, s) => WaitEnds(f, s)
                /\ Mutex!CancelTooLate(f, s) => CancelTooLate(f, s)
  BY Zenon DEF Mutex!Park, Mutex!WaitEnds, Mutex!CancelTooLate, Mutex!Goto, Mutex!Block,
               Park, WaitEnds, CancelTooLate, Goto, Block
<1>2. \A f : /\ Mutex!CtxDone(f) => CtxDone(f)
             /\ Mutex!Withdraw(f) => Withdraw(f)
             /\ Mutex!CancelReturns(f) => CancelReturns(f)
  BY Zenon DEF Mutex!CtxDone, Mutex!Withdraw, Mutex!CancelReturns, Mutex!Goto, Mutex!Unblock,
               CtxDone, Withdraw, CancelReturns, Goto, Unblock
<1>3. \A S : Mutex!Wake(S) => Wake(S)
  BY Zenon DEF Mutex!Wake, Wake, Mutex!Unblock, Unblock
<1>4. /\ \A q : Mutex!Elements(q) = Elements(q)
      /\ \A q, f : Mutex!Dequeue(q, f) = Dequeue(q, f)
  BY Zenon DEF Mutex!Dequeue, Dequeue, Mutex!Elements, Elements
<1>5. \A f, s, t : Mutex!Goto(f, s, t) => pc[f] \in s /\ pc' = [pc EXCEPT ![f] = t]
  BY Zenon DEF Mutex!Goto
<1> QED  BY <1>1, <1>2, <1>3, <1>4, <1>5

\* Every step of the mutex and its callers keeps MutexInv.
LEMMA MutexStep ==
  ASSUME MutexInv, Mutex!Next
  PROVE  MutexInv'
<1> DEFINE Holds(f) == pc[f] = "holding" \/ f \in Granted
<1>0. /\ WaiterInv /\ pc \in [Fibers -> Mutex!PC] /\ IsQueue(mutexQueue)
      /\ Elements(mutexQueue) = Parked /\ NoFiber \notin Fibers
      /\ Parked \subseteq Fibers
      /\ \A f \in Fibers : Holds(f) <=> locked /\ owner = f
  BY WaitingFibersAssumption DEF MutexInv, Parked
<1>1. PICK f \in Fibers :
        \/ Mutex!Lock(f) \/ Mutex!LockCtx(f) \/ Mutex!TryLock(f) \/ Mutex!Unlock(f)
        \/ Mutex!LockReturns(f) \/ Mutex!LockCtxDone(f) \/ Mutex!LockCtxRemoves(f)
        \/ Mutex!LockCtxFails(f)
  BY DEF Mutex!Next
<1>2. CASE Mutex!Acquire(f)
  <2>1. /\ ~locked /\ locked' = TRUE /\ owner' = f
        /\ pc[f] = "idle" /\ pc' = [pc EXCEPT ![f] = "holding"]
        /\ UNCHANGED <<fb, ready, mutexQueue>>
    BY <1>2, MutexWaits DEF Mutex!Acquire
  <2>2. pc' \in [Fibers -> Mutex!PC]
    BY <1>0, <2>1 DEF Mutex!PC
  <2>3. WaiterInv' /\ Parked' = Parked /\ Granted' = Granted
    BY <1>0, <2>1, <2>2, MoveStep DEF Waiting
  <2>4. \A g \in Fibers : Holds(g)' <=> locked' /\ owner' = g
    BY <1>0, <2>1, <2>3
  <2> QED  BY <1>0, <2>1, <2>2, <2>3, <2>4 DEF MutexInv, IsQueue, Elements
<1>3. ASSUME NEW s \in {"wait", "waitCtx"}, locked, Mutex!Park(f, s),
             mutexQueue' = Append(mutexQueue, f), UNCHANGED <<locked, owner>>
      PROVE  MutexInv'
  <2>1. /\ WaiterInv' /\ f \notin Parked
        /\ Parked' = Parked \cup {f} /\ Granted' = Granted
        /\ pc' = [pc EXCEPT ![f] = s]
    <3>1. Park(f, s)
      BY <1>3, MutexWaits, Zenon
    <3> QED  BY <1>0, <3>1, ParkStep, Zenon
  <2>2. pc[f] = "idle"
    BY <1>3 DEF Mutex!Park, Mutex!Goto
  <2>3. pc' \in [Fibers -> Mutex!PC]
    BY <1>0, <2>1 DEF Mutex!PC, Mutex!Waiting
  <2>4. IsQueue(mutexQueue)' /\ Elements(mutexQueue)' = Parked'
    BY <1>0, <1>3, <2>1, QueueAppend
  <2>5. \A g \in Fibers : Holds(g)' <=> locked' /\ owner' = g
    BY <1>0, <1>3, <2>1, <2>2
  <2> QED  BY <1>3, <2>1, <2>3, <2>4, <2>5 DEF MutexInv
<1>4. CASE Mutex!LockReturns(f)
  <2>1. /\ WaiterInv' /\ f \in Granted
        /\ Parked' = Parked /\ Granted' = Granted \ {f}
        /\ pc' = [pc EXCEPT ![f] = "holding"] /\ UNCHANGED mutexVars
    BY <1>0, <1>4, MutexWaits, ReturnStep DEF Mutex!LockReturns, Waiting, mutexVars, Mutex!mutexVars
  <2>2. pc' \in [Fibers -> Mutex!PC]
    BY <1>0, <2>1 DEF Mutex!PC
  <2>3. \A g \in Fibers : Holds(g)' <=> Holds(g)
    BY <1>0, <2>1
  <2> QED  BY <1>0, <2>1, <2>2, <2>3 DEF MutexInv, mutexVars, IsQueue, Elements
<1>5. CASE Mutex!LockCtxDone(f)
  <2>1. /\ WaiterInv' /\ Parked' = Parked /\ Granted' = Granted
        /\ pc[f] = "waitCtx" /\ pc' = [pc EXCEPT ![f] = "cancelled"]
        /\ UNCHANGED mutexVars
    BY <1>0, <1>5, MutexWaits, CtxDoneStep DEF Mutex!LockCtxDone, mutexVars, Mutex!mutexVars
  <2>2. pc' \in [Fibers -> Mutex!PC]
    BY <1>0, <2>1 DEF Mutex!PC, Mutex!Waiting
  <2>3. \A g \in Fibers : Holds(g)' <=> Holds(g)
    BY <1>0, <2>1
  <2> QED  BY <1>0, <2>1, <2>2, <2>3 DEF MutexInv, mutexVars, IsQueue, Elements
<1>6. CASE Mutex!LockCtxRemoves(f)
  <2>1. /\ WaiterInv' /\ f \in Parked
        /\ Parked' = Parked \ {f} /\ Granted' = Granted
        /\ pc' = [pc EXCEPT ![f] = "withdrawn"]
        /\ mutexQueue' = Dequeue(mutexQueue, f) /\ UNCHANGED <<locked, owner>>
    BY <1>0, <1>6, MutexWaits, WithdrawStep DEF Mutex!LockCtxRemoves
  <2>2. pc' \in [Fibers -> Mutex!PC] /\ pc[f] # "holding"
    BY <1>0, <2>1 DEF Mutex!PC, Parked, Waiting
  <2>3. IsQueue(mutexQueue)' /\ Elements(mutexQueue)' = Parked'
    BY <1>0, <2>1, QueueRemove
  <2>4. \A g \in Fibers : Holds(g)' <=> Holds(g)
    BY <1>0, <2>1, <2>2
  <2>5. locked
    BY <1>0, <2>1, QueueEmpty DEF MutexInv
  <2> QED  BY <1>0, <2>1, <2>2, <2>3, <2>4, <2>5 DEF MutexInv
<1>7. CASE Mutex!LockCtxFails(f)
  <2>1. /\ WaiterInv' /\ Parked' = Parked /\ Granted' = Granted
        /\ pc[f] = "withdrawn" /\ pc' = [pc EXCEPT ![f] = "idle"]
        /\ UNCHANGED mutexVars
    BY <1>0, <1>7, MutexWaits, CancelReturnsStep DEF Mutex!LockCtxFails, mutexVars, Mutex!mutexVars
  <2>2. pc' \in [Fibers -> Mutex!PC]
    BY <1>0, <2>1 DEF Mutex!PC
  <2>3. \A g \in Fibers : Holds(g)' <=> Holds(g)
    BY <1>0, <2>1
  <2> QED  BY <1>0, <2>1, <2>2, <2>3 DEF MutexInv, mutexVars, IsQueue, Elements
<1>8. CASE Mutex!Unlock(f)
  <2>1. /\ locked /\ owner = f
        /\ pc[f] = "holding" /\ pc' = [pc EXCEPT ![f] = "idle"]
    BY <1>8, MutexWaits DEF Mutex!Unlock
  <2>2. pc' \in [Fibers -> Mutex!PC]
    BY <1>0, <2>1 DEF Mutex!PC
  <2>3. f \notin Granted
    BY <2>1 DEF Granted, Waiting
  <2>4. CASE mutexQueue = <<>>
    <3>1. /\ locked' = FALSE /\ owner' = NoFiber
          /\ UNCHANGED <<fb, ready, mutexQueue>>
      BY <1>8, <2>4 DEF Mutex!Unlock
    <3>2. WaiterInv' /\ Parked' = Parked /\ Granted' = Granted
      BY <1>0, <2>1, <2>2, <3>1, MoveStep DEF Waiting
    <3>3. \A g \in Fibers : ~Holds(g)'
      BY <1>0, <2>1, <2>3, <3>2
    <3>4. IsQueue(mutexQueue)' /\ Elements(mutexQueue)' = Parked'
      BY <1>0, <3>1, <3>2 DEF IsQueue, Elements
    <3> QED  BY <2>2, <2>4, <3>1, <3>2, <3>3, <3>4, Zenon DEF MutexInv
  <2>5. CASE mutexQueue # <<>>
    <3> DEFINE h == Head(mutexQueue)
    <3>1. /\ mutexQueue' = Tail(mutexQueue) /\ owner' = h /\ Wake({h}) /\ UNCHANGED locked
      BY <1>8, <2>5, MutexWaits DEF Mutex!Unlock
    <3>2. /\ h \in Parked /\ IsQueue(mutexQueue)'
          /\ Elements(mutexQueue)' = Parked \ {h}
      BY <1>0, <2>5, <3>1, QueueTail
    <3> HIDE DEF h
    <3>3. WaiterInv' /\ Parked' = Parked \ {h} /\ Granted' = Granted \cup {h}
      BY <1>0, <2>1, <2>2, <3>1, <3>2, WakeStep DEF Waiting
    <3>4. \A g \in Fibers : Holds(g)' <=> g = h
      BY <1>0, <2>1, <2>3, <3>3
    <3> QED  BY <1>0, <2>1, <2>2, <3>1, <3>2, <3>3, <3>4 DEF MutexInv
  <2> QED  BY <2>4, <2>5
<1> QED  BY <1>1, <1>2, <1>3, <1>4, <1>5, <1>6, <1>7, <1>8
         DEF Mutex!Lock, Mutex!LockCtx, Mutex!TryLock

\* Unlock hands over to the oldest waiter.
LEMMA MutexOrder ==
  ASSUME MutexInv, Mutex!Next
  PROVE  mutexQueue # <<>> /\ owner' # owner => owner' = Head(mutexQueue)
<1>1. mutexQueue # <<>> => locked
  BY DEF MutexInv
<1> QED  BY <1>1, Zenon DEF Mutex!Next, Mutex!Lock, Mutex!LockCtx, Mutex!TryLock, Mutex!Acquire,
         Mutex!Unlock, Mutex!LockReturns, Mutex!LockCtxDone, Mutex!LockCtxRemoves,
         Mutex!LockCtxFails, Mutex!mutexVars

\* What MutexInv says in the terms of FiberMutex.
LEMMA MutexInvImplies ==
  ASSUME Counting, MutexInv
  PROVE  /\ Mutex!TypeOK /\ Mutex!QueueExact
         /\ Mutex!HolderOwns /\ Mutex!OwnerWillUnlock
<1>1. Mutex!Parked = Parked /\ Mutex!Granted = Granted /\ Mutex!FiberRecord = FiberRecord
  BY DEF Mutex!Parked, Mutex!Granted, Mutex!Waiting, Parked, Granted, Waiting,
         Mutex!FiberRecord, Mutex!FiberState, FiberRecord, FiberState
<1>2. Mutex!TypeOK
  BY <1>1, WaiterInvImplies DEF MutexInv, Mutex!TypeOK, WaiterInv, IsQueue
<1>3. Mutex!QueueExact
  <2>1. Mutex!Elements(mutexQueue) = Elements(mutexQueue)
    BY MutexWaits
  <2>2. \A S : Mutex!Cardinality(S) = Cardinality(S)
    BY DEF Mutex!Cardinality, Cardinality
  <2> QED  BY <1>1, <2>1, <2>2 DEF MutexInv, Mutex!QueueExact, Counting
<1>4. Mutex!HolderOwns /\ Mutex!OwnerWillUnlock
  BY <1>1 DEF MutexInv, Mutex!HolderOwns, Mutex!OwnerWillUnlock
<1> QED  BY <1>2, <1>3, <1>4

\* NewFiberMutex.
LEMMA MutexInit == Mutex!Init => MutexInv
<1> SUFFICES ASSUME Mutex!Init PROVE MutexInv
  OBVIOUS
<1>1. WaiterInit /\ locked = FALSE /\ owner = NoFiber /\ mutexQueue = <<>>
  BY DEF Mutex!Init, Mutex!WaiterInit, WaiterInit, Mutex!RunningFiber, RunningFiber
<1>2. pc \in [Fibers -> Mutex!PC] /\ \A f \in Fibers : pc[f] # "holding"
  BY <1>1 DEF WaiterInit, Mutex!PC
<1> QED  BY <1>1, <1>2, WaiterInvInit, QueueEmpty, Zenon DEF MutexInv

-----------------------------------------------------------------------------
(* FiberRWMutex *)

\* The fibers that read, or were let in to read and do not know it yet.
Reading == RW!In("reading") \cup (Granted \ {writer})

\* The readers are counted, a writer is alone, the two queues list the parked
\* callers, and nobody is parked at a free mutex.
RWInv ==
  /\ WaiterInv /\ pc \in [Fibers -> RW!PC]
  /\ writer \in Fibers \cup {NoFiber}
  /\ IsQueue(readerQueue) /\ IsQueue(writerQueue)
  /\ Elements(readerQueue) \cup Elements(writerQueue) = Parked
  /\ Elements(readerQueue) \cap Elements(writerQueue) = {}
  /\ readers = Cardinality(Reading)
  /\ RW!In("writing") \subseteq {writer}
  /\ writer # NoFiber => Reading = {} /\ writer \in RW!In("writing") \cup Granted
  /\ readers = 0 /\ writer = NoFiber => readerQueue = <<>> /\ writerQueue = <<>>

\* FiberRWMutex follows the protocol of Waiter.
LEMMA RWWaits ==
  /\ \A f, s : /\ RW!Park(f, s) => Park(f, s)
               /\ RW!WaitEnds(f, s) => WaitEnds(f, s)
               /\ RW!CancelTooLate(f, s) => CancelTooLate(f, s)
  /\ \A f : /\ RW!CtxDone(f) => CtxDone(f)
            /\ RW!Withdraw(f) => Withdraw(f)
            /\ RW!CancelReturns(f) => CancelReturns(f)
  /\ \A S : RW!Wake(S) => Wake(S)
  /\ \A q : RW!Elements(q) = Elements(q)
  /\ \A q, f : RW!Dequeue(q, f) = Dequeue(q, f)
  /\ \A f, s, t : RW!Goto(f, s, t) => pc[f] \in s /\ pc' = [pc EXCEPT ![f] = t]
<1>1. \A f, s : /\ RW!Park(f, s) => Park(f, s)
                /\ RW!WaitEnds(f, s) => WaitEnds(f, s)
                /\ RW!CancelTooLate(f, s) => CancelTooLate(f, s)
  BY Zenon DEF RW!Park, RW!WaitEnds, RW!CancelTooLate, RW!Goto, RW!Block,
               Park, WaitEnds, CancelTooLate, Goto, Block
<1>2. \A f : /\ RW!CtxDone(f) => CtxDone(f)
             /\ RW!Withdraw(f) => Withdraw(f)
             /\ RW!CancelReturns(f) => CancelReturns(f)
  BY Zenon DEF RW!CtxDone, RW!Withdraw, RW!CancelReturns, RW!Goto, RW!Unblock,
               CtxDone, Withdraw, CancelReturns, Goto, Unblock
<1>3. \A S : RW!Wake(S) => Wake(S)
  BY Zenon DEF RW!Wake, Wake, RW!Unblock, Unblock
<1>4. /\ \A q : RW!Elements(q) = Elements(q)
      /\ \A q, f : RW!Dequeue(q, f) = Dequeue(q, f)
  BY Zenon DEF RW!Dequeue, Dequeue, RW!Elements, Elements
<1>5. \A f, s, t : RW!Goto(f, s, t) => pc[f] \in s /\ pc' = [pc EXCEPT ![f] = t]
  BY Zenon DEF RW!Goto
<1> QED  BY <1>1, <1>2, <1>3, <1>4, <1>5

\* The number of readers is a number, and zero only if nobody reads.
LEMMA ReadingCounted ==
  ASSUME Counting
  PROVE  /\ Reading \subseteq Fibers /\ Cardinality(Reading) \in Nat
         /\ Cardinality(Reading) = 0 <=> Reading = {}
         /\ \A f \in Fibers \ Reading : Cardinality(Reading \cup {f}) = Cardinality(Reading) + 1
         /\ \A f \in Reading : Cardinality(Reading \ {f}) = Cardinality(Reading) - 1
         /\ \A f \in Reading : Cardinality(Reading) = 1 => Reading = {f}
         /\ Cardinality({}) = 0
<1>1. Reading \subseteq Fibers
  BY DEF Reading, RW!In, Granted
<1>2. \A f \in Reading : Reading \ {f} \in SUBSET Fibers /\ (Reading \ {f} = {} => Reading = {f})
  BY <1>1
<1>3. /\ Cardinality(Reading) \in Nat /\ (Cardinality(Reading) = 0 <=> Reading = {})
      /\ \A f \in Fibers \ Reading : Cardinality(Reading \cup {f}) = Cardinality(Reading) + 1
      /\ \A f \in Reading : Cardinality(Reading \ {f}) = Cardinality(Reading) - 1
  BY <1>1 DEF Counting
<1>4. \A f \in Reading : Cardinality(Reading \ {f}) = 0 => Reading \ {f} = {}
  BY <1>2, Zenon DEF Counting
<1>5. Cardinality({}) = 0
  BY DEF Counting
<1>6. ASSUME NEW f \in Reading, Cardinality(Reading) = 1 PROVE Reading = {f}
  <2>1. Cardinality(Reading \ {f}) = 0
    BY <1>3, <1>6
  <2> QED  BY <1>2, <1>4, <2>1
<1> QED  BY <1>1, <1>3, <1>5, <1>6

\* A step that changes neither the queues nor who reads or writes.
LEMMA RWFrame ==
  ASSUME RWInv, WaiterInv', pc' \in [Fibers -> RW!PC], UNCHANGED rwVars,
         Parked' = Parked, Reading' = Reading,
         RW!In("writing")' \subseteq {writer},
         writer # NoFiber => writer \in RW!In("writing")' \cup Granted'
  PROVE  RWInv'
<1>1. /\ IsQueue(readerQueue)' /\ IsQueue(writerQueue)'
      /\ Elements(readerQueue)' = Elements(readerQueue)
      /\ Elements(writerQueue)' = Elements(writerQueue)
  BY DEF RWInv, rwVars, IsQueue, Elements
<1> QED  BY <1>1 DEF RWInv, rwVars

\* The last one who held the mutex hands it on.
LEMMA RWHandOver ==
  ASSUME Counting, RWInv, NEW f \in Fibers, Reading \subseteq {f}, writer \in {f, NoFiber},
         f \notin Granted, pc[f] \in {"reading", "writing"},
         pc' = [pc EXCEPT ![f] = "idle"], RW!GrantWriter \/ RW!AdmitReaders
  PROVE  RWInv'
<1>0. /\ WaiterInv /\ pc \in [Fibers -> RW!PC] /\ NoFiber \notin Fibers
      /\ IsQueue(readerQueue) /\ IsQueue(writerQueue)
      /\ Elements(readerQueue) \cup Elements(writerQueue) = Parked
      /\ Elements(readerQueue) \cap Elements(writerQueue) = {}
      /\ RW!In("writing") \subseteq {writer}
  BY WaitingFibersAssumption DEF RWInv
<1>1. pc' \in [Fibers -> RW!PC]
  BY <1>0 DEF RW!PC
<1>2. /\ Granted \subseteq Fibers /\ Parked \subseteq Fibers
      /\ Granted \cap Parked = {} /\ Granted = {}
  BY <1>0, Zenon DEF Reading, Granted, Parked
<1>3. RW!In("reading")' = {} /\ RW!In("writing")' = {}
  BY <1>0 DEF Reading, RW!In
<1>4. \A S \in SUBSET Parked : Wake(S) =>
        WaiterInv' /\ Parked' = Parked \ S /\ Granted' = Granted \cup S
  BY <1>0, <1>1, WakeStep DEF Waiting
<1>5. CASE RW!GrantWriter
  <2> DEFINE h == Head(writerQueue)
  <2>1. /\ writerQueue # <<>> /\ writer' = h /\ writerQueue' = Tail(writerQueue)
        /\ Wake({h}) /\ readers' = 0 /\ readerQueue' = readerQueue
    BY <1>5, RWWaits DEF RW!GrantWriter
  <2>2. /\ h \in Elements(writerQueue) /\ IsQueue(writerQueue)'
        /\ Elements(writerQueue)' = Elements(writerQueue) \ {h}
    BY <1>0, <2>1, QueueTail
  <2> HIDE DEF h
  <2>3. WaiterInv' /\ Parked' = Parked \ {h} /\ Granted' = {h}
    BY <1>0, <1>2, <1>4, <2>1, <2>2
  <2>4. Reading' = {}
    BY <1>3, <2>1, <2>3 DEF Reading
  <2>5. IsQueue(readerQueue)' /\ Elements(readerQueue)' = Elements(readerQueue)
    BY <1>0, <2>1 DEF IsQueue, Elements
  <2>6. h \in Fibers
    BY <1>0, <1>2, <2>2
  <2> QED  BY <1>0, <1>1, <1>3, <2>1, <2>2, <2>3, <2>4, <2>5, <2>6, ReadingCounted DEF RWInv
<1>6. CASE RW!AdmitReaders
  <2>1. /\ writerQueue = <<>> /\ readers' = Len(readerQueue) /\ readerQueue' = <<>>
        /\ writer' = NoFiber /\ Wake(Elements(readerQueue)) /\ writerQueue' = <<>>
    BY <1>6, RWWaits DEF RW!AdmitReaders
  <2>2. Elements(readerQueue) = Parked
    BY <1>0, <2>1, QueueEmpty, Zenon
  <2>3. WaiterInv' /\ Parked' = {} /\ Granted' = Parked
    BY <1>2, <1>4, <2>1, <2>2
  <2>4. Reading' = Parked
    BY <1>0, <1>2, <1>3, <2>1, <2>3 DEF Reading
  <2>5. readers' = Cardinality(Reading')
    BY <1>0, <2>1, <2>2, <2>4 DEF Counting
  <2> QED  BY <1>1, <1>3, <2>1, <2>3, <2>5, QueueEmpty, Zenon DEF RWInv
<1> QED  BY <1>5, <1>6

\* Every step of the mutex and its callers keeps RWInv.
LEMMA RWStep ==
  ASSUME Counting, RWInv, RW!Next
  PROVE  RWInv'
<1>0. /\ WaiterInv /\ pc \in [Fibers -> RW!PC] /\ NoFiber \notin Fibers
      /\ IsQueue(readerQueue) /\ IsQueue(writerQueue)
      /\ Elements(readerQueue) \cup Elements(writerQueue) = Parked
      /\ Elements(readerQueue) \cap Elements(writerQueue) = {}
      /\ RW!In("writing") \subseteq {writer} /\ writer \in Fibers \cup {NoFiber}
      /\ readers = Cardinality(Reading)
      /\ writer # NoFiber => Reading = {} /\ writer \in RW!In("writing") \cup Granted
      /\ readers = 0 /\ writer = NoFiber => readerQueue = <<>> /\ writerQueue = <<>>
  BY WaitingFibersAssumption DEF RWInv
<1>1. /\ Reading \subseteq Fibers /\ readers \in Nat
      /\ readers = 0 <=> Reading = {}
  BY <1>0, ReadingCounted
<1>2. PICK f \in Fibers :
        \/ RW!RLock(f) \/ RW!RLockCtx(f) \/ RW!RUnlock(f) \/ RW!Lock(f) \/ RW!LockCtx(f)
        \/ RW!Unlock(f) \/ RW!LockReturns(f) \/ RW!LockCtxDone(f) \/ RW!LockCtxRemoves(f)
        \/ RW!LockCtxFails(f)
  BY DEF RW!Next
<1>3. Granted \subseteq Fibers /\ Parked \subseteq Fibers /\ Granted \cap Parked = {}
  BY DEF Granted, Parked
<1>4. CASE RW!ReadEnter(f)
  <2>1. /\ writer = NoFiber /\ writerQueue = <<>> /\ readers' = readers + 1
        /\ pc[f] = "idle" /\ pc' = [pc EXCEPT ![f] = "reading"]
        /\ UNCHANGED <<fb, ready, writer, readerQueue, writerQueue>>
    BY <1>4, RWWaits DEF RW!ReadEnter, RW!ReaderMayEnter
  <2>2. pc' \in [Fibers -> RW!PC]
    BY <1>0, <2>1 DEF RW!PC
  <2>3. WaiterInv' /\ Parked' = Parked /\ Granted' = Granted
    BY <1>0, <2>1, <2>2, MoveStep, Zenon DEF Waiting
  <2>4. f \notin Reading /\ Reading' = Reading \cup {f}
    BY <1>0, <2>1, <2>3, Zenon DEF Reading, RW!In, Granted, Waiting
  <2>5. Cardinality(Reading') = readers + 1
    BY <1>0, <2>4, ReadingCounted
  <2>6. RW!In("writing")' = RW!In("writing")
    BY <1>0, <2>1 DEF RW!In
  <2>7. /\ IsQueue(readerQueue)' /\ IsQueue(writerQueue)'
        /\ Elements(readerQueue)' = Elements(readerQueue)
        /\ Elements(writerQueue)' = Elements(writerQueue)
    BY <1>0, <2>1 DEF IsQueue, Elements
  <2> QED  BY <1>0, <1>1, <2>1, <2>2, <2>3, <2>5, <2>6, <2>7 DEF RWInv
<1>5. CASE RW!WriteEnter(f)
  <2>1. /\ readers = 0 /\ writer = NoFiber /\ writerQueue = <<>> /\ writer' = f
        /\ pc[f] = "idle" /\ pc' = [pc EXCEPT ![f] = "writing"]
        /\ UNCHANGED <<fb, ready, readers, readerQueue, writerQueue>>
    BY <1>5, RWWaits DEF RW!WriteEnter, RW!WriterMayEnter
  <2>2. pc' \in [Fibers -> RW!PC]
    BY <1>0, <2>1 DEF RW!PC
  <2>3. WaiterInv' /\ Parked' = Parked /\ Granted' = Granted
    BY <1>0, <2>1, <2>2, MoveStep, Zenon DEF Waiting
  <2>4. Reading = {} /\ Reading' = {}
    BY <1>0, <1>1, <1>3, <2>1, <2>3, Zenon DEF Reading, RW!In
  <2>5. RW!In("writing")' = {f}
    BY <1>0, <2>1 DEF RW!In
  <2>6. /\ IsQueue(readerQueue)' /\ IsQueue(writerQueue)'
        /\ Elements(readerQueue)' = Elements(readerQueue)
        /\ Elements(writerQueue)' = Elements(writerQueue)
    BY <1>0, <2>1 DEF IsQueue, Elements
  <2> QED  BY <1>0, <2>1, <2>2, <2>3, <2>4, <2>5, <2>6, ReadingCounted, Zenon DEF RWInv
<1>6. ASSUME NEW s \in {"wait", "waitCtx"}, RW!ReadWait(f, s) \/ RW!WriteWait(f, s)
      PROVE  RWInv'
  <2>1. /\ RW!Park(f, s) /\ UNCHANGED <<readers, writer>>
        /\ \/ /\ ~RW!ReaderMayEnter /\ readerQueue' = Append(readerQueue, f)
              /\ UNCHANGED writerQueue
           \/ /\ ~RW!WriterMayEnter /\ writerQueue' = Append(writerQueue, f)
              /\ UNCHANGED readerQueue
    BY <1>6 DEF RW!ReadWait, RW!WriteWait
  <2>2. /\ WaiterInv' /\ f \notin Parked /\ Parked' = Parked \cup {f} /\ Granted' = Granted
        /\ pc' = [pc EXCEPT ![f] = s]
    <3>1. Park(f, s)
      BY <2>1, RWWaits, Zenon
    <3> QED  BY <1>0, <3>1, ParkStep
  <2>3. pc[f] = "idle"
    BY <2>1 DEF RW!Park, RW!Goto
  <2>4. pc' \in [Fibers -> RW!PC]
    BY <1>0, <2>2 DEF RW!PC, RW!Waiting
  <2>5. Reading' = Reading /\ RW!In("writing")' = RW!In("writing")
    BY <1>0, <2>1, <2>2, <2>3, Zenon DEF Reading, RW!In
  <2>6. ~(readers = 0 /\ writer = NoFiber)
    BY <1>0, <2>1, Zenon DEF RW!ReaderMayEnter, RW!WriterMayEnter
  <2>7. /\ IsQueue(readerQueue)' /\ IsQueue(writerQueue)'
        /\ Elements(readerQueue)' \cup Elements(writerQueue)' = Parked'
        /\ Elements(readerQueue)' \cap Elements(writerQueue)' = {}
    <3>1. CASE readerQueue' = Append(readerQueue, f) /\ UNCHANGED writerQueue
      <4>1. IsQueue(readerQueue)' /\ Elements(readerQueue)' = Elements(readerQueue) \cup {f}
        BY <1>0, <2>2, <3>1, QueueAppend, Zenon
      <4>2. IsQueue(writerQueue)' /\ Elements(writerQueue)' = Elements(writerQueue)
        BY <1>0, <3>1, Zenon DEF IsQueue, Elements
      <4> QED  BY <1>0, <2>2, <4>1, <4>2, Zenon
    <3>2. CASE writerQueue' = Append(writerQueue, f) /\ UNCHANGED readerQueue
      <4>1. IsQueue(writerQueue)' /\ Elements(writerQueue)' = Elements(writerQueue) \cup {f}
        BY <1>0, <2>2, <3>2, QueueAppend, Zenon
      <4>2. IsQueue(readerQueue)' /\ Elements(readerQueue)' = Elements(readerQueue)
        BY <1>0, <3>2, Zenon DEF IsQueue, Elements
      <4> QED  BY <1>0, <2>2, <4>1, <4>2, Zenon
    <3> QED  BY <2>1, <3>1, <3>2, Zenon
  <2> QED  BY <1>0, <2>1, <2>2, <2>4, <2>5, <2>6, <2>7, Zenon DEF RWInv
<1>7. CASE RW!LockReturns(f)
  <2>1. RW!GrantOf(f) \in {"writing", "reading"} /\ (RW!GrantOf(f) = "writing" <=> writer = f)
    BY DEF RW!GrantOf
  <2>2. /\ WaiterInv' /\ f \in Granted /\ Parked' = Parked /\ Granted' = Granted \ {f}
        /\ pc' = [pc EXCEPT ![f] = RW!GrantOf(f)] /\ UNCHANGED rwVars
    BY <1>0, <1>7, <2>1, RWWaits, ReturnStep, Zenon DEF RW!LockReturns, Waiting, rwVars, RW!rwVars
  <2>3. pc' \in [Fibers -> RW!PC] /\ pc[f] \notin {"reading", "writing"}
    BY <1>0, <2>1, <2>2, Zenon DEF RW!PC, Granted, Waiting
  <2>4. Reading' = Reading
    BY <1>0, <2>1, <2>2, <2>3, Zenon DEF Reading, RW!In, rwVars
  <2>5. /\ RW!In("writing")' \subseteq {writer}
        /\ writer # NoFiber => writer \in RW!In("writing")' \cup Granted'
    BY <1>0, <2>1, <2>2, <2>3, Zenon DEF RW!In
  <2> QED  BY <2>2, <2>3, <2>4, <2>5, RWFrame
<1>8. CASE RW!LockCtxDone(f) \/ RW!LockCtxFails(f)
  <2>1. /\ WaiterInv' /\ Parked' = Parked /\ Granted' = Granted /\ UNCHANGED rwVars
        /\ \/ pc[f] = "waitCtx" /\ pc' = [pc EXCEPT ![f] = "cancelled"]
           \/ pc[f] = "withdrawn" /\ pc' = [pc EXCEPT ![f] = "idle"]
    BY <1>0, <1>8, RWWaits, CtxDoneStep, CancelReturnsStep, Zenon
       DEF RW!LockCtxDone, RW!LockCtxFails, rwVars, RW!rwVars
  <2>2. pc' \in [Fibers -> RW!PC]
    BY <1>0, <2>1, Zenon DEF RW!PC, RW!Waiting
  <2>3. Reading' = Reading /\ RW!In("writing")' = RW!In("writing")
    BY <1>0, <2>1, Zenon DEF Reading, RW!In, rwVars
  <2> QED  BY <1>0, <2>1, <2>2, <2>3, RWFrame, Zenon
<1>9. CASE RW!LockCtxRemoves(f)
  <2>1. /\ WaiterInv' /\ f \in Parked /\ Parked' = Parked \ {f} /\ Granted' = Granted
        /\ pc' = [pc EXCEPT ![f] = "withdrawn"] /\ UNCHANGED <<readers, writer>>
        /\ readerQueue' = Dequeue(readerQueue, f) /\ writerQueue' = Dequeue(writerQueue, f)
    BY <1>0, <1>9, RWWaits, WithdrawStep, Zenon DEF RW!LockCtxRemoves
  <2>2. pc' \in [Fibers -> RW!PC] /\ pc[f] \notin {"reading", "writing"}
    BY <1>0, <2>1, Zenon DEF RW!PC, Parked, Waiting
  <2>3. Reading' = Reading /\ RW!In("writing")' = RW!In("writing")
    BY <1>0, <2>1, <2>2, Zenon DEF Reading, RW!In
  <2>4. /\ IsQueue(readerQueue)' /\ Elements(readerQueue)' = Elements(readerQueue) \ {f}
        /\ IsQueue(writerQueue)' /\ Elements(writerQueue)' = Elements(writerQueue) \ {f}
    BY <1>0, <2>1, QueueRemove, Zenon
  <2>5. ~(readers = 0 /\ writer = NoFiber)
    BY <1>0, <2>1, QueueEmpty, Zenon
  <2> QED  BY <1>0, <2>1, <2>2, <2>3, <2>4, <2>5, Zenon DEF RWInv
<1>10. CASE RW!RUnlock(f)
  <2>1. /\ readers > 0 /\ pc[f] = "reading" /\ pc' = [pc EXCEPT ![f] = "idle"]
    BY <1>10, RWWaits DEF RW!RUnlock
  <2>2. writer = NoFiber /\ f \in Reading /\ f \notin Granted
    BY <1>0, <1>1, <2>1, Zenon DEF Reading, RW!In, Granted, Waiting
  <2>3. CASE readers > 1
    <3>1. /\ readers' = readers - 1
          /\ UNCHANGED <<fb, ready, writer, readerQueue, writerQueue>>
      BY <1>10, <2>3 DEF RW!RUnlock
    <3>2. pc' \in [Fibers -> RW!PC]
      BY <1>0, <2>1, Zenon DEF RW!PC
    <3>3. WaiterInv' /\ Parked' = Parked /\ Granted' = Granted
      BY <1>0, <2>1, <3>1, <3>2, MoveStep, Zenon DEF Waiting
    <3>4. Reading' = Reading \ {f} /\ RW!In("writing")' = RW!In("writing")
      BY <1>0, <2>1, <2>2, <3>1, <3>3, Zenon DEF Reading, RW!In
    <3>5. Cardinality(Reading') = readers - 1
      BY <1>0, <2>2, <3>4, ReadingCounted, Zenon
    <3>6. /\ IsQueue(readerQueue)' /\ IsQueue(writerQueue)'
          /\ Elements(readerQueue)' = Elements(readerQueue)
          /\ Elements(writerQueue)' = Elements(writerQueue)
      BY <1>0, <3>1, Zenon DEF IsQueue, Elements
    <3>7. readers' # 0 /\ writer' = NoFiber
      BY <1>1, <2>2, <2>3, <3>1
    <3> QED  BY <1>0, <3>1, <3>2, <3>3, <3>4, <3>5, <3>6, <3>7, Zenon DEF RWInv
  <2>4. CASE ~(readers > 1)
    <3>1. RW!GrantWriter \/ RW!AdmitReaders
      BY <1>10, <2>4 DEF RW!RUnlock
    <3>2. Reading = {f}
      BY <1>0, <1>1, <2>1, <2>2, <2>4, ReadingCounted
    <3> QED  BY <2>1, <2>2, <3>1, <3>2, RWHandOver, Zenon
  <2> QED  BY <2>3, <2>4
<1>11. CASE RW!Unlock(f)
  <2>1. /\ writer = f /\ pc[f] = "writing" /\ pc' = [pc EXCEPT ![f] = "idle"]
        /\ RW!GrantWriter \/ RW!AdmitReaders
    BY <1>11, RWWaits DEF RW!Unlock
  <2>2. Reading = {} /\ f \notin Granted
    BY <1>0, <2>1, Zenon DEF Granted, Waiting
  <2> QED  BY <2>1, <2>2, RWHandOver, Zenon
<1> QED  BY <1>2, <1>4, <1>5, <1>6, <1>7, <1>8, <1>9, <1>10, <1>11
         DEF RW!RLock, RW!RLockCtx, RW!Lock, RW!LockCtx

\* While a writer waits no reader enters and the mutex passes to the oldest
\* writer.
LEMMA RWOrder ==
  ASSUME Counting, RWInv, RW!Next, writerQueue # <<>>
  PROVE  readers' <= readers /\ writer' \in {writer, NoFiber, Head(writerQueue)}
<1>1. readers \in Nat
  BY ReadingCounted, Zenon DEF RWInv
<1>2. \/ UNCHANGED <<readers, writer>>
      \/ readers > 1 /\ readers' = readers - 1 /\ UNCHANGED writer
      \/ RW!GrantWriter
  BY Zenon DEF RW!Next, RW!RLock, RW!RLockCtx, RW!RUnlock, RW!Lock, RW!LockCtx, RW!Unlock,
     RW!LockReturns, RW!LockCtxDone, RW!LockCtxRemoves, RW!LockCtxFails, RW!rwVars,
     RW!ReadEnter, RW!ReadWait, RW!WriteEnter, RW!WriteWait, RW!ReaderMayEnter,
     RW!WriterMayEnter, RW!AdmitReaders
<1> QED  BY <1>1, <1>2 DEF RW!GrantWriter

\* What RWInv says in the terms of FiberRWMutex.
LEMMA RWInvImplies ==
  ASSUME Counting, RWInv
  PROVE  RW!TypeOK /\ RW!QueuesExact /\ RW!FreeHasNoWaiters /\ RW!ExclusionExact
<1>1. RW!Parked = Parked /\ RW!Granted = Granted /\ RW!FiberRecord = FiberRecord
  BY DEF RW!Parked, RW!Granted, RW!Waiting, Parked, Granted, Waiting,
         RW!FiberRecord, RW!FiberState, FiberRecord, FiberState
<1>2. \A S : RW!Cardinality(S) = Cardinality(S)
  BY DEF RW!Cardinality, Cardinality
<1>3. readers \in Nat /\ (readers = 0 <=> Reading = {})
  BY ReadingCounted, Zenon DEF RWInv
<1>4. RW!TypeOK
  BY <1>1, <1>3, WaiterInvImplies, Zenon DEF RWInv, RW!TypeOK, WaiterInv, IsQueue
<1>5. RW!QueuesExact
  <2>1. RW!Elements(readerQueue \o writerQueue) = Parked
    BY RWWaits, ElementsConcat, Zenon DEF RWInv
  <2>2. /\ Len(readerQueue) = Cardinality(Elements(readerQueue))
        /\ Len(writerQueue) = Cardinality(Elements(writerQueue))
    BY Zenon DEF RWInv, Counting
  <2>3. Len(readerQueue) + Len(writerQueue) = Cardinality(Parked)
    <3>1. /\ Elements(readerQueue) \cup Elements(writerQueue) = Parked
          /\ Elements(readerQueue) \cap Elements(writerQueue) = {}
          /\ Parked \subseteq Fibers
      BY Zenon DEF RWInv, Parked
    <3>2. /\ Elements(readerQueue) \in SUBSET Fibers /\ Elements(writerQueue) \in SUBSET Fibers
      BY <3>1
    <3>3. Cardinality(Elements(readerQueue) \cup Elements(writerQueue))
            = Cardinality(Elements(readerQueue)) + Cardinality(Elements(writerQueue))
      BY <3>1, <3>2, Zenon DEF Counting
    <3> QED  BY <2>2, <3>1, <3>3, Zenon
  <2> QED  BY <1>1, <1>2, <2>1, <2>3 DEF RW!QueuesExact
<1>6. RW!FreeHasNoWaiters
  BY DEF RWInv, RW!FreeHasNoWaiters
<1>7. RW!ExclusionExact
  BY <1>1, <1>2, <1>3, Zenon DEF RWInv, RW!ExclusionExact, Reading
<1> QED  BY <1>4, <1>5, <1>6, <1>7

\* NewFiberRWMutex.
LEMMA RWInit ==
  ASSUME Counting, RW!Init
  PROVE  RWInv
<1>1. /\ WaiterInit /\ readers = 0 /\ writer = NoFiber
      /\ readerQueue = <<>> /\ writerQueue = <<>>
  BY DEF RW!Init, RW!WaiterInit, WaiterInit, RW!RunningFiber, RunningFiber
<1>2. pc \in [Fibers -> RW!PC] /\ RW!In("reading") = {} /\ RW!In("writing") = {}
  BY <1>1 DEF WaiterInit, RW!PC, RW!In
<1>3. Reading = {}
  BY <1>1, <1>2, WaiterInvInit DEF Reading
<1> QED  BY <1>1, <1>2, <1>3, WaiterInvInit, QueueEmpty, ReadingCounted, Zenon DEF RWInv

-----------------------------------------------------------------------------
(* FiberSemaphore *)

\* The fibers that have a permit, whether or not they know it yet.
Holders == {f \in Fibers : pc[f] = "holding"} \cup Granted

\* Every permit is free or held, and a signal is free, held or used up; nobody
\* is parked while a permit is free.
SemInv ==
  /\ WaiterInv /\ pc \in [Fibers -> Sem!PC]
  /\ permits \in Nat /\ maxPermits \in PermitCounts /\ signals \in Nat /\ used \in Nat
  /\ IsQueue(permitQueue) /\ Elements(permitQueue) = Parked
  /\ permits > 0 => permitQueue = <<>>
  /\ permits + Cardinality(Holders) + used = maxPermits + signals
  /\ maxPermits > 0 => signals = 0 /\ used = 0

\* FiberSemaphore follows the protocol of Waiter.
LEMMA SemWaits ==
  /\ \A f, s : /\ Sem!Park(f, s) => Park(f, s)
               /\ Sem!WaitEnds(f, s) => WaitEnds(f, s)
               /\ Sem!CancelTooLate(f, s) => CancelTooLate(f, s)
  /\ \A f : /\ Sem!CtxDone(f) => CtxDone(f)
            /\ Sem!Withdraw(f) => Withdraw(f)
            /\ Sem!CancelReturns(f) => CancelReturns(f)
  /\ \A S : Sem!Wake(S) => Wake(S)
  /\ \A q : Sem!Elements(q) = Elements(q)
  /\ \A q, f : Sem!Dequeue(q, f) = Dequeue(q, f)
  /\ \A f, s, t : Sem!Goto(f, s, t) => pc[f] \in s /\ pc' = [pc EXCEPT ![f] = t]
<1>1. \A f, s : /\ Sem!Park(f, s) => Park(f, s)
                /\ Sem!WaitEnds(f, s) => WaitEnds(f, s)
                /\ Sem!CancelTooLate(f, s) => CancelTooLate(f, s)
  BY Zenon DEF Sem!Park, Sem!WaitEnds, Sem!CancelTooLate, Sem!Goto, Sem!Block,
               Park, WaitEnds, CancelTooLate, Goto, Block
<1>2. \A f : /\ Sem!CtxDone(f) => CtxDone(f)
             /\ Sem!Withdraw(f) => Withdraw(f)
             /\ Sem!CancelReturns(f) => CancelReturns(f)
  BY Zenon DEF Sem!CtxDone, Sem!Withdraw, Sem!CancelReturns, Sem!Goto, Sem!Unblock,
               CtxDone, Withdraw, CancelReturns, Goto, Unblock
<1>3. \A S : Sem!Wake(S) => Wake(S)
  BY Zenon DEF Sem!Wake, Wake, Sem!Unblock, Unblock
<1>4. /\ \A q : Sem!Elements(q) = Elements(q)
      /\ \A q, f : Sem!Dequeue(q, f) = Dequeue(q, f)
  BY Zenon DEF Sem!Dequeue, Dequeue, Sem!Elements, Elements
<1>5. \A f, s, t : Sem!Goto(f, s, t) => pc[f] \in s /\ pc' = [pc EXCEPT ![f] = t]
  BY Zenon DEF Sem!Goto
<1> QED  BY <1>1, <1>2, <1>3, <1>4, <1>5

\* The holders are counted by a number.
LEMMA HoldersCounted ==
  ASSUME Counting
  PROVE  /\ Holders \subseteq Fibers /\ Cardinality(Holders) \in Nat
         /\ Cardinality(Holders) = 0 <=> Holders = {}
<1>1. Holders \subseteq Fibers
  BY DEF Holders, Granted
<1> QED  BY <1>1, Zenon DEF Counting

\* A step that changes neither the queue nor who holds a permit.
LEMMA SemFrame ==
  ASSUME SemInv, WaiterInv', pc' \in [Fibers -> Sem!PC], UNCHANGED semVars,
         Parked' = Parked, Holders' = Holders
  PROVE  SemInv'
<1>1. IsQueue(permitQueue)' /\ Elements(permitQueue)' = Elements(permitQueue)
  BY Zenon DEF SemInv, semVars, IsQueue, Elements
<1> QED  BY <1>1, Zenon DEF SemInv, semVars

\* Release hands a permit to the oldest waiter, or counts it; G is who holds
\* one in between.
LEMMA ReleaseStep ==
  ASSUME SemInv, Sem!Release, pc' \in [Fibers -> Sem!PC],
         \A g \in Fibers : \/ pc'[g] = pc[g]
                          \/ /\ pc[g] \notin Waiting \cup {"withdrawn"}
                             /\ pc'[g] \notin Waiting \cup {"withdrawn"}
  PROVE  /\ WaiterInv' /\ IsQueue(permitQueue)' /\ Elements(permitQueue)' = Parked'
         /\ \/ /\ permitQueue = <<>> /\ permitQueue' = <<>> /\ Granted' = Granted
              /\ permits' = IF maxPermits = 0 \/ permits < maxPermits THEN permits + 1 ELSE permits
           \/ /\ permitQueue # <<>> /\ permits = 0 /\ permits' = 0
              /\ Head(permitQueue) \in Parked /\ Granted' = Granted \cup {Head(permitQueue)}
<1>0. /\ WaiterInv /\ pc \in [Fibers -> Sem!PC] /\ IsQueue(permitQueue)
      /\ Elements(permitQueue) = Parked
  BY DEF SemInv
<1>1. CASE permitQueue = <<>>
  <2>1. /\ permits' = IF maxPermits = 0 \/ permits < maxPermits THEN permits + 1 ELSE permits
        /\ UNCHANGED <<fb, ready, permitQueue>>
    BY <1>1 DEF Sem!Release
  <2>2. WaiterInv' /\ Parked' = Parked /\ Granted' = Granted
    BY <1>0, <2>1, MoveStep, Zenon
  <2>3. IsQueue(permitQueue)' /\ Elements(permitQueue)' = Parked'
    BY <1>0, <2>1, <2>2, Zenon DEF IsQueue, Elements
  <2> QED  BY <1>1, <2>1, <2>2, <2>3, Zenon
<1>2. CASE permitQueue # <<>>
  <2> DEFINE h == Head(permitQueue)
  <2>1. Wake({h}) /\ permitQueue' = Tail(permitQueue) /\ UNCHANGED permits
    BY <1>2, SemWaits, Zenon DEF Sem!Release
  <2>2. /\ h \in Parked /\ IsQueue(permitQueue)'
        /\ Elements(permitQueue)' = Parked \ {h}
    BY <1>0, <1>2, <2>1, QueueTail
  <2>3. permits = 0
    BY <1>2 DEF SemInv
  <2> HIDE DEF h
  <2>4. WaiterInv' /\ Parked' = Parked \ {h} /\ Granted' = Granted \cup {h}
    BY <1>0, <2>1, <2>2, WakeStep, Zenon
  <2> QED  BY <1>2, <2>1, <2>2, <2>3, <2>4 DEF h
<1> QED  BY <1>1, <1>2, Zenon

\* Every step of the semaphore and its callers keeps SemInv.
LEMMA SemStep ==
  ASSUME Counting, SemInv, Sem!Next
  PROVE  SemInv'
<1>0. /\ WaiterInv /\ pc \in [Fibers -> Sem!PC] /\ maxPermits \in Nat
      /\ permits \in Nat /\ maxPermits \in PermitCounts /\ signals \in Nat /\ used \in Nat
      /\ IsQueue(permitQueue) /\ Elements(permitQueue) = Parked
      /\ permits > 0 => permitQueue = <<>>
      /\ permits + Cardinality(Holders) + used = maxPermits + signals
      /\ maxPermits > 0 => signals = 0 /\ used = 0
      /\ Holders \subseteq Fibers /\ Cardinality(Holders) \in Nat
  BY HoldersCounted, LocksAssumption, Zenon DEF SemInv
<1>1. \A h \in Fibers :
        /\ h \in Holders => Cardinality(Holders \ {h}) = Cardinality(Holders) - 1
        /\ h \notin Holders => Cardinality(Holders \cup {h}) = Cardinality(Holders) + 1
  BY <1>0, Zenon DEF Counting
<1>2. ASSUME NEW f \in Fibers, Sem!Take(f) PROVE SemInv'
  <2>1. /\ permits > 0 /\ permits' = permits - 1
        /\ pc[f] = "idle" /\ pc' = [pc EXCEPT ![f] = "holding"]
        /\ UNCHANGED <<fb, ready, maxPermits, permitQueue, signals, used>>
    BY <1>2, SemWaits DEF Sem!Take
  <2>2. pc' \in [Fibers -> Sem!PC]
    BY <1>0, <2>1, Zenon DEF Sem!PC
  <2>3. WaiterInv' /\ Parked' = Parked /\ Granted' = Granted
    BY <1>0, <2>1, <2>2, MoveStep, Zenon DEF Waiting
  <2>4. f \notin Holders /\ Holders' = Holders \cup {f}
    BY <1>0, <2>1, <2>3, Zenon DEF Holders, Granted, Waiting
  <2>5. Cardinality(Holders') = Cardinality(Holders) + 1
    BY <1>1, <2>4
  <2>6. IsQueue(permitQueue)' /\ Elements(permitQueue)' = Parked'
    BY <1>0, <2>1, <2>3, Zenon DEF IsQueue, Elements
  <2> QED  BY <1>0, <2>1, <2>2, <2>3, <2>5, <2>6 DEF SemInv
<1>3. ASSUME NEW f \in Fibers, NEW s \in {"wait", "waitCtx"}, Sem!AcquirePark(f, s)
      PROVE  SemInv'
  <2>1. /\ permits = 0 /\ Sem!Park(f, s) /\ permitQueue' = Append(permitQueue, f)
        /\ UNCHANGED <<permits, maxPermits, signals, used>>
    BY <1>3 DEF Sem!AcquirePark
  <2>2. /\ WaiterInv' /\ f \notin Parked /\ Parked' = Parked \cup {f} /\ Granted' = Granted
        /\ pc' = [pc EXCEPT ![f] = s]
    <3>1. Park(f, s)
      BY <2>1, SemWaits, Zenon
    <3> QED  BY <1>0, <3>1, ParkStep, Zenon
  <2>3. pc[f] = "idle"
    BY <2>1 DEF Sem!Park, Sem!Goto
  <2>4. pc' \in [Fibers -> Sem!PC]
    BY <1>0, <2>2, Zenon DEF Sem!PC, Sem!Waiting
  <2>5. Holders' = Holders
    BY <1>0, <2>2, <2>3, Zenon DEF Holders
  <2>6. IsQueue(permitQueue)' /\ Elements(permitQueue)' = Parked'
    BY <1>0, <2>1, <2>2, QueueAppend, Zenon
  <2> QED  BY <1>0, <2>1, <2>2, <2>4, <2>5, <2>6 DEF SemInv
<1>4. ASSUME NEW f \in Fibers, Sem!AcquireReturns(f) PROVE SemInv'
  <2>1. /\ WaiterInv' /\ f \in Granted /\ Parked' = Parked /\ Granted' = Granted \ {f}
        /\ pc' = [pc EXCEPT ![f] = "holding"] /\ UNCHANGED semVars
    BY <1>0, <1>4, SemWaits, ReturnStep, Zenon DEF Sem!AcquireReturns, Waiting, semVars, Sem!semVars
  <2>2. pc' \in [Fibers -> Sem!PC] /\ Holders' = Holders
    BY <1>0, <2>1, Zenon DEF Sem!PC, Holders
  <2> QED  BY <2>1, <2>2, SemFrame
<1>5. ASSUME NEW f \in Fibers, Sem!AcquireCtxDone(f) \/ Sem!AcquireCtxFails(f) PROVE SemInv'
  <2>1. /\ WaiterInv' /\ Parked' = Parked /\ Granted' = Granted /\ UNCHANGED semVars
        /\ \/ pc[f] = "waitCtx" /\ pc' = [pc EXCEPT ![f] = "cancelled"]
           \/ pc[f] = "withdrawn" /\ pc' = [pc EXCEPT ![f] = "idle"]
    BY <1>0, <1>5, SemWaits, CtxDoneStep, CancelReturnsStep, Zenon
       DEF Sem!AcquireCtxDone, Sem!AcquireCtxFails, semVars, Sem!semVars
  <2>2. pc' \in [Fibers -> Sem!PC] /\ Holders' = Holders
    BY <1>0, <2>1, Zenon DEF Sem!PC, Sem!Waiting, Holders
  <2> QED  BY <2>1, <2>2, SemFrame
<1>6. ASSUME NEW f \in Fibers, Sem!AcquireCtxRemoves(f) PROVE SemInv'
  <2>1. /\ WaiterInv' /\ f \in Parked /\ Parked' = Parked \ {f} /\ Granted' = Granted
        /\ pc' = [pc EXCEPT ![f] = "withdrawn"] /\ permitQueue' = Dequeue(permitQueue, f)
        /\ UNCHANGED <<permits, maxPermits, signals, used>>
    BY <1>0, <1>6, SemWaits, WithdrawStep, Zenon DEF Sem!AcquireCtxRemoves
  <2>2. pc' \in [Fibers -> Sem!PC] /\ pc[f] # "holding"
    BY <1>0, <2>1, Zenon DEF Sem!PC, Parked, Waiting
  <2>3. Holders' = Holders
    BY <1>0, <2>1, <2>2, Zenon DEF Holders
  <2>4. IsQueue(permitQueue)' /\ Elements(permitQueue)' = Parked'
    BY <1>0, <2>1, QueueRemove, Zenon
  <2>5. ~(permits > 0)
    BY <1>0, <2>1, QueueEmpty, Zenon
  <2> QED  BY <1>0, <2>1, <2>2, <2>3, <2>4, <2>5, Zenon DEF SemInv
<1>7. ASSUME NEW f \in Fibers, Sem!ReleaseHeld(f) PROVE SemInv'
  <2>1. /\ maxPermits > 0 /\ pc[f] = "holding" /\ pc' = [pc EXCEPT ![f] = "idle"]
        /\ Sem!Release /\ UNCHANGED <<maxPermits, signals, used>>
    BY <1>7, SemWaits DEF Sem!ReleaseHeld
  <2>2. pc' \in [Fibers -> Sem!PC]
    BY <1>0, <2>1, Zenon DEF Sem!PC
  <2>3. /\ WaiterInv' /\ IsQueue(permitQueue)' /\ Elements(permitQueue)' = Parked'
        /\ \/ /\ permitQueue = <<>> /\ permitQueue' = <<>> /\ Granted' = Granted
              /\ permits' = IF maxPermits = 0 \/ permits < maxPermits THEN permits + 1 ELSE permits
           \/ /\ permitQueue # <<>> /\ permits = 0 /\ permits' = 0
              /\ Head(permitQueue) \in Parked /\ Granted' = Granted \cup {Head(permitQueue)}
    BY <1>0, <2>1, <2>2, ReleaseStep, Zenon DEF Waiting
  <2>4. f \in Holders /\ f \notin Granted
    BY <2>1, Zenon DEF Holders, Granted, Waiting
  <2>5. CASE permitQueue = <<>>
    <3>1. Holders' = Holders \ {f}
      BY <1>0, <2>1, <2>3, <2>4, <2>5, Zenon DEF Holders
    <3>2. Cardinality(Holders') = Cardinality(Holders) - 1
      BY <1>1, <2>4, <3>1, Zenon
    <3>3. permits < maxPermits /\ Cardinality(Holders) # 0
      BY <1>0, <2>1, <2>4, HoldersCounted
    <3> QED  BY <1>0, <2>1, <2>2, <2>3, <2>5, <3>2, <3>3 DEF SemInv
  <2>6. CASE permitQueue # <<>>
    <3> DEFINE h == Head(permitQueue)
    <3>1. h \in Parked /\ Granted' = Granted \cup {h} /\ permits = 0 /\ permits' = 0
      BY <2>3, <2>6, Zenon
    <3> HIDE DEF h
    <3>2. /\ h \notin Holders /\ h \in Fibers
          /\ Holders' = (Holders \ {f}) \cup {h} /\ h \notin Holders \ {f}
      BY <1>0, <2>1, <2>4, <3>1, Zenon DEF Holders, Parked, Granted, Waiting
    <3>3. Cardinality(Holders') = Cardinality(Holders)
      <4>1. Cardinality((Holders \ {f}) \cup {h}) = Cardinality(Holders \ {f}) + 1
        BY <1>0, <3>2, Zenon DEF Counting
      <4> QED  BY <1>0, <1>1, <2>4, <3>2, <4>1
    <3> QED  BY <1>0, <2>1, <2>2, <2>3, <3>1, <3>3, Zenon DEF SemInv
  <2> QED  BY <2>5, <2>6
<1>8. CASE Sem!OverRelease
  <2>1. /\ maxPermits > 0 /\ permits = maxPermits /\ Sem!Release
        /\ UNCHANGED <<pc, maxPermits, signals, used>>
    BY <1>8 DEF Sem!OverRelease
  <2>2. /\ permits' = permits /\ UNCHANGED <<fb, ready, permitQueue>>
    BY <1>0, <2>1 DEF Sem!Release
  <2>3. WaiterInv' /\ Parked' = Parked /\ Holders' = Holders
    BY <1>0, <2>1, <2>2, Zenon DEF WaiterInv, Parked, Granted, Holders
  <2> QED  BY <1>0, <2>1, <2>2, <2>3, SemFrame, Zenon DEF semVars
<1>9. CASE Sem!Signal
  <2>1. /\ maxPermits = 0 /\ Sem!Release /\ signals' = signals + 1
        /\ UNCHANGED <<pc, maxPermits, used>>
    BY <1>9 DEF Sem!Signal
  <2>2. /\ WaiterInv' /\ IsQueue(permitQueue)' /\ Elements(permitQueue)' = Parked'
        /\ \/ /\ permitQueue = <<>> /\ permitQueue' = <<>> /\ Granted' = Granted
              /\ permits' = IF maxPermits = 0 \/ permits < maxPermits THEN permits + 1 ELSE permits
           \/ /\ permitQueue # <<>> /\ permits = 0 /\ permits' = 0
              /\ Head(permitQueue) \in Parked /\ Granted' = Granted \cup {Head(permitQueue)}
    BY <1>0, <2>1, ReleaseStep, Zenon
  <2>3. CASE permitQueue = <<>>
    <3>1. Holders' = Holders
      BY <2>1, <2>2, <2>3, Zenon DEF Holders
    <3> QED  BY <1>0, <2>1, <2>2, <2>3, <3>1 DEF SemInv
  <2>4. CASE permitQueue # <<>>
    <3> DEFINE h == Head(permitQueue)
    <3>1. h \in Parked /\ Granted' = Granted \cup {h} /\ permits = 0 /\ permits' = 0
      BY <2>2, <2>4, Zenon
    <3> HIDE DEF h
    <3>2. h \notin Holders /\ h \in Fibers /\ Holders' = Holders \cup {h}
      BY <2>1, <3>1, Zenon DEF Holders, Parked, Granted, Waiting
    <3>3. Cardinality(Holders') = Cardinality(Holders) + 1
      BY <1>1, <3>2, Zenon
    <3> QED  BY <1>0, <2>1, <2>2, <3>1, <3>3 DEF SemInv
  <2> QED  BY <2>3, <2>4
<1>10. ASSUME NEW f \in Fibers, Sem!SignalUsed(f) PROVE SemInv'
  <2>1. /\ maxPermits = 0 /\ pc[f] = "holding" /\ pc' = [pc EXCEPT ![f] = "idle"]
        /\ used' = used + 1
        /\ UNCHANGED <<fb, ready, permits, maxPermits, permitQueue, signals>>
    BY <1>10, SemWaits, SMTT(30) DEF Sem!SignalUsed, Sem!semVars
  <2>2. pc' \in [Fibers -> Sem!PC]
    BY <1>0, <2>1, Zenon DEF Sem!PC
  <2>3. WaiterInv' /\ Parked' = Parked /\ Granted' = Granted
    BY <1>0, <2>1, <2>2, MoveStep, Zenon DEF Waiting
  <2>4. f \in Holders /\ Holders' = Holders \ {f}
    BY <1>0, <2>1, <2>3, Zenon DEF Holders, Granted, Waiting
  <2>5. Cardinality(Holders') = Cardinality(Holders) - 1
    BY <1>1, <2>4, Zenon
  <2>6. IsQueue(permitQueue)' /\ Elements(permitQueue)' = Parked'
    BY <1>0, <2>1, <2>3, Zenon DEF IsQueue, Elements
  <2> QED  BY <1>0, <2>1, <2>2, <2>3, <2>5, <2>6 DEF SemInv
<1> QED  BY <1>2, <1>3, <1>4, <1>5, <1>6, <1>7, <1>8, <1>9, <1>10, Zenon
         DEF Sem!Next, Sem!Acquire, Sem!AcquireCtx, Sem!TryAcquire

\* While fibers wait only the oldest of them gets a permit.
LEMMA SemOrder ==
  ASSUME SemInv, Sem!Next, permitQueue # <<>>
  PROVE  Holders' \subseteq Holders \cup {Head(permitQueue)}
<1>0. pc \in [Fibers -> Sem!PC] /\ ~(permits > 0)
  BY Zenon DEF SemInv
<1>1. \A f, s, t : Sem!Goto(f, s, t) => pc[f] \in s /\ pc' = [pc EXCEPT ![f] = t]
  BY SemWaits, Zenon
<1>2. CASE Sem!OverRelease \/ Sem!Signal
  <2>1. UNCHANGED pc /\ Sem!Release
    BY <1>2 DEF Sem!OverRelease, Sem!Signal
  <2>2. ready' = ready \cup {Head(permitQueue)}
    BY <2>1, Zenon DEF Sem!Release, Sem!Wake
  <2> QED  BY <2>1, <2>2, Zenon DEF Holders, Granted, Waiting
<1>3. ASSUME NEW f \in Fibers, Sem!ReleaseHeld(f) \/ Sem!SignalUsed(f)
      PROVE  Holders' \subseteq Holders \cup {Head(permitQueue)}
  <2>1. pc[f] = "holding" /\ pc' = [pc EXCEPT ![f] = "idle"]
    BY <1>1, <1>3 DEF Sem!ReleaseHeld, Sem!SignalUsed
  <2>2. ready' \subseteq ready \cup {Head(permitQueue)}
    BY <1>3, Zenon DEF Sem!ReleaseHeld, Sem!SignalUsed, Sem!Release, Sem!Wake
  <2> QED  BY <1>0, <2>1, <2>2, Zenon DEF Holders, Granted, Waiting
<1>4. ASSUME NEW f \in Fibers, Sem!Take(f) \/ Sem!AcquirePark(f, "wait") \/ Sem!AcquirePark(f, "waitCtx")
      PROVE  Holders' \subseteq Holders \cup {Head(permitQueue)}
  <2>1. /\ ready' \subseteq ready
        /\ \A g \in Fibers \ {f} : pc'[g] = pc[g]
        /\ pc'[f] \in {"wait", "waitCtx"} /\ f \notin ready'
    BY <1>0, <1>4, Zenon DEF Sem!Take, Sem!AcquirePark, Sem!Park, Sem!Goto
  <2> QED  BY <1>0, <2>1, Zenon DEF Holders, Granted, Waiting
<1>5. ASSUME NEW f \in Fibers,
             \/ Sem!AcquireReturns(f) \/ Sem!AcquireCtxDone(f)
             \/ Sem!AcquireCtxRemoves(f) \/ Sem!AcquireCtxFails(f)
      PROVE  Holders' \subseteq Holders \cup {Head(permitQueue)}
  <2>1. /\ ready' = ready
        /\ \A g \in Fibers \ {f} : pc'[g] = pc[g]
        /\ \/ pc'[f] = "holding" /\ pc[f] \in Waiting /\ f \in ready
           \/ pc'[f] = "cancelled" /\ pc[f] \in Waiting
           \/ pc'[f] \in {"withdrawn", "idle"}
    BY <1>0, <1>5, Zenon DEF Sem!AcquireReturns, Sem!AcquireCtxDone, Sem!AcquireCtxRemoves,
       Sem!AcquireCtxFails, Sem!WaitEnds, Sem!CancelTooLate, Sem!CtxDone, Sem!Withdraw,
       Sem!CancelReturns, Sem!Goto, Waiting
  <2> QED  BY <1>0, <2>1, Zenon DEF Holders, Granted, Waiting
<1> QED  BY <1>2, <1>3, <1>4, <1>5, Zenon DEF Sem!Next, Sem!Acquire, Sem!AcquireCtx, Sem!TryAcquire

\* What SemInv says in the terms of FiberSemaphore.
LEMMA SemInvImplies ==
  ASSUME Counting, SemInv
  PROVE  Sem!TypeOK /\ Sem!NobodyWaitsForAvailable /\ Sem!PermitsConserved
<1>1. Sem!Parked = Parked /\ Sem!Granted = Granted /\ Sem!FiberRecord = FiberRecord
  BY DEF Sem!Parked, Sem!Granted, Sem!Waiting, Parked, Granted, Waiting,
         Sem!FiberRecord, Sem!FiberState, FiberRecord, FiberState
<1>2. \A S : Sem!Cardinality(S) = Cardinality(S)
  BY DEF Sem!Cardinality, Cardinality
<1>3. Sem!TypeOK
  BY <1>1, WaiterInvImplies, Zenon DEF SemInv, Sem!TypeOK, WaiterInv, IsQueue
<1>4. Sem!NobodyWaitsForAvailable
  BY <1>1, <1>2, SemWaits, Zenon DEF SemInv, Sem!NobodyWaitsForAvailable, Counting
<1>5. Sem!Holders = Holders
  BY <1>1, Zenon DEF Sem!Holders, Holders
<1>6. Sem!PermitsConserved
  BY <1>2, <1>5, Zenon DEF SemInv, Sem!PermitsConserved
<1> QED  BY <1>3, <1>4, <1>6

\* NewFiberSemaphore.
LEMMA SemInit ==
  ASSUME Counting, Sem!Init
  PROVE  SemInv
<1>1. /\ WaiterInit /\ maxPermits \in PermitCounts /\ permits = maxPermits
      /\ permitQueue = <<>> /\ signals = 0 /\ used = 0
  BY Zenon DEF Sem!Init, Sem!WaiterInit, WaiterInit, Sem!RunningFiber, RunningFiber
<1>2. pc \in [Fibers -> Sem!PC] /\ Holders = {}
  BY <1>1, WaiterInvInit, Zenon DEF WaiterInit, Sem!PC, Holders
<1>3. Cardinality(Holders) = 0
  BY <1>2, HoldersCounted
<1>4. WaiterInv /\ IsQueue(permitQueue) /\ Elements(permitQueue) = Parked
  BY <1>1, WaiterInvInit, QueueEmpty, Zenon
<1> QED  BY <1>1, <1>2, <1>3, <1>4, LocksAssumption DEF SemInv

-----------------------------------------------------------------------------
(* FiberWaitGroup *)

\* The counter stays in range, nobody is parked while it is zero, and whoever
\* was woken has seen it at zero.
GroupInv ==
  /\ WaiterInv /\ pc \in [Fibers -> Group!PC]
  /\ counter \in 0..MaxInt
  /\ IsQueue(groupQueue) /\ Elements(groupQueue) = Parked
  /\ counter = 0 => groupQueue = <<>>
  /\ sawZero \subseteq Fibers /\ Granted \subseteq sawZero

\* FiberWaitGroup follows the protocol of Waiter.
LEMMA GroupWaits ==
  /\ \A f, s : /\ Group!Park(f, s) => Park(f, s)
               /\ Group!WaitEnds(f, s) => WaitEnds(f, s)
               /\ Group!CancelTooLate(f, s) => CancelTooLate(f, s)
  /\ \A f : /\ Group!CtxDone(f) => CtxDone(f)
            /\ Group!Withdraw(f) => Withdraw(f)
            /\ Group!CancelReturns(f) => CancelReturns(f)
  /\ \A S : Group!Wake(S) => Wake(S)
  /\ \A q : Group!Elements(q) = Elements(q)
  /\ \A q, f : Group!Dequeue(q, f) = Dequeue(q, f)
  /\ \A f, s, t : Group!Goto(f, s, t) => pc[f] \in s /\ pc' = [pc EXCEPT ![f] = t]
<1>1. \A f, s : /\ Group!Park(f, s) => Park(f, s)
                /\ Group!WaitEnds(f, s) => WaitEnds(f, s)
                /\ Group!CancelTooLate(f, s) => CancelTooLate(f, s)
  BY Zenon DEF Group!Park, Group!WaitEnds, Group!CancelTooLate, Group!Goto, Group!Block,
               Park, WaitEnds, CancelTooLate, Goto, Block
<1>2. \A f : /\ Group!CtxDone(f) => CtxDone(f)
             /\ Group!Withdraw(f) => Withdraw(f)
             /\ Group!CancelReturns(f) => CancelReturns(f)
  BY Zenon DEF Group!CtxDone, Group!Withdraw, Group!CancelReturns, Group!Goto, Group!Unblock,
               CtxDone, Withdraw, CancelReturns, Goto, Unblock
<1>3. \A S : Group!Wake(S) => Wake(S)
  BY Zenon DEF Group!Wake, Wake, Group!Unblock, Unblock
<1>4. /\ \A q : Group!Elements(q) = Elements(q)
      /\ \A q, f : Group!Dequeue(q, f) = Dequeue(q, f)
  BY Zenon DEF Group!Dequeue, Dequeue, Group!Elements, Elements
<1>5. \A f, s, t : Group!Goto(f, s, t) => pc[f] \in s /\ pc' = [pc EXCEPT ![f] = t]
  BY Zenon DEF Group!Goto
<1> QED  BY <1>1, <1>2, <1>3, <1>4, <1>5

\* The tests at the head of Add keep the counter in range, and with waiters Add
\* only counts down.
LEMMA AddChecks ==
  ASSUME counter \in 0..MaxInt, NEW d \in Int, Group!AddError(d) = "nil"
  PROVE  counter + d \in 0..MaxInt /\ (d > 0 => groupQueue = <<>>)
<1>0. MaxInt \in Nat
  BY LocksAssumption
<1>1. CASE d > 0
  <2>1. groupQueue = <<>>
    BY <1>1 DEF Group!AddError
  <2>2. ~(counter > MaxInt - d)
    BY <1>1, <2>1 DEF Group!AddError
  <2> QED  BY <1>0, <1>1, <2>1, <2>2
<1>2. CASE d < 0
  <2>1. ~(d < -counter)
    BY <1>2 DEF Group!AddError
  <2> QED  BY <1>0, <1>2, <2>1
<1>3. CASE d = 0
  BY <1>0, <1>3
<1> QED  BY <1>1, <1>2, <1>3

\* Every step of the wait group and its callers keeps GroupInv.
LEMMA GroupStep ==
  ASSUME GroupInv, Group!Next
  PROVE  GroupInv'
<1>0. /\ WaiterInv /\ pc \in [Fibers -> Group!PC]
      /\ counter \in 0..MaxInt
      /\ IsQueue(groupQueue) /\ Elements(groupQueue) = Parked
      /\ counter = 0 => groupQueue = <<>>
      /\ sawZero \subseteq Fibers /\ Granted \subseteq sawZero
  BY Zenon DEF GroupInv
<1>1. ASSUME UNCHANGED groupVars, WaiterInv', pc' \in [Fibers -> Group!PC],
             Parked' = Parked, Granted' \subseteq Granted
      PROVE  GroupInv'
  <2>1. IsQueue(groupQueue)' /\ Elements(groupQueue)' = Elements(groupQueue)
    BY <1>0, <1>1, Zenon DEF groupVars, IsQueue, Elements
  <2> QED  BY <1>0, <1>1, <2>1, Zenon DEF GroupInv, groupVars
<1>2. ASSUME NEW d \in Int, Group!Add(d) PROVE GroupInv'
  <2>1. UNCHANGED pc
    BY <1>2, Zenon DEF Group!Add
  <2>2. CASE Group!AddError(d) # "nil"
    <3>1. UNCHANGED <<fb, ready, groupVars>>
      BY <1>2, <2>2, Zenon DEF Group!Add, Group!wgVars, groupVars
    <3>2. WaiterInv' /\ Parked' = Parked /\ Granted' = Granted
      BY <1>0, <2>1, <3>1, Zenon DEF WaiterInv, Parked, Granted, groupVars
    <3> QED  BY <1>0, <1>1, <2>1, <3>1, <3>2, Zenon
  <2>3. CASE Group!AddError(d) = "nil"
    <3>1. counter' \in 0..MaxInt /\ counter' = counter + d
      BY <1>0, <1>2, <2>3, AddChecks, Zenon DEF Group!Add
    <3>2. CASE counter' = 0
      <4>1. /\ Wake(Parked) /\ groupQueue' = <<>> /\ sawZero' = sawZero \cup Parked
        BY <1>0, <1>2, <2>3, <3>2, GroupWaits, Zenon DEF Group!Add, Group!Release, Group!Parked, Parked,
           Group!Waiting, Waiting
      <4>2. WaiterInv' /\ Parked' = Parked \ Parked /\ Granted' = Granted \cup Parked
        BY <1>0, <2>1, <4>1, WakeStep, Zenon
      <4>3. IsQueue(groupQueue)' /\ Elements(groupQueue)' = Parked'
        BY <4>1, <4>2, QueueEmpty
      <4>4. Parked \subseteq Fibers
        BY DEF Parked
      <4> QED  BY <1>0, <2>1, <3>1, <4>1, <4>2, <4>3, <4>4, Zenon DEF GroupInv
    <3>3. CASE counter' # 0
      <4>1. UNCHANGED <<fb, ready, groupQueue, sawZero>>
        BY <1>2, <2>3, <3>3 DEF Group!Add, Group!Release
      <4>2. WaiterInv' /\ Parked' = Parked /\ Granted' = Granted
        BY <1>0, <2>1, <4>1, Zenon DEF WaiterInv, Parked, Granted
      <4>3. IsQueue(groupQueue)' /\ Elements(groupQueue)' = Parked'
        BY <1>0, <4>1, <4>2, Zenon DEF IsQueue, Elements
      <4> QED  BY <1>0, <2>1, <3>1, <3>3, <4>1, <4>2, <4>3, Zenon DEF GroupInv
    <3> QED  BY <3>2, <3>3
  <2> QED  BY <2>2, <2>3, Zenon
<1>3. ASSUME NEW f \in Fibers, NEW s \in {"wait", "waitCtx"}, Group!WaitPark(f, s)
      PROVE  GroupInv'
  <2>1. /\ counter # 0 /\ Group!Park(f, s) /\ groupQueue' = Append(groupQueue, f)
        /\ sawZero' = sawZero \ {f} /\ UNCHANGED counter
    BY <1>3 DEF Group!WaitPark
  <2>2. /\ WaiterInv' /\ f \notin Parked /\ Parked' = Parked \cup {f} /\ Granted' = Granted
        /\ pc' = [pc EXCEPT ![f] = s]
    <3>1. Park(f, s)
      BY <2>1, GroupWaits, Zenon
    <3> QED  BY <1>0, <3>1, ParkStep, Zenon
  <2>3. pc[f] = "idle"
    BY <2>1, Zenon DEF Group!Park, Group!Goto
  <2>4. f \notin Granted
    BY <2>3, Zenon DEF Granted, Waiting
  <2>5. pc' \in [Fibers -> Group!PC]
    BY <1>0, <2>2, Zenon DEF Group!PC, Group!Waiting
  <2>6. IsQueue(groupQueue)' /\ Elements(groupQueue)' = Parked'
    BY <1>0, <2>1, <2>2, QueueAppend, Zenon
  <2> QED  BY <1>0, <2>1, <2>2, <2>4, <2>5, <2>6, Zenon DEF GroupInv
<1>4. ASSUME NEW f \in Fibers, Group!WaitReturns(f) PROVE GroupInv'
  <2>1. /\ WaiterInv' /\ Parked' = Parked /\ Granted' = Granted \ {f}
        /\ pc' = [pc EXCEPT ![f] = "idle"] /\ UNCHANGED groupVars
    BY <1>0, <1>4, GroupWaits, ReturnStep, Zenon DEF Group!WaitReturns, Waiting, groupVars, Group!wgVars
  <2>2. pc' \in [Fibers -> Group!PC]
    BY <1>0, <2>1, Zenon DEF Group!PC
  <2> QED  BY <1>1, <2>1, <2>2, Zenon
<1>5. ASSUME NEW f \in Fibers, Group!WaitCtxDone(f) \/ Group!WaitCtxFails(f) PROVE GroupInv'
  <2>1. /\ WaiterInv' /\ Parked' = Parked /\ Granted' = Granted /\ UNCHANGED groupVars
        /\ \/ pc' = [pc EXCEPT ![f] = "cancelled"]
           \/ pc' = [pc EXCEPT ![f] = "idle"]
    BY <1>0, <1>5, GroupWaits, CtxDoneStep, CancelReturnsStep, Zenon
       DEF Group!WaitCtxDone, Group!WaitCtxFails, groupVars, Group!wgVars
  <2>2. pc' \in [Fibers -> Group!PC]
    BY <1>0, <2>1, Zenon DEF Group!PC, Group!Waiting
  <2> QED  BY <1>1, <2>1, <2>2, Zenon
<1>6. ASSUME NEW f \in Fibers, Group!WaitCtxRemoves(f) PROVE GroupInv'
  <2>1. /\ WaiterInv' /\ f \in Parked /\ Parked' = Parked \ {f} /\ Granted' = Granted
        /\ pc' = [pc EXCEPT ![f] = "withdrawn"] /\ groupQueue' = Dequeue(groupQueue, f)
        /\ UNCHANGED <<counter, sawZero>>
    BY <1>0, <1>6, GroupWaits, WithdrawStep, Zenon DEF Group!WaitCtxRemoves
  <2>2. pc' \in [Fibers -> Group!PC]
    BY <1>0, <2>1, Zenon DEF Group!PC
  <2>3. IsQueue(groupQueue)' /\ Elements(groupQueue)' = Parked'
    BY <1>0, <2>1, QueueRemove, Zenon
  <2>4. counter # 0
    BY <1>0, <2>1, QueueEmpty, Zenon
  <2> QED  BY <1>0, <2>1, <2>2, <2>3, <2>4, Zenon DEF GroupInv
<1>7. -1 \in Int /\ -MaxDelta..MaxDelta \subseteq Int
  BY LocksAssumption
<1> QED  BY <1>2, <1>3, <1>4, <1>5, <1>6, <1>7, Zenon
         DEF Group!Next, Group!Done, Group!Wait, Group!WaitCtx

\* A Wait that returns nil has seen the counter at zero.
LEMMA GroupReturns ==
  ASSUME GroupInv, Group!Next
  PROVE  Group!ReturnsAtZero
<1> SUFFICES ASSUME NEW f \in Fibers, pc[f] \in Waiting, pc'[f] = "idle"
             PROVE  f \in sawZero
  BY Zenon DEF Group!ReturnsAtZero, Group!Waiting, Waiting
<1>1. pc \in [Fibers -> Group!PC] /\ Granted \subseteq sawZero
  BY Zenon DEF GroupInv
<1>2. ASSUME NEW g \in Fibers, Group!WaitReturns(g) PROVE f \in sawZero
  <2>1. g \in ready /\ pc' = [pc EXCEPT ![g] = "idle"]
    BY <1>2, Zenon DEF Group!WaitReturns, Group!WaitEnds, Group!CancelTooLate, Group!Goto
  <2>2. f = g
    BY <1>1, <2>1 DEF Waiting
  <2> QED  BY <1>1, <2>1, <2>2, Zenon DEF Granted
<1>3. ASSUME NEW g \in Fibers,
             \/ Group!Wait(g) \/ Group!WaitCtx(g) \/ Group!WaitCtxDone(g)
             \/ Group!WaitCtxRemoves(g) \/ Group!WaitCtxFails(g)
      PROVE  FALSE
  <2>1. /\ g # f => pc'[f] = pc[f]
        /\ pc'[g] = "idle" => pc[g] \notin Waiting
    BY <1>1, <1>3, Zenon DEF Group!Wait, Group!WaitCtx, Group!WaitPark, Group!WaitCtxDone,
       Group!WaitCtxRemoves, Group!WaitCtxFails, Group!Park, Group!CtxDone, Group!Withdraw,
       Group!CancelReturns, Group!Goto, Waiting
  <2> QED  BY <2>1, Zenon DEF Waiting
<1>4. ASSUME NEW d, Group!Add(d) PROVE FALSE
  <2>1. UNCHANGED pc
    BY <1>4, Zenon DEF Group!Add
  <2> QED  BY <2>1 DEF Waiting
<1> QED  BY <1>2, <1>3, <1>4, Zenon DEF Group!Next, Group!Done

\* What GroupInv says in the terms of FiberWaitGroup.
LEMMA GroupInvImplies ==
  ASSUME Counting, GroupInv
  PROVE  Group!TypeOK /\ Group!NobodyWaitsAtZero
<1>1. Group!Parked = Parked /\ Group!FiberRecord = FiberRecord
  BY DEF Group!Parked, Group!Waiting, Parked, Waiting,
         Group!FiberRecord, Group!FiberState, FiberRecord, FiberState
<1>2. \A S : Group!Cardinality(S) = Cardinality(S)
  BY DEF Group!Cardinality, Cardinality
<1>3. Group!TypeOK
  BY <1>1, WaiterInvImplies, Zenon DEF GroupInv, Group!TypeOK, WaiterInv, IsQueue
<1>4. Group!NobodyWaitsAtZero
  BY <1>1, <1>2, GroupWaits, Zenon DEF GroupInv, Group!NobodyWaitsAtZero, Counting
<1> QED  BY <1>3, <1>4

\* NewFiberWaitGroup.
LEMMA GroupInit == Group!Init => GroupInv
<1> SUFFICES ASSUME Group!Init PROVE GroupInv
  OBVIOUS
<1>1. WaiterInit /\ counter = 0 /\ groupQueue = <<>> /\ sawZero = {}
  BY Zenon DEF Group!Init, Group!WaiterInit, WaiterInit, Group!RunningFiber, RunningFiber
<1>2. pc \in [Fibers -> Group!PC] /\ Granted = {}
  BY <1>1, Zenon DEF WaiterInit, Group!PC, Granted, Waiting
<1>3. WaiterInv /\ IsQueue(groupQueue) /\ Elements(groupQueue) = Parked
  BY <1>1, WaiterInvInit, QueueEmpty, Zenon
<1> QED  BY <1>1, <1>2, <1>3, LocksAssumption DEF GroupInv
=============================================================================
