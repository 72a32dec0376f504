------------------------------- MODULE Locks -------------------------------
(***************************************************************************)
(* The blocking primitives of internal/sync other than the channel, made   *)
(* for the same fibers.  No primitive touches the state of another.        *)
(***************************************************************************)
EXTENDS Waiter, Integers

CONSTANTS PermitCounts, MaxSignals, MaxInt,
          MaxDelta    \* bound: argument of Add

ASSUME LocksAssumption ==
  PermitCounts \subseteq Nat /\ MaxSignals \in Nat /\ MaxInt \in Nat \ {0} /\ MaxDelta \in Nat

VARIABLES locked, owner, mutexQueue,                      \* FiberMutex
          readers, writer, readerQueue, writerQueue,      \* FiberRWMutex
          counter, groupQueue, sawZero,                   \* FiberWaitGroup
          permits, maxPermits, permitQueue, signals, used \* FiberSemaphore

Mutex == INSTANCE FiberMutex WITH waitQueue <- mutexQueue
RW == INSTANCE FiberRWMutex
Group == INSTANCE FiberWaitGroup WITH
           waitQueue <- groupQueue, Deltas <- -MaxDelta..MaxDelta
Sem == INSTANCE FiberSemaphore WITH waitQueue <- permitQueue

mutexVars == <<locked, owner, mutexQueue>>
rwVars == <<readers, writer, readerQueue, writerQueue>>
groupVars == <<counter, groupQueue, sawZero>>
semVars == <<permits, maxPermits, permitQueue, signals, used>>
lockVars == <<mutexVars, rwVars, groupVars, semVars>>
=============================================================================
