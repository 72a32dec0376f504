--------------------------- MODULE FiberSemaphore ---------------------------
(***************************************************************************)
(* FiberSemaphore (internal/sync/waitgroup.go).  The fibers that acquired a*)
(* permit release it.  A semaphore made with no permits is a signal: others*)
(* release it (Signal), and a fiber that acquired has used a signal up.    *)
(***************************************************************************)
EXTENDS Waiter

CONSTANTS PermitCounts,  \* the arguments of NewFiberSemaphore
          MaxSignals     \* bound: number of Release calls on a signal

VARIABLES permits, maxPermits, waitQueue,
          signals, \* history: Release calls by others
          used     \* history: signals used up

semVars == <<permits, maxPermits, waitQueue>>
vars == <<waiterVars, semVars, signals, used>>

PC == Waiting \cup {"idle", "withdrawn", "holding"}

Init ==
  /\ WaiterInit
  /\ maxPermits \in PermitCounts /\ permits = maxPermits /\ waitQueue = <<>>
  /\ signals = 0 /\ used = 0

Take(f) ==
  /\ permits > 0
  /\ permits' = permits - 1
  /\ Goto(f, {"idle"}, "holding")
  /\ UNCHANGED <<fb, ready, maxPermits, waitQueue, signals, used>>

AcquirePark(f, state) ==
  /\ permits = 0
  /\ Park(f, state)
  /\ waitQueue' = Append(waitQueue, f)
  /\ UNCHANGED <<permits, maxPermits, signals, used>>

Acquire(f) == Take(f) \/ AcquirePark(f, "wait")

AcquireCtx(f) == Take(f) \/ AcquirePark(f, "waitCtx")

\* A failing TryAcquire changes nothing.
TryAcquire(f) == Take(f)

AcquireReturns(f) ==
  /\ WaitEnds(f, "holding") \/ CancelTooLate(f, "holding")
  /\ UNCHANGED <<semVars, signals, used>>

AcquireCtxDone(f) == CtxDone(f) /\ UNCHANGED <<semVars, signals, used>>

AcquireCtxRemoves(f) ==
  /\ Withdraw(f)
  /\ waitQueue' = Dequeue(waitQueue, f)
  /\ UNCHANGED <<permits, maxPermits, signals, used>>

AcquireCtxFails(f) == CancelReturns(f) /\ UNCHANGED <<semVars, signals, used>>

\* Hand the permit to the oldest waiter, or count it up to the maximum.
Release ==
  IF waitQueue # <<>>
    THEN Wake({Head(waitQueue)}) /\ waitQueue' = Tail(waitQueue) /\ UNCHANGED permits
    ELSE /\ permits' = IF maxPermits = 0 \/ permits < maxPermits THEN permits + 1 ELSE permits
         /\ UNCHANGED <<fb, ready, waitQueue>>

ReleaseHeld(f) ==
  /\ maxPermits > 0
  /\ Goto(f, {"holding"}, "idle")
  /\ Release
  /\ UNCHANGED <<maxPermits, signals, used>>

\* A Release nobody owes, of a semaphore that has all its permits: a no-op.
OverRelease ==
  /\ maxPermits > 0 /\ permits = maxPermits
  /\ Release
  /\ UNCHANGED <<pc, maxPermits, signals, used>>

Signal ==
  /\ maxPermits = 0 /\ signals < MaxSignals
  /\ Release
  /\ signals' = signals + 1
  /\ UNCHANGED <<pc, maxPermits, used>>

SignalUsed(f) ==
  /\ maxPermits = 0
  /\ Goto(f, {"holding"}, "idle")
  /\ used' = used + 1
  /\ UNCHANGED <<fb, ready, semVars, signals>>

Next ==
  \/ Signal \/ OverRelease
  \/ \E f \in Fibers :
       \/ Acquire(f) \/ AcquireCtx(f) \/ TryAcquire(f) \/ ReleaseHeld(f) \/ SignalUsed(f)
       \/ AcquireReturns(f) \/ AcquireCtxDone(f) \/ AcquireCtxRemoves(f)
       \/ AcquireCtxFails(f)

Spec == Init /\ [][Next]_vars

\* Calls that began are finished and holders release.
Proceed(f) ==
  AcquireReturns(f) \/ AcquireCtxRemoves(f) \/ AcquireCtxFails(f)
  \/ ReleaseHeld(f)

FairSpec == Spec /\ \A f \in Fibers : WF_vars(Proceed(f))
-----------------------------------------------------------------------------
\* Type invariant of the semaphore and of its callers.
TypeOK ==
  /\ fb \in [Fibers -> FiberRecord]
  /\ pc \in [Fibers -> PC]
  /\ ready \subseteq Fibers
  /\ permits \in Nat /\ maxPermits \in PermitCounts /\ signals \in Nat /\ used \in Nat
  /\ waitQueue \in Seq(Fibers)

\* The fibers that have a permit, whether or not they know it yet.
Holders == {f \in Fibers : pc[f] = "holding"} \cup Granted

\* Permits are neither lost nor made, also when a context is cancelled while
\* Release hands a permit over: at most maxPermits fibers hold one, and of a
\* signal every Release lets exactly one Acquire pass.
PermitsConserved == permits + Cardinality(Holders) + used = maxPermits + signals

\* The queue holds every parked waiter once and nobody else, and nobody is
\* parked while a permit is available.
NobodyWaitsForAvailable ==
  /\ Elements(waitQueue) = Parked
  /\ Len(waitQueue) = Cardinality(Parked)
  /\ permits > 0 => waitQueue = <<>>

\* FIFO: while fibers wait, only the oldest of them gets a permit.
PermitsInOrder ==
  [][waitQueue # <<>> => Holders' \subseteq Holders \cup {Head(waitQueue)}]_vars
=============================================================================
