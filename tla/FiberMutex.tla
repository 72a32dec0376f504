----------------------------- MODULE FiberMutex -----------------------------
(***************************************************************************)
(* FiberMutex (internal/sync/mutex.go): an ownership-tracking FIFO mutex   *)
(* whose Unlock hands the lock to the oldest waiter.  One step is one      *)
(* critical section of fm.mu, or what a caller does without it.  Every     *)
(* fiber locks and unlocks for ever; "holding" is the fiber's own view: a  *)
(* call of Lock, LockCtx or TryLock reported success.                      *)
(***************************************************************************)
EXTENDS Waiter

VARIABLES locked, owner, waitQueue

mutexVars == <<locked, owner, waitQueue>>
vars == <<waiterVars, mutexVars>>

PC == Waiting \cup {"idle", "withdrawn", "holding"}

Init ==
  /\ WaiterInit
  /\ locked = FALSE /\ owner = NoFiber /\ waitQueue = <<>>

\* The lock is free.
Acquire(f) ==
  /\ ~locked
  /\ locked' = TRUE /\ owner' = f
  /\ Goto(f, {"idle"}, "holding")
  /\ UNCHANGED <<fb, ready, waitQueue>>

Lock(f) ==
  \/ Acquire(f)
  \/ /\ locked /\ Park(f, "wait")
     /\ waitQueue' = Append(waitQueue, f)
     /\ UNCHANGED <<locked, owner>>

LockCtx(f) ==
  \/ Acquire(f)
  \/ /\ locked /\ Park(f, "waitCtx")
     /\ waitQueue' = Append(waitQueue, f)
     /\ UNCHANGED <<locked, owner>>

\* Lock and LockCtx return after a handoff, also one that raced with ctx.
LockReturns(f) ==
  /\ WaitEnds(f, "holding") \/ CancelTooLate(f, "holding")
  /\ UNCHANGED mutexVars

LockCtxDone(f) == CtxDone(f) /\ UNCHANGED mutexVars

\* Mutant of LockCtxRemoves: the queue is left as it is.
LockCtxForgets(f) == Withdraw(f) /\ UNCHANGED mutexVars

LockCtxRemoves(f) ==
  /\ Withdraw(f)
  /\ waitQueue' = Dequeue(waitQueue, f)
  /\ UNCHANGED <<locked, owner>>

LockCtxFails(f) == CancelReturns(f) /\ UNCHANGED mutexVars

\* A failing TryLock changes nothing.
TryLock(f) == Acquire(f)

\* Mutant of Unlock: the newest waiter is served first.
UnlockLifo(f) ==
  /\ locked /\ owner = f
  /\ Goto(f, {"holding"}, "idle")
  /\ IF waitQueue = <<>>
       THEN locked' = FALSE /\ owner' = NoFiber /\ UNCHANGED <<fb, ready, waitQueue>>
       ELSE LET last == waitQueue[Len(waitQueue)]
            IN  /\ waitQueue' = Dequeue(waitQueue, last)
                /\ owner' = last
                /\ Wake({last})
                /\ UNCHANGED locked

\* Unlock panics unless the caller owns the lock.
Unlock(f) ==
  /\ locked /\ owner = f
  /\ Goto(f, {"holding"}, "idle")
  /\ IF waitQueue = <<>>
       THEN locked' = FALSE /\ owner' = NoFiber /\ UNCHANGED <<fb, ready, waitQueue>>
       ELSE /\ waitQueue' = Tail(waitQueue)
            /\ owner' = Head(waitQueue)
            /\ Wake({Head(waitQueue)})
            /\ UNCHANGED locked

Next ==
  \E f \in Fibers :
    \/ Lock(f) \/ LockCtx(f) \/ TryLock(f) \/ Unlock(f)
    \/ LockReturns(f) \/ LockCtxDone(f) \/ LockCtxRemoves(f) \/ LockCtxFails(f)

Spec == Init /\ [][Next]_vars

\* Calls that began are finished and holders unlock.  Nobody has to call Lock,
\* and no context has to be cancelled.
Proceed(f) ==
  LockReturns(f) \/ LockCtxRemoves(f) \/ LockCtxFails(f)
  \/ Unlock(f)

FairSpec == Spec /\ \A f \in Fibers : WF_vars(Proceed(f))
-----------------------------------------------------------------------------
\* Type invariant of the mutex and of its callers.
TypeOK ==
  /\ fb \in [Fibers -> FiberRecord]
  /\ pc \in [Fibers -> PC]
  /\ ready \subseteq Fibers
  /\ locked \in BOOLEAN /\ owner \in Fibers \cup {NoFiber}
  /\ waitQueue \in Seq(Fibers)

\* Mutual exclusion: a fiber that believes to hold the mutex is its owner, so
\* there is one such fiber and its Unlock does not panic.
HolderOwns == \A f \in Fibers : pc[f] = "holding" => locked /\ owner = f

\* The lock is never lost: while it is locked the owner holds it or will learn
\* that it does, also when its context was cancelled as Unlock handed it over.
OwnerWillUnlock ==
  locked => owner \in Fibers /\ (pc[owner] = "holding" \/ owner \in Granted)

\* The queue holds every parked waiter once and nobody else, and nobody is
\* parked at a free lock.
QueueExact ==
  /\ Elements(waitQueue) = Parked
  /\ Len(waitQueue) = Cardinality(Parked)
  /\ ~locked => waitQueue = <<>>

\* FIFO handoff, without barging: while fibers wait, the lock passes to the
\* oldest of them and to nobody else.
NoOvertaking ==
  [][waitQueue # <<>> /\ owner' # owner => owner' = Head(waitQueue)]_vars
=============================================================================
