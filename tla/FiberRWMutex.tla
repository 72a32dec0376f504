---------------------------- MODULE FiberRWMutex ----------------------------
(***************************************************************************)
(* FiberRWMutex (internal/sync/mutex.go): a writer-preferred reader/writer *)
(* mutex.  One step is one critical section of frw.mu, or what a caller    *)
(* does without it.  "reading" and "writing" are a fiber's own view: its   *)
(* call reported success.  RUnlock takes no fiber; the readers call it.    *)
(***************************************************************************)
EXTENDS Waiter

VARIABLES readers, writer, readerQueue, writerQueue

rwVars == <<readers, writer, readerQueue, writerQueue>>
vars == <<waiterVars, rwVars>>

PC == Waiting \cup {"idle", "withdrawn", "reading", "writing"}

Init ==
  /\ WaiterInit
  /\ readers = 0 /\ writer = NoFiber /\ readerQueue = <<>> /\ writerQueue = <<>>

-----------------------------------------------------------------------------
(* Readers *)

\* Mutant of ReaderMayEnter: pending writers are not respected.
ReaderBarges == writer = NoFiber

ReaderMayEnter == writer = NoFiber /\ writerQueue = <<>>

ReadEnter(f) ==
  /\ ReaderMayEnter
  /\ Goto(f, {"idle"}, "reading")
  /\ readers' = readers + 1
  /\ UNCHANGED <<fb, ready, writer, readerQueue, writerQueue>>

ReadWait(f, state) ==
  /\ ~ReaderMayEnter
  /\ Park(f, state)
  /\ readerQueue' = Append(readerQueue, f)
  /\ UNCHANGED <<readers, writer, writerQueue>>

RLock(f) == ReadEnter(f) \/ ReadWait(f, "wait")

RLockCtx(f) == ReadEnter(f) \/ ReadWait(f, "waitCtx")

-----------------------------------------------------------------------------
(* Writers *)

WriterMayEnter == readers = 0 /\ writer = NoFiber /\ writerQueue = <<>>

WriteEnter(f) ==
  /\ WriterMayEnter
  /\ Goto(f, {"idle"}, "writing")
  /\ writer' = f
  /\ UNCHANGED <<fb, ready, readers, readerQueue, writerQueue>>

WriteWait(f, state) ==
  /\ ~WriterMayEnter
  /\ Park(f, state)
  /\ writerQueue' = Append(writerQueue, f)
  /\ UNCHANGED <<readers, writer, readerQueue>>

Lock(f) == WriteEnter(f) \/ WriteWait(f, "wait")

LockCtx(f) == WriteEnter(f) \/ WriteWait(f, "waitCtx")

-----------------------------------------------------------------------------
(* The ends of the waiting calls.  A granted waiter is in neither queue; what *)
(* it waited for is told by what it was granted.                              *)

GrantOf(f) == IF writer = f THEN "writing" ELSE "reading"

LockReturns(f) ==
  /\ WaitEnds(f, GrantOf(f)) \/ CancelTooLate(f, GrantOf(f))
  /\ UNCHANGED rwVars

LockCtxDone(f) == CtxDone(f) /\ UNCHANGED rwVars

\* removeReaderLocked or removeWriterLocked: f is in one of the queues.
LockCtxRemoves(f) ==
  /\ Withdraw(f)
  /\ readerQueue' = Dequeue(readerQueue, f)
  /\ writerQueue' = Dequeue(writerQueue, f)
  /\ UNCHANGED <<readers, writer>>

LockCtxFails(f) == CancelReturns(f) /\ UNCHANGED rwVars

-----------------------------------------------------------------------------
(* Unlocking *)

\* grantWriterLocked, in a state with no reader and no writer.
GrantWriter ==
  /\ writerQueue # <<>>
  /\ writer' = Head(writerQueue) /\ writerQueue' = Tail(writerQueue)
  /\ Wake({Head(writerQueue)})
  /\ readers' = 0 /\ UNCHANGED readerQueue

\* No writer waits: every waiting reader is let in.
AdmitReaders ==
  /\ writerQueue = <<>>
  /\ readers' = Len(readerQueue) /\ readerQueue' = <<>> /\ writer' = NoFiber
  /\ Wake(Elements(readerQueue))
  /\ UNCHANGED writerQueue

\* Mutant of RUnlock: the last reader looks for a writer only.
RUnlockWritersOnly(f) ==
  /\ readers > 0
  /\ Goto(f, {"reading"}, "idle")
  /\ IF readers > 1 \/ writerQueue = <<>>
       THEN /\ readers' = readers - 1
            /\ UNCHANGED <<fb, ready, writer, readerQueue, writerQueue>>
       ELSE GrantWriter

RUnlock(f) ==
  /\ readers > 0
  /\ Goto(f, {"reading"}, "idle")
  /\ IF readers > 1
       THEN /\ readers' = readers - 1
            /\ UNCHANGED <<fb, ready, writer, readerQueue, writerQueue>>
       ELSE GrantWriter \/ AdmitReaders

\* Unlock panics unless the caller is the writer.
Unlock(f) ==
  /\ writer = f
  /\ Goto(f, {"writing"}, "idle")
  /\ GrantWriter \/ AdmitReaders

Next ==
  \E f \in Fibers :
    \/ RLock(f) \/ RLockCtx(f) \/ RUnlock(f) \/ Lock(f) \/ LockCtx(f) \/ Unlock(f)
    \/ LockReturns(f) \/ LockCtxDone(f) \/ LockCtxRemoves(f) \/ LockCtxFails(f)

Spec == Init /\ [][Next]_vars

\* Calls that began are finished and holders unlock.
Proceed(f) ==
  LockReturns(f) \/ LockCtxRemoves(f) \/ LockCtxFails(f)
  \/ RUnlock(f) \/ Unlock(f)

FairSpec == Spec /\ \A f \in Fibers : WF_vars(Proceed(f))
-----------------------------------------------------------------------------
\* Type invariant of the mutex and of its callers.
TypeOK ==
  /\ fb \in [Fibers -> FiberRecord]
  /\ pc \in [Fibers -> PC]
  /\ ready \subseteq Fibers
  /\ readers \in Nat /\ writer \in Fibers \cup {NoFiber}
  /\ readerQueue \in Seq(Fibers) /\ writerQueue \in Seq(Fibers)

In(state) == {f \in Fibers : pc[f] = state}

\* A writer excludes everybody, counting those who were granted the lock and
\* have not returned yet; the readers count is exact, so that the last RUnlock
\* is recognized and none panics.
ExclusionExact ==
  /\ readers = Cardinality(In("reading") \cup (Granted \ {writer}))
  /\ In("writing") \subseteq {writer}
  /\ writer # NoFiber => readers = 0 /\ writer \in In("writing") \cup Granted

\* A free lock has no waiters, although cancelled calls leave the queues at any
\* moment: nobody is stranded.
FreeHasNoWaiters ==
  readers = 0 /\ writer = NoFiber => readerQueue = <<>> /\ writerQueue = <<>>

\* The queues hold every parked waiter once and nobody else.
QueuesExact ==
  /\ Elements(readerQueue \o writerQueue) = Parked
  /\ Len(readerQueue) + Len(writerQueue) = Cardinality(Parked)

\* Writer preference: while a writer waits, the number of readers does not grow
\* and the lock passes to the oldest waiting writer.
WriterPreferred ==
  [][writerQueue # <<>> /\ writerQueue' # <<>> =>
       /\ readers' <= readers
       /\ writer' \in {writer, NoFiber, Head(writerQueue)}]_vars

\* RLock "acquires a shared read lock or waits behind active/pending writers":
\* a reader that waits has a writer to wait for.
ReaderWaitsForWriter ==
  readerQueue # <<>> => writer # NoFiber \/ writerQueue # <<>>
=============================================================================
