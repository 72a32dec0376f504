------------------------------- MODULE MCSync -------------------------------
(***************************************************************************)
(* The synchronization primitives for TLC.  No primitive touches the state *)
(* of another, so a behaviour is about one object, which its callers       *)
(* share; the other objects stay as they were made.                        *)
(***************************************************************************)
EXTENDS FiberChannel, Locks

CONSTANTS ChannelFibers, \* bound: the fibers that call a channel
          MaxMeetings    \* bound: number of Send calls on a channel without a buffer

ASSUME SyncAssumption == ChannelFibers \subseteq Fibers /\ MaxMeetings \in Nat

VARIABLE object

syncVars == <<object, lockVars, vars>>

\* What is not used is made with the smallest argument.
SyncInit ==
  /\ object \in {"mutex", "rwmutex", "group", "semaphore", "channel"}
  /\ Mutex!Init /\ RW!Init /\ Group!Init /\ Sem!Init /\ Init
  /\ object # "semaphore" => \A p \in PermitCounts : maxPermits <= p
  /\ object # "channel" => \A c \in Capacities : capacity <= c

LockNext ==
  /\ UNCHANGED <<object, chanVars, waiter, history>>
  /\ \/ object = "mutex" /\ Mutex!Next /\ UNCHANGED <<rwVars, groupVars, semVars>>
     \/ object = "rwmutex" /\ RW!Next /\ UNCHANGED <<mutexVars, groupVars, semVars>>
     \/ object = "group" /\ Group!Next /\ UNCHANGED <<mutexVars, rwVars, semVars>>
     \/ object = "semaphore" /\ Sem!Next /\ UNCHANGED <<mutexVars, rwVars, groupVars>>

ChannelNext ==
  /\ object = "channel" /\ Next
  /\ \A f \in Fibers \ ChannelFibers : pc'[f] = "idle"
  /\ capacity = 0 => sends' <= MaxMeetings
  /\ UNCHANGED <<object, lockVars>>

SyncNext == LockNext \/ ChannelNext

\* The calls that began are finished and the holders release.
SyncProceeds(f) ==
  \/ /\ UNCHANGED <<object, chanVars, waiter, history>>
     /\ \/ object = "mutex" /\ Mutex!Proceed(f) /\ UNCHANGED <<rwVars, groupVars, semVars>>
        \/ object = "rwmutex" /\ RW!Proceed(f) /\ UNCHANGED <<mutexVars, groupVars, semVars>>
        \/ object = "semaphore" /\ Sem!Proceed(f) /\ UNCHANGED <<mutexVars, rwVars, groupVars>>
  \/ object = "channel" /\ Proceed(f) /\ UNCHANGED <<object, lockVars>>

SyncSpec == SyncInit /\ [][SyncNext]_syncVars /\ \A f \in Fibers : WF_syncVars(SyncProceeds(f))
-----------------------------------------------------------------------------
\* Type invariant of the object in use and its callers: no queue keeps a nil
\* slot, the counter of the wait group stays between zero and the largest int,
\* and a channel keeps its capacity.
SyncTypeOK ==
  /\ object = "mutex" => Mutex!TypeOK
  /\ object = "rwmutex" => RW!TypeOK
  /\ object = "group" => Group!TypeOK
  /\ object = "semaphore" => Sem!TypeOK
  /\ object = "channel" => TypeOK

\* Nobody is forgotten: whatever calls were cancelled, the queues are the parked
\* callers, the fibers in state Blocked are those that wait, and nobody waits at
\* a free lock, at a counter of zero, while a permit is available, to send to a
\* channel with room or to receive from one with a value.
NobodyForgotten ==
  /\ SyncTypeOK /\ BlockedIsParked
  /\ object = "mutex" => Mutex!QueueExact
  /\ object = "rwmutex" => RW!QueuesExact /\ RW!FreeHasNoWaiters
  /\ object = "group" => Group!NobodyWaitsAtZero
  /\ object = "semaphore" => Sem!NobodyWaitsForAvailable
  /\ object = "channel" => NobodyWaitsInVain

\* A fiber whose Lock succeeded owns the FiberMutex until it calls Unlock, and the
\* owner knows that it is or learns it, also if its LockCtx is cancelled while
\* Unlock hands over; a FiberRWMutex writer excludes everybody and the reader count
\* is exact; permits are neither lost nor made and no signal is dropped, although
\* Release races with cancelled AcquireCtx calls.
OwnershipExact ==
  /\ object = "mutex" => Mutex!HolderOwns /\ Mutex!OwnerWillUnlock
  /\ object = "rwmutex" => RW!ExclusionExact
  /\ object = "semaphore" => Sem!PermitsConserved

\* Whatever calls race with Close and with contexts that are cancelled, a
\* Send reports whether the channel took its value, and every value handed out was
\* received once, or a woken receiver holds it.
ValuesExact == object = "channel" => ResultsHonest /\ NothingLost

\* Unlock and Release hand over to the oldest waiter and nobody barges in; while
\* a writer waits no reader enters FiberRWMutex, and writers keep their order.
HandedOverInOrder == Mutex!NoOvertaking /\ RW!WriterPreferred /\ Sem!PermitsInOrder

\* Wait and WaitCtx return nil only if the counter was zero during the call.
ReturnMeansZero == [][object = "group" => Group!ReturnsAtZero]_syncVars

\* The callers in Lock of FiberMutex, in Lock of FiberRWMutex and in Acquire.
Wanting(f) ==
  /\ pc[f] = "wait"
  /\ \/ object = "mutex"
     \/ object = "semaphore" /\ maxPermits > 0
     \/ object = "rwmutex" /\ f \in Elements(writerQueue)

\* If holders release, a waiting Lock gets the FiberMutex, a waiting writer the
\* FiberRWMutex, however many readers keep arriving, and a waiting Acquire a permit.
WaitersSucceed == \A f \in Fibers : Wanting(f) ~> pc[f] \in {"holding", "writing"}

\* RLock "waits behind active/pending writers" (mutex.go): a reader that waits
\* has a writer to wait for.
ReaderWaitsForWriter == object = "rwmutex" => RW!ReaderWaitsForWriter
=============================================================================
