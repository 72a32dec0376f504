------------------------------- MODULE Waiter -------------------------------
(***************************************************************************)
(* How a fiber waits in the synchronization primitives (internal/sync).    *)
(* A call that must wait blocks its fiber, queues a waiter with a private  *)
(* channel `ready' and sleeps; whoever grants the request dequeues the     *)
(* waiter, unblocks the fiber and closes `ready' while it holds the        *)
(* primitive's mutex.  A call with a context also wakes when the context   *)
(* is done; it then looks at `ready' again under the mutex, and withdraws  *)
(* only if nothing was granted.                                            *)
(*                                                                         *)
(* A fiber runs one call at a time, so the waiter is named by its fiber.   *)
(* The primitives extend this module and add their own queues.             *)
(***************************************************************************)
EXTENDS Fiber, Sequences, FiniteSets

CONSTANTS Fibers,
          NoFiber  \* the zero FiberID: nobody

ASSUME WaitingFibersAssumption == IsFiniteSet(Fibers) /\ NoFiber \notin Fibers

VARIABLES fb,    \* the fiber objects
          pc,    \* where each fiber stands
          ready  \* the waiters whose channel is closed

waiterVars == <<fb, pc, ready>>

\* The fibers are inside their functions.
RunningFiber == [state |-> "Running", runStarted |-> TRUE, completion |-> FALSE]

WaiterInit ==
  /\ fb = [f \in Fibers |-> RunningFiber]
  /\ pc = [f \in Fibers |-> "idle"]
  /\ ready = {}

Waiting == {"wait", "waitCtx", "cancelled"}

Goto(f, from, to) == pc[f] \in from /\ pc' = [pc EXCEPT ![f] = to]

\* currentFiber.Block and a fresh `ready'; the caller appends the waiter.
Park(f, state) ==
  /\ Goto(f, {"idle"}, state)
  /\ fb' = [fb EXCEPT ![f] = Block(@)]
  /\ ready' = ready \ {f}

\* Unblock the fibers of woken and close their channels.
Wake(woken) ==
  /\ fb' = [f \in Fibers |-> IF f \in woken THEN Unblock(fb[f]) ELSE fb[f]]
  /\ ready' = ready \cup woken

\* <-waiter.ready, in the plain call and in the select of the Ctx call.
WaitEnds(f, result) ==
  /\ f \in ready
  /\ Goto(f, {"wait", "waitCtx"}, result)
  /\ UNCHANGED <<fb, ready>>

\* <-ctx.Done() in the select; `ready' may be closed as well.
CtxDone(f) ==
  /\ Goto(f, {"waitCtx"}, "cancelled")
  /\ UNCHANGED <<fb, ready>>

\* The second look, under the mutex: the grant won ...
CancelTooLate(f, result) ==
  /\ f \in ready
  /\ Goto(f, {"cancelled"}, result)
  /\ UNCHANGED <<fb, ready>>

\* ... or there is none and the caller takes the waiter out of its queue.
Withdraw(f) ==
  /\ f \notin ready
  /\ Goto(f, {"cancelled"}, "withdrawn")
  /\ UNCHANGED <<fb, ready>>

\* currentFiber.Unblock after the mutex is released, and ctx.Err() is returned.
CancelReturns(f) ==
  /\ Goto(f, {"withdrawn"}, "idle")
  /\ fb' = [fb EXCEPT ![f] = Unblock(@)]
  /\ UNCHANGED ready

Elements(queue) == {queue[i] : i \in DOMAIN queue}

\* The loop of the remove...Locked methods: the later waiters move up over the
\* match.  A waiter is queued at most once.
Dequeue(queue, f) ==
  LET at == CHOOSE i \in DOMAIN queue : queue[i] = f
  IN  IF f \in Elements(queue)
        THEN SubSeq(queue, 1, at - 1) \o SubSeq(queue, at + 1, Len(queue))
        ELSE queue

-----------------------------------------------------------------------------
\* The waiters that are queued somewhere: parked and not granted.
Parked == {f \in Fibers : pc[f] \in Waiting /\ f \notin ready}

\* The waiters whose request was granted and who have not noticed yet.
Granted == {f \in Fibers : pc[f] \in Waiting /\ f \in ready}

\* The fiber states that the deadlock detector reads are accurate: a fiber is
\* Blocked exactly while its waiter is queued, or it is about to return from a
\* cancelled call.
BlockedIsParked ==
  \A f \in Fibers :
    IsBlocked(fb[f]) <=> f \in Parked \/ pc[f] = "withdrawn"
=============================================================================
