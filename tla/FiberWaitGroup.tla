--------------------------- MODULE FiberWaitGroup ---------------------------
(***************************************************************************)
(* FiberWaitGroup (internal/sync/waitgroup.go).  Fibers call Wait and      *)
(* WaitCtx; Add and Done are called by anybody at any time, with any delta *)
(* of Deltas.  MaxInt stands for the largest int.                          *)
(***************************************************************************)
EXTENDS Waiter, Integers

CONSTANTS Deltas, MaxInt

VARIABLES counter, waitQueue,
          sawZero   \* history: the counter was zero since the fiber's call began

wgVars == <<counter, waitQueue>>
vars == <<waiterVars, wgVars, sawZero>>

PC == Waiting \cup {"idle", "withdrawn"}

Init ==
  /\ WaiterInit
  /\ counter = 0 /\ waitQueue = <<>>
  /\ sawZero = {}

-----------------------------------------------------------------------------
(* Add and Done *)

\* The three tests at the head of Add, in their order.
AddError(d) ==
  CASE d > 0 /\ waitQueue # <<>>      -> "waiting"
    [] d > 0 /\ waitQueue = <<>> /\ counter > MaxInt - d -> "overflow"
    [] d < 0 /\ d < -counter          -> "negative"
    [] OTHER                          -> "nil"

\* Mutant of Release: the waiters are woken by every decrement.
ReleaseAlways(zero) == Wake(Elements(waitQueue)) /\ waitQueue' = <<>>

\* Every waiter is released when the counter reaches zero.
Release(zero) ==
  IF zero
    THEN Wake(Elements(waitQueue)) /\ waitQueue' = <<>>
    ELSE UNCHANGED <<fb, ready, waitQueue>>

\* An Add that fails changes nothing.
Add(d) ==
  /\ IF AddError(d) = "nil"
       THEN /\ counter' = counter + d
            /\ Release(counter' = 0)
            /\ sawZero' = IF counter' = 0 THEN sawZero \cup Parked ELSE sawZero
       ELSE UNCHANGED <<fb, ready, wgVars, sawZero>>
  /\ UNCHANGED pc

Done == Add(-1)

-----------------------------------------------------------------------------
(* Wait and WaitCtx.  A call that finds the counter at zero returns at once   *)
(* and changes nothing.                                                       *)

WaitPark(f, state) ==
  /\ counter # 0
  /\ Park(f, state)
  /\ waitQueue' = Append(waitQueue, f)
  /\ sawZero' = sawZero \ {f}
  /\ UNCHANGED counter

Wait(f) == WaitPark(f, "wait")

WaitCtx(f) == WaitPark(f, "waitCtx")

WaitReturns(f) ==
  /\ WaitEnds(f, "idle") \/ CancelTooLate(f, "idle")
  /\ UNCHANGED <<wgVars, sawZero>>

WaitCtxDone(f) == CtxDone(f) /\ UNCHANGED <<wgVars, sawZero>>

WaitCtxRemoves(f) ==
  /\ Withdraw(f)
  /\ waitQueue' = Dequeue(waitQueue, f)
  /\ UNCHANGED <<counter, sawZero>>

WaitCtxFails(f) == CancelReturns(f) /\ UNCHANGED <<wgVars, sawZero>>

Next ==
  \/ \E d \in Deltas : Add(d)
  \/ Done
  \/ \E f \in Fibers :
       \/ Wait(f) \/ WaitCtx(f)
       \/ WaitReturns(f) \/ WaitCtxDone(f) \/ WaitCtxRemoves(f) \/ WaitCtxFails(f)

Spec == Init /\ [][Next]_vars
-----------------------------------------------------------------------------
\* Type invariant; in particular the counter neither underflows nor overflows,
\* whatever deltas are added.
TypeOK ==
  /\ fb \in [Fibers -> FiberRecord]
  /\ pc \in [Fibers -> PC]
  /\ ready \subseteq Fibers /\ sawZero \subseteq Fibers
  /\ counter \in 0..MaxInt
  /\ waitQueue \in Seq(Fibers)

\* Nobody is left behind: the queue holds the parked waiters, each once, and it
\* is empty when the counter is zero.
NobodyWaitsAtZero ==
  /\ Elements(waitQueue) = Parked
  /\ Len(waitQueue) = Cardinality(Parked)
  /\ counter = 0 => waitQueue = <<>>

\* Wait and WaitCtx report success only if the counter was zero at some moment
\* of the call, although Adds may follow before the waiter runs again.
ReturnsAtZero ==
  \A f \in Fibers : pc[f] \in Waiting /\ pc'[f] = "idle" => f \in sawZero
=============================================================================
