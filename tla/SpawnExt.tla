------------------------------ MODULE SpawnExt ------------------------------
(***************************************************************************)
(* SpawnWithResult and SpawnWithTimeout (internal/runtime/spawn_ext.go) on *)
(* top of the runtime: what the fiber function does between the start and  *)
(* the end of Fiber.Run.  A result is sent by the fiber itself; a function *)
(* with a timeout runs in a goroutine of its own, which the fiber abandons *)
(* when the timer fires first.  The caller may never read the result.      *)
(***************************************************************************)
EXTENDS Runtime

VARIABLES kind,      \* the call that made each fiber: "result" or "timed"
          fn,        \* where the caller's function stands
          ch,        \* the fibers whose channel (ch or done, capacity 1) is full
          timedOut,  \* the fibers whose timer has fired
          received   \* the results the callers have read

extVars == <<kind, fn, ch, timedOut, received>>
extAllVars == <<vars, extVars>>

ExtInit ==
  /\ Init
  /\ kind \in [Fibers -> {"result", "timed"}]
  /\ fn = [f \in Fibers |-> "none"] /\ ch = {} /\ timedOut = {} /\ received = {}

FnGoto(f, from, to) == fn[f] = from /\ fn' = [fn EXCEPT ![f] = to]

\* The fiber function is called: with it fn starts.
ExtRun(f) ==
  /\ GoRun(f) /\ FnGoto(f, "none", "running")
  /\ UNCHANGED <<kind, ch, timedOut, received>>

\* fn returns, or panics: nothing is sent then.
FnEnds(f) ==
  /\ FnGoto(f, "running", "returned") \/ FnGoto(f, "running", "panicked")
  /\ UNCHANGED <<vars, kind, ch, timedOut, received>>

\* Mutant of HasRoom: the channels are unbuffered, and only the select of a fiber
\* that has not timed out is sure to receive.
HasRoomUnbuffered(f) == kind[f] = "timed" /\ gor[f] = "running" /\ f \notin timedOut

HasRoom(f) == f \notin ch

\* ch <- fn() and done <- struct{}{}
Send(f) ==
  /\ HasRoom(f) /\ FnGoto(f, "returned", "sent") /\ ch' = ch \cup {f}
  /\ UNCHANGED <<vars, kind, timedOut, received>>

TimerFires(f) ==
  /\ kind[f] = "timed" /\ gor[f] = "running" /\ f \notin timedOut
  /\ timedOut' = timedOut \cup {f}
  /\ UNCHANGED <<vars, kind, fn, ch, received>>

\* Mutant of FunctionEnds: fn and the send are left to a goroutine.
FunctionEndsAtOnce(f) ==
  \/ kind[f] = "result" /\ UNCHANGED ch
  \/ kind[f] = "timed" /\ f \in ch /\ ch' = ch \ {f}
  \/ kind[f] = "timed" /\ f \in timedOut /\ UNCHANGED ch

\* The fiber function is over: the result is sent or fn panicked; or select
\* received from done, or from the timer.
FunctionEnds(f) ==
  \/ kind[f] = "result" /\ fn[f] \in {"sent", "panicked"} /\ UNCHANGED ch
  \/ kind[f] = "timed" /\ f \in ch /\ ch' = ch \ {f}
  \/ kind[f] = "timed" /\ f \in timedOut /\ UNCHANGED ch

ExtReturn(f) ==
  /\ gor[f] = "running" /\ FunctionEnds(f) /\ GoReturn(f)
  /\ UNCHANGED <<kind, fn, timedOut, received>>

\* The caller of SpawnWithResult, to whom Spawn has returned the channel.
ResultReceived(f) ==
  /\ kind[f] = "result" /\ sp[f] = "ok" /\ f \in ch
  /\ ch' = ch \ {f} /\ received' = received \cup {f}
  /\ UNCHANGED <<vars, kind, fn, timedOut>>

ExtComplete(f) ==
  (GoComplete(f) \/ GoUnlink(f) \/ GoRelease(f) \/ GoReport(f)) /\ UNCHANGED extVars

ExtNext ==
  \/ \E f \in Fibers : Spawn(f) /\ UNCHANGED extVars
  \/ \E f \in Fibers : ExtRun(f) \/ FnEnds(f) \/ Send(f) \/ TimerFires(f) \/ ExtReturn(f)
                       \/ ResultReceived(f) \/ ExtComplete(f)
  \/ (Loop \/ Lifecycle) /\ UNCHANGED extVars

ExtSpec == ExtInit /\ [][ExtNext]_extAllVars

\* What goes on by itself in a fiber: its goroutine, and the function of
\* SpawnWithResult; that of SpawnWithTimeout may never end.
ExtGoes(f) ==
  \/ ExtRun(f) \/ ExtReturn(f) \/ ExtComplete(f)
  \/ kind[f] = "result" /\ FnEnds(f)

-----------------------------------------------------------------------------
(* Properties *)

\* The fiber, if it was spawned, is executed to the end or reaped, and a function
\* that has returned has done its channel operation.
Settled(f) ==
  /\ sp[f] = "ok" => gor[f] = "gone" \/ f \in reaped
  /\ fn[f] # "returned"

\* A fiber of SpawnWithResult that has run yields its result once, to be read
\* whenever the caller likes, or none if the function panicked; and the channel of
\* a fiber that never ran stays empty.
ResultsExact ==
  \A f \in Fibers : kind[f] = "result" =>
    /\ fn[f] = "sent" <=> f \in ch \cup received
    /\ f \in ch => f \notin received
    /\ IsFinished(fb[f]) => fn[f] \in {"sent", "panicked"}
=============================================================================
