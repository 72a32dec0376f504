------------------------------- MODULE Fiber -------------------------------
(***************************************************************************)
(* One fiber object (internal/fiber): the fields that decide what the      *)
(* runtime, the schedulers and the synchronization primitives may do with  *)
(* it.  Every method of the object takes the fiber's own mutex, so each    *)
(* operator below is one atomic update of the record.  Names, timestamps,  *)
(* colours, priorities and the simulated stack are left out: nothing here  *)
(* depends on them.                                                        *)
(***************************************************************************)
EXTENDS Naturals

FiberState == {"Ready", "Running", "Blocked", "Finished"}

FiberRecord == [state      : FiberState,
                runStarted : BOOLEAN,
                completion : BOOLEAN]

NewFiber == [state |-> "Ready", runStarted |-> FALSE, completion |-> FALSE]

\* Run, up to the call of the fiber function: only the first call starts it.
CanRun(f) == ~f.runStarted /\ ~f.completion

RunStart(f) == [f EXCEPT !.runStarted = TRUE, !.state = "Running"]

\* Run, the deferred part: reached by a return and by a recovered panic alike.
RunFinish(f) == [f EXCEPT !.state = "Finished", !.completion = TRUE]

Block(f) == IF f.completion THEN f ELSE [f EXCEPT !.state = "Blocked"]

Unblock(f) == IF f.completion
                THEN f
                ELSE [f EXCEPT !.state = IF f.runStarted THEN "Running" ELSE "Ready"]

MarkScheduled(f) == IF f.completion THEN f ELSE [f EXCEPT !.state = "Running"]

\* StateDead is declared by the code and never assigned.
IsFinished(f) == f.state = "Finished"

IsRunnable(f) == f.state = "Ready"

IsBlocked(f) == f.state = "Blocked"
=============================================================================
