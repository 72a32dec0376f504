----------------------------- MODULE MCRuntime ------------------------------
(* Runtime for TLC.  OneRunSpec is about a runtime that is started once, with *)
(* a context that is not cancelled, and never reset: what is promised of the  *)
(* progress of fibers is promised of such a run.                              *)
EXTENDS Runtime

StartOnce == epoch = 0 /\ Start

OneRun ==
  \/ StartOnce \/ StopCancel \/ StopScheduler \/ ReapClear \/ ReapScan
  \/ (\E f \in Fibers : ReapRelease(f)) \/ ReapDone \/ StopJoined \/ StopTimeout

OneRunNext == (\E f \in Fibers : Spawn(f) \/ Goroutine(f)) \/ Loop \/ OneRun

OneRunSpec == Init /\ [][OneRunNext]_vars /\ Fairness

\* What a single run adds to IInv, and SuccessIsOwned needs: a fiber that nobody
\* dispatched or reaped keeps its entries of rt.fibers and rt.admitted, it stays
\* with the scheduler or the loop until reapPending clears the scheduler, and the
\* gate that closes for the reap is not opened again.
OneRunInv ==
  /\ lc # "resetClear"
  /\ stopped /\ epoch > 0 => draining
  /\ \A f \in Fibers : gor[f] = "none" /\ f \notin reaped =>
       /\ sp[f] \in {"schedule", "append", "recheck", "commit", "record", "ok"} => f \in fibers
       /\ sp[f] \in {"record", "ok"} => f \in admitted
       /\ sp[f] \in {"recheck", "commit", "record", "ok"} =>
            \/ f \in runQueue \/ picked = f
            \/ stopped \/ lc \in {"reapScan", "reapRelease", "stopWait"}
=============================================================================
