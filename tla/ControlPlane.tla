---------------------------- MODULE ControlPlane ----------------------------
(***************************************************************************)
(* The control plane of the dashboard (web/server.go): the WebSocket       *)
(* commands init, spawn, stop and reset, each run by the reader goroutine  *)
(* of a client against the runtime it captured; the broadcaster with its   *)
(* cached message; and Shutdown.  handleInit swaps s.runtime while the     *)
(* others go on with the runtime they read before.  A message that is      *)
(* refused (rate limit, bad payload, read-only client, unknown type) and   *)
(* getState change nothing.                                                *)
(*                                                                         *)
(* Of a runtime this module keeps what the control plane reads and writes: *)
(* the fibers by the stage they are in, the map, the admission counter and *)
(* the metrics (internal/runtime; module Runtime has the details, and      *)
(* splits some of the steps).  Fibers only sleep here, so none is ever     *)
(* blocked.                                                                *)
(***************************************************************************)
EXTENDS Integers, FiniteSets

CONSTANTS Clients, Runtimes, Fibers,
          Main,        \* the runtime the server was made with
          NoRuntime,   \* nil
          NoFiber,
          Shutdowner,  \* the goroutine that calls Shutdown
          Nobody,
          MaxFibers,   \* MaxFibersPerRuntime
          MaxCommands  \* bound: commands received

ASSUME ControlAssumption ==
  /\ Main \in Runtimes /\ NoRuntime \notin Runtimes /\ NoFiber \notin Fibers
  /\ IsFiniteSet(Fibers) /\ Runtimes \cap Fibers = {}
  /\ Shutdowner \notin Clients /\ Nobody \notin Clients \cup {Shutdowner}
  /\ MaxFibers \in Nat \ {0} /\ MaxCommands \in Nat

VARIABLES
  runtime,       \* s.runtime
  rt,            \* the runtimes
  owner,         \* who is inside Stop, holding lifecycleMu
  pc, held, mine,      \* where each goroutine stands, its runtime and its fiber
  cast, castRt, snap,  \* the broadcaster: its step, runtime and snapshot
  lastMsg,       \* the message it sent last; it holds lastSnap
  ctxDone,       \* s.ctx is done
  spawned, commands

handlerVars == <<pc, held, mine>>
castVars == <<cast, castRt, snap, lastMsg>>
boundVars == <<spawned, commands>>
vars == <<runtime, rt, owner, handlerVars, castVars, ctxDone, boundVars>>

Actors == Clients \cup {Shutdowner}

\* A runtime: rt.fibers and rt.admitted, the queue of the scheduler, the fibers
\* in their function, counted as completed, and out of rt.fibers but not yet of
\* activeFiberCount.  The main fiber goes by the name of the runtime.
Made(r, life) ==
  [life |-> life, fibers |-> {r}, admitted |-> {}, queue |-> {}, running |-> {},
   recorded |-> {}, unlinked |-> {}, count |-> 0, created |-> 0, completed |-> 0]

NoMessage == [from |-> NoRuntime]

Init ==
  /\ runtime \in {Main, NoRuntime}
  /\ rt = [r \in Runtimes |-> Made(r, IF r = Main THEN "new" ELSE "unmade")]
  /\ owner = [r \in Runtimes |-> Nobody]
  /\ pc = [a \in Actors |-> "idle"]
  /\ held = [a \in Actors |-> NoRuntime] /\ mine = [a \in Actors |-> NoFiber]
  /\ cast \in {"idle", "off"}  \* no broadcaster if only Handler is used, without Start
  /\ castRt = NoRuntime /\ snap = NoMessage /\ lastMsg = NoMessage
  /\ ctxDone = FALSE
  /\ spawned = {} /\ commands = 0

IsRunning(r) == rt[r].life \in {"running", "stopping", "draining"}

Goto(a, from, to) == pc[a] = from /\ pc' = [pc EXCEPT ![a] = to]

\* The handler returns and lets go of its runtime and its fiber.
Answer(a, from) ==
  /\ Goto(a, from, "idle")
  /\ held' = [held EXCEPT ![a] = NoRuntime] /\ mine' = [mine EXCEPT ![a] = NoFiber]

\* s.runtime is read under runtimeMu; nil ends the command.
Capture(a, from, to) ==
  /\ Goto(a, from, IF runtime = NoRuntime THEN "idle" ELSE to)
  /\ held' = [held EXCEPT ![a] = runtime]

-----------------------------------------------------------------------------
(* Commands *)

\* handleMessage, for the commands that do something.  They may come at any time:
\* a connection registered late outlives closeClients.
Receive(c) ==
  /\ commands < MaxCommands /\ commands' = commands + 1
  /\ \E cmd \in {"init", "spawn", "stop", "reset"} : Goto(c, "idle", cmd)
  /\ UNCHANGED <<runtime, rt, owner, held, mine, castVars, ctxDone, spawned>>

\* handleInit: a new runtime is made and started ...
InitStarts(c) ==
  LET unmade == {r \in Runtimes : rt[r].life = "unmade"}
      r == CHOOSE r \in unmade : TRUE IN
  /\ unmade # {} /\ Goto(c, "init", "swap")
  /\ rt' = [rt EXCEPT ![r].life = "running"]
  /\ held' = [held EXCEPT ![c] = r]
  /\ UNCHANGED <<runtime, owner, mine, castVars, ctxDone, boundVars>>

\* Bound: an init or a spawn that finds no runtime or fiber left is refused.
Refused(c) ==
  /\ \/ (\A r \in Runtimes : rt[r].life # "unmade") /\ Answer(c, "init")
     \/ spawned = Fibers /\ Answer(c, "spawn")
  /\ UNCHANGED <<runtime, rt, owner, castVars, ctxDone, boundVars>>

\* Mutant of InitSwaps: the old runtime is left to itself.
InitSwapsOnly(c) ==
  /\ runtime' = held[c]
  /\ Answer(c, "swap")
  /\ UNCHANGED <<rt, owner, castVars, ctxDone, boundVars>>

\* ... put in place under runtimeMu, and the runtime it replaces is stopped.
InitSwaps(c) ==
  /\ runtime' = held[c]
  /\ Capture(c, "swap", "stopOld")
  /\ UNCHANGED <<mine, rt, owner, castVars, ctxDone, boundVars>>

\* handleStop and handleReset read s.runtime.
StopCaptures(c) ==
  /\ Capture(c, "stop", "stopIt") \/ Capture(c, "reset", "resetStop")
  /\ UNCHANGED <<runtime, rt, owner, mine, castVars, ctxDone, boundVars>>

RuntimeSame == UNCHANGED <<runtime, owner, handlerVars, castVars, ctxDone, boundVars>>

\* The callers of rt.Stop and where they go on, after an error and without one.
Stopping == {"stopOld", "stopIt", "resetStop", "shutdownStop"}
Stopped(a) ==
  CASE pc[a] = "resetStop" -> "resetClear" [] pc[a] = "shutdownStop" -> "close" [] OTHER -> "idle"
StopFailed(a) == IF pc[a] = "shutdownStop" THEN "close" ELSE "idle"

Leave(a, to) ==
  /\ pc' = [pc EXCEPT ![a] = to]
  /\ held' = [held EXCEPT ![a] = IF to = "resetClear" THEN @ ELSE NoRuntime]
  /\ UNCHANGED mine

\* rt.Stop takes lifecycleMu: a runtime that does not run needs no stopping ...
StopReturnsNil(a) ==
  /\ pc[a] \in Stopping /\ owner[held[a]] = Nobody /\ ~IsRunning(held[a])
  /\ Leave(a, Stopped(a))
  /\ UNCHANGED <<runtime, rt, owner, castVars, ctxDone, boundVars>>

\* ... and one that runs is cancelled.
StopCancels(a) ==
  /\ pc[a] \in Stopping /\ owner[held[a]] = Nobody /\ IsRunning(held[a])
  /\ owner' = [owner EXCEPT ![held[a]] = a]
  /\ rt' = [rt EXCEPT ![held[a]].life = "stopping"]
  /\ UNCHANGED <<runtime, handlerVars, castVars, ctxDone, boundVars>>

\* The loop has ended: the queue is cleared and the admitted fibers that were
\* never dispatched are reaped.
StopReaps(r) ==
  LET pending == (rt[r].fibers \cap rt[r].admitted)
                   \ (rt[r].running \cup rt[r].recorded) IN
  /\ rt[r].life = "stopping"
  /\ rt' = [rt EXCEPT ![r] = [rt[r] EXCEPT !.life = "draining", !.queue = {},
                                           !.fibers = @ \ pending, !.admitted = @ \ pending,
                                           !.count = @ - Cardinality(pending)]]
  /\ RuntimeSame

Joined(r) == rt[r].running \cup rt[r].recorded \cup rt[r].unlinked = {}

\* Mutant of MayReturn: the join is not bounded by a context.
MayReturnJoined(r) == Joined(r)

\* The fibers in flight are joined, or the context of the call expires first.
MayReturn(r) == TRUE

StopReturns(a) ==
  /\ pc[a] \in Stopping /\ owner[held[a]] = a /\ rt[held[a]].life = "draining"
  /\ MayReturn(held[a])
  /\ rt' = [rt EXCEPT ![held[a]].life = "stopped"]
  /\ owner' = [owner EXCEPT ![held[a]] = Nobody]
  /\ Leave(a, IF Joined(held[a]) THEN Stopped(a) ELSE StopFailed(a))
  /\ UNCHANGED <<runtime, castVars, ctxDone, boundVars>>

\* rt.Reset (nobody starts this runtime again, so it is not refused): draining is
\* cleared, and the count survives.
ResetClears(c) ==
  LET r == held[c] IN
  /\ Answer(c, "resetClear") /\ owner[r] = Nobody
  /\ rt' = [rt EXCEPT ![r] = [rt[r] EXCEPT !.life = "reset", !.fibers = {}, !.admitted = {},
                                           !.queue = {}, !.created = 0, !.completed = 0]]
  /\ UNCHANGED <<runtime, owner, castVars, ctxDone, boundVars>>

\* handleSpawn reads s.runtime ...
SpawnCaptures(c) ==
  /\ Capture(c, "spawn", "admit")
  /\ spawned # Fibers
  /\ LET f == CHOOSE f \in Fibers \ spawned : TRUE   \* the next FiberID
     IN  spawned' = spawned \cup {f} /\ mine' = [mine EXCEPT ![c] = f]
  /\ UNCHANGED <<runtime, rt, owner, castVars, ctxDone, commands>>

SpawnSame == UNCHANGED <<runtime, owner, castVars, ctxDone, boundVars>>

\* ... and calls rt.Spawn, which refuses or counts the fiber ...
SpawnCounts(c) ==
  LET r == held[c] IN
  /\ pc[c] = "admit" /\ SpawnSame
  /\ IF IsRunning(r)
       THEN /\ Goto(c, "admit", IF rt[r].count < MaxFibers THEN "enter" ELSE "full")
            /\ rt' = [rt EXCEPT ![r].count = @ + 1]
            /\ UNCHANGED <<held, mine>>
       ELSE Answer(c, "admit") /\ UNCHANGED rt

\* ... gives the count back at the cap, or enters the fiber in rt.fibers ...
SpawnEnters(c) ==
  LET r == held[c] IN
  /\ SpawnSame
  /\ \/ Answer(c, "full") /\ rt' = [rt EXCEPT ![r].count = @ - 1]
     \/ /\ Goto(c, "enter", "schedule") /\ UNCHANGED <<held, mine>>
        /\ rt' = [rt EXCEPT ![r].fibers = @ \cup {mine[c]}]

\* Mutant of Withdraw: the count is given back without looking.
WithdrawAlways(r, f) ==
  rt' = [rt EXCEPT ![r] = [rt[r] EXCEPT !.fibers = @ \ {f}, !.admitted = @ \ {f},
                                        !.queue = @ \ {f}, !.count = @ - 1]]

\* Who takes the fiber out of rt.fibers gives its count back.
Withdraw(r, f) ==
  rt' = [rt EXCEPT ![r] = [rt[r] EXCEPT !.fibers = @ \ {f}, !.admitted = @ \ {f},
                                        !.queue = @ \ {f},
                                        !.count = IF f \in rt[r].fibers THEN @ - 1 ELSE @]]

\* ... schedules it, unless the scheduler is stopped ...
SpawnSchedules(c) ==
  LET r == held[c] IN
  /\ pc[c] = "schedule" /\ SpawnSame
  /\ IF rt[r].life = "stopping"
       THEN Answer(c, "schedule") /\ Withdraw(r, mine[c])
       ELSE /\ Goto(c, "schedule", "check") /\ UNCHANGED <<held, mine>>
            /\ rt' = [rt EXCEPT ![r].queue = @ \cup {mine[c]}]

\* ... looks whether the run was cancelled ...
SpawnChecks(c) ==
  /\ Goto(c, "check", IF rt[held[c]].life = "running" THEN "commit" ELSE "rollback")
  /\ SpawnSame /\ UNCHANGED <<rt, held, mine>>

\* ... commits the admission or, if so or while draining, takes it back ...
SpawnCommits(c) ==
  LET r == held[c] IN
  /\ pc[c] \in {"commit", "rollback"} /\ SpawnSame
  /\ IF pc[c] = "commit" /\ rt[r].life \notin {"draining", "stopped"}
       THEN /\ Goto(c, "commit", "record") /\ UNCHANGED <<held, mine>>
            /\ rt' = [rt EXCEPT ![r].admitted = @ \cup {mine[c]}]
       ELSE Answer(c, pc[c]) /\ Withdraw(r, mine[c])

\* ... and records it.  The priority is then set if the fiber is still queued.
SpawnRecords(c) ==
  /\ Answer(c, "record") /\ SpawnSame
  /\ rt' = [rt EXCEPT ![held[c]].created = @ + 1]

-----------------------------------------------------------------------------
(* The runtimes *)

Dispatch(r) ==
  /\ rt[r].life \in {"running", "stopping"}
  /\ \E f \in rt[r].queue :
       rt' = [rt EXCEPT ![r] = [rt[r] EXCEPT !.queue = @ \ {f}, !.running = @ \cup {f}]]
  /\ RuntimeSame

\* The sleep is over: complete records the completion ...
Completes(r) ==
  /\ \E f \in rt[r].running :
       rt' = [rt EXCEPT ![r] = [rt[r] EXCEPT !.running = @ \ {f}, !.recorded = @ \cup {f},
                                             !.completed = @ + 1]]
  /\ RuntimeSame

\* ... takes the fiber out of rt.fibers, if it is still there ...
Unlinks(r) ==
  /\ \E f \in rt[r].recorded :
       rt' = [rt EXCEPT ![r] = [rt[r] EXCEPT !.recorded = @ \ {f}, !.fibers = @ \ {f},
                                             !.admitted = @ \ {f},
                                             !.unlinked = @ \cup (rt[r].fibers \cap {f})]]
  /\ RuntimeSame

\* ... and then gives its count back.
Releases(r) ==
  /\ \E f \in rt[r].unlinked :
       rt' = [rt EXCEPT ![r] = [rt[r] EXCEPT !.unlinked = @ \ {f}, !.count = @ - 1]]
  /\ RuntimeSame

-----------------------------------------------------------------------------
(* broadcastLoop *)

CastSame == UNCHANGED <<runtime, rt, owner, handlerVars, ctxDone, boundVars>>

CastStep(from, to) == cast = from /\ cast' = to

\* A tick: the runtime is read under runtimeMu ...
CastCaptures ==
  /\ runtime # NoRuntime
  /\ CastStep("idle", "metrics") /\ castRt' = runtime
  /\ UNCHANGED <<snap, lastMsg>> /\ CastSame

\* ... GetMetrics takes the counters ...
CastSnapshots ==
  /\ CastStep("metrics", "active")
  /\ snap' = [from |-> castRt, created |-> rt[castRt].created, completed |-> rt[castRt].completed]
  /\ UNCHANGED <<castRt, lastMsg>> /\ CastSame

Active == rt[castRt].count

\* Mutant of SameCounters: ActiveFibers is not compared.
SameCountersTwo ==
  /\ lastMsg # NoMessage
  /\ snap.created = lastMsg.created /\ snap.completed = lastMsg.completed

\* What the cache compares; the number of blocked fibers is always zero here.
SameCounters ==
  /\ lastMsg # NoMessage
  /\ snap.created = lastMsg.created /\ snap.completed = lastMsg.completed
  /\ Active = lastMsg.active

\* ... and the admission counter.  If no counter moved, lastMsg is sent again ...
CastResends ==
  /\ CastStep("active", "idle") /\ SameCounters
  /\ castRt' = NoRuntime /\ snap' = NoMessage
  /\ UNCHANGED lastMsg /\ CastSame

\* ... or else a new message is made ...
CastDecides ==
  /\ CastStep("active", "build") /\ ~SameCounters
  /\ snap' = [from |-> castRt, created |-> snap.created, completed |-> snap.completed,
              active |-> Active]
  /\ UNCHANGED <<castRt, lastMsg>> /\ CastSame

\* ... from GetAllFibers and the snapshot.
CastBuilds ==
  /\ CastStep("build", "idle") /\ castRt' = NoRuntime /\ snap' = NoMessage
  /\ lastMsg' = [from |-> snap.from, created |-> snap.created, completed |-> snap.completed,
                 active |-> snap.active, fibers |-> rt[castRt].fibers]
  /\ CastSame

CastExits ==
  /\ ctxDone /\ CastStep("idle", "off")
  /\ UNCHANGED <<castRt, snap, lastMsg>> /\ CastSame

-----------------------------------------------------------------------------
(* Shutdown *)

ShutdownBegins ==
  /\ Goto(Shutdowner, "idle", "http") /\ ctxDone' = TRUE
  /\ UNCHANGED <<runtime, rt, owner, held, mine, castVars, boundVars>>

\* httpServer.Shutdown returns; it does not know the WebSocket connections.
HttpDrained ==
  /\ Goto(Shutdowner, "http", "read")
  /\ UNCHANGED <<runtime, rt, owner, held, mine, castVars, ctxDone, boundVars>>

\* s.runtime is read under runtimeMu and stopped.
ShutdownCaptures ==
  /\ Goto(Shutdowner, "read", IF runtime = NoRuntime THEN "close" ELSE "shutdownStop")
  /\ held' = [held EXCEPT ![Shutdowner] = runtime]
  /\ UNCHANGED <<runtime, rt, owner, mine, castVars, ctxDone, boundVars>>

closeClients ==
  /\ Goto(Shutdowner, "close", "wait")
  /\ UNCHANGED <<runtime, rt, owner, held, mine, castVars, ctxDone, boundVars>>

\* broadcastWG.Wait
ShutdownReturns ==
  /\ cast = "off" /\ Goto(Shutdowner, "wait", "returned")
  /\ UNCHANGED <<runtime, rt, owner, held, mine, castVars, ctxDone, boundVars>>

-----------------------------------------------------------------------------
Stop(a) == StopReturnsNil(a) \/ StopCancels(a) \/ StopReturns(a)

Handler(c) ==
  \/ InitStarts(c) \/ Refused(c) \/ InitSwaps(c) \/ StopCaptures(c) \/ ResetClears(c) \/ Stop(c)
  \/ SpawnCaptures(c) \/ SpawnCounts(c) \/ SpawnEnters(c) \/ SpawnSchedules(c)
  \/ SpawnChecks(c) \/ SpawnCommits(c) \/ SpawnRecords(c)

Complete(r) == Unlinks(r) \/ Releases(r)

Cast == CastCaptures \/ CastSnapshots \/ CastResends \/ CastDecides \/ CastBuilds

ShutdownGoesOn ==
  HttpDrained \/ ShutdownCaptures \/ Stop(Shutdowner) \/ closeClients \/ ShutdownReturns

Next ==
  \/ \E c \in Clients : Receive(c) \/ Handler(c)
  \/ \E r \in Runtimes : StopReaps(r) \/ Dispatch(r) \/ Completes(r) \/ Complete(r)
  \/ Cast \/ CastExits
  \/ ShutdownBegins \/ ShutdownGoesOn

Spec == Init /\ [][Next]_vars

\* The goroutines of the server and of the runtimes go on and the ticker fires;
\* a fiber may sleep as long as it likes.  The clients send finitely many commands, and
\* each has finitely many steps, so that fairness to all is fairness to each.
Fairness ==
  /\ WF_vars(\E c \in Clients : Handler(c))
  /\ WF_vars(\E r \in Runtimes : StopReaps(r))
  /\ WF_vars(\E r \in Runtimes : Dispatch(r))
  /\ WF_vars(\E r \in Runtimes : Complete(r))
  /\ WF_vars(Cast) /\ SF_vars(CastExits)
  /\ WF_vars(ShutdownGoesOn)

FairSpec == Spec /\ Fairness

-----------------------------------------------------------------------------
(* Properties *)

\* The steps of a goroutine that has captured a runtime.
InSpawn == {"admit", "full", "enter", "schedule", "check", "commit", "rollback", "record"}
Captured == InSpawn \cup Stopping \cup {"swap", "resetClear"}

RuntimeState ==
  [life : {"unmade", "new", "running", "stopping", "draining", "stopped", "reset"},
   fibers : SUBSET (Runtimes \cup Fibers), admitted : SUBSET Fibers, queue : SUBSET Fibers,
   running : SUBSET Fibers, recorded : SUBSET Fibers, unlinked : SUBSET Fibers,
   count : Nat, created : Nat, completed : Nat]

\* Type invariant; no counter of a runtime goes below zero.
TypeOK ==
  /\ runtime \in Runtimes \cup {NoRuntime}
  /\ rt \in [Runtimes -> RuntimeState]
  /\ owner \in [Runtimes -> Actors \cup {Nobody}]
  /\ pc \in [Actors -> {"idle", "returned", "init", "spawn", "stop", "reset", "http", "read",
                        "close", "wait"} \cup Captured]
  /\ held \in [Actors -> Runtimes \cup {NoRuntime}]
  /\ mine \in [Actors -> Fibers \cup {NoFiber}]
  /\ cast \in {"idle", "metrics", "active", "build", "off"}
  /\ spawned \subseteq Fibers

\* The fibers that have a count of r's activeFiberCount to be given back: those of
\* rt.fibers, those out of it but not yet released, and those counted but not
\* entered yet.
Known(r) == (rt[r].fibers \cap Fibers) \cup rt[r].unlinked
Owed(r) ==
  {f \in Fibers :
     f \in Known(r) \/ \E a \in Actors : /\ mine[a] = f /\ held[a] = r
                                        /\ pc[a] \in {"full", "enter"}}

\* A goroutine past its capture has a runtime, and a fiber belongs to the one
\* handler that spawned it.
Captures ==
  \A a \in Actors :
    /\ pc[a] \in Captured => held[a] \in Runtimes
    /\ pc[a] \in InSpawn => mine[a] \in Fibers
    /\ mine[a] \in Fibers => mine[a] \in spawned
    /\ \A b \in Actors : mine[a] = mine[b] /\ mine[a] \in Fibers => a = b

\* Why no counter goes below zero: a fiber has one count at most, and every count
\* that will be given back was taken.  Reset leaves counts that nobody owes.
CountsOwed ==
  \A r \in Runtimes :
    /\ Known(r) \subseteq spawned /\ rt[r].fibers \cap rt[r].unlinked = {}
    /\ \A a \in Actors : pc[a] \in {"admit", "full", "enter"} => mine[a] \notin Known(r)
    /\ Cardinality(Owed(r)) <= rt[r].count

\* Whatever init commands race with each other and with stop, reset and
\* Shutdown: a runtime that runs is s.runtime, or the handler that made it or
\* replaced it has not returned and will put it in place or stop it.
ReplacedIsStopped ==
  \A r \in Runtimes : IsRunning(r) =>
    r = runtime \/ \E c \in Clients : held[c] = r /\ pc[c] \in {"swap", "stopOld"}

\* Every command is answered, "even when user-supplied work hangs" (handleStop).
CommandsAnswered == \A c \in Clients : pc[c] # "idle" ~> pc[c] = "idle"

\* What the last message says of the counters, and of the fibers.
CountersShown(r) ==
  /\ lastMsg # NoMessage
  /\ lastMsg.created = rt[r].created /\ lastMsg.completed = rt[r].completed
  /\ lastMsg.active = rt[r].count

FibersShown(r) == lastMsg # NoMessage /\ lastMsg.fibers = rt[r].fibers

\* The cache does not freeze the dashboard: whatever runtimes are swapped, reset
\* and stopped under the broadcaster, until Shutdown the counters it shows are,
\* again and again, those of s.runtime.
CountersCatchUp == []<>(cast = "off" \/ ctxDone \/ runtime = NoRuntime \/ CountersShown(runtime))

\* The same of the fibers: GetAllFibers is skipped only "when no fiber state has
\* changed since the last broadcast" (broadcastLoop).
FibersCatchUp == []<>(cast = "off" \/ ctxDone \/ runtime = NoRuntime \/ FibersShown(runtime))
=============================================================================
