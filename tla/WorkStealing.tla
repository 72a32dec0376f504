---------------------------- MODULE WorkStealing ----------------------------
(***************************************************************************)
(* WorkStealingScheduler (internal/scheduler/workstealing.go).  There is   *)
(* no lock over all queues: Schedule, UnblockFiber, Next, Remove and Clear *)
(* visit the workers one at a time, each under the lock of that worker.    *)
(* Any number of goroutines call Schedule, one per fiber; the execution    *)
(* loop calls Next; one controller calls Stop, Start and Clear.  A fiber   *)
(* that ended may be scheduled again: it stands for a new one.  Fibers do  *)
(* not finish while they are queued, so filterFinishedInPlace drops none.  *)
(***************************************************************************)
EXTENDS Integers, Sequences, FiniteSets

CONSTANTS StealFibers,     \* the fibers
          NumWorkers

ASSUME StealingAssumption == IsFiniteSet(StealFibers) /\ NumWorkers \in Nat \ {0}

Workers == 0..(NumWorkers - 1)

VARIABLES localQueue,      \* per worker
          running, stopped,
          blocked,
          at,              \* where each fiber stands
          scan,            \* the search for the shortest queue, per fiber
          nextWorker,      \* modulo NumWorkers
          loop, workerIdx, victims,  \* the call of Next
          ctl,             \* the call of Clear: the next worker to empty
          duringNext, duringClear    \* history: queued since the call began

loopVars == <<nextWorker, loop, workerIdx, victims>>
stealVars == <<localQueue, running, stopped, blocked, at, scan, loopVars, ctl,
               duringNext, duringClear>>

NoScan == [worker |-> 0, minWorker |-> 0, minSize |-> -1]

StealInit ==
  /\ localQueue = [w \in Workers |-> <<>>]
  /\ running = FALSE /\ stopped = FALSE /\ blocked = {}
  /\ at = [f \in StealFibers |-> "out"]
  /\ scan = [f \in StealFibers |-> NoScan]
  /\ nextWorker = 0 /\ loop = "idle" /\ workerIdx = 0 /\ victims = {}
  /\ ctl = -1
  /\ duringNext = {} /\ duringClear = {}

Elements(q) == {q[i] : i \in DOMAIN q}
QueuedIn(queues) == UNION {Elements(queues[w]) : w \in Workers}

\* q filtered: a queue that does not hold f stays as it is.
Without(q, f) == IF f \in Elements(q) THEN SelectSeq(q, LAMBDA g : g # f) ELSE q

\* q with the first entry for f cut out.
Cut(q, f) ==
  LET i == CHOOSE i \in DOMAIN q : q[i] = f /\ \A j \in 1..(i - 1) : q[j] # f
  IN  SubSeq(q, 1, i - 1) \o SubSeq(q, i + 1, Len(q))

\* The first worker that holds f.
Holder(f) ==
  CHOOSE w \in Workers : /\ f \in Elements(localQueue[w])
                         /\ \A v \in 0..(w - 1) : f \notin Elements(localQueue[v])

\* The queues after a walk over the workers that ends where f is found.
WalkRemoves(f) ==
  IF f \in QueuedIn(localQueue) THEN [localQueue EXCEPT ![Holder(f)] = Cut(@, f)]
                                ELSE localQueue

\* Every step that changes the queues passes through here.
SetQueues(queues) ==
  /\ localQueue' = queues
  /\ duringNext' = duringNext \cap QueuedIn(queues)
  /\ duringClear' = duringClear \cap QueuedIn(queues)

SameQueues == UNCHANGED <<localQueue, duringNext, duringClear>>

Moves(f, from, to) == at[f] = from /\ at' = [at EXCEPT ![f] = to]

-----------------------------------------------------------------------------
(* Schedule and UnblockFiber: look at every worker, then append to the one     *)
(* that was shortest when it was looked at.                                    *)

\* A stopped scheduler rejects the call.
Schedule(f) ==
  /\ ~ stopped
  /\ Moves(f, "out", "scanning")
  /\ scan' = [scan EXCEPT ![f] = NoScan]
  /\ SameQueues /\ UNCHANGED <<running, stopped, blocked, loopVars, ctl>>

\* UnblockFiber holds globalMu until it has appended the fiber.
globalMuFree == \A f \in StealFibers : at[f] # "unblocking"

UnblockFiber(f) ==
  /\ globalMuFree /\ f \in blocked
  /\ blocked' = blocked \ {f}
  /\ Moves(f, "blocked", "unblocking")
  /\ scan' = [scan EXCEPT ![f] = NoScan]
  /\ SameQueues /\ UNCHANGED <<running, stopped, loopVars, ctl>>

\* Read the size of one worker's queue.
ScanWorker(f) ==
  LET s == scan[f]
      size == Len(localQueue[s.worker])
      shorter == s.minSize < 0 \/ size < s.minSize
  IN /\ at[f] \in {"scanning", "unblocking"} /\ s.worker < NumWorkers
     /\ scan' = [scan EXCEPT ![f] =
                   [worker |-> s.worker + 1,
                    minWorker |-> IF shorter THEN s.worker ELSE s.minWorker,
                    minSize |-> IF shorter THEN size ELSE s.minSize]]
     /\ SameQueues /\ UNCHANGED <<running, stopped, blocked, at, loopVars, ctl>>

AppendToShortest(f) ==
  LET w == scan[f].minWorker
  IN /\ scan[f].worker = NumWorkers
     /\ Moves(f, "scanning", "queued") \/ Moves(f, "unblocking", "queued")
     /\ SetQueues([localQueue EXCEPT ![w] = Append(@, f)])
     /\ scan' = [scan EXCEPT ![f] = NoScan]
     /\ UNCHANGED <<running, stopped, blocked, loopVars, ctl>>

-----------------------------------------------------------------------------
(* Next and steal                                                              *)

\* The stopped test and the round-robin choice of the worker.
NextBegins ==
  /\ loop = "idle" /\ ~ stopped
  /\ loop' = "local"
  /\ workerIdx' = nextWorker
  /\ nextWorker' = (nextWorker + 1) % NumWorkers
  /\ duringNext' = QueuedIn(localQueue)
  /\ UNCHANGED <<localQueue, duringClear, victims, running, stopped, blocked, at, scan, ctl>>

\* The head of the worker's own queue.
TakeLocal ==
  /\ loop = "local" /\ localQueue[workerIdx] # <<>>
  /\ Moves(Head(localQueue[workerIdx]), "queued", "taken")
  /\ SetQueues([localQueue EXCEPT ![workerIdx] = Tail(@)])
  /\ loop' = "idle"
  /\ UNCHANGED <<nextWorker, workerIdx, victims, running, stopped, blocked, scan, ctl>>

\* Mutant of StealBegins: only the workers behind this one are victims.
StealBeginsBehind ==
  /\ loop = "local" /\ localQueue[workerIdx] = <<>>
  /\ loop' = "steal"
  /\ victims' = {w \in Workers : w > workerIdx}
  /\ SameQueues
  /\ UNCHANGED <<nextWorker, workerIdx, running, stopped, blocked, at, scan, ctl>>

StealBegins ==
  /\ loop = "local" /\ localQueue[workerIdx] = <<>>
  /\ loop' = "steal"
  /\ victims' = Workers \ {workerIdx}
  /\ SameQueues
  /\ UNCHANGED <<nextWorker, workerIdx, running, stopped, blocked, at, scan, ctl>>

\* The tail of the queue of the next victim in the shuffled order.
StealFrom(v) ==
  /\ loop = "steal" /\ v \in victims /\ localQueue[v] # <<>>
  /\ Moves(localQueue[v][Len(localQueue[v])], "queued", "taken")
  /\ SetQueues([localQueue EXCEPT ![v] = SubSeq(@, 1, Len(@) - 1)])
  /\ loop' = "idle"
  /\ UNCHANGED <<nextWorker, workerIdx, victims, running, stopped, blocked, scan, ctl>>

StealMisses(v) ==
  /\ loop = "steal" /\ v \in victims /\ localQueue[v] = <<>>
  /\ victims' = victims \ {v}
  /\ SameQueues
  /\ UNCHANGED <<nextWorker, loop, workerIdx, running, stopped, blocked, at, scan, ctl>>

\* ErrNoFibers
NextEmpty ==
  /\ loop = "steal" /\ victims = {}
  /\ loop' = "idle"
  /\ SameQueues
  /\ UNCHANGED <<nextWorker, workerIdx, victims, running, stopped, blocked, at, scan, ctl>>

-----------------------------------------------------------------------------
(* The fibers                                                                  *)

\* The runtime calls MarkCompleted when the function returned; no queue holds the
\* fiber any more.
MarkCompleted(f) ==
  /\ Moves(f, "taken", "out")
  /\ SetQueues([w \in Workers |-> Without(localQueue[w], f)])
  /\ UNCHANGED <<running, stopped, blocked, scan, loopVars, ctl>>

\* A queued fiber stays in its queue until it is taken, so a walk that looks into
\* one worker after the other finds what one step finds.  The same holds for Remove.
BlockFiber(f) ==
  /\ globalMuFree
  /\ Moves(f, "queued", "blocked") \/ Moves(f, "taken", "blocked")
  /\ blocked' = blocked \cup {f}
  /\ SetQueues(WalkRemoves(f))
  /\ UNCHANGED <<running, stopped, scan, loopVars, ctl>>

\* Spawn withdraws the fiber.
Remove(f) ==
  /\ Moves(f, "queued", "out")
  /\ SetQueues(WalkRemoves(f))
  /\ UNCHANGED <<running, stopped, blocked, scan, loopVars, ctl>>

-----------------------------------------------------------------------------
(* The controller                                                              *)

Start ==
  /\ ctl = -1 /\ ~ running
  /\ running' = TRUE /\ stopped' = FALSE
  /\ SameQueues /\ UNCHANGED <<blocked, at, scan, loopVars, ctl>>

Stop ==
  /\ ctl = -1 /\ running
  /\ running' = FALSE /\ stopped' = TRUE
  /\ SameQueues /\ UNCHANGED <<blocked, at, scan, loopVars, ctl>>

ClearBegins ==
  /\ ctl = -1
  /\ ctl' = 0
  /\ duringClear' = QueuedIn(localQueue)
  /\ UNCHANGED <<localQueue, duringNext, running, stopped, blocked, at, scan, loopVars>>

ClearWorker ==
  /\ ctl \in Workers
  /\ SetQueues([localQueue EXCEPT ![ctl] = <<>>])
  /\ at' = [f \in StealFibers |-> IF f \in Elements(localQueue[ctl]) THEN "out" ELSE at[f]]
  /\ ctl' = ctl + 1
  /\ UNCHANGED <<running, stopped, blocked, scan, loopVars>>

ClearBlocked ==
  /\ ctl = NumWorkers /\ globalMuFree
  /\ blocked' = {}
  /\ at' = [f \in StealFibers |-> IF f \in blocked THEN "out" ELSE at[f]]
  /\ ctl' = ctl + 1
  /\ SameQueues /\ UNCHANGED <<running, stopped, scan, loopVars>>

\* BaseScheduler.Clear
ClearEnds ==
  /\ ctl = NumWorkers + 1
  /\ stopped' = FALSE
  /\ ctl' = -1
  /\ SameQueues /\ UNCHANGED <<running, blocked, at, scan, loopVars>>

NextCall ==
  \/ NextBegins \/ TakeLocal \/ StealBegins \/ NextEmpty
  \/ \E v \in Workers : StealFrom(v) \/ StealMisses(v)

StealNext ==
  \/ NextCall
  \/ \E f \in StealFibers :
       \/ Schedule(f) \/ ScanWorker(f) \/ AppendToShortest(f)
       \/ MarkCompleted(f) \/ BlockFiber(f) \/ UnblockFiber(f) \/ Remove(f)
  \/ Start \/ Stop
  \/ ClearBegins \/ ClearWorker \/ ClearBlocked \/ ClearEnds

StealSpec == StealInit /\ [][StealNext]_stealVars
-----------------------------------------------------------------------------
\* Type invariant of the queues and of the calls in progress.
StealTypeOK ==
  /\ localQueue \in [Workers -> Seq(StealFibers)]
  /\ running \in BOOLEAN /\ stopped \in BOOLEAN
  /\ blocked \subseteq StealFibers
  /\ at \in [StealFibers -> {"out", "scanning", "unblocking", "queued", "taken", "blocked"}]
  /\ scan \in [StealFibers -> [worker : 0..NumWorkers, minWorker : Workers,
                               minSize : -1..Cardinality(StealFibers)]]
  /\ nextWorker \in Workers /\ workerIdx \in Workers /\ victims \subseteq Workers
  /\ loop \in {"idle", "local", "steal"}
  /\ ctl \in -1..(NumWorkers + 1)
  /\ duringNext \subseteq StealFibers /\ duringClear \subseteq StealFibers

\* No two entries of the queues are the same fiber.
Distinct(queues) ==
  \A v, w \in Workers : \A i \in 1..Len(queues[v]), j \in 1..Len(queues[w]) :
    queues[v][i] = queues[w][j] => v = w /\ i = j

\* However the visits of the workers interleave, a fiber is in one queue, once,
\* exactly while it is queued; nobody is lost or dispatched twice.
InOnePlace ==
  /\ QueuedIn(localQueue) = {f \in StealFibers : at[f] = "queued"}
  /\ Distinct(localQueue)
  /\ blocked = {f \in StealFibers : at[f] = "blocked"}

\* Next reports ErrNoFibers only if no fiber was queued throughout the call.
NoFalseEmpty == loop = "steal" /\ victims = {} => duringNext = {}

\* Clear leaves no fiber behind that was queued when it began.
ClearComplete == ctl > NumWorkers => duringClear = {}

\* The calls lock one worker after the other, and still a fiber is in one place,
\* ErrNoFibers means that no fiber was queued throughout the call, and Clear
\* leaves nobody behind that was queued when it began.
WalksMissNobody == InOnePlace /\ NoFalseEmpty /\ ClearComplete
=============================================================================
