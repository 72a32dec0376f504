-------------------------- MODULE PriorityScheduler --------------------------
(***************************************************************************)
(* PriorityScheduler and PriorityQueue (internal/scheduler/priority.go)    *)
(* over container/heap.  Every operation runs under the scheduler's mutex, *)
(* Clear in two critical sections; the test of the stopped flag in front   *)
(* of Schedule and Next is the subject of the Scheduler module.  Positions *)
(* count from 1.  A fiber that is scheduled again stands for a new fiber.  *)
(* CreatedAt is the rank of a fiber among the fibers in use.               *)
(***************************************************************************)
EXTENDS Integers, Sequences, FiniteSets

CONSTANTS Fibers,
          Priorities,    \* the priorities fibers are created with
          NewPriorities, \* the priorities UpdatePriority and SetPriority give
          AgeEvery,      \* 100 in the code
          AgeCap,        \* 1<<30 in the code
          Adjusted,      \* the fibers that callers block or give a new priority
          FinishQueued   \* may a fiber finish while it is queued?

VARIABLES pqueue,   \* the heap: a sequence of items
          popCount, \* modulo AgeEvery
          blockedQueue,
          priority, created, finished,  \* the fibers
          clearing, \* Clear has emptied the heap, not yet the blocked queue
          where,    \* history: where each fiber should be
          panicked

vars == <<pqueue, popCount, blockedQueue, priority, created, finished, clearing, where, panicked>>

Init ==
  /\ pqueue = <<>> /\ popCount = 0 /\ blockedQueue = <<>>
  /\ priority = [f \in Fibers |-> 0] /\ created = [f \in Fibers |-> 0]
  /\ finished = {} /\ clearing = FALSE /\ where = [f \in Fibers |-> "out"] /\ panicked = FALSE

-----------------------------------------------------------------------------
(* PriorityQueue and container/heap.                                          *)

Item(f, p) == [fiber |-> f, prio |-> p, index |-> 0]

\* Higher priorities first, then creation order; the cached values are compared.
Less(a, b) ==
  \/ a.prio > b.prio
  \/ a.prio = b.prio /\ created[a.fiber] < created[b.fiber]

\* Mutant of Swap: the index fields are swapped with the items.
SwapIndexes(q, i, j) == [q EXCEPT ![i] = q[j], ![j] = q[i]]

Swap(q, i, j) ==
  [q EXCEPT ![i] = [q[j] EXCEPT !.index = i], ![j] = [q[i] EXCEPT !.index = j]]

\* heap.down among the first n items.
RECURSIVE Down(_, _, _)
Down(q, i, n) ==
  LET j == IF 2 * i + 1 <= n /\ Less(q[2 * i + 1], q[2 * i]) THEN 2 * i + 1 ELSE 2 * i
  IN IF 2 * i > n \/ ~ Less(q[j], q[i]) THEN q ELSE Down(Swap(q, i, j), j, n)

\* heap.up
RECURSIVE Up(_, _)
Up(q, j) ==
  IF j = 1 \/ ~ Less(q[j], q[j \div 2]) THEN q ELSE Up(Swap(q, j, j \div 2), j \div 2)

\* heap.Init, from the last parent on.
RECURSIVE InitFrom(_, _)
InitFrom(q, i) == IF i = 0 THEN q ELSE InitFrom(Down(q, i, Len(q)), i - 1)

HeapInit(q) == InitFrom(q, Len(q) \div 2)

Front(q) == SubSeq(q, 1, Len(q) - 1)

\* heap.Push with Push
HeapPush(q, item) ==
  Up(Append(q, [item EXCEPT !.index = Len(q) + 1]), Len(q) + 1)

\* heap.Pop with Pop; the item popped is the first one.
HeapPop(q) == Front(Down(Swap(q, 1, Len(q)), 1, Len(q) - 1))

\* The rest of heap.Remove and heap.Fix at position i among the first n items.
Settle(q, i, n) ==
  LET down == Down(q, i, n) IN IF down # q THEN down ELSE Up(q, i)

\* heap.Remove.  An index beyond the slice panics in Swap.
RemovePanics(q, i) == i > Len(q)
HeapRemove(q, i) ==
  IF i = Len(q) THEN Front(q) ELSE Front(Settle(Swap(q, i, Len(q)), i, Len(q) - 1))

\* heap.Fix.  An index beyond the slice panics in Less.
HeapFix(q, i) == Settle(q, i, Len(q))

\* RemoveFinished compacts in place and leaves the index fields alone.
RemoveFinished(q) == HeapInit(SelectSeq(q, LAMBDA item : item.fiber \notin finished))

\* The position of a fiber's item: the range loops of the scheduler.
Positions(f) == {i \in DOMAIN pqueue : pqueue[i].fiber = f}
Pos(f) == CHOOSE i \in Positions(f) : \A j \in Positions(f) : i <= j

Queued(f) == Positions(f) # {}

-----------------------------------------------------------------------------
(* The scheduler *)

\* A fiber is created: the youngest of the fibers in use.
NewFiber(f, p) ==
  LET used == {g \in Fibers : where[g] # "out"}
      rank(g) == Cardinality({h \in used : created[h] <= created[g]})
  IN /\ where[f] = "out"
     /\ where' = [where EXCEPT ![f] = "new"]
     /\ priority' = [priority EXCEPT ![f] = p]
     /\ created' = [g \in Fibers |-> CASE g = f -> Cardinality(used) + 1
                                       [] g \in used -> rank(g)
                                       [] OTHER -> 0]
     /\ finished' = finished \ {f}
     /\ UNCHANGED <<pqueue, popCount, blockedQueue, panicked>>

\* Nothing depends on the fibers of gone any more.
Forget(gone) ==
  /\ where' = [f \in Fibers |-> IF f \in gone THEN "out" ELSE where[f]]
  /\ priority' = [f \in Fibers |-> IF f \in gone THEN 0 ELSE priority[f]]
  /\ created' = [f \in Fibers |-> IF f \in gone THEN 0 ELSE created[f]]
  /\ finished' = finished \ gone

Schedule(f) ==
  /\ where[f] = "new"
  /\ pqueue' = HeapPush(pqueue, Item(f, priority[f]))
  /\ where' = [where EXCEPT ![f] = "queued"]
  /\ UNCHANGED <<popCount, blockedQueue, priority, created, finished, panicked>>

\* One step up for every item below the cap, and for its fiber.
Aged(q) ==
  [i \in DOMAIN q |-> IF q[i].prio < AgeCap THEN [q[i] EXCEPT !.prio = @ + 1] ELSE q[i]]

AgedPriority(q) ==
  [f \in Fibers |-> IF \E i \in DOMAIN q : q[i].fiber = f /\ q[i].prio < AgeCap
                      THEN (CHOOSE item \in {q[i] : i \in DOMAIN q} : item.fiber = f).prio + 1
                      ELSE priority[f]]

\* Mutant of ageAllLocked: the heap is not rebuilt.
ageAllUnsorted(q) == Aged(q)

ageAllLocked(q) == HeapInit(Aged(q))

\* Mutant of AgesNow: nothing ever ages.
AgesNever == FALSE

\* Every AgeEvery-th pop ages the queue first.
AgesNow == popCount = AgeEvery - 1

\* Next: drop the finished fibers, age, pop the first item.
NextFiber ==
  \E live \in {RemoveFinished(pqueue)} :
  \E queue \in {IF AgesNow THEN ageAllLocked(live) ELSE live} :
    \/ /\ live = <<>> /\ pqueue # <<>>
       /\ pqueue' = <<>>
       /\ Forget({f \in finished : where[f] = "queued"})
       /\ UNCHANGED <<popCount, blockedQueue, panicked>>
    \/ /\ live # <<>>
       /\ pqueue' = HeapPop(queue)
       /\ popCount' = (popCount + 1) % AgeEvery
       /\ priority' = IF AgesNow THEN AgedPriority(live) ELSE priority
       /\ where' = [f \in Fibers |-> CASE f = queue[1].fiber -> "taken"
                                       [] where[f] = "queued" /\ f \in finished -> "out"
                                       [] OTHER -> where[f]]
       /\ UNCHANGED <<blockedQueue, created, finished, panicked>>

\* BlockFiber removes at the index field of the item, not at its position.
BlockFiber(f) ==
  /\ f \in Adjusted /\ where[f] \in {"queued", "taken"}
  /\ IF Queued(f) /\ RemovePanics(pqueue, pqueue[Pos(f)].index)
       THEN panicked' = TRUE /\ UNCHANGED <<pqueue, blockedQueue, where>>
       ELSE /\ pqueue' = IF Queued(f) THEN HeapRemove(pqueue, pqueue[Pos(f)].index) ELSE pqueue
            /\ blockedQueue' = Append(blockedQueue, f)
            /\ where' = [where EXCEPT ![f] = "blocked"]
            /\ UNCHANGED panicked
  /\ UNCHANGED <<popCount, priority, created, finished>>

UnblockFiber(f) ==
  /\ \E i \in DOMAIN blockedQueue : blockedQueue[i] = f
  /\ blockedQueue' = SelectSeq(blockedQueue, LAMBDA g : g # f)
  /\ pqueue' = HeapPush(pqueue, Item(f, priority[f]))
  /\ where' = [where EXCEPT ![f] = "queued"]
  /\ UNCHANGED <<popCount, priority, created, finished, panicked>>

\* UpdatePriority; SetPriority followed by Reheapify does the same in two steps.
UpdatePriority(f, p) ==
  /\ f \in Adjusted /\ Queued(f)
  /\ priority' = [priority EXCEPT ![f] = p]
  /\ LET q == [pqueue EXCEPT ![Pos(f)].prio = p]
     IN IF RemovePanics(q, q[Pos(f)].index)
          THEN panicked' = TRUE /\ pqueue' = q
          ELSE pqueue' = HeapFix(q, q[Pos(f)].index) /\ UNCHANGED panicked
  /\ UNCHANGED <<popCount, blockedQueue, created, finished, where>>

SetPriority(f, p) ==
  /\ f \in Adjusted /\ where[f] # "out"
  /\ priority' = [priority EXCEPT ![f] = p]
  /\ UNCHANGED <<pqueue, popCount, blockedQueue, created, finished, where, panicked>>

Reheapify(f) ==
  /\ f \in Adjusted /\ Queued(f)
  /\ LET q == [pqueue EXCEPT ![Pos(f)].prio = priority[f]]
     IN IF RemovePanics(q, q[Pos(f)].index)
          THEN panicked' = TRUE /\ pqueue' = q
          ELSE pqueue' = HeapFix(q, q[Pos(f)].index) /\ UNCHANGED panicked
  /\ UNCHANGED <<popCount, blockedQueue, priority, created, finished, where>>

\* Mutant of Remove: the last item goes, as if the heap were sorted.
RemoveLast(f) ==
  /\ Queued(f)
  /\ pqueue' = Front(pqueue)
  /\ Forget({f})
  /\ UNCHANGED <<popCount, blockedQueue, panicked>>

\* Remove, and the removal in MarkCompleted, use the position.
Remove(f) ==
  /\ Queued(f)
  /\ pqueue' = HeapRemove(pqueue, Pos(f))
  /\ Forget({f})
  /\ UNCHANGED <<popCount, blockedQueue, panicked>>

\* Clear empties the heap ...
Clear ==
  /\ ~ clearing /\ clearing' = TRUE
  /\ pqueue' = <<>>
  /\ Forget({f \in Fibers : where[f] = "queued"})
  /\ UNCHANGED <<popCount, blockedQueue, panicked>>

\* ... and then, in BaseScheduler.Clear, the blocked queue.
ClearBase ==
  /\ clearing /\ clearing' = FALSE
  /\ blockedQueue' = <<>>
  /\ Forget({f \in Fibers : where[f] = "blocked"})
  /\ UNCHANGED <<pqueue, popCount, panicked>>

\* The function of a fiber that was taken returns.
Finish(f) ==
  /\ where[f] = "taken"
  /\ Forget({f})
  /\ UNCHANGED <<pqueue, popCount, blockedQueue, panicked>>

\* A fiber that is still queued is finished.
FinishEarly(f) ==
  /\ FinishQueued /\ where[f] = "queued"
  /\ finished' = finished \cup {f}
  /\ UNCHANGED <<pqueue, popCount, blockedQueue, priority, created, where, panicked>>

Next ==
  /\ ~ panicked
  /\ \/ Clear \/ ClearBase
     \/ NextFiber /\ UNCHANGED clearing
     \/ \E f \in Fibers :
          /\ \/ \E p \in Priorities : NewFiber(f, p)
             \/ \E p \in NewPriorities : UpdatePriority(f, p) \/ SetPriority(f, p)
             \/ Schedule(f) \/ BlockFiber(f) \/ UnblockFiber(f) \/ Reheapify(f)
             \/ Remove(f) \/ Finish(f) \/ FinishEarly(f)
          /\ UNCHANGED clearing

Spec == Init /\ [][Next]_vars
-----------------------------------------------------------------------------
Items == {pqueue[i] : i \in DOMAIN pqueue}

\* Type invariant of the queue and the fibers.
TypeOK ==
  /\ Items \subseteq [fiber : Fibers, prio : Nat, index : 1..Cardinality(Fibers)]
  /\ popCount \in 0..(AgeEvery - 1)
  /\ blockedQueue \in Seq(Fibers)
  /\ priority \in [Fibers -> Nat]
  /\ created \in [Fibers -> 0..Cardinality(Fibers)]
  /\ finished \subseteq Fibers
  /\ where \in [Fibers -> {"out", "new", "queued", "blocked", "taken"}]
  /\ clearing \in BOOLEAN /\ panicked \in BOOLEAN

\* "position in the heap; maintained by Push/Pop/Swap" (the comment on index):
\* heap.Remove and heap.Fix are given the index field of the item they mean.
IndexIsPosition == \A i \in DOMAIN pqueue : pqueue[i].index = i

\* Every fiber is where the calls put it: in the heap once, or in the blocked
\* queue, or in neither.
NobodyLost ==
  /\ {item.fiber : item \in Items} = {f \in Fibers : where[f] = "queued"}
  /\ Len(pqueue) = Cardinality(Items)
  /\ {blockedQueue[i] : i \in DOMAIN blockedQueue} = {f \in Fibers : where[f] = "blocked"}

Taken == {f \in Fibers : where[f] = "taken"}

\* Next returns the best of the queued fibers that have not finished: the highest
\* priority, after the aging that is due, and the oldest among equals, whatever
\* was pushed, removed or changed before.
BestFirst ==
  [][LET queue == IF AgesNow THEN Aged(pqueue) ELSE pqueue
     IN \A f \in Taken' \ Taken : \A i, j \in DOMAIN queue :
          queue[i].fiber = f /\ queue[j].fiber \notin finished \cup {f}
            => Less(queue[i], queue[j])]_vars
=============================================================================
