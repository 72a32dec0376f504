---------------------------- MODULE WaiterProofs ----------------------------
(***************************************************************************)
(* What one step of the protocol of Waiter does to the parked and granted  *)
(* waiters and to the states of the fibers, and what the operations on a   *)
(* queue do to its elements.  The proofs about the primitives rest on it.  *)
(***************************************************************************)
EXTENDS Waiter, Integers, TLAPS

-----------------------------------------------------------------------------
(* Queues *)

\* A queue of fibers in which none is listed twice.
IsQueue(q) == q \in Seq(Fibers) /\ \A i, j \in DOMAIN q : q[i] = q[j] => i = j

\* A new queue, or one that was cleared, is a queue; and only the empty queue
\* has no elements.
LEMMA QueueEmpty ==
  /\ IsQueue(<<>>) /\ Elements(<<>>) = {}
  /\ \A q : IsQueue(q) => (q = <<>> <=> Elements(q) = {})
BY DEF IsQueue, Elements

\* append(queue, waiter), of a waiter that is not queued.
LEMMA QueueAppend ==
  ASSUME NEW q, IsQueue(q), NEW f \in Fibers \ Elements(q)
  PROVE  IsQueue(Append(q, f)) /\ Elements(Append(q, f)) = Elements(q) \cup {f}
BY DEF IsQueue, Elements

\* queue[0] and queue[1:].
LEMMA QueueTail ==
  ASSUME NEW q, IsQueue(q), q # <<>>
  PROVE  /\ Head(q) \in Elements(q) /\ IsQueue(Tail(q))
         /\ Elements(Tail(q)) = Elements(q) \ {Head(q)}
<1>1. q \in Seq(Fibers) /\ Len(q) \in Nat \ {0} /\ Head(q) = q[1]
  BY DEF IsQueue
<1>2. /\ Tail(q) \in Seq(Fibers) /\ Len(Tail(q)) = Len(q) - 1
      /\ DOMAIN Tail(q) = 1..Len(q) - 1
      /\ \A i \in 1..Len(q) - 1 : Tail(q)[i] = q[i + 1]
  BY <1>1
<1>3. \A i \in 1..Len(q), j \in 1..Len(q) : q[i] = q[j] => i = j
  BY <1>1 DEF IsQueue
<1>4. IsQueue(Tail(q))
  BY <1>1, <1>2, <1>3 DEF IsQueue
<1>5. Elements(Tail(q)) \subseteq Elements(q) \ {Head(q)}
  BY <1>1, <1>2, <1>3 DEF Elements
<1>6. ASSUME NEW g \in Elements(q) \ {Head(q)} PROVE g \in Elements(Tail(q))
  <2>1. PICK i \in 1..Len(q) : q[i] = g /\ i # 1
    BY <1>1 DEF Elements
  <2>2. i - 1 \in 1..Len(q) - 1 /\ Tail(q)[i - 1] = g
    BY <1>1, <1>2, <2>1
  <2> QED  BY <1>1, <1>2, <2>2, Zenon DEF Elements
<1>7. Head(q) \in Elements(q)
  BY <1>1 DEF Elements
<1> QED  BY <1>4, <1>5, <1>6, <1>7

\* append(a, b...).
LEMMA Concatenation ==
  ASSUME NEW a \in Seq(Fibers), NEW b \in Seq(Fibers)
  PROVE  /\ a \o b \in Seq(Fibers) /\ Len(a \o b) = Len(a) + Len(b)
         /\ \A i \in 1..Len(a) + Len(b) :
              (a \o b)[i] = IF i <= Len(a) THEN a[i] ELSE b[i - Len(a)]
OBVIOUS

\* The remove...Locked methods take out the waiter and keep the order of the
\* others.
LEMMA QueueRemove ==
  ASSUME NEW q, IsQueue(q), NEW f
  PROVE  /\ IsQueue(Dequeue(q, f)) /\ Elements(Dequeue(q, f)) = Elements(q) \ {f}
         /\ \A i, j \in DOMAIN Dequeue(q, f) : i < j =>
              \E m, n \in DOMAIN q : m < n /\ q[m] = Dequeue(q, f)[i] /\ q[n] = Dequeue(q, f)[j]
<1>1. q \in Seq(Fibers) /\ Len(q) \in Nat /\ DOMAIN q = 1..Len(q)
  BY DEF IsQueue
<1>2. \A i \in 1..Len(q), j \in 1..Len(q) : q[i] = q[j] => i = j
  BY <1>1 DEF IsQueue
<1>3. CASE f \notin Elements(q)
  BY <1>1, <1>3 DEF Dequeue
<1>4. CASE f \in Elements(q)
  <2>1. PICK k \in 1..Len(q) : q[k] = f
    BY <1>1, <1>4 DEF Elements
  <2>2. (CHOOSE i \in DOMAIN q : q[i] = f) = k
    BY <1>1, <1>2, <2>1
  <2> DEFINE r == SubSeq(q, 1, k - 1) \o SubSeq(q, k + 1, Len(q))
  <2>4. Dequeue(q, f) = r
    BY <1>4, <2>2, Zenon DEF Dequeue
  <2>5. /\ r \in Seq(Fibers) /\ Len(r) = Len(q) - 1 /\ DOMAIN r = 1..Len(q) - 1
        /\ \A i \in 1..Len(q) - 1 : r[i] = IF i < k THEN q[i] ELSE q[i + 1]
    <3> DEFINE a == SubSeq(q, 1, k - 1)
               b == SubSeq(q, k + 1, Len(q))
    <3>1. /\ a \in Seq(Fibers) /\ Len(a) = k - 1
          /\ \A i \in 1..k - 1 : a[i] = q[i]
      BY <1>1, <2>1
    <3>2. /\ b \in Seq(Fibers) /\ Len(b) = Len(q) - k
          /\ \A i \in 1..Len(q) - k : b[i] = q[i + k]
      <4>1. \A i \in k + 1..Len(q) : q[i] \in Fibers
        BY <1>1, <2>1
      <4>2. /\ b \in Seq(Fibers)
            /\ Len(b) = IF k + 1 <= Len(q) THEN Len(q) - (k + 1) + 1 ELSE 0
            /\ \A i \in 1..Len(q) - (k + 1) + 1 : b[i] = q[k + 1 + i - 1]
        BY <1>1, <2>1, <4>1
      <4> QED  BY <1>1, <2>1, <4>2, SMTT(30)
    <3>3. r = a \o b
      OBVIOUS
    <3> HIDE DEF a, b, r
    <3>4. /\ r \in Seq(Fibers) /\ Len(r) = Len(a) + Len(b)
          /\ \A i \in 1..Len(a) + Len(b) : r[i] = IF i <= Len(a) THEN a[i] ELSE b[i - Len(a)]
      BY <3>1, <3>2, <3>3, Concatenation, Zenon
    <3>5. ASSUME NEW i \in 1..Len(q) - 1
          PROVE  r[i] = IF i < k THEN q[i] ELSE q[i + 1]
      <4>0. r[i] = IF i <= Len(a) THEN a[i] ELSE b[i - Len(a)]
        <5>1. Len(a) + Len(b) = Len(q) - 1
          BY <1>1, <2>1, <3>1, <3>2
        <5> QED  BY <3>4, <5>1
      <4>1. CASE i < k
        BY <1>1, <2>1, <3>1, <4>0, <4>1
      <4>2. CASE ~(i < k)
        <5> DEFINE j == i - (k - 1)
        <5>1. j \in 1..Len(q) - k /\ j + k = i + 1
          BY <1>1, <2>1, <4>2
        <5>2. r[i] = b[j]
          BY <1>1, <2>1, <3>1, <4>0, <4>2
        <5> HIDE DEF j
        <5>3. b[j] = q[j + k]
          BY <3>2, <5>1
        <5> QED  BY <4>2, <5>1, <5>2, <5>3
      <4> QED  BY <4>1, <4>2
    <3> QED  BY <1>1, <2>1, <3>1, <3>2, <3>4, <3>5
  <2> HIDE DEF r
  <2>6. IsQueue(r)
    BY <1>1, <1>2, <2>1, <2>5 DEF IsQueue
  <2>7. Elements(r) \subseteq Elements(q) \ {f}
    <3>1. ASSUME NEW i \in DOMAIN r
          PROVE  \E m \in DOMAIN q : r[i] = q[m] /\ m # k
      <4>1. i \in 1..Len(q) - 1 /\ r[i] = IF i < k THEN q[i] ELSE q[i + 1]
        BY <2>5
      <4>2. IF i < k THEN i \in DOMAIN q /\ i # k ELSE i + 1 \in DOMAIN q /\ i + 1 # k
        BY <1>1, <2>1, <4>1
      <4> QED  BY <4>1, <4>2, Zenon
    <3>2. \A m \in DOMAIN q : m # k => q[m] # f
      BY <1>1, <1>2, <2>1
    <3> QED  BY <3>1, <3>2, Zenon DEF Elements
  <2>8. ASSUME NEW g \in Elements(q) \ {f} PROVE g \in Elements(r)
    <3>1. PICK i \in 1..Len(q) : q[i] = g /\ i # k
      <4>1. PICK i \in 1..Len(q) : q[i] = g
        BY <1>1 DEF Elements
      <4>2. q[k] = f /\ g # f
        BY <2>1
      <4> QED  BY <4>1, <4>2, Zenon
    <3>2. \E j \in 1..Len(q) - 1 : r[j] = g
      <4>1. CASE i < k
        BY <1>1, <2>1, <2>5, <3>1, <4>1
      <4>2. CASE i > k
        <5>1. i - 1 \in 1..Len(q) - 1 /\ ~(i - 1 < k)
          BY <1>1, <2>1, <3>1, <4>2
        <5>2. r[i - 1] = q[i - 1 + 1]
          BY <2>5, <5>1
        <5>3. i - 1 + 1 = i
          BY <3>1
        <5> QED  BY <3>1, <5>1, <5>2, <5>3
      <4> QED  BY <2>1, <3>1, <4>1, <4>2
    <3> QED  BY <2>5, <3>2 DEF Elements
  <2>9. ASSUME NEW i \in DOMAIN r, NEW j \in DOMAIN r, i < j
        PROVE  \E m, n \in DOMAIN q : m < n /\ q[m] = r[i] /\ q[n] = r[j]
    <3> DEFINE at(x) == IF x < k THEN x ELSE x + 1
    <3>1. at(i) \in DOMAIN q /\ at(j) \in DOMAIN q /\ at(i) < at(j)
      BY <1>1, <2>1, <2>5, <2>9
    <3>2. q[at(i)] = r[i] /\ q[at(j)] = r[j]
      BY <1>1, <2>1, <2>5
    <3> QED  BY <3>1, <3>2
  <2> QED  BY <2>4, <2>6, <2>7, <2>8, <2>9
<1> QED  BY <1>3, <1>4

\* What the proofs use of Cardinality: there are finitely many fibers, so a set
\* of them is counted by a number, which follows the set up and down, and a queue
\* is as long as the set it lists.
Counting ==
  /\ \A S \in SUBSET Fibers :
       /\ Cardinality(S) \in Nat /\ (Cardinality(S) = 0 <=> S = {})
       /\ \A f \in Fibers \ S : Cardinality(S \cup {f}) = Cardinality(S) + 1
       /\ \A f \in S : Cardinality(S \ {f}) = Cardinality(S) - 1
  /\ \A S, T \in SUBSET Fibers :
       S \cap T = {} => Cardinality(S \cup T) = Cardinality(S) + Cardinality(T)
  /\ \A q : IsQueue(q) => Len(q) = Cardinality(Elements(q))

\* The elements of two queues, one after the other.
LEMMA ElementsConcat ==
  ASSUME NEW p, IsQueue(p), NEW q, IsQueue(q)
  PROVE  Elements(p \o q) = Elements(p) \cup Elements(q)
<1>1. /\ p \in Seq(Fibers) /\ DOMAIN p = 1..Len(p) /\ Len(p) \in Nat
      /\ q \in Seq(Fibers) /\ DOMAIN q = 1..Len(q) /\ Len(q) \in Nat
  BY DEF IsQueue
<1>2. /\ DOMAIN (p \o q) = 1..Len(p) + Len(q)
      /\ \A i \in 1..Len(p) + Len(q) :
           (p \o q)[i] = IF i <= Len(p) THEN p[i] ELSE q[i - Len(p)]
  BY <1>1
<1>3. ASSUME NEW f \in Elements(q) PROVE f \in Elements(p \o q)
  <2>1. PICK i \in 1..Len(q) : q[i] = f
    BY <1>1 DEF Elements
  <2>2. i + Len(p) \in 1..Len(p) + Len(q) /\ ~(i + Len(p) <= Len(p)) /\ i + Len(p) - Len(p) = i
    BY <1>1, <2>1
  <2>3. (p \o q)[i + Len(p)] = f
    BY <1>2, <2>1, <2>2
  <2> QED  BY <1>2, <2>2, <2>3 DEF Elements
<1>4. Elements(p) \subseteq Elements(p \o q)
  BY <1>1, <1>2 DEF Elements
<1>5. Elements(p \o q) \subseteq Elements(p) \cup Elements(q)
  BY <1>1, <1>2 DEF Elements
<1> QED  BY <1>3, <1>4, <1>5

-----------------------------------------------------------------------------
(* Steps *)

\* A fiber is Blocked exactly while its waiter is queued, or until it returns
\* from a cancelled call, and Running otherwise.
WaiterInv ==
  /\ ready \subseteq Fibers
  /\ fb = [f \in Fibers |-> IF f \in Parked \/ pc[f] = "withdrawn"
                              THEN Block(RunningFiber) ELSE RunningFiber]

\* It is what the deadlock detector needs, and the records are fiber records.
LEMMA WaiterInvImplies ==
  WaiterInv => BlockedIsParked /\ fb \in [Fibers -> FiberRecord]
<1>1. /\ Block(RunningFiber) \in FiberRecord /\ RunningFiber \in FiberRecord
      /\ IsBlocked(Block(RunningFiber)) /\ ~IsBlocked(RunningFiber)
  BY Zenon DEF Block, RunningFiber, FiberRecord, FiberState, IsBlocked
<1> QED  BY <1>1, Zenon DEF WaiterInv, BlockedIsParked

\* It holds of fibers that wait for nothing.
LEMMA WaiterInvInit == WaiterInit => WaiterInv /\ Parked = {} /\ Granted = {}
BY DEF WaiterInit, WaiterInv, Parked, Granted, Waiting

\* What Block and Unblock make of the two records.
LEMMA BlockedRecord ==
  /\ Unblock(Block(RunningFiber)) = RunningFiber
  /\ Unblock(RunningFiber) = RunningFiber
BY Zenon DEF Block, Unblock, RunningFiber

\* The call queues a waiter that was neither queued nor granted.
LEMMA ParkStep ==
  ASSUME WaiterInv, NEW P, pc \in [Fibers -> P],
         NEW f \in Fibers, NEW s \in {"wait", "waitCtx"}, Park(f, s)
  PROVE  /\ WaiterInv' /\ f \notin Parked
         /\ Parked' = Parked \cup {f} /\ Granted' = Granted
         /\ pc' = [pc EXCEPT ![f] = s]
<1>1. /\ pc' = [pc EXCEPT ![f] = s] /\ pc[f] = "idle" /\ ready' = ready \ {f}
      /\ fb' = [fb EXCEPT ![f] = Block(fb[f])]
  BY DEF Park, Goto
<1>2. f \notin Parked /\ Parked' = Parked \cup {f} /\ Granted' = Granted
  BY <1>1 DEF Parked, Granted, Waiting
<1>3. fb[f] = RunningFiber
  BY <1>1, <1>2 DEF WaiterInv
<1>4. WaiterInv'
  BY <1>1, <1>2, <1>3, Zenon DEF WaiterInv
<1> QED  BY <1>1, <1>2, <1>4

\* A grant: the fibers of woken are unblocked, while at most fibers that do not
\* wait move on.
LEMMA WakeStep ==
  ASSUME WaiterInv, NEW P, pc \in [Fibers -> P], pc' \in [Fibers -> P],
         \A g \in Fibers : \/ pc'[g] = pc[g]
                          \/ /\ pc[g] \notin Waiting \cup {"withdrawn"}
                             /\ pc'[g] \notin Waiting \cup {"withdrawn"},
         NEW woken \in SUBSET Parked, Wake(woken)
  PROVE  /\ WaiterInv'
         /\ Parked' = Parked \ woken /\ Granted' = Granted \cup woken
<1>1. /\ ready' = ready \cup woken
      /\ fb' = [f \in Fibers |-> IF f \in woken THEN Unblock(fb[f]) ELSE fb[f]]
  BY DEF Wake
<1>2. Parked' = Parked \ woken /\ Granted' = Granted \cup woken
  BY <1>1 DEF Parked, Granted
<1>3. \A g \in Fibers : pc'[g] = "withdrawn" <=> pc[g] = "withdrawn"
  OBVIOUS
<1>4. \A g \in woken : g \in Fibers /\ pc[g] # "withdrawn"
  BY DEF Parked, Waiting
<1>5. ready' \subseteq Fibers
  BY <1>1, <1>4 DEF WaiterInv
<1>6. ASSUME NEW g \in Fibers
      PROVE  fb'[g] = IF g \in Parked' \/ pc'[g] = "withdrawn"
                        THEN Block(RunningFiber) ELSE RunningFiber
  BY <1>1, <1>2, <1>3, <1>4, BlockedRecord DEF WaiterInv
<1>7. fb' = [g \in Fibers |-> IF g \in Parked' \/ pc'[g] = "withdrawn"
                                THEN Block(RunningFiber) ELSE RunningFiber]
  BY <1>1, <1>6
<1> QED  BY <1>2, <1>5, <1>7 DEF WaiterInv

\* A step of fibers that do not wait.
LEMMA MoveStep ==
  ASSUME WaiterInv, NEW P, pc \in [Fibers -> P], pc' \in [Fibers -> P],
         \A g \in Fibers : \/ pc'[g] = pc[g]
                          \/ /\ pc[g] \notin Waiting \cup {"withdrawn"}
                             /\ pc'[g] \notin Waiting \cup {"withdrawn"},
         UNCHANGED <<fb, ready>>
  PROVE  WaiterInv' /\ Parked' = Parked /\ Granted' = Granted
<1>1. Parked' = Parked /\ Granted' = Granted
  BY DEF Parked, Granted
<1>2. \A g \in Fibers : pc'[g] = "withdrawn" <=> pc[g] = "withdrawn"
  OBVIOUS
<1> QED  BY <1>1, <1>2 DEF WaiterInv

\* The call returns what it was granted, also if its context is done.
LEMMA ReturnStep ==
  ASSUME WaiterInv, NEW P, pc \in [Fibers -> P],
         NEW f \in Fibers, NEW result, result \notin Waiting \cup {"withdrawn"},
         WaitEnds(f, result) \/ CancelTooLate(f, result)
  PROVE  /\ WaiterInv' /\ f \in Granted
         /\ Parked' = Parked /\ Granted' = Granted \ {f}
         /\ pc' = [pc EXCEPT ![f] = result] /\ UNCHANGED <<fb, ready>>
<1>1. /\ pc' = [pc EXCEPT ![f] = result] /\ pc[f] \in Waiting /\ f \in ready
      /\ UNCHANGED <<fb, ready>>
  BY DEF WaitEnds, CancelTooLate, Goto, Waiting
<1>2. f \in Granted /\ Parked' = Parked /\ Granted' = Granted \ {f}
  BY <1>1 DEF Parked, Granted
<1>3. \A g \in Fibers : pc'[g] = "withdrawn" <=> pc[g] = "withdrawn"
  BY <1>1 DEF Waiting
<1>4. WaiterInv'
  BY <1>1, <1>2, <1>3 DEF WaiterInv
<1> QED  BY <1>1, <1>2, <1>4

\* A context that is done changes nothing by itself.
LEMMA CtxDoneStep ==
  ASSUME WaiterInv, NEW P, pc \in [Fibers -> P], NEW f \in Fibers, CtxDone(f)
  PROVE  /\ WaiterInv' /\ Parked' = Parked /\ Granted' = Granted
         /\ pc[f] = "waitCtx" /\ pc' = [pc EXCEPT ![f] = "cancelled"]
<1>1. /\ pc' = [pc EXCEPT ![f] = "cancelled"] /\ pc[f] = "waitCtx"
      /\ UNCHANGED <<fb, ready>>
  BY DEF CtxDone, Goto
<1>2. Parked' = Parked /\ Granted' = Granted
  BY <1>1 DEF Parked, Granted, Waiting
<1>3. \A g \in Fibers : pc'[g] = "withdrawn" <=> pc[g] = "withdrawn"
  BY <1>1
<1>4. WaiterInv'
  BY <1>1, <1>2, <1>3 DEF WaiterInv
<1> QED  BY <1>1, <1>2, <1>4

\* A cancelled call that was granted nothing takes its waiter back.
LEMMA WithdrawStep ==
  ASSUME WaiterInv, NEW P, pc \in [Fibers -> P], NEW f \in Fibers, Withdraw(f)
  PROVE  /\ WaiterInv' /\ f \in Parked
         /\ Parked' = Parked \ {f} /\ Granted' = Granted
         /\ pc' = [pc EXCEPT ![f] = "withdrawn"]
<1>1. /\ pc' = [pc EXCEPT ![f] = "withdrawn"] /\ pc[f] = "cancelled" /\ f \notin ready
      /\ UNCHANGED <<fb, ready>>
  BY DEF Withdraw, Goto
<1>2. f \in Parked /\ Parked' = Parked \ {f} /\ Granted' = Granted
  BY <1>1 DEF Parked, Granted, Waiting
<1>3. \A g \in Fibers : g \in Parked' \/ pc'[g] = "withdrawn"
                        <=> g \in Parked \/ pc[g] = "withdrawn"
  BY <1>1, <1>2
<1>4. WaiterInv'
  BY <1>1, <1>3 DEF WaiterInv
<1> QED  BY <1>1, <1>2, <1>4

\* A cancelled call returns.
LEMMA CancelReturnsStep ==
  ASSUME WaiterInv, NEW P, pc \in [Fibers -> P], NEW f \in Fibers, CancelReturns(f)
  PROVE  /\ WaiterInv' /\ Parked' = Parked /\ Granted' = Granted
         /\ pc[f] = "withdrawn" /\ pc' = [pc EXCEPT ![f] = "idle"]
<1>1. /\ pc' = [pc EXCEPT ![f] = "idle"] /\ pc[f] = "withdrawn"
      /\ fb' = [fb EXCEPT ![f] = Unblock(fb[f])] /\ UNCHANGED ready
  BY DEF CancelReturns, Goto
<1>2. f \notin Parked /\ Parked' = Parked /\ Granted' = Granted
  BY <1>1 DEF Parked, Granted, Waiting
<1>3. fb[f] = Block(RunningFiber)
  BY <1>1 DEF WaiterInv
<1>4. WaiterInv'
  BY <1>1, <1>2, <1>3, BlockedRecord, Zenon DEF WaiterInv
<1> QED  BY <1>1, <1>2, <1>4
=============================================================================
