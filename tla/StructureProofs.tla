-------------------------- MODULE StructureProofs --------------------------
(***************************************************************************)
(* Proofs about the structures that the runtime drives: the ring buffer of *)
(* EventTracker, the work-stealing scheduler, whose calls lock one worker  *)
(* after the other, and the counters and the gauge of Metrics.             *)
(***************************************************************************)
EXTENDS Telemetry, WorkStealing, TLAPS

-----------------------------------------------------------------------------
(* EventTracker *)

\* Where the ring wraps around.
LEMMA Wraps ==
  ASSUME NEW C \in Nat \ {0}, NEW x \in Nat, x < 2 * C
  PROVE  x % C = IF x < C THEN x ELSE x - C
<1>1. CASE x < C
  BY <1>1
<1>2. CASE x >= C
  BY <1>2
<1> QED  BY <1>1, <1>2

\* Once around the ring leads to the same slot.
LEMMA OnceAround ==
  ASSUME NEW C \in Nat \ {0}, NEW x \in 0..(C - 1)
  PROVE  (x + C) % C = x
<1>1. x + C \in Nat /\ x + C < 2 * C /\ ~(x + C < C)
  OBVIOUS
<1> QED  BY <1>1, Wraps

\* Every step keeps the law of the ring.
LEMMA RingStep ==
  ASSUME Capacity \in Nat \ {0}, Tracker!TypeOK, [Tracker!Next]_(Tracker!vars)
  PROVE  Tracker!TypeOK'
<1> USE DEF Tracker!TypeOK, Tracker!Slots
<1>1. ASSUME NEW e \in Events, Tracker!RecordEvent(e) PROVE Tracker!TypeOK'
  <2>1. events' \in [Tracker!Slots -> Events \cup {NoEvent}]
    BY <1>1 DEF Tracker!RecordEvent
  <2>2. tail' \in Tracker!Slots /\ tail' = (tail + 1) % Capacity
    BY <1>1 DEF Tracker!RecordEvent
  <2>3. CASE count < Capacity
    <3>1. count' = count + 1 /\ head' = head
      BY <1>1, <2>3 DEF Tracker!RecordEvent
    <3>2. PICK n \in Nat : n = head + count /\ n + 1 < 2 * Capacity /\ tail = n % Capacity
      BY <2>3
    <3>3. tail = IF n < Capacity THEN n ELSE n - Capacity
      <4>1. n < 2 * Capacity
        BY <3>2
      <4> HIDE DEF Tracker!TypeOK
      <4> QED  BY <3>2, <4>1, Wraps
    <3>4. PICK k \in Nat : k = tail + 1 /\ k < 2 * Capacity
      OBVIOUS
    <3>5. tail' = IF k < Capacity THEN k ELSE k - Capacity
      BY <2>2, <3>4, Wraps, Zenon
    <3>6. PICK m \in Nat : m = head' + count' /\ m = n + 1
      BY <3>1, <3>2
    <3>7. m % Capacity = IF m < Capacity THEN m ELSE m - Capacity
      BY <3>2, <3>6, Wraps
    <3>8. tail' = m % Capacity
      BY <3>2, <3>3, <3>4, <3>5, <3>6, <3>7
    <3> QED  BY <2>1, <2>2, <2>3, <3>1, <3>6, <3>8
  <2>4. CASE ~(count < Capacity)
    <3>1. count = Capacity /\ count' = Capacity /\ head' = (head + 1) % Capacity
      BY <1>1, <2>4 DEF Tracker!RecordEvent
    <3>2. \A x \in Tracker!Slots : (x + Capacity) % Capacity = x
      BY OnceAround
    <3>3. tail = head /\ head' \in Tracker!Slots /\ tail' = head'
      BY <2>2, <3>1, <3>2
    <3>4. tail' = (head' + count') % Capacity
      BY <3>1, <3>2, <3>3
    <3> QED  BY <2>1, <2>2, <3>1, <3>3, <3>4
  <2> QED  BY <2>3, <2>4
<1>2. ASSUME Tracker!Clear PROVE Tracker!TypeOK'
  BY <1>2, Wraps DEF Tracker!Clear
<1>3. CASE UNCHANGED Tracker!vars
  BY <1>3 DEF Tracker!vars
<1> QED  BY <1>1, <1>2, <1>3 DEF Tracker!Next

\* The slot of the i-th event from head.
LEMMA SlotOf ==
  ASSUME NEW C \in Nat \ {0}, NEW h \in 0..(C - 1), NEW i \in 1..C
  PROVE  /\ (h + i - 1) % C = IF h + i - 1 < C THEN h + i - 1 ELSE h + i - 1 - C
         /\ (h + i - 1) % C \in 0..(C - 1)
<1>1. PICK x \in Nat : x = h + i - 1 /\ x < 2 * C
  OBVIOUS
<1>2. x % C = IF x < C THEN x ELSE x - C
  BY <1>1, Wraps, Zenon
<1>3. x % C \in 0..(C - 1)
  BY <1>1, <1>2
<1> QED  BY <1>1, <1>2, <1>3

\* RecordEvent writes the slot behind the last event, which is no other event's
\* slot, or, if the ring is full, the slot of the oldest one; and what GetEvents
\* then returns is what it returned before with the event at its end, without the
\* oldest if the ring was full.
LEMMA RecordEventAppends ==
  ASSUME Capacity \in Nat \ {0}, Tracker!TypeOK, NEW e \in Events, Tracker!RecordEvent(e)
  PROVE  Tracker!Log!Record(e)
<1> DEFINE C == Capacity
           Slot(h, i) == (h + i - 1) % C
           log == Tracker!GetEvents
<1>0. /\ events \in [0..(C - 1) -> Events \cup {NoEvent}] /\ head \in 0..(C - 1)
      /\ tail \in 0..(C - 1) /\ count \in 0..C /\ C \in Nat \ {0}
  BY DEF Tracker!TypeOK, Tracker!Slots
<1>1. /\ tail = Slot(head, count + 1)
      /\ log = [i \in 1..count |-> events[Slot(head, i)]]
      /\ log' = [i \in 1..count' |-> events'[Slot(head', i)]]
  <2>1. tail = (head + count) % C /\ head + count = head + (count + 1) - 1
    BY <1>0 DEF Tracker!TypeOK
  <2>2. tail = Slot(head, count + 1)
    BY <2>1
  <2> QED  BY <2>2 DEF Tracker!GetEvents
<1>2. events' = [events EXCEPT ![tail] = e]
  BY DEF Tracker!RecordEvent
<1>3. \A h \in 0..(C - 1), i \in 1..C :
        /\ Slot(h, i) = IF h + i - 1 < C THEN h + i - 1 ELSE h + i - 1 - C
        /\ Slot(h, i) \in 0..(C - 1)
  BY SlotOf, Zenon
<1> HIDE DEF Slot
<1>4. /\ log \in Seq(Events \cup {NoEvent}) /\ Len(log) = count
      /\ \A i \in 1..count : log[i] = events[Slot(head, i)]
  <2>1. \A i \in 1..count : events[Slot(head, i)] \in Events \cup {NoEvent}
    BY <1>0, <1>3
  <2> HIDE DEF log
  <2>2. log \in [1..count -> Events \cup {NoEvent}]
    BY <1>1, <2>1
  <2> QED  BY <1>0, <1>1, <2>2
<1> HIDE DEF log
<1>5. /\ Append(log, e) \in Seq(Events \cup {NoEvent}) /\ Len(Append(log, e)) = count + 1
      /\ \A i \in 1..count : Append(log, e)[i] = log[i]
      /\ Append(log, e)[count + 1] = e
  BY <1>0, <1>4
<1>6. CASE count < C
  <2>1. count' = count + 1 /\ head' = head
    BY <1>6 DEF Tracker!RecordEvent
  <2>2. count + 1 \in 1..C
    BY <1>0, <1>6
  <2>3. tail = IF head + count < C THEN head + count ELSE head + count - C
    <3>1. Slot(head, count + 1) = IF head + (count + 1) - 1 < C THEN head + (count + 1) - 1
                                                               ELSE head + (count + 1) - 1 - C
      BY <1>0, <1>3, <2>2, Zenon
    <3> QED  BY <1>0, <1>1, <3>1
  <2>4. ASSUME NEW i \in 1..(count + 1)
        PROVE  events'[Slot(head, i)] = IF i <= count THEN log[i] ELSE e
    <3>1. Slot(head, i) \in 0..(C - 1)
          /\ Slot(head, i) = IF head + i - 1 < C THEN head + i - 1 ELSE head + i - 1 - C
      BY <1>0, <1>3, <2>2
    <3>2. i <= count => Slot(head, i) # tail
      BY <1>0, <1>6, <2>3, <3>1
    <3>3. i > count => Slot(head, i) = tail
      BY <1>0, <1>6, <2>3, <3>1
    <3> QED  BY <1>0, <1>2, <1>4, <3>1, <3>2, <3>3
  <2>5. log' = [i \in 1..(count + 1) |-> IF i <= count THEN log[i] ELSE e]
    BY <1>1, <2>1, <2>4
  <2>6. log' = Append(log, e)
    BY <1>0, <1>5, <2>5
  <2> QED  BY <1>0, <1>5, <1>6, <2>6 DEF Tracker!Log!Record, Tracker!Log!Latest, log
<1>7. CASE count = C
  <2>1. count' = C /\ head' = (head + 1) % C
    BY <1>7 DEF Tracker!RecordEvent
  <2>2. tail = head
    <3>1. tail = (head + C) % C
      BY <1>7 DEF Tracker!TypeOK
    <3> QED  BY <1>0, <3>1, OnceAround
  <2>3. head' = (IF head + 1 < C THEN head + 1 ELSE 0) /\ head' \in 0..(C - 1)
    <3>1. PICK x \in Nat : x = head + 1 /\ x < 2 * C /\ head' = x % C
      BY <1>0, <2>1
    <3>2. x % C = IF x < C THEN x ELSE x - C
      BY <3>1, Wraps
    <3> QED  BY <1>0, <3>1, <3>2
  <2>4. ASSUME NEW i \in 1..C
        PROVE  events'[Slot(head', i)] = IF i < C THEN log[i + 1] ELSE e
    <3>1. Slot(head', i) \in 0..(C - 1)
          /\ Slot(head', i) = IF head' + i - 1 < C THEN head' + i - 1 ELSE head' + i - 1 - C
      BY <1>3, <2>3, Zenon
    <3>2. ASSUME i < C PROVE Slot(head', i) # tail /\ Slot(head', i) = Slot(head, i + 1)
      <4>1. i + 1 \in 1..C
        BY <1>0, <3>2
      <4>2. Slot(head, i + 1)
              = IF head + (i + 1) - 1 < C THEN head + (i + 1) - 1 ELSE head + (i + 1) - 1 - C
        BY <1>0, <1>3, <4>1, Zenon
      <4> QED  BY <1>0, <2>2, <2>3, <3>1, <3>2, <4>2
    <3>3. i = C => Slot(head', i) = tail
      BY <1>0, <2>2, <2>3, <3>1
    <3>4. i < C => log[i + 1] = events[Slot(head, i + 1)]
      BY <1>0, <1>4, <1>7
    <3> QED  BY <1>0, <1>2, <3>1, <3>2, <3>3, <3>4
  <2>5. log' = [i \in 1..C |-> IF i < C THEN log[i + 1] ELSE e]
    BY <1>1, <2>1, <2>4
  <2>6. SubSeq(Append(log, e), 2, C + 1) = [i \in 1..C |-> Append(log, e)[i + 1]]
    BY <1>0, <1>5, <1>7
  <2>7. log' = SubSeq(Append(log, e), 2, C + 1)
    BY <1>0, <1>5, <1>7, <2>5, <2>6
  <2>8. /\ Len(Append(log, e)) = C + 1 /\ Len(Append(log, e)) > C
        /\ (C + 1) - C + 1 = 2
    BY <1>0, <1>5, <1>7
  <2> QED  BY <2>7, <2>8, Zenon DEF Tracker!Log!Record, Tracker!Log!Latest, log
<1> QED  BY <1>0, <1>6, <1>7

\* NewEventTracker returns an empty ring that keeps the law.
LEMMA RingInit ==
  ASSUME Capacity \in Nat \ {0}
  PROVE  Tracker!Init => Tracker!TypeOK /\ Tracker!Log!Init
<1> SUFFICES ASSUME Tracker!Init PROVE Tracker!TypeOK /\ Tracker!Log!Init
  OBVIOUS
<1>1. Tracker!TypeOK
  <2>1. 0 % Capacity = 0
    BY Wraps
  <2> QED  BY <2>1 DEF Tracker!Init, Tracker!TypeOK, Tracker!Slots
<1>2. Tracker!GetEvents = <<>>
  BY DEF Tracker!Init, Tracker!GetEvents
<1> QED  BY <1>1, <1>2 DEF Tracker!Log!Init

\* The law of the ring holds always.
THEOREM RingLaw == Tracker!Spec => []Tracker!TypeOK
<1>1. Tracker!Init => Tracker!TypeOK
  BY TelemetryAssumption, RingInit
<1>2. Tracker!TypeOK /\ [Tracker!Next]_(Tracker!vars) => Tracker!TypeOK'
  BY TelemetryAssumption, RingStep
<1> QED  BY <1>1, <1>2, PTL DEF Tracker!Spec

\* The ring buffer implements the log of the last Capacity events, for every
\* capacity: RecordEvent appends to what GetEvents returns and drops the oldest
\* event of a full ring, and Clear empties it.
THEOREM RingIsLog == Tracker!Spec => IsEventLog
<1>1. Tracker!Init => Tracker!Log!Init
  BY TelemetryAssumption, RingInit
<1>2. Tracker!TypeOK /\ [Tracker!Next]_(Tracker!vars) => [Tracker!Log!Next]_(Tracker!GetEvents)
  <2> SUFFICES ASSUME Tracker!TypeOK, [Tracker!Next]_(Tracker!vars)
               PROVE  [Tracker!Log!Next]_(Tracker!GetEvents)
    OBVIOUS
  <2>1. ASSUME NEW e \in Events, Tracker!RecordEvent(e) PROVE Tracker!Log!Next
    BY <2>1, TelemetryAssumption, RecordEventAppends DEF Tracker!Log!Next
  <2>2. ASSUME Tracker!Clear PROVE Tracker!Log!Next
    <3>1. Tracker!GetEvents' = <<>>
      BY <2>2 DEF Tracker!Clear, Tracker!GetEvents
    <3> QED  BY <3>1 DEF Tracker!Log!Next, Tracker!Log!Clear
  <2>3. ASSUME UNCHANGED Tracker!vars PROVE UNCHANGED Tracker!GetEvents
    BY <2>3 DEF Tracker!vars, Tracker!GetEvents
  <2> QED  BY <2>1, <2>2, <2>3 DEF Tracker!Next
<1> QED  BY <1>1, <1>2, RingLaw, PTL
         DEF Tracker!Spec, IsEventLog, Tracker!IsEventLog, Tracker!Log!Spec

\* The backward index of GetRecentEvents, with Go's remainder, is the slot that
\* GetEvents reaches from head.
LEMMA BackwardIndex ==
  ASSUME Capacity \in Nat \ {0}, Tracker!TypeOK, NEW i \in 0..(count - 1)
  PROVE  Tracker!RecentIndex(i) = (head + (count - i) - 1) % Capacity
<1> DEFINE C == Capacity
<1>0. /\ head \in 0..(C - 1) /\ tail \in 0..(C - 1) /\ count \in 0..C /\ C \in Nat \ {0}
      /\ i \in Nat
  BY DEF Tracker!TypeOK, Tracker!Slots
<1>1. tail = IF head + count < C THEN head + count ELSE head + count - C
  <2>1. PICK x \in Nat : x = head + count /\ x < 2 * C
    BY <1>0
  <2>2. tail = x % C
    BY <2>1 DEF Tracker!TypeOK
  <2>3. tail = IF x < C THEN x ELSE x - C
    BY <2>1, <2>2, Wraps, Zenon
  <2> QED  BY <1>0, <2>1, <2>3
<1>2. PICK y \in Nat : y = head + (count - i) - 1 /\ y < 2 * C
  BY <1>0
<1>3. y % C = IF y < C THEN y ELSE y - C
  BY <1>0, <1>2, Wraps, Zenon
<1>4. PICK d \in Int : d = tail - 1 - i
  BY <1>0
<1>5. Tracker!Rem(d, C) = IF d >= 0 \/ d > -C THEN d ELSE 0
  <2>1. CASE d >= 0
    <3>1. d \in Nat /\ d < 2 * C /\ d < C
      BY <1>0, <1>4, <2>1
    <3>2. d % C = d
      BY <3>1, Wraps, Zenon
    <3> QED  BY <2>1, <3>2 DEF Tracker!Rem
  <2>2. CASE d < 0
    <3>1. PICK m \in Nat : m = -d /\ m < 2 * C
      BY <1>0, <1>4, <2>2
    <3>2. m % C = IF m < C THEN m ELSE m - C
      BY <1>0, <3>1, Wraps, Zenon
    <3> QED  BY <1>0, <1>4, <2>2, <3>1, <3>2 DEF Tracker!Rem
  <2> QED  BY <2>1, <2>2
<1>6. PICK z \in Nat : z = Tracker!Rem(d, C) + C /\ z < 2 * C
  BY <1>0, <1>4, <1>5
<1>7. Tracker!Rem(z, C) = IF z < C THEN z ELSE z - C
  <2>1. z % C = IF z < C THEN z ELSE z - C
    BY <1>0, <1>6, Wraps, Zenon
  <2> QED  BY <2>1 DEF Tracker!Rem
<1>8. Tracker!RecentIndex(i) = Tracker!Rem(z, C)
  BY <1>4, <1>6 DEF Tracker!RecentIndex
<1> QED  BY <1>0, <1>1, <1>2, <1>3, <1>4, <1>5, <1>6, <1>7, <1>8

\* GetRecentEvents(n) returns the last n of the events GetEvents returns, for
\* every n and every capacity.
THEOREM RecentEventsAreLast == Tracker!Spec => []Tracker!RecentIsSuffix
<1>0. Capacity \in Nat \ {0}
  BY TelemetryAssumption
<1> USE <1>0
<1>1. Tracker!TypeOK => Tracker!RecentIsSuffix
  <2> DEFINE log == Tracker!GetEvents
             Slot(i) == (head + i - 1) % Capacity
  <2> SUFFICES ASSUME Tracker!TypeOK, NEW n \in -1..(Capacity + 1), NEW m,
                      m = IF n < 0 THEN 0 ELSE IF n > count THEN count ELSE n
               PROVE  Tracker!GetRecentEvents(n) = SubSeq(log, count - m + 1, count)
    BY DEF Tracker!RecentIsSuffix
  <2>0. /\ events \in [0..(Capacity - 1) -> Events \cup {NoEvent}] /\ head \in 0..(Capacity - 1)
        /\ count \in 0..Capacity /\ m \in 0..count
    BY DEF Tracker!TypeOK, Tracker!Slots
  <2>1. log = [i \in 1..count |-> events[Slot(i)]]
    BY DEF Tracker!GetEvents
  <2>2. \A i \in 1..count : Slot(i) \in 0..(Capacity - 1)
    BY <2>0, SlotOf
  <2>3. \A k \in 1..m : Tracker!RecentIndex(m - k) = Slot(count - m + k)
    <3> SUFFICES ASSUME NEW k \in 1..m
                 PROVE  Tracker!RecentIndex(m - k) = Slot(count - m + k)
      OBVIOUS
    <3>1. m - k \in 0..(count - 1) /\ count - (m - k) = count - m + k
      BY <2>0
    <3> QED  BY <3>1, BackwardIndex, Zenon
  <2> HIDE DEF Slot
  <2>4. log \in Seq(Events \cup {NoEvent}) /\ Len(log) = count
    <3> HIDE DEF log
    <3> QED  BY <2>0, <2>1, <2>2
  <2>5. SubSeq(log, count - m + 1, count) = [k \in 1..m |-> events[Slot(count - m + k)]]
    <3> HIDE DEF log
    <3>1. SubSeq(log, count - m + 1, count)
            = [k \in 1..m |-> log[(count - m + 1) + k - 1]]
      BY <2>0, <2>4
    <3>2. \A k \in 1..m : log[(count - m + 1) + k - 1] = events[Slot(count - m + k)]
      BY <2>0, <2>1
    <3> QED  BY <3>1, <3>2, Zenon
  <2>6. Tracker!GetRecentEvents(n) = [k \in 1..m |-> events[Slot(count - m + k)]]
    <3>1. CASE n <= 0 \/ count = 0
      BY <2>0, <3>1 DEF Tracker!GetRecentEvents
    <3>2. CASE ~(n <= 0 \/ count = 0)
      <4>1. m = IF n > count THEN count ELSE n
        BY <3>2
      <4>2. Tracker!GetRecentEvents(n) = [k \in 1..m |-> events[Tracker!RecentIndex(m - k)]]
        BY <3>2, <4>1, Zenon DEF Tracker!GetRecentEvents
      <4> QED  BY <2>3, <4>2
    <3> QED  BY <3>1, <3>2
  <2> QED  BY <2>5, <2>6
<1> QED  BY <1>1, RingLaw, PTL

-----------------------------------------------------------------------------
(* WorkStealingScheduler: the inductive invariant *)

USE DEF stealVars, loopVars

\* What is still before the walks.  A fiber that has been queued since Next began
\* is in the queue of a victim that was not visited yet; one that has been queued
\* since Clear began is in a queue that was not emptied yet.
Ahead ==
  /\ duringNext \subseteq QueuedIn(localQueue)
  /\ duringClear \subseteq QueuedIn(localQueue)
  /\ loop = "steal" => \A f \in duringNext : \E w \in victims : f \in Elements(localQueue[w])
  /\ ctl \in Nat => \A f \in duringClear : \E w \in Workers : w >= ctl /\ f \in Elements(localQueue[w])

StealInv == StealTypeOK /\ InOnePlace /\ Ahead

-----------------------------------------------------------------------------
(* Queues *)

\* The fibers of a queue.
LEMMA ElementsOf ==
  ASSUME NEW q \in Seq(StealFibers)
  PROVE  /\ \A x : x \in Elements(q) <=> \E i \in 1..Len(q) : q[i] = x
         /\ Elements(q) \subseteq StealFibers
BY DEF Elements

\* The fibers of all queues.
LEMMA QueuedOf ==
  ASSUME NEW queues
  PROVE  \A x : x \in QueuedIn(queues) <=> \E w \in Workers : x \in Elements(queues[w])
BY DEF QueuedIn

\* A part of a queue.
LEMMA PartOf ==
  ASSUME NEW q \in Seq(StealFibers), NEW m \in Nat, NEW n \in Nat, m >= 1, n <= Len(q), m <= n + 1
  PROVE  /\ SubSeq(q, m, n) \in Seq(StealFibers) /\ Len(SubSeq(q, m, n)) = n - m + 1
         /\ \A i \in 1..(n - m + 1) : SubSeq(q, m, n)[i] = q[m + i - 1]
<1> DEFINE p == SubSeq(q, m, n)
<1>1. Len(q) \in Nat /\ \A i \in m..n : q[i] \in StealFibers
  OBVIOUS
<1>2. /\ p \in Seq(StealFibers) /\ Len(p) = IF m <= n THEN n - m + 1 ELSE 0
      /\ \A i \in 1..(n - m + 1) : p[i] = q[m + i - 1]
  BY <1>1
<1> HIDE DEF p
<1>3. Len(p) = n - m + 1
  BY <1>2
<1> QED  BY <1>2, <1>3 DEF p

\* The rest of a queue.
LEMMA RestOf ==
  ASSUME NEW q \in Seq(StealFibers), NEW m \in Nat, m >= 1, m <= Len(q) + 1
  PROVE  /\ SubSeq(q, m, Len(q)) \in Seq(StealFibers)
         /\ Len(SubSeq(q, m, Len(q))) = Len(q) - m + 1
         /\ \A i \in 1..(Len(q) - m + 1) : SubSeq(q, m, Len(q))[i] = q[m + i - 1]
<1>1. Len(q) \in Nat /\ Len(q) <= Len(q)
  OBVIOUS
<1> QED  BY <1>1, PartOf, Zenon

\* One queue behind another.
LEMMA Joined ==
  ASSUME NEW a \in Seq(StealFibers), NEW b \in Seq(StealFibers)
  PROVE  /\ a \o b \in Seq(StealFibers) /\ Len(a \o b) = Len(a) + Len(b)
         /\ \A i \in 1..(Len(a) + Len(b)) :
              (a \o b)[i] = IF i <= Len(a) THEN a[i] ELSE b[i - Len(a)]
OBVIOUS

\* r is q without its k-th entry.
LessOne(q, r, k) ==
  /\ k \in 1..Len(q) /\ r \in Seq(StealFibers) /\ Len(r) = Len(q) - 1
  /\ \A i \in 1..Len(r) : r[i] = IF i < k THEN q[i] ELSE q[i + 1]

\* The first entry leaves a queue, when its own worker takes it.
LEMMA TailIsLess ==
  ASSUME NEW q \in Seq(StealFibers), q # <<>>
  PROVE  LessOne(q, Tail(q), 1) /\ Head(q) = q[1] /\ Len(q) >= 1
BY DEF LessOne

\* The last entry leaves a queue, when a thief takes it.
LEMMA FrontIsLess ==
  ASSUME NEW q \in Seq(StealFibers), q # <<>>
  PROVE  LessOne(q, SubSeq(q, 1, Len(q) - 1), Len(q)) /\ Len(q) >= 1
<1> DEFINE r == SubSeq(q, 1, Len(q) - 1)
<1>1. Len(q) \in Nat /\ Len(q) >= 1
  OBVIOUS
<1>2. /\ r \in Seq(StealFibers) /\ Len(r) = (Len(q) - 1) - 1 + 1
      /\ \A i \in 1..((Len(q) - 1) - 1 + 1) : r[i] = q[1 + i - 1]
  <2>1. Len(q) - 1 \in Nat /\ Len(q) - 1 <= Len(q) /\ 1 <= (Len(q) - 1) + 1 /\ 1 \in Nat /\ 1 >= 1
    BY <1>1
  <2> QED  BY <2>1, PartOf, Zenon
<1> HIDE DEF r
<1>3. LessOne(q, r, Len(q))
  BY <1>1, <1>2 DEF LessOne
<1> QED  BY <1>1, <1>3 DEF r

\* BlockFiber and Remove find a fiber and cut its entry out.
LEMMA CutIsLess ==
  ASSUME NEW q \in Seq(StealFibers), NEW f \in Elements(q),
         \A i, j \in 1..Len(q) : q[i] = q[j] => i = j
  PROVE  \E k \in 1..Len(q) : q[k] = f /\ LessOne(q, Cut(q, f), k)
<1>1. PICK k \in 1..Len(q) : q[k] = f
  BY ElementsOf
<1>2. DOMAIN q = 1..Len(q) /\ Len(q) \in Nat
  OBVIOUS
<1> DEFINE First(i) == q[i] = f /\ \A j \in 1..(i - 1) : q[j] # f
<1>3. \A i \in DOMAIN q : First(i) <=> i = k
  BY <1>1, <1>2
<1>4. (CHOOSE i \in DOMAIN q : First(i)) = k
  BY <1>1, <1>2, <1>3
<1>5. Cut(q, f) = SubSeq(q, 1, k - 1) \o SubSeq(q, k + 1, Len(q))
  BY <1>4, Zenon DEF Cut
<1> DEFINE a == SubSeq(q, 1, k - 1)
           b == SubSeq(q, k + 1, Len(q))
<1>6. a \in Seq(StealFibers) /\ Len(a) = k - 1 /\ \A i \in 1..(k - 1) : a[i] = q[i]
  <2>1. k - 1 \in Nat /\ k - 1 <= Len(q) /\ 1 <= (k - 1) + 1
    BY <1>1, <1>2
  <2>2. /\ a \in Seq(StealFibers) /\ Len(a) = (k - 1) - 1 + 1
        /\ \A i \in 1..((k - 1) - 1 + 1) : a[i] = q[1 + i - 1]
    BY <2>1, PartOf
  <2> HIDE DEF a
  <2> QED  BY <1>1, <1>2, <2>2
<1>7. b \in Seq(StealFibers) /\ Len(b) = Len(q) - k /\ \A i \in 1..(Len(q) - k) : b[i] = q[k + i]
  <2>1. PICK m \in Nat : m = k + 1 /\ m >= 1 /\ m <= Len(q) + 1
    BY <1>1, <1>2
  <2> DEFINE c == SubSeq(q, m, Len(q))
  <2>2. /\ c \in Seq(StealFibers) /\ Len(c) = Len(q) - m + 1
        /\ \A i \in 1..(Len(q) - m + 1) : c[i] = q[m + i - 1]
    BY <2>1, RestOf, Zenon
  <2>3. b = c
    BY <2>1, Zenon
  <2> HIDE DEF b, c
  <2>4. \A i \in 1..(Len(q) - k) : m + i - 1 = k + i /\ i \in 1..(Len(q) - m + 1)
    BY <1>1, <1>2, <2>1
  <2>5. Len(q) - m + 1 = Len(q) - k
    BY <1>1, <1>2, <2>1
  <2>6. \A i \in 1..(Len(q) - k) : c[i] = q[k + i]
    BY <2>2, <2>4, Zenon
  <2> QED  BY <2>2, <2>3, <2>5, <2>6, Zenon
<1> HIDE DEF a, b
<1>0. /\ a \o b \in Seq(StealFibers) /\ Len(a \o b) = Len(a) + Len(b)
      /\ \A i \in 1..(Len(a) + Len(b)) :
           (a \o b)[i] = IF i <= Len(a) THEN a[i] ELSE b[i - Len(a)]
  BY <1>6, <1>7, Joined, Zenon
<1>8. a \o b \in Seq(StealFibers) /\ Len(a \o b) = Len(q) - 1 /\ Len(a) + Len(b) = Len(q) - 1
  BY <1>0, <1>1, <1>2, <1>6, <1>7
<1>9. \A i \in 1..(Len(q) - 1) : (a \o b)[i] = IF i < k THEN q[i] ELSE q[i + 1]
  <2> SUFFICES ASSUME NEW i \in 1..(Len(q) - 1)
               PROVE  (a \o b)[i] = IF i < k THEN q[i] ELSE q[i + 1]
    BY Zenon
  <2>0. (a \o b)[i] = IF i <= Len(a) THEN a[i] ELSE b[i - Len(a)]
    BY <1>0, <1>8
  <2>1. CASE i < k
    BY <1>1, <1>2, <1>6, <2>0, <2>1
  <2>2. CASE ~(i < k)
    <3>1. (a \o b)[i] = b[i - (k - 1)]
      BY <1>1, <1>2, <1>6, <2>0, <2>2
    <3>2. i - (k - 1) \in 1..(Len(q) - k) /\ k + (i - (k - 1)) = i + 1
      BY <1>1, <1>2, <2>2
    <3> QED  BY <1>7, <2>2, <3>1, <3>2
  <2> QED  BY <2>1, <2>2, Zenon
<1> QED  BY <1>1, <1>5, <1>8, <1>9, Zenon DEF LessOne, a, b

\* After a step f is in no queue, and the others are where they were.
IsGone(queues, after, f) ==
  /\ after \in [Workers -> Seq(StealFibers)] /\ Distinct(after)
  /\ \A v \in Workers : Elements(after[v]) = Elements(queues[v]) \ {f}

\* One entry leaves one queue: the entries stay distinct, and its fiber is no
\* longer in any queue.
LEMMA OneLeaves ==
  ASSUME NEW queues \in [Workers -> Seq(StealFibers)], Distinct(queues),
         NEW w \in Workers, NEW r, NEW k, LessOne(queues[w], r, k)
  PROVE  IsGone(queues, [queues EXCEPT ![w] = r], queues[w][k])
<1> SUFFICES ASSUME NEW after, after = [queues EXCEPT ![w] = r]
             PROVE  /\ after \in [Workers -> Seq(StealFibers)] /\ Distinct(after)
                    /\ \A v \in Workers : Elements(after[v]) = Elements(queues[v]) \ {queues[w][k]}
  BY Zenon DEF IsGone
<1>1. /\ queues[w] \in Seq(StealFibers) /\ Len(queues[w]) \in Nat /\ k \in 1..Len(queues[w])
      /\ r \in Seq(StealFibers) /\ Len(r) = Len(queues[w]) - 1
      /\ \A i \in 1..Len(r) : r[i] = IF i < k THEN queues[w][i] ELSE queues[w][i + 1]
  BY DEF LessOne
<1>2. after \in [Workers -> Seq(StealFibers)]
  BY <1>1
<1> DEFINE Old(v, i) == IF v = w /\ i >= k THEN i + 1 ELSE i
<1>3. ASSUME NEW v \in Workers, NEW i \in 1..Len(after[v])
      PROVE  /\ i \in Nat /\ Old(v, i) \in 1..Len(queues[v]) /\ after[v][i] = queues[v][Old(v, i)]
             /\ (v = w => Old(v, i) # k)
  <2>1. CASE v = w
    BY <1>1, <1>3, <2>1
  <2>2. CASE v # w
    <3>1. after[v] = queues[v] /\ queues[v] \in Seq(StealFibers)
      BY <2>2
    <3> QED  BY <1>3, <2>2, <3>1
  <2> QED  BY <2>1, <2>2
<1>4. Distinct(after)
  <2> SUFFICES ASSUME NEW u \in Workers, NEW v \in Workers, NEW i \in 1..Len(after[u]),
                      NEW j \in 1..Len(after[v]), after[u][i] = after[v][j]
               PROVE  u = v /\ i = j
    BY DEF Distinct
  <2>1. u = v /\ Old(u, i) = Old(v, j)
    <3> HIDE DEF Old
    <3>1. /\ Old(u, i) \in 1..Len(queues[u]) /\ after[u][i] = queues[u][Old(u, i)]
          /\ Old(v, j) \in 1..Len(queues[v]) /\ after[v][j] = queues[v][Old(v, j)]
      BY <1>3
    <3>2. queues[u][Old(u, i)] = queues[v][Old(v, j)]
      BY <3>1
    <3> QED  BY <3>1, <3>2 DEF Distinct
  <2>2. i \in Nat /\ j \in Nat /\ k \in Nat
    BY <1>1, <1>3
  <2>3. CASE u = w
    BY <2>1, <2>2, <2>3
  <2>4. CASE u # w
    BY <2>1, <2>4
  <2> QED  BY <2>3, <2>4
<1>5. ASSUME NEW v \in Workers, NEW x, x \in Elements(after[v])
      PROVE  x \in Elements(queues[v]) \ {queues[w][k]}
  <2>1. PICK i \in 1..Len(after[v]) : after[v][i] = x
    BY <1>2, <1>5, ElementsOf
  <2>2. Old(v, i) \in 1..Len(queues[v]) /\ queues[v][Old(v, i)] = x /\ (v = w => Old(v, i) # k)
    BY <1>3, <2>1
  <2>3. x # queues[w][k]
    BY <1>1, <2>2 DEF Distinct
  <2> QED  BY <2>2, <2>3, ElementsOf
<1>6. ASSUME NEW v \in Workers, NEW x, x \in Elements(queues[v]) \ {queues[w][k]}
      PROVE  x \in Elements(after[v])
  <2>1. PICK i \in 1..Len(queues[v]) : queues[v][i] = x
    BY <1>6, ElementsOf
  <2>2. queues[v] \in Seq(StealFibers) /\ after[v] \in Seq(StealFibers) /\ i \in Nat
    BY <1>2
  <2>3. CASE v = w
    <3>1. i # k /\ after[v] = r
      BY <1>6, <2>1, <2>3
    <3>2. CASE i < k
      <4>1. i \in 1..Len(r) /\ r[i] = x
        BY <1>1, <2>1, <2>2, <2>3, <3>2
      <4> QED  BY <2>2, <3>1, <4>1, ElementsOf
    <3>3. CASE i > k
      <4>1. i - 1 \in 1..Len(r) /\ ~(i - 1 < k) /\ (i - 1) + 1 = i
        BY <1>1, <2>1, <2>2, <2>3, <3>3
      <4>2. r[i - 1] = x
        BY <1>1, <2>1, <2>3, <4>1
      <4> QED  BY <2>2, <3>1, <4>1, <4>2, ElementsOf
    <3> QED  BY <1>1, <2>2, <3>1, <3>2, <3>3
  <2>4. CASE v # w
    BY <2>1, <2>2, <2>4, ElementsOf
  <2> QED  BY <2>3, <2>4
<1> QED  BY <1>2, <1>4, <1>5, <1>6

-----------------------------------------------------------------------------
(* Steps of the queues *)

\* A step that leaves the walks where they are and moves no fiber to another queue
\* leaves what is before the walks.
LEMMA AheadStays ==
  ASSUME StealTypeOK, Ahead, SetQueues(localQueue'), localQueue' \in [Workers -> Seq(StealFibers)],
         loop' = "steal" => loop = "steal" /\ victims' = victims,
         ctl' = ctl,
         \A v \in Workers : \A f \in Elements(localQueue[v]) :
           f \in QueuedIn(localQueue') => f \in Elements(localQueue'[v])
  PROVE  Ahead' /\ duringNext' \subseteq StealFibers /\ duringClear' \subseteq StealFibers
<1>1. /\ duringNext' = duringNext \cap QueuedIn(localQueue')
      /\ duringClear' = duringClear \cap QueuedIn(localQueue')
  BY DEF SetQueues
<1>2. loop' = "steal" =>
        \A f \in duringNext' : \E w \in victims' : f \in Elements(localQueue'[w])
  BY <1>1, Zenon DEF Ahead, StealTypeOK
<1>3. ctl' \in Nat =>
        \A f \in duringClear' : \E w \in Workers : w >= ctl' /\ f \in Elements(localQueue'[w])
  BY <1>1, Zenon DEF Ahead
<1>4. duringNext \subseteq StealFibers /\ duringClear \subseteq StealFibers
  BY DEF StealTypeOK
<1> QED  BY <1>1, <1>2, <1>3, <1>4 DEF Ahead

\* The same when the queues stay as they are.
LEMMA AheadSame ==
  ASSUME StealTypeOK, Ahead, SameQueues,
         loop' = "steal" => loop = "steal" /\ victims' = victims,
         ctl' = ctl
  PROVE  Ahead' /\ duringNext' \subseteq StealFibers /\ duringClear' \subseteq StealFibers
BY DEF SameQueues, Ahead, StealTypeOK, QueuedIn, Elements

\* What the invariant says of the queues and of the walks over them.
QueuesInv ==
  /\ localQueue \in [Workers -> Seq(StealFibers)] /\ Distinct(localQueue)
  /\ QueuedIn(localQueue) = {f \in StealFibers : at[f] = "queued"}
  /\ Ahead /\ duringNext \subseteq StealFibers /\ duringClear \subseteq StealFibers

\* The k-th entry of a queue is taken out, the walks stay where they are, and its
\* fiber stands elsewhere.
TakesOut(w, r, k, to) ==
  /\ LessOne(localQueue[w], r, k) /\ SetQueues([localQueue EXCEPT ![w] = r])
  /\ at' = [at EXCEPT ![localQueue[w][k]] = to]
  /\ loop' = "steal" => loop = "steal" /\ victims' = victims
  /\ ctl' = ctl

\* A fiber that leaves its queue is in none.
LEMMA FiberLeaves ==
  ASSUME StealInv, NEW w \in Workers, NEW r, NEW k, NEW to, to # "queued", TakesOut(w, r, k, to)
  PROVE  QueuesInv'
<1> USE DEF TakesOut
<1> DEFINE g == localQueue[w][k]
<1>1. localQueue \in [Workers -> Seq(StealFibers)] /\ Distinct(localQueue)
  BY DEF StealInv, StealTypeOK, InOnePlace
<1>2. localQueue' = [localQueue EXCEPT ![w] = r]
  BY DEF SetQueues
<1>3. /\ localQueue' \in [Workers -> Seq(StealFibers)] /\ Distinct(localQueue')
      /\ \A v \in Workers : Elements(localQueue'[v]) = Elements(localQueue[v]) \ {g}
  <2>1. IsGone(localQueue, localQueue', g)
    BY <1>1, <1>2, OneLeaves, Zenon
  <2> QED  BY <2>1 DEF IsGone
<1>4. QueuedIn(localQueue') = QueuedIn(localQueue) \ {g}
  <2> HIDE DEF g
  <2>1. \A f : f \in QueuedIn(localQueue') <=> \E v \in Workers : f \in Elements(localQueue'[v])
    BY <1>3, QueuedOf
  <2>2. \A f : f \in QueuedIn(localQueue) <=> \E v \in Workers : f \in Elements(localQueue[v])
    BY <1>1, QueuedOf
  <2> QED  BY <1>3, <2>1, <2>2
<1>5. QueuedIn(localQueue) = {f \in StealFibers : at[f] = "queued"} /\ g \in StealFibers
      /\ at \in [StealFibers -> {"out", "scanning", "unblocking", "queued", "taken", "blocked"}]
  <2>1. g \in StealFibers
    BY <1>1 DEF LessOne
  <2> QED  BY <2>1 DEF StealInv, StealTypeOK, InOnePlace
<1>6. QueuedIn(localQueue') = {f \in StealFibers : at'[f] = "queued"}
  <2> HIDE DEF g
  <2>1. at' = [at EXCEPT ![g] = to]
    BY DEF g
  <2> QED  BY <1>4, <1>5, <2>1
<1>7. \A v \in Workers : \A f \in Elements(localQueue[v]) :
        f \in QueuedIn(localQueue') => f \in Elements(localQueue'[v])
  <2> HIDE DEF g
  <2> QED  BY <1>3, <1>4
<1>8. SetQueues(localQueue')
  BY <1>2 DEF SetQueues
<1>9. Ahead' /\ duringNext' \subseteq StealFibers /\ duringClear' \subseteq StealFibers
  BY <1>3, <1>7, <1>8, AheadStays DEF StealInv
<1> QED  BY <1>3, <1>6, <1>9 DEF QueuesInv

\* The walks of BlockFiber and Remove find the one entry of a queued fiber.
LEMMA WalkCuts ==
  ASSUME StealInv, NEW f \in QueuedIn(localQueue)
  PROVE  \E w \in Workers : \E k \in 1..Len(localQueue[w]) :
           /\ localQueue[w][k] = f
           /\ WalkRemoves(f) = [localQueue EXCEPT ![w] = Cut(localQueue[w], f)]
           /\ LessOne(localQueue[w], Cut(localQueue[w], f), k)
<1>1. localQueue \in [Workers -> Seq(StealFibers)] /\ Distinct(localQueue)
  BY DEF StealInv, StealTypeOK, InOnePlace
<1>2. PICK w \in Workers : f \in Elements(localQueue[w])
  BY QueuedOf
<1>3. \A v \in Workers : f \in Elements(localQueue[v]) => v = w
  <2> SUFFICES ASSUME NEW v \in Workers, f \in Elements(localQueue[v]) PROVE v = w
    OBVIOUS
  <2>1. PICK i \in 1..Len(localQueue[v]) : localQueue[v][i] = f
    BY <1>1, ElementsOf
  <2>2. PICK j \in 1..Len(localQueue[w]) : localQueue[w][j] = f
    BY <1>1, <1>2, ElementsOf
  <2> QED  BY <1>1, <2>1, <2>2 DEF Distinct
<1>4. \A v \in Workers : 0..(v - 1) \subseteq Workers /\ v \notin 0..(v - 1)
  BY StealingAssumption DEF Workers
<1>5. Holder(f) = w
  <2>1. \A v \in Workers : (/\ f \in Elements(localQueue[v])
                            /\ \A u \in 0..(v - 1) : f \notin Elements(localQueue[u])) <=> v = w
    BY <1>2, <1>3, <1>4
  <2> QED  BY <2>1 DEF Holder
<1>6. WalkRemoves(f) = [localQueue EXCEPT ![w] = Cut(localQueue[w], f)]
  BY <1>5 DEF WalkRemoves
<1>7. \A i, j \in 1..Len(localQueue[w]) : localQueue[w][i] = localQueue[w][j] => i = j
  BY <1>1 DEF Distinct
<1>8. \E k \in 1..Len(localQueue[w]) :
         localQueue[w][k] = f /\ LessOne(localQueue[w], Cut(localQueue[w], f), k)
  BY <1>1, <1>2, <1>7, CutIsLess
<1> QED  BY <1>6, <1>8, Zenon

\* A fiber that no queue holds is appended to one queue.
LEMMA FiberJoins ==
  ASSUME StealInv, NEW f \in StealFibers, NEW w \in Workers, at[f] # "queued",
         SetQueues([localQueue EXCEPT ![w] = Append(localQueue[w], f)]),
         at' = [at EXCEPT ![f] = "queued"],
         loop' = "steal" => loop = "steal" /\ victims' = victims,
         ctl' = ctl
  PROVE  QueuesInv'
<1>1. localQueue \in [Workers -> Seq(StealFibers)] /\ Distinct(localQueue)
  BY DEF StealInv, StealTypeOK, InOnePlace
<1>2. localQueue' = [localQueue EXCEPT ![w] = Append(localQueue[w], f)]
  BY DEF SetQueues
<1>3. localQueue' \in [Workers -> Seq(StealFibers)]
  BY <1>1, <1>2
<1>4. \A v \in Workers : v # w => localQueue'[v] = localQueue[v]
  BY <1>1, <1>2
<1>5. /\ Len(localQueue[w]) \in Nat /\ Len(localQueue'[w]) = Len(localQueue[w]) + 1
      /\ \A i \in 1..Len(localQueue[w]) : localQueue'[w][i] = localQueue[w][i]
      /\ localQueue'[w][Len(localQueue[w]) + 1] = f
  BY <1>1, <1>2
<1>6. QueuedIn(localQueue) = {g \in StealFibers : at[g] = "queued"}
      /\ at \in [StealFibers -> {"out", "scanning", "unblocking", "queued", "taken", "blocked"}]
  BY DEF StealInv, StealTypeOK, InOnePlace
<1>7. \A v \in Workers : Elements(localQueue[v]) \subseteq QueuedIn(localQueue)
  BY QueuedOf
<1>8. \A v \in Workers : \A i \in 1..Len(localQueue[v]) : localQueue[v][i] # f
  BY <1>1, <1>6, <1>7, ElementsOf
<1>9. Elements(localQueue'[w]) = Elements(localQueue[w]) \cup {f}
  <2>1. \A x : x \in Elements(localQueue'[w]) <=> \E i \in 1..Len(localQueue'[w]) : localQueue'[w][i] = x
    BY <1>3, ElementsOf
  <2>2. \A x : x \in Elements(localQueue[w]) <=> \E i \in 1..Len(localQueue[w]) : localQueue[w][i] = x
    BY <1>1, ElementsOf
  <2>3. 1..Len(localQueue'[w]) = 1..Len(localQueue[w]) \cup {Len(localQueue[w]) + 1}
    BY <1>5
  <2>4. ASSUME NEW x \in Elements(localQueue'[w]) PROVE x \in Elements(localQueue[w]) \cup {f}
    <3>1. PICK i \in 1..Len(localQueue'[w]) : localQueue'[w][i] = x
      BY <2>1, <2>4
    <3> QED  BY <1>5, <2>2, <2>3, <3>1, Zenon
  <2>5. ASSUME NEW x \in Elements(localQueue[w]) PROVE x \in Elements(localQueue'[w])
    <3>1. PICK i \in 1..Len(localQueue[w]) : localQueue[w][i] = x
      BY <2>2, <2>5
    <3>2. i \in 1..Len(localQueue'[w]) /\ localQueue'[w][i] = x
      BY <1>5, <2>3, <3>1
    <3> QED  BY <2>1, <3>2
  <2>6. f \in Elements(localQueue'[w])
    <3>1. Len(localQueue[w]) + 1 \in 1..Len(localQueue'[w])
      BY <1>5
    <3> QED  BY <1>5, <2>1, <3>1
  <2> QED  BY <2>4, <2>5, <2>6
<1>10. Distinct(localQueue')
  <2> SUFFICES ASSUME NEW u \in Workers, NEW v \in Workers, NEW i \in 1..Len(localQueue'[u]),
                      NEW j \in 1..Len(localQueue'[v]), localQueue'[u][i] = localQueue'[v][j]
               PROVE  u = v /\ i = j
    BY DEF Distinct
  <2> DEFINE Old(z, n) == n \in 1..Len(localQueue[z]) /\ localQueue'[z][n] = localQueue[z][n]
             New(z, n) == z = w /\ n = Len(localQueue[w]) + 1 /\ localQueue'[z][n] = f
  <2>0. ASSUME NEW z \in Workers, NEW n \in 1..Len(localQueue'[z]) PROVE Old(z, n) \/ New(z, n)
    <3>1. CASE z # w
      BY <1>4, <3>1, Zenon
    <3>2. CASE z = w
      <4>1. n \in 1..Len(localQueue[w]) \/ n = Len(localQueue[w]) + 1
        BY <1>5, <3>2
      <4> QED  BY <1>5, <3>2, <4>1, Zenon
    <3> QED  BY <3>1, <3>2
  <2>1. Old(u, i) \/ New(u, i)
    BY <2>0, Zenon
  <2>2. Old(v, j) \/ New(v, j)
    BY <2>0, Zenon
  <2>3. CASE Old(u, i) /\ Old(v, j)
    <3>1. localQueue[u][i] = localQueue[v][j]
      BY <2>3, Zenon
    <3> QED  BY <1>1, <2>3, <3>1 DEF Distinct
  <2>4. CASE Old(u, i) /\ New(v, j)
    BY <1>8, <2>4, Zenon
  <2>5. CASE New(u, i) /\ Old(v, j)
    BY <1>8, <2>5
  <2>6. CASE New(u, i) /\ New(v, j)
    BY <2>6
  <2> HIDE DEF Old, New
  <2> QED  BY <2>1, <2>2, <2>3, <2>4, <2>5, <2>6
<1>11. QueuedIn(localQueue') = QueuedIn(localQueue) \cup {f}
  <2>1. \A x : x \in QueuedIn(localQueue') <=> \E v \in Workers : x \in Elements(localQueue'[v])
    BY QueuedOf
  <2>2. \A x : x \in QueuedIn(localQueue) <=> \E v \in Workers : x \in Elements(localQueue[v])
    BY QueuedOf
  <2>3. \A v \in Workers : Elements(localQueue'[v]) =
          IF v = w THEN Elements(localQueue[v]) \cup {f} ELSE Elements(localQueue[v])
    BY <1>4, <1>9, Zenon
  <2> QED  BY <2>1, <2>2, <2>3, Zenon
<1>12. QueuedIn(localQueue') = {g \in StealFibers : at'[g] = "queued"}
  BY <1>6, <1>11
<1>13. \A v \in Workers : \A g \in Elements(localQueue[v]) :
         g \in QueuedIn(localQueue') => g \in Elements(localQueue'[v])
  BY <1>4, <1>9
<1>14. SetQueues(localQueue')
  BY <1>2 DEF SetQueues
<1>15. Ahead' /\ duringNext' \subseteq StealFibers /\ duringClear' \subseteq StealFibers
  BY <1>3, <1>13, <1>14, AheadStays DEF StealInv
<1> QED  BY <1>3, <1>10, <1>12, <1>15 DEF QueuesInv

-----------------------------------------------------------------------------
(* The steps of the calls *)

\* A step that touches no queue.
LEMMA SameOnePlace ==
  ASSUME StealInv, localQueue' = localQueue,
         \A f \in StealFibers : at'[f] = "queued" <=> at[f] = "queued",
         blocked' = {f \in StealFibers : at'[f] = "blocked"}
  PROVE  InOnePlace'
<1>1. QueuedIn(localQueue) = {f \in StealFibers : at'[f] = "queued"} /\ Distinct(localQueue)
  BY DEF StealInv, InOnePlace
<1>2. QueuedIn(localQueue)' = QueuedIn(localQueue) /\ Distinct(localQueue)' = Distinct(localQueue)
  BY DEF QueuedIn, Distinct, Elements
<1> QED  BY <1>1, <1>2 DEF InOnePlace

\* Next takes the head of the worker's queue or the tail of a victim's.
LEMMA TakeStep ==
  ASSUME StealInv, TakeLocal \/ \E v \in Workers : StealFrom(v)
  PROVE  StealInv'
<1>1. /\ StealTypeOK /\ InOnePlace /\ Ahead
      /\ UNCHANGED <<nextWorker, workerIdx, victims, running, stopped, blocked, scan, ctl>>
      /\ loop' = "idle"
  BY Zenon DEF StealInv, TakeLocal, StealFrom
<1>2. localQueue \in [Workers -> Seq(StealFibers)] /\ workerIdx \in Workers
  BY <1>1 DEF StealTypeOK
<1>3. \E w \in Workers : \E r : \E k \in 1..Len(localQueue[w]) : TakesOut(w, r, k, "taken")
  <2>0. (loop' = "steal" => loop = "steal" /\ victims' = victims) /\ ctl' = ctl
    BY <1>1
  <2>1. CASE TakeLocal
    <3> DEFINE q == localQueue[workerIdx]
    <3>1. q \in Seq(StealFibers) /\ q # <<>>
      BY <1>2, <2>1 DEF TakeLocal
    <3>2. LessOne(q, Tail(q), 1) /\ Head(q) = q[1] /\ 1 \in 1..Len(q)
      BY <3>1, TailIsLess
    <3>3. TakesOut(workerIdx, Tail(q), 1, "taken")
      BY <2>0, <2>1, <3>2 DEF TakeLocal, Moves, TakesOut
    <3> QED  BY <1>2, <3>2, <3>3, Zenon
  <2>2. CASE \E v \in Workers : StealFrom(v)
    <3>1. PICK v \in Workers : StealFrom(v)
      BY <2>2
    <3> DEFINE q == localQueue[v]
    <3>2. q \in Seq(StealFibers) /\ q # <<>>
      BY <1>2, <3>1 DEF StealFrom
    <3>3. LessOne(q, SubSeq(q, 1, Len(q) - 1), Len(q)) /\ Len(q) \in 1..Len(q)
      BY <3>2, FrontIsLess
    <3>4. TakesOut(v, SubSeq(q, 1, Len(q) - 1), Len(q), "taken")
      BY <2>0, <3>1, <3>3, Zenon DEF StealFrom, Moves, TakesOut
    <3> QED  BY <3>3, <3>4, Zenon
  <2> QED  BY <2>1, <2>2
<1>4. QueuesInv' /\ \E g \in StealFibers : at[g] = "queued" /\ at' = [at EXCEPT ![g] = "taken"]
  <2>1. PICK w \in Workers : \E r : \E k \in 1..Len(localQueue[w]) : TakesOut(w, r, k, "taken")
    BY <1>3
  <2>2. PICK r : \E k \in 1..Len(localQueue[w]) : TakesOut(w, r, k, "taken")
    BY <2>1
  <2>3. PICK k \in 1..Len(localQueue[w]) : TakesOut(w, r, k, "taken")
    BY <2>2
  <2>4. QueuesInv'
    BY <2>3, FiberLeaves
  <2>5. localQueue[w][k] \in StealFibers
    BY <1>2
  <2>6. at[localQueue[w][k]] = "queued"
    <3>1. localQueue[w][k] \in QueuedIn(localQueue)
      BY <1>2, ElementsOf, QueuedOf
    <3> QED  BY <1>1, <3>1 DEF InOnePlace
  <2> QED  BY <2>3, <2>4, <2>5, <2>6, Zenon DEF TakesOut
<1>5. PICK g \in StealFibers : at[g] = "queued" /\ at' = [at EXCEPT ![g] = "taken"]
  BY <1>4, Zenon
<1>6. /\ at' \in [StealFibers -> {"out", "scanning", "unblocking", "queued", "taken", "blocked"}]
      /\ blocked' = {f \in StealFibers : at'[f] = "blocked"}
  BY <1>1, <1>5 DEF StealTypeOK, InOnePlace
<1>7. StealTypeOK'
  BY <1>1, <1>4, <1>6, Zenon DEF StealTypeOK, QueuesInv
<1>8. InOnePlace'
  BY <1>4, <1>6 DEF InOnePlace, QueuesInv
<1> QED  BY <1>4, <1>7, <1>8 DEF StealInv, QueuesInv

\* Next begins, runs out of local fibers, finds a victim empty, or gives up.
LEMMA NextStep ==
  ASSUME StealInv, NextBegins \/ StealBegins \/ NextEmpty \/ \E v \in Workers : StealMisses(v)
  PROVE  StealInv'
<1>1. /\ StealTypeOK /\ InOnePlace /\ Ahead
      /\ UNCHANGED <<localQueue, duringClear, running, stopped, blocked, at, scan, ctl>>
  BY Zenon DEF StealInv, NextBegins, StealBegins, NextEmpty, StealMisses, SameQueues
<1>2. InOnePlace'
  BY <1>1, SameOnePlace DEF InOnePlace
<1>3. QueuedIn(localQueue)' = QueuedIn(localQueue) /\ \A w : Elements(localQueue[w])' = Elements(localQueue[w])
  BY <1>1 DEF QueuedIn, Elements
<1>4. QueuedIn(localQueue) \subseteq StealFibers
  BY <1>1 DEF InOnePlace
<1>5. /\ duringNext' \subseteq StealFibers /\ duringNext' \subseteq QueuedIn(localQueue)
      /\ nextWorker' \in Workers /\ workerIdx' \in Workers /\ victims' \subseteq Workers
      /\ loop' \in {"idle", "local", "steal"}
      /\ loop' = "steal" => \A f \in duringNext' : \E w \in victims' : f \in Elements(localQueue[w])
  <2>1. CASE NextBegins
    <3>1. (nextWorker + 1) % NumWorkers \in Workers
      BY <1>1, StealingAssumption DEF StealTypeOK, Workers
    <3> QED  BY <1>1, <1>4, <2>1, <3>1, Zenon DEF NextBegins, StealTypeOK
  <2>2. CASE StealBegins
    <3>1. \A f \in duringNext : \E w \in Workers : f \in Elements(localQueue[w])
      BY <1>1, QueuedOf DEF Ahead
    <3>2. Elements(localQueue[workerIdx]) = {}
      BY <2>2 DEF StealBegins, Elements
    <3>3. \A f \in duringNext : \E w \in Workers \ {workerIdx} : f \in Elements(localQueue[w])
      BY <3>1, <3>2
    <3> QED  BY <1>1, <2>2, <3>3, Zenon DEF StealBegins, SameQueues, StealTypeOK, Ahead
  <2>3. CASE NextEmpty
    BY <1>1, <2>3, Zenon DEF NextEmpty, SameQueues, StealTypeOK, Ahead
  <2>4. CASE \E v \in Workers : StealMisses(v)
    <3>1. PICK v \in Workers : StealMisses(v)
      BY <2>4
    <3>2. Elements(localQueue[v]) = {}
      BY <3>1 DEF StealMisses, Elements
    <3>3. \A f \in duringNext : \E w \in victims \ {v} : f \in Elements(localQueue[w])
      BY <1>1, <3>1, <3>2, Zenon DEF StealMisses, Ahead
    <3> QED  BY <1>1, <3>1, <3>3, Zenon DEF StealMisses, SameQueues, StealTypeOK, Ahead
  <2> QED  BY <2>1, <2>2, <2>3, <2>4
<1>6. StealTypeOK'
  BY <1>1, <1>5, Zenon DEF StealTypeOK
<1>7. Ahead'
  BY <1>1, <1>3, <1>5 DEF Ahead
<1> QED  BY <1>2, <1>6, <1>7 DEF StealInv

\* A walk that finds nothing leaves everything as it is.
LEMMA NothingFound ==
  ASSUME StealInv, SetQueues(localQueue)
  PROVE  SameQueues
BY DEF StealInv, Ahead, SetQueues, SameQueues

\* The fiber ends, blocks, or is withdrawn.
LEMMA FiberSteps ==
  ASSUME StealInv, NEW f \in StealFibers, MarkCompleted(f) \/ BlockFiber(f) \/ Remove(f)
  PROVE  StealInv'
<1>1. /\ StealTypeOK /\ InOnePlace /\ Ahead
      /\ UNCHANGED <<running, stopped, scan, loopVars, ctl>>
  BY DEF StealInv, MarkCompleted, BlockFiber, Remove
<1>2. PICK to \in {"out", "blocked"} :
        /\ at[f] \in {"queued", "taken"} /\ at' = [at EXCEPT ![f] = to]
        /\ blocked' = IF to = "blocked" THEN blocked \cup {f} ELSE blocked
  <2>1. CASE MarkCompleted(f)
    BY <2>1 DEF MarkCompleted, Moves
  <2>2. CASE BlockFiber(f)
    BY <2>2 DEF BlockFiber, Moves
  <2>3. CASE Remove(f)
    BY <2>3 DEF Remove, Moves
  <2> QED  BY <2>1, <2>2, <2>3
<1>3. /\ QueuedIn(localQueue) = {g \in StealFibers : at[g] = "queued"}
      /\ blocked = {g \in StealFibers : at[g] = "blocked"}
      /\ at \in [StealFibers -> {"out", "scanning", "unblocking", "queued", "taken", "blocked"}]
      /\ localQueue \in [Workers -> Seq(StealFibers)]
  BY <1>1, Zenon DEF StealTypeOK, InOnePlace
<1>4. /\ at' \in [StealFibers -> {"out", "scanning", "unblocking", "queued", "taken", "blocked"}]
      /\ blocked' = {g \in StealFibers : at'[g] = "blocked"}
  BY <1>2, <1>3
<1>5. CASE at[f] = "taken"
  <2>1. f \notin QueuedIn(localQueue)
    BY <1>3, <1>5
  <2>2. SetQueues(localQueue)
    <3>1. CASE MarkCompleted(f)
      <4>1. \A w \in Workers : Without(localQueue[w], f) = localQueue[w]
        BY <2>1, QueuedOf DEF Without
      <4>2. [w \in Workers |-> Without(localQueue[w], f)] = localQueue
        BY <1>3, <4>1
      <4> QED  BY <3>1, <4>2 DEF MarkCompleted
    <3>2. CASE BlockFiber(f) \/ Remove(f)
      BY <2>1, <3>2, Zenon DEF BlockFiber, Remove, WalkRemoves
    <3> QED  BY <3>1, <3>2
  <2>3. SameQueues
    BY <2>2, NothingFound
  <2>4. Ahead' /\ duringNext' \subseteq StealFibers /\ duringClear' \subseteq StealFibers
    BY <1>1, <2>3, AheadSame
  <2>5. InOnePlace'
    <3>1. \A g \in StealFibers : at'[g] = "queued" <=> at[g] = "queued"
      BY <1>2, <1>3, <1>5
    <3> QED  BY <1>4, <2>3, <3>1, SameOnePlace DEF SameQueues
  <2>6. StealTypeOK'
    BY <1>1, <1>4, <2>3, <2>4, Zenon DEF StealTypeOK, SameQueues
  <2> QED  BY <2>4, <2>5, <2>6 DEF StealInv
<1>6. CASE at[f] = "queued"
  <2>1. f \in QueuedIn(localQueue)
    BY <1>3, <1>6
  <2>2. SetQueues(WalkRemoves(f))
    BY <1>6 DEF MarkCompleted, BlockFiber, Remove, Moves
  <2>3. PICK w \in Workers : \E k \in 1..Len(localQueue[w]) :
          /\ localQueue[w][k] = f
          /\ WalkRemoves(f) = [localQueue EXCEPT ![w] = Cut(localQueue[w], f)]
          /\ LessOne(localQueue[w], Cut(localQueue[w], f), k)
    BY <2>1, WalkCuts
  <2>4. PICK k \in 1..Len(localQueue[w]) :
          /\ localQueue[w][k] = f
          /\ WalkRemoves(f) = [localQueue EXCEPT ![w] = Cut(localQueue[w], f)]
          /\ LessOne(localQueue[w], Cut(localQueue[w], f), k)
    BY <2>3
  <2>5. TakesOut(w, Cut(localQueue[w], f), k, to)
    BY <1>1, <1>2, <2>2, <2>4, Zenon DEF TakesOut
  <2>6. QueuesInv'
    BY <1>2, <2>5, FiberLeaves
  <2>7. StealTypeOK'
    BY <1>1, <1>4, <2>6, Zenon DEF StealTypeOK, QueuesInv
  <2>8. InOnePlace'
    BY <1>4, <2>6 DEF InOnePlace, QueuesInv
  <2> QED  BY <2>6, <2>7, <2>8 DEF StealInv, QueuesInv
<1> QED  BY <1>2, <1>5, <1>6

\* Clear empties the queue of one worker.
LEMMA ClearWorkerStep ==
  ASSUME StealInv, ClearWorker
  PROVE  StealInv'
<1>1. /\ StealTypeOK /\ InOnePlace /\ Ahead /\ ctl \in Workers /\ ctl' = ctl + 1
      /\ UNCHANGED <<running, stopped, blocked, scan, loopVars>>
      /\ localQueue' = [localQueue EXCEPT ![ctl] = <<>>]
      /\ duringNext' = duringNext \cap QueuedIn(localQueue')
      /\ duringClear' = duringClear \cap QueuedIn(localQueue')
      /\ at' = [f \in StealFibers |-> IF f \in Elements(localQueue[ctl]) THEN "out" ELSE at[f]]
  BY DEF StealInv, ClearWorker, SetQueues
<1>2. /\ localQueue \in [Workers -> Seq(StealFibers)] /\ Distinct(localQueue)
      /\ QueuedIn(localQueue) = {f \in StealFibers : at[f] = "queued"}
      /\ at \in [StealFibers -> {"out", "scanning", "unblocking", "queued", "taken", "blocked"}]
      /\ blocked = {f \in StealFibers : at[f] = "blocked"}
  BY <1>1 DEF StealTypeOK, InOnePlace
<1>3. /\ localQueue' \in [Workers -> Seq(StealFibers)] /\ localQueue'[ctl] = <<>>
      /\ \A v \in Workers : v # ctl => localQueue'[v] = localQueue[v]
  BY <1>1, <1>2
<1>4. Distinct(localQueue')
  <2> SUFFICES ASSUME NEW u \in Workers, NEW v \in Workers, NEW i \in 1..Len(localQueue'[u]),
                      NEW j \in 1..Len(localQueue'[v]), localQueue'[u][i] = localQueue'[v][j]
               PROVE  u = v /\ i = j
    BY DEF Distinct
  <2>1. u # ctl /\ v # ctl
    BY <1>3
  <2>2. localQueue'[u] = localQueue[u] /\ localQueue'[v] = localQueue[v]
    BY <1>3, <2>1
  <2> QED  BY <1>2, <2>2 DEF Distinct
<1>5. \A f \in Elements(localQueue[ctl]) : \A v \in Workers : f \in Elements(localQueue[v]) => v = ctl
  <2> SUFFICES ASSUME NEW f \in Elements(localQueue[ctl]), NEW v \in Workers,
                      f \in Elements(localQueue[v])
               PROVE  v = ctl
    OBVIOUS
  <2>1. PICK i \in 1..Len(localQueue[v]) : localQueue[v][i] = f
    BY <1>2, ElementsOf
  <2>2. PICK j \in 1..Len(localQueue[ctl]) : localQueue[ctl][j] = f
    BY <1>1, <1>2, ElementsOf
  <2> QED  BY <1>1, <1>2, <2>1, <2>2, Zenon DEF Distinct
<1>6. \A v \in Workers : Elements(localQueue'[v]) =
        IF v = ctl THEN {} ELSE Elements(localQueue[v])
  <2>1. Elements(localQueue'[ctl]) = {}
    BY <1>3 DEF Elements
  <2> QED  BY <1>3, <2>1
<1>7. QueuedIn(localQueue') = QueuedIn(localQueue) \ Elements(localQueue[ctl])
  <2>1. \A x : x \in QueuedIn(localQueue') <=> \E v \in Workers : x \in Elements(localQueue'[v])
    BY QueuedOf
  <2>2. \A x : x \in QueuedIn(localQueue) <=> \E v \in Workers : x \in Elements(localQueue[v])
    BY QueuedOf
  <2>3. ASSUME NEW x \in QueuedIn(localQueue')
        PROVE  x \in QueuedIn(localQueue) \ Elements(localQueue[ctl])
    <3>1. PICK v \in Workers : x \in Elements(localQueue'[v])
      BY <2>1, <2>3
    <3>2. v # ctl /\ x \in Elements(localQueue[v])
      BY <1>6, <3>1
    <3> QED  BY <1>5, <2>2, <3>2
  <2>4. ASSUME NEW x \in QueuedIn(localQueue) \ Elements(localQueue[ctl])
        PROVE  x \in QueuedIn(localQueue')
    <3>1. PICK v \in Workers : x \in Elements(localQueue[v])
      BY <2>2, <2>4
    <3>2. v # ctl
      BY <2>4, <3>1
    <3>3. x \in Elements(localQueue'[v])
      BY <1>6, <3>1, <3>2
    <3> QED  BY <2>1, <3>3
  <2> QED  BY <2>3, <2>4
<1>8. Elements(localQueue[ctl]) \subseteq QueuedIn(localQueue)
  BY <1>1, QueuedOf
<1>9. InOnePlace'
  <2>1. QueuedIn(localQueue') = {f \in StealFibers : at'[f] = "queued"}
    BY <1>1, <1>2, <1>7, Zenon
  <2>2. blocked' = {f \in StealFibers : at'[f] = "blocked"}
    BY <1>1, <1>2, <1>8
  <2> QED  BY <1>4, <2>1, <2>2 DEF InOnePlace
<1>10. Ahead'
  <2>1. loop' = "steal" => \A f \in duringNext' : \E w \in victims' : f \in Elements(localQueue'[w])
    <3>1. victims \subseteq Workers
      BY <1>1 DEF StealTypeOK
    <3> QED  BY <1>1, <1>6, <1>7, <3>1, Zenon DEF Ahead
  <2>2. \A f \in duringClear' : \E w \in Workers : w >= ctl' /\ f \in Elements(localQueue'[w])
    <3> SUFFICES ASSUME NEW f \in duringClear'
                 PROVE  \E w \in Workers : w >= ctl' /\ f \in Elements(localQueue'[w])
      OBVIOUS
    <3>1. ctl \in Nat /\ Workers \subseteq Int
      BY <1>1, StealingAssumption DEF Workers
    <3>2. PICK w \in Workers : w >= ctl /\ f \in Elements(localQueue[w])
      BY <1>1, <3>1, Zenon DEF Ahead
    <3>3. w # ctl
      BY <1>1, <1>7, <3>2, Zenon
    <3>4. w >= ctl + 1
      BY <1>1, <3>1, <3>2, <3>3
    <3> QED  BY <1>1, <1>6, <3>2, <3>3, <3>4
  <2> QED  BY <1>1, <2>1, <2>2, Zenon DEF Ahead
<1>11. StealTypeOK'
  <2>1. ctl' \in -1..(NumWorkers + 1)
    BY <1>1, StealingAssumption DEF Workers
  <2>2. at' \in [StealFibers -> {"out", "scanning", "unblocking", "queued", "taken", "blocked"}]
    BY <1>1, <1>2
  <2> QED  BY <1>1, <1>3, <2>1, <2>2, Zenon DEF StealTypeOK
<1> QED  BY <1>9, <1>10, <1>11 DEF StealInv

\* The controller starts and stops the scheduler; Clear begins, forgets the blocked
\* fibers, and ends.
LEMMA ControllerStep ==
  ASSUME StealInv, Start \/ Stop \/ ClearBegins \/ ClearBlocked \/ ClearEnds
  PROVE  StealInv'
<1>1. /\ StealTypeOK /\ InOnePlace /\ Ahead
      /\ UNCHANGED <<localQueue, duringNext, scan, loopVars>>
  BY Zenon DEF StealInv, Start, Stop, ClearBegins, ClearBlocked, ClearEnds, SameQueues
<1>2. /\ blocked = {f \in StealFibers : at[f] = "blocked"}
      /\ at \in [StealFibers -> {"out", "scanning", "unblocking", "queued", "taken", "blocked"}]
      /\ QueuedIn(localQueue) \subseteq StealFibers /\ duringClear \subseteq StealFibers
      /\ ctl \in -1..(NumWorkers + 1) /\ running \in BOOLEAN /\ stopped \in BOOLEAN
      /\ duringClear \subseteq QueuedIn(localQueue)
  BY <1>1, Zenon DEF StealTypeOK, InOnePlace, Ahead
<1>3. /\ at' \in [StealFibers -> {"out", "scanning", "unblocking", "queued", "taken", "blocked"}]
      /\ blocked' = {f \in StealFibers : at'[f] = "blocked"}
      /\ \A f \in StealFibers : at'[f] = "queued" <=> at[f] = "queued"
  <2>1. CASE Start \/ Stop \/ ClearBegins \/ ClearEnds
    BY <1>2, <2>1, Zenon DEF Start, Stop, ClearBegins, ClearEnds
  <2>2. CASE ClearBlocked
    BY <1>2, <2>2 DEF ClearBlocked
  <2> QED  BY <2>1, <2>2, Zenon
<1>4. running' \in BOOLEAN /\ stopped' \in BOOLEAN
  BY <1>2, Zenon DEF Start, Stop, ClearBegins, ClearBlocked, ClearEnds
<1>5. InOnePlace'
  BY <1>1, <1>3, SameOnePlace
<1>6. QueuedIn(localQueue)' = QueuedIn(localQueue) /\ \A w : Elements(localQueue[w])' = Elements(localQueue[w])
  BY <1>1 DEF QueuedIn, Elements
<1>7. /\ ctl' \in -1..(NumWorkers + 1)
      /\ duringClear' \subseteq StealFibers /\ duringClear' \subseteq QueuedIn(localQueue)
      /\ ctl' \in Nat =>
           \A f \in duringClear' : \E w \in Workers : w >= ctl' /\ f \in Elements(localQueue[w])
  <2>1. CASE Start \/ Stop
    BY <1>1, <1>2, <2>1, Zenon DEF Start, Stop, SameQueues, Ahead
  <2>2. CASE ClearBegins
    <3>1. \A w \in Workers : w >= 0
      BY StealingAssumption DEF Workers
    <3>2. \A f \in QueuedIn(localQueue) : \E w \in Workers : f \in Elements(localQueue[w])
      BY QueuedOf
    <3>3. 0 \in -1..(NumWorkers + 1)
      BY StealingAssumption
    <3> QED  BY <1>2, <2>2, <3>1, <3>2, <3>3, Zenon DEF ClearBegins
  <2>3. CASE ClearBlocked
    <3>1. ctl \in Nat /\ \A w \in Workers : ~(w >= ctl)
      BY <2>3, StealingAssumption DEF ClearBlocked, Workers
    <3>2. duringClear' = {}
      BY <1>1, <2>3, <3>1, Zenon DEF ClearBlocked, SameQueues, Ahead
    <3>3. ctl' \in -1..(NumWorkers + 1)
      BY <2>3, StealingAssumption DEF ClearBlocked
    <3> QED  BY <3>2, <3>3
  <2>4. CASE ClearEnds
    <3>1. ctl' = -1 /\ duringClear' = duringClear
      BY <2>4 DEF ClearEnds, SameQueues
    <3>2. ctl' \in -1..(NumWorkers + 1) /\ ctl' \notin Nat
      BY <3>1, StealingAssumption
    <3> QED  BY <1>2, <3>1, <3>2
  <2> QED  BY <2>1, <2>2, <2>3, <2>4, Zenon
<1>8. StealTypeOK'
  BY <1>1, <1>3, <1>4, <1>7, Zenon DEF StealTypeOK
<1>9. Ahead'
  BY <1>1, <1>6, <1>7, Zenon DEF Ahead
<1> QED  BY <1>5, <1>8, <1>9 DEF StealInv

-----------------------------------------------------------------------------
(* WorkStealingScheduler: the scans, and the theorems *)

INSTANCE FiniteSetTheorems

\* A queue is no longer than there are fibers.
LEMMA QueueIsShort ==
  ASSUME NEW queues \in [Workers -> Seq(StealFibers)], Distinct(queues), NEW w \in Workers
  PROVE  Len(queues[w]) \in 0..Cardinality(StealFibers)
<1> DEFINE q == queues[w]
<1>1. q \in Seq(StealFibers) /\ Len(q) \in Nat /\ q \in [1..Len(q) -> StealFibers]
  OBVIOUS
<1>2. \A i, j \in 1..Len(q) : q[i] = q[j] => i = j
  BY DEF Distinct
<1> HIDE DEF q
<1>3. q \in Injection(1..Len(q), StealFibers)
  BY <1>1, <1>2, Zenon DEF Injection, IsInjective
<1>4. Cardinality(1..Len(q)) <= Cardinality(StealFibers)
  BY <1>3, FS_Injection, StealingAssumption
<1>5. Cardinality(1..Len(q)) = Len(q)
  <2>1. 1 \in Int /\ Len(q) \in Int
    BY <1>1
  <2>2. Cardinality(1..Len(q)) = IF 1 > Len(q) THEN 0 ELSE Len(q) - 1 + 1
    BY <2>1, FS_Interval, Zenon
  <2> QED  BY <1>1, <2>2
<1>6. Cardinality(StealFibers) \in Nat
  BY FS_CardinalityType, StealingAssumption
<1> QED  BY <1>1, <1>4, <1>5, <1>6 DEF q

\* Schedule and UnblockFiber begin.
LEMMA ScanBegins ==
  ASSUME StealInv, NEW f \in StealFibers, Schedule(f) \/ UnblockFiber(f)
  PROVE  StealInv'
<1>1. /\ StealTypeOK /\ InOnePlace /\ Ahead /\ SameQueues
      /\ UNCHANGED <<running, stopped, loopVars, ctl>>
      /\ scan' = [scan EXCEPT ![f] = NoScan]
  BY Zenon DEF StealInv, Schedule, UnblockFiber
<1>2. Ahead' /\ duringNext' \subseteq StealFibers /\ duringClear' \subseteq StealFibers
  BY <1>1, AheadSame
<1>3. NoScan \in [worker : 0..NumWorkers, minWorker : Workers, minSize : -1..Cardinality(StealFibers)]
  <2>1. Cardinality(StealFibers) \in Nat
    BY FS_CardinalityType, StealingAssumption
  <2> QED  BY <2>1, StealingAssumption DEF NoScan, Workers
<1>4. /\ at' \in [StealFibers -> {"out", "scanning", "unblocking", "queued", "taken", "blocked"}]
      /\ \A g \in StealFibers : at'[g] = "queued" <=> at[g] = "queued"
      /\ blocked' = {g \in StealFibers : at'[g] = "blocked"}
      /\ blocked' \subseteq StealFibers
  <2>1. at \in [StealFibers -> {"out", "scanning", "unblocking", "queued", "taken", "blocked"}]
        /\ blocked = {g \in StealFibers : at[g] = "blocked"}
    BY <1>1, Zenon DEF StealTypeOK, InOnePlace
  <2>2. CASE Schedule(f)
    BY <2>1, <2>2, Zenon DEF Schedule, Moves
  <2>3. CASE UnblockFiber(f)
    BY <2>1, <2>3, Zenon DEF UnblockFiber, Moves
  <2> QED  BY <2>2, <2>3, Zenon
<1>5. InOnePlace'
  BY <1>1, <1>4, SameOnePlace, Zenon DEF SameQueues
<1>6. StealTypeOK'
  BY <1>1, <1>2, <1>3, <1>4, Zenon DEF StealTypeOK, SameQueues
<1> QED  BY <1>2, <1>5, <1>6 DEF StealInv

\* A scan reads the length of one queue.
LEMMA ScanStep ==
  ASSUME StealInv, NEW f \in StealFibers, ScanWorker(f)
  PROVE  StealInv'
<1>1. /\ StealTypeOK /\ InOnePlace /\ Ahead /\ SameQueues
      /\ UNCHANGED <<running, stopped, blocked, at, loopVars, ctl>>
  BY Zenon DEF StealInv, ScanWorker
<1>2. Ahead' /\ duringNext' \subseteq StealFibers /\ duringClear' \subseteq StealFibers
  BY <1>1, AheadSame
<1>3. InOnePlace'
  BY <1>1, SameOnePlace, Zenon DEF SameQueues, InOnePlace
<1> DEFINE s == scan[f]
           size == Len(localQueue[s.worker])
           shorter == s.minSize < 0 \/ size < s.minSize
           S == [worker : 0..NumWorkers, minWorker : Workers, minSize : -1..Cardinality(StealFibers)]
           t == [worker |-> s.worker + 1,
                 minWorker |-> IF shorter THEN s.worker ELSE s.minWorker,
                 minSize |-> IF shorter THEN size ELSE s.minSize]
<1>4. scan' = [scan EXCEPT ![f] = t] /\ s.worker < NumWorkers
  BY Zenon DEF ScanWorker
<1>5. s \in S /\ scan \in [StealFibers -> S]
  BY <1>1, Zenon DEF StealTypeOK
<1>6. s.worker \in Workers /\ s.worker + 1 \in 0..NumWorkers
  BY <1>4, <1>5, StealingAssumption DEF Workers
<1>7. size \in 0..Cardinality(StealFibers)
  BY <1>1, <1>6, QueueIsShort, Zenon DEF StealTypeOK, InOnePlace
<1>8. Cardinality(StealFibers) \in Nat
  BY FS_CardinalityType, StealingAssumption
<1>9. t \in S
  <2> HIDE DEF size
  <2>1. s.minWorker \in Workers /\ s.minSize \in -1..Cardinality(StealFibers)
    BY <1>5
  <2>2. size \in -1..Cardinality(StealFibers)
    BY <1>7, <1>8
  <2> HIDE DEF s
  <2> QED  BY <1>6, <2>1, <2>2, Zenon
<1>10. scan' \in [StealFibers -> S]
  <2> HIDE DEF S, t
  <2> QED  BY <1>4, <1>5, <1>9
<1>11. StealTypeOK'
  BY <1>1, <1>2, <1>10, Zenon DEF StealTypeOK, SameQueues
<1> QED  BY <1>2, <1>3, <1>11 DEF StealInv

\* The scan ends: the fiber is appended to one queue.
LEMMA AppendStep ==
  ASSUME StealInv, NEW f \in StealFibers, AppendToShortest(f)
  PROVE  StealInv'
<1> DEFINE w == scan[f].minWorker
           Places == {"out", "scanning", "unblocking", "queued", "taken", "blocked"}
<1>1. /\ StealTypeOK /\ InOnePlace /\ Ahead
      /\ UNCHANGED <<running, stopped, blocked, loopVars, ctl>>
      /\ scan' = [scan EXCEPT ![f] = NoScan]
      /\ at[f] \in {"scanning", "unblocking"} /\ at' = [at EXCEPT ![f] = "queued"]
      /\ SetQueues([localQueue EXCEPT ![w] = Append(localQueue[w], f)])
  BY Zenon DEF StealInv, AppendToShortest, Moves
<1>2. w \in Workers
  BY <1>1, Zenon DEF StealTypeOK
<1>3. QueuesInv'
  <2>1. at[f] # "queued" /\ ctl' = ctl /\ (loop' = "steal" => loop = "steal" /\ victims' = victims)
    BY <1>1, Zenon
  <2> HIDE DEF w
  <2> QED  BY <1>1, <1>2, <2>1, FiberJoins, Zenon
<1>4. /\ at' \in [StealFibers -> Places] /\ blocked' = {g \in StealFibers : at'[g] = "blocked"}
  BY <1>1, Zenon DEF StealTypeOK, InOnePlace
<1>5. NoScan \in [worker : 0..NumWorkers, minWorker : Workers, minSize : -1..Cardinality(StealFibers)]
  <2>1. Cardinality(StealFibers) \in Nat
    BY FS_CardinalityType, StealingAssumption
  <2> QED  BY <2>1, StealingAssumption DEF NoScan, Workers
<1>6. StealTypeOK'
  BY <1>1, <1>3, <1>4, <1>5, Zenon DEF StealTypeOK, QueuesInv
<1>7. InOnePlace'
  BY <1>3, <1>4 DEF InOnePlace, QueuesInv
<1> QED  BY <1>3, <1>6, <1>7 DEF StealInv, QueuesInv

\* The inductive invariant holds in every reachable state of the scheduler.
THEOREM StealInvariance == StealSpec => []StealInv
<1>1. StealInit => StealInv
  <2> SUFFICES ASSUME StealInit PROVE StealInv
    OBVIOUS
  <2>1. Cardinality(StealFibers) \in Nat
    BY FS_CardinalityType, StealingAssumption
  <2>2. 0 \in Workers /\ 0 \in 0..NumWorkers /\ -1 \in -1..(NumWorkers + 1)
        /\ -1 \in -1..Cardinality(StealFibers)
    BY <2>1, StealingAssumption DEF Workers
  <2>3. StealTypeOK
    <3>1. NoScan \in [worker : 0..NumWorkers, minWorker : Workers, minSize : -1..Cardinality(StealFibers)]
      BY <2>2, Zenon DEF NoScan
    <3>2. localQueue \in [Workers -> Seq(StealFibers)]
      BY DEF StealInit
    <3> QED  BY <2>2, <3>1, <3>2, Zenon DEF StealInit, StealTypeOK
  <2>4. QueuedIn(localQueue) = {}
    BY DEF StealInit, QueuedIn, Elements
  <2>5. InOnePlace
    BY <2>4 DEF StealInit, InOnePlace, Distinct
  <2>6. Ahead
    BY DEF StealInit, Ahead
  <2> QED  BY <2>3, <2>5, <2>6 DEF StealInv
<1>2. StealInv /\ [StealNext]_stealVars => StealInv'
  <2> SUFFICES ASSUME StealInv, [StealNext]_stealVars PROVE StealInv'
    OBVIOUS
  <2>1. CASE NextCall
    BY <2>1, TakeStep, NextStep DEF NextCall
  <2>2. ASSUME NEW f \in StealFibers,
               \/ Schedule(f) \/ ScanWorker(f) \/ AppendToShortest(f)
               \/ MarkCompleted(f) \/ BlockFiber(f) \/ UnblockFiber(f) \/ Remove(f)
        PROVE  StealInv'
    BY <2>2, ScanBegins, ScanStep, AppendStep, FiberSteps
  <2>3. CASE Start \/ Stop \/ ClearBegins \/ ClearBlocked \/ ClearEnds
    BY <2>3, ControllerStep
  <2>4. CASE ClearWorker
    BY <2>4, ClearWorkerStep
  <2>5. CASE UNCHANGED stealVars
    <3>1. SameQueues /\ UNCHANGED <<running, stopped, blocked, at, scan, loopVars, ctl>>
      BY <2>5 DEF SameQueues
    <3>2. StealTypeOK /\ InOnePlace /\ Ahead
      BY DEF StealInv
    <3>3. Ahead'
      BY <3>1, <3>2, AheadSame
    <3>4. InOnePlace'
      BY <3>1, <3>2, SameOnePlace, Zenon DEF SameQueues, InOnePlace
    <3>5. StealTypeOK'
      BY <3>1, <3>2, Zenon DEF SameQueues, StealTypeOK
    <3> QED  BY <3>3, <3>4, <3>5 DEF StealInv
  <2> QED  BY <2>1, <2>2, <2>3, <2>4, <2>5, Zenon DEF StealNext
<1> QED  BY <1>1, <1>2, PTL DEF StealSpec

\* However the calls interleave, and for any number of workers and fibers: a fiber
\* is in one queue, once, exactly while it is queued; Next reports ErrNoFibers only
\* if no fiber was queued throughout the call; Clear leaves nobody behind that was
\* queued when it began.
THEOREM WalksFindEverybody == StealSpec => []WalksMissNobody
<1>1. StealInv => WalksMissNobody
  <2> SUFFICES ASSUME StealInv PROVE InOnePlace /\ NoFalseEmpty /\ ClearComplete
    BY DEF WalksMissNobody
  <2>1. NoFalseEmpty
    BY DEF StealInv, Ahead, NoFalseEmpty
  <2>2. ClearComplete
    <3> SUFFICES ASSUME ctl > NumWorkers PROVE duringClear = {}
      BY DEF ClearComplete
    <3>1. ctl \in Nat /\ \A w \in Workers : ~(w >= ctl)
      BY StealingAssumption DEF StealInv, StealTypeOK, Workers
    <3> QED  BY <3>1 DEF StealInv, Ahead
  <2> QED  BY <2>1, <2>2 DEF StealInv
<1> QED  BY <1>1, StealInvariance, PTL

-----------------------------------------------------------------------------
(* Metrics *)

\* The greater of two integers.
LEMMA MaxOfTwo ==
  ASSUME NEW a \in Int, NEW b \in Int
  PROVE  Max({a, b}) = IF a >= b THEN a ELSE b
<1>1. CASE a >= b
  <2>1. \A x \in {a, b} : (\A y \in {a, b} : x >= y) <=> x = a
    BY <1>1
  <2> QED  BY <1>1, <2>1 DEF Max
<1>2. CASE ~(a >= b)
  <2>1. \A x \in {a, b} : (\A y \in {a, b} : x >= y) <=> x = b
    BY <1>2
  <2> QED  BY <1>2, <2>1 DEF Max
<1> QED  BY <1>1, <1>2

\* The fibers at one of the places S.
At(v, S) == {f \in Fibers : v[f] \in S}

\* v becomes w as fiber f moves.
Move(v, w, f, from, to) ==
  v[f] = from /\ w[f] = to /\ \A g \in Fibers \ {f} : w[g] = v[g]

\* A fiber that moves is counted where it goes to.
LEMMA MoveCounts ==
  ASSUME IsFiniteSet(Fibers), NEW v, NEW w, NEW f \in Fibers, NEW from, NEW to,
         Move(v, w, f, from, to), NEW S
  PROVE  /\ Cardinality(At(v, S)) \in Nat
         /\ from \notin S /\ to \in S => Cardinality(At(w, S)) = Cardinality(At(v, S)) + 1
         /\ (from \in S <=> to \in S) => Cardinality(At(w, S)) = Cardinality(At(v, S))
<1>1. IsFiniteSet(At(v, S))
  BY FS_Subset DEF At
<1>2. ASSUME from \notin S, to \in S
      PROVE  Cardinality(At(w, S)) = Cardinality(At(v, S)) + 1
  <2>1. f \notin At(v, S) /\ At(w, S) = At(v, S) \cup {f}
    BY <1>2 DEF At, Move
  <2> QED  BY <1>1, <2>1, FS_AddElement, Zenon
<1>3. ASSUME from \in S <=> to \in S
      PROVE  Cardinality(At(w, S)) = Cardinality(At(v, S))
  <2>1. At(w, S) = At(v, S)
    BY <1>3 DEF At, Move
  <2> QED  BY <2>1
<1> QED  BY <1>1, <1>2, <1>3, FS_CardinalityType, Zenon

\* A counter goes up by one and stays a counter.
LEMMA BumpType ==
  ASSUME total \in [Counters -> Nat], NEW c \in Counters, Bump(c)
  PROVE  total' \in [Counters -> Nat]
BY DEF Bump

\* The end of a fiber keeps the gauge between zero and its peak.
LEMMA LeavesType ==
  ASSUME PeakFiberCount \in Nat, ActiveFibers \in 0..PeakFiberCount, NEW f, Leaves(f)
  PROVE  /\ PeakFiberCount' \in Nat /\ ActiveFibers' \in 0..PeakFiberCount'
         /\ ActiveFibers' = IF ActiveFibers > 0 THEN ActiveFibers - 1 ELSE 0
BY MaxOfTwo DEF Leaves

\* trimCompletedMap keeps the map within its limit.
LEMMA TrackType ==
  ASSUME IsFiniteSet(Fibers), maxCompletedTracked \in Nat, tracked \subseteq Fibers,
         NEW f \in Fibers, Track(f)
  PROVE  /\ tracked' \subseteq tracked \cup {f}
         /\ Cardinality(tracked') <= maxCompletedTracked
<1> DEFINE ids == tracked \cup {f}
<1>1. IsFiniteSet(ids) /\ Cardinality(ids) \in Nat
  BY FS_Subset, FS_CardinalityType
<1>2. CASE Cardinality(ids) > maxCompletedTracked
  <2>1. tracked' \subseteq ids /\ Cardinality(tracked') = maxCompletedTracked \div 2
    BY <1>2 DEF Track, trimCompletedMap
  <2> QED  BY <2>1
<1>3. CASE ~(Cardinality(ids) > maxCompletedTracked)
  BY <1>1, <1>3 DEF Track
<1> QED  BY <1>2, <1>3

\* A bucket goes up by one or stays as it is.
LEMMA RecordType ==
  ASSUME buckets \in [Buckets -> Nat], NEW d, Record(d)
  PROVE  buckets' \in [Buckets -> Nat]
<1> DEFINE In(i) == i >= Min({j \in Buckets : Fits(d, j)})
<1>1. buckets' = [i \in Buckets |-> buckets[i] + IF In(i) THEN 1 ELSE 0]
  BY Zenon DEF Record
<1> HIDE DEF In
<1>2. \A i \in Buckets : buckets[i] + (IF In(i) THEN 1 ELSE 0) \in Nat
  OBVIOUS
<1> QED  BY <1>1, <1>2

\* Every step keeps the types.
LEMMA TypeStep ==
  ASSUME IsFiniteSet(Fibers), maxCompletedTracked \in Nat, Durations \subseteq Int,
         TypeOK, [Next]_vars
  PROVE  TypeOK'
<1> USE DEF TypeOK, gauges, histogram, Goto
<1>1. ASSUME NEW f \in Fibers,
             SpawnSchedules(f) \/ SpawnRollsBack(f) \/ SpawnCommits(f)
      PROVE  TypeOK'
  BY <1>1, Zenon DEF SpawnSchedules, SpawnRollsBack, SpawnCommits
<1>2. ASSUME NEW f \in Fibers, SpawnRecords(f) PROVE TypeOK'
  <2>1. total' \in [Counters -> Nat]
    BY <1>2, BumpType, Zenon DEF SpawnRecords, RecordFiberCreated, Counters
  <2>2. PeakFiberCount' \in Nat /\ ActiveFibers' \in 0..PeakFiberCount'
    BY <1>2, MaxOfTwo DEF SpawnRecords, RecordFiberCreated
  <2> QED  BY <1>2, <2>1, <2>2, Zenon DEF SpawnRecords
<1>3. ASSUME NEW f \in Fibers, SpawnReturns(f) PROVE TypeOK'
  <2>1. total' \in [Counters -> Nat]
    BY <1>3, BumpType, Zenon DEF SpawnReturns, Counters
  <2> QED  BY <1>3, <2>1, Zenon DEF SpawnReturns
<1>4. ASSUME NEW f \in Fibers, Dispatch(f) PROVE TypeOK'
  <2>1. total' \in [Counters -> Nat]
    BY <1>4, BumpType, Zenon DEF Dispatch, Counters
  <2> QED  BY <1>4, <2>1, Zenon DEF Dispatch
<1>5. ASSUME NEW f \in Fibers, Reap(f) PROVE TypeOK'
  <2>1. PeakFiberCount' \in Nat /\ ActiveFibers' \in 0..PeakFiberCount'
    BY <1>5, LeavesType, Zenon DEF Reap
  <2> QED  BY <1>5, <2>1, Zenon DEF Reap
<1>6. ASSUME NEW f \in Fibers, NEW d \in Durations, NEW result \in {"done", "failed"},
             Complete(f, d, result)
      PROVE  TypeOK'
  <2>1. CASE f \in tracked
    BY <1>6, <2>1 DEF Complete, RecordFiberCompleted
  <2>2. CASE f \notin tracked
    <3>1. total' \in [Counters -> Nat]
      BY <1>6, <2>2, BumpType, Zenon DEF Complete, RecordFiberCompleted, Counters
    <3>2. PeakFiberCount' \in Nat /\ ActiveFibers' \in 0..PeakFiberCount'
      BY <1>6, <2>2, LeavesType, Zenon DEF Complete, RecordFiberCompleted
    <3>3. tracked' \subseteq Fibers /\ Cardinality(tracked') <= maxCompletedTracked
      BY <1>6, <2>2, TrackType, Zenon DEF Complete, RecordFiberCompleted
    <3>4. buckets' \in [Buckets -> Nat] /\ observed' \in [Durations -> Nat]
      BY <1>6, <2>2, RecordType DEF Complete, RecordFiberCompleted
    <3> QED  BY <1>6, <3>1, <3>2, <3>3, <3>4 DEF Complete
  <2> QED  BY <2>1, <2>2, Zenon
<1>7. ASSUME Reset PROVE TypeOK'
  <2>1. Cardinality(tracked') <= maxCompletedTracked
    BY <1>7, FS_EmptySet DEF Reset, MetricsReset
  <2> QED  BY <1>7, <2>1 DEF Reset, MetricsReset, Zero, NewLatencyHistogram
<1>8. CASE UNCHANGED vars
  BY <1>8, Zenon DEF vars
<1> QED  BY <1>1, <1>2, <1>3, <1>4, <1>5, <1>6, <1>7, <1>8, Zenon DEF Next

\* Every step keeps the order of the calls.
LEMMA CallOrderStep ==
  ASSUME IsFiniteSet(Fibers), maxCompletedTracked \in Nat, TypeOK, CallOrder, [Next]_vars
  PROVE  CallOrder'
<1> USE DEF TypeOK, CallOrder, Ended, gauges, Goto
<1>1. ASSUME NEW f \in Fibers, \/ SpawnSchedules(f) \/ SpawnRollsBack(f) \/ SpawnCommits(f)
                               \/ SpawnReturns(f) \/ Dispatch(f)
      PROVE  CallOrder'
  <2>1. CASE SpawnSchedules(f)
    BY <2>1, Zenon DEF SpawnSchedules
  <2>2. CASE SpawnRollsBack(f)
    BY <2>2, Zenon DEF SpawnRollsBack
  <2>3. CASE SpawnCommits(f) \/ SpawnReturns(f)
    BY <2>3, Zenon DEF SpawnCommits, SpawnReturns
  <2>4. CASE Dispatch(f)
    BY <2>4, Zenon DEF Dispatch
  <2> QED  BY <1>1, <2>1, <2>2, <2>3, <2>4, Zenon
<1>2. ASSUME NEW f \in Fibers, SpawnRecords(f) PROVE CallOrder'
  BY <1>2 DEF SpawnRecords, RecordFiberCreated
<1>3. ASSUME NEW f \in Fibers, Reap(f) PROVE CallOrder'
  BY <1>3, Zenon DEF Reap, Leaves
<1>4. ASSUME NEW f \in Fibers, NEW d \in Durations, NEW result \in {"done", "failed"},
             Complete(f, d, result)
      PROVE  CallOrder'
  <2>1. f \notin tracked
    BY <1>4, Zenon DEF Complete
  <2>2. tracked' \subseteq tracked \cup {f}
    BY <1>4, <2>1, TrackType, Zenon DEF Complete, RecordFiberCompleted
  <2> QED  BY <1>4, <2>1, <2>2 DEF Complete, RecordFiberCompleted, Leaves
<1>5. ASSUME Reset PROVE CallOrder'
  BY <1>5, Zenon DEF Reset, MetricsReset
<1>6. CASE UNCHANGED vars
  BY <1>6, Zenon DEF vars
<1> QED  BY <1>1, <1>2, <1>3, <1>4, <1>5, <1>6, Zenon DEF Next

\* The places after each call.
Created == {"created", "returned"}

Returned == {"returned"}

Switched == {"running", "done", "failed"}

Finished == {"done", "failed"}

Panicked == {"failed"}

\* What LifetimeExact says, before and after a step.
LEMMA LifetimeAbout ==
  /\ LifetimeExact <=>
       /\ Lifetime("fibersCreated") = Cardinality(At(spawn, Created))
       /\ Lifetime("scheduleCalls") = Cardinality(At(spawn, Returned))
       /\ Lifetime("contextSwitches") = Cardinality(At(run, Switched))
       /\ Lifetime("fibersCompleted") = Cardinality(At(run, Finished))
       /\ panics = Cardinality(At(run, Panicked))
  /\ LifetimeExact' <=>
       /\ Lifetime("fibersCreated")' = Cardinality(At(spawn', Created))
       /\ Lifetime("scheduleCalls")' = Cardinality(At(spawn', Returned))
       /\ Lifetime("contextSwitches")' = Cardinality(At(run', Switched))
       /\ Lifetime("fibersCompleted")' = Cardinality(At(run', Finished))
       /\ panics' = Cardinality(At(run', Panicked))
BY Zenon DEF LifetimeExact, At, Created, Returned, Switched, Finished, Panicked

\* A lifetime counter moves with the counter of the run, and not on Reset.
LEMMA LifetimeMoves ==
  ASSUME TypeOK
  PROVE  /\ \A c \in Counters : Bump(c) /\ UNCHANGED resetOffset =>
              /\ Lifetime(c)' = Lifetime(c) + 1
              /\ \A e \in Counters \ {c} : Lifetime(e)' = Lifetime(e)
         /\ MetricsReset \/ UNCHANGED <<total, resetOffset>> =>
              \A c \in Counters : Lifetime(c)' = Lifetime(c)
         /\ \A c \in Counters : Lifetime(c) \in Nat
<1> USE DEF TypeOK, Lifetime
<1>1. ASSUME NEW c \in Counters, Bump(c), UNCHANGED resetOffset
      PROVE  /\ Lifetime(c)' = Lifetime(c) + 1
             /\ \A e \in Counters \ {c} : Lifetime(e)' = Lifetime(e)
  BY <1>1 DEF Bump
<1>2. MetricsReset => \A c \in Counters : Lifetime(c)' = Lifetime(c)
  BY DEF MetricsReset, Zero
<1> QED  BY <1>1, <1>2

\* How many calls are counted after a move.
Grows(v, w, S) == Cardinality(At(w, S)) = Cardinality(At(v, S)) + 1

Stays(v, w, S) == Cardinality(At(w, S)) = Cardinality(At(v, S))

\* A step of Spawn: RecordFiberCreated and RecordScheduleCall are each counted by
\* the one step that makes the call.
LEMMA SpawnMoves ==
  ASSUME IsFiniteSet(Fibers), NEW f \in Fibers, NEW from, NEW to,
         Move(spawn, spawn', f, from, to)
  PROVE  /\ from \notin Created /\ to \notin Created =>
              Stays(spawn, spawn', Created) /\ Stays(spawn, spawn', Returned)
         /\ from = "admitted" /\ to = "created" =>
              Grows(spawn, spawn', Created) /\ Stays(spawn, spawn', Returned)
         /\ from = "created" /\ to = "returned" =>
              Stays(spawn, spawn', Created) /\ Grows(spawn, spawn', Returned)
<1>1. ASSUME NEW S PROVE /\ from \notin S /\ to \in S => Grows(spawn, spawn', S)
                         /\ (from \in S <=> to \in S) => Stays(spawn, spawn', S)
  BY MoveCounts DEF Grows, Stays
<1>2. /\ from \notin Created /\ to \in Created => Grows(spawn, spawn', Created)
      /\ (from \in Created <=> to \in Created) => Stays(spawn, spawn', Created)
      /\ from \notin Returned /\ to \in Returned => Grows(spawn, spawn', Returned)
      /\ (from \in Returned <=> to \in Returned) => Stays(spawn, spawn', Returned)
  BY <1>1, Zenon
<1> QED  BY <1>2, Zenon DEF Created, Returned

\* A step of the execution of a fiber, likewise.
LEMMA RunMoves ==
  ASSUME IsFiniteSet(Fibers), NEW f \in Fibers, NEW from, NEW to,
         Move(run, run', f, from, to)
  PROVE  /\ from \notin Switched /\ to \notin Switched =>
              /\ Stays(run, run', Switched) /\ Stays(run, run', Finished)
              /\ Stays(run, run', Panicked)
         /\ from = "queued" /\ to = "running" =>
              /\ Grows(run, run', Switched) /\ Stays(run, run', Finished)
              /\ Stays(run, run', Panicked)
         /\ from = "running" /\ to \in Finished =>
              /\ Stays(run, run', Switched) /\ Grows(run, run', Finished)
              /\ IF to = "failed" THEN Grows(run, run', Panicked) ELSE Stays(run, run', Panicked)
<1>1. ASSUME NEW S PROVE /\ from \notin S /\ to \in S => Grows(run, run', S)
                         /\ (from \in S <=> to \in S) => Stays(run, run', S)
  BY MoveCounts DEF Grows, Stays
<1>2. /\ from \notin Switched /\ to \in Switched => Grows(run, run', Switched)
      /\ (from \in Switched <=> to \in Switched) => Stays(run, run', Switched)
      /\ from \notin Finished /\ to \in Finished => Grows(run, run', Finished)
      /\ (from \in Finished <=> to \in Finished) => Stays(run, run', Finished)
      /\ from \notin Panicked /\ to \in Panicked => Grows(run, run', Panicked)
      /\ (from \in Panicked <=> to \in Panicked) => Stays(run, run', Panicked)
  BY <1>1, Zenon
<1> QED  BY <1>2, Zenon DEF Switched, Finished, Panicked

\* Every step keeps the lifetime counters exact.
LEMMA LifetimeStep ==
  ASSUME IsFiniteSet(Fibers), TypeOK, CallOrder, LifetimeExact, [Next]_vars
  PROVE  LifetimeExact'
<1>0. PICK SP, RN : spawn \in [Fibers -> SP] /\ run \in [Fibers -> RN]
  BY Zenon DEF TypeOK
<1> DEFINE SpawnStays == Stays(spawn, spawn', Created) /\ Stays(spawn, spawn', Returned)
           RunStays == /\ Stays(run, run', Switched) /\ Stays(run, run', Finished)
                       /\ Stays(run, run', Panicked)
<1>1. /\ spawn' = spawn => SpawnStays
      /\ run' = run => RunStays
  BY Zenon DEF Stays
<1>2. ASSUME UNCHANGED <<total, resetOffset>> \/ MetricsReset, UNCHANGED panics,
             SpawnStays, RunStays
      PROVE  LifetimeExact'
  BY <1>2, LifetimeAbout, LifetimeMoves, Zenon DEF Stays, Counters
<1> USE DEF Goto, Counters
<1>4. ASSUME NEW f \in Fibers, SpawnSchedules(f) PROVE LifetimeExact'
  <2>1. /\ Move(spawn, spawn', f, "none", "scheduled") /\ Move(run, run', f, "none", "queued")
        /\ UNCHANGED <<total, resetOffset, panics>>
    BY <1>0, <1>4, Zenon DEF SpawnSchedules, CallOrder, Move
  <2>2. SpawnStays /\ RunStays
    BY <2>1, SpawnMoves, RunMoves DEF Created, Switched
  <2> QED  BY <1>2, <2>1, <2>2, Zenon
<1>5. ASSUME NEW f \in Fibers, SpawnRollsBack(f) PROVE LifetimeExact'
  <2>1. /\ Move(spawn, spawn', f, "scheduled", "failed")
        /\ run' = run \/ Move(run, run', f, "queued", "withdrawn")
        /\ UNCHANGED <<total, resetOffset, panics>>
    BY <1>0, <1>5, Zenon DEF SpawnRollsBack, Move
  <2>2. SpawnStays
    BY <2>1, SpawnMoves DEF Created
  <2>3. RunStays
    BY <1>1, <2>1, RunMoves DEF Switched
  <2> QED  BY <1>2, <2>1, <2>2, <2>3, Zenon
<1>6. ASSUME NEW f \in Fibers, SpawnCommits(f) PROVE LifetimeExact'
  <2>1. /\ Move(spawn, spawn', f, "scheduled", "admitted") /\ run' = run
        /\ UNCHANGED <<total, resetOffset, panics>>
    BY <1>0, <1>6, Zenon DEF SpawnCommits, Move
  <2>2. SpawnStays
    BY <2>1, SpawnMoves DEF Created
  <2> QED  BY <1>1, <1>2, <2>1, <2>2, Zenon
<1>7. ASSUME NEW f \in Fibers, SpawnRecords(f) PROVE LifetimeExact'
  <2>1. /\ Move(spawn, spawn', f, "admitted", "created") /\ run' = run
        /\ Bump("fibersCreated") /\ UNCHANGED <<resetOffset, panics>>
    BY <1>0, <1>7, Zenon DEF SpawnRecords, RecordFiberCreated, Move
  <2>2. Grows(spawn, spawn', Created) /\ Stays(spawn, spawn', Returned)
    BY <2>1, SpawnMoves, Zenon
  <2> QED  BY <1>1, <2>1, <2>2, LifetimeAbout, LifetimeMoves, Zenon DEF Grows, Stays
<1>8. ASSUME NEW f \in Fibers, SpawnReturns(f) PROVE LifetimeExact'
  <2>1. /\ Move(spawn, spawn', f, "created", "returned") /\ run' = run
        /\ Bump("scheduleCalls") /\ UNCHANGED <<resetOffset, panics>>
    BY <1>0, <1>8, Zenon DEF SpawnReturns, Move
  <2>2. Stays(spawn, spawn', Created) /\ Grows(spawn, spawn', Returned)
    BY <2>1, SpawnMoves, Zenon
  <2> QED  BY <1>1, <2>1, <2>2, LifetimeAbout, LifetimeMoves, Zenon DEF Grows, Stays
<1>9. ASSUME NEW f \in Fibers, Dispatch(f) PROVE LifetimeExact'
  <2>1. /\ Move(run, run', f, "queued", "running") /\ spawn' = spawn
        /\ Bump("contextSwitches") /\ UNCHANGED <<resetOffset, panics>>
    BY <1>0, <1>9, Zenon DEF Dispatch, Move
  <2>2. /\ Grows(run, run', Switched) /\ Stays(run, run', Finished)
        /\ Stays(run, run', Panicked)
    BY <2>1, RunMoves, Zenon
  <2> QED  BY <1>1, <2>1, <2>2, LifetimeAbout, LifetimeMoves, Zenon DEF Grows, Stays
<1>10. ASSUME NEW f \in Fibers, Reap(f) PROVE LifetimeExact'
  <2>1. /\ Move(run, run', f, "queued", "reaped") /\ spawn' = spawn
        /\ UNCHANGED <<total, resetOffset, panics>>
    BY <1>0, <1>10, Zenon DEF Reap, Move
  <2>2. RunStays
    BY <2>1, RunMoves DEF Switched
  <2> QED  BY <1>1, <1>2, <2>1, <2>2, Zenon
<1>11. ASSUME NEW f \in Fibers, NEW d \in Durations, NEW result \in Finished,
              Complete(f, d, result)
       PROVE  LifetimeExact'
  <2>1. /\ Move(run, run', f, "running", result) /\ spawn' = spawn
        /\ panics' = (IF result = "failed" THEN panics + 1 ELSE panics)
        /\ UNCHANGED resetOffset
    BY <1>0, <1>11, Zenon DEF Complete, Move
  <2>2. f \notin tracked
    BY <2>1, Zenon DEF CallOrder, Move
  <2>3. Bump("fibersCompleted")
    BY <1>11, <2>2, Zenon DEF Complete, RecordFiberCompleted
  <2>4. /\ Stays(run, run', Switched) /\ Grows(run, run', Finished)
        /\ IF result = "failed" THEN Grows(run, run', Panicked) ELSE Stays(run, run', Panicked)
    BY <2>1, RunMoves, Zenon
  <2> QED  BY <1>1, <2>1, <2>3, <2>4, LifetimeAbout, LifetimeMoves, Zenon DEF Grows, Stays
<1>12. ASSUME Reset PROVE LifetimeExact'
  <2>1. MetricsReset /\ UNCHANGED <<spawn, panics>>
    BY <1>12, Zenon DEF Reset, MetricsReset
  <2>2. \A f \in Fibers : run'[f] = run[f] \/ (run[f] = "queued" /\ run'[f] = "lost")
    BY <1>12, Zenon DEF Reset
  <2>3. /\ At(run', Switched) = At(run, Switched) /\ At(run', Finished) = At(run, Finished)
        /\ At(run', Panicked) = At(run, Panicked)
    BY <2>2, Zenon DEF At, Switched, Finished, Panicked
  <2> QED  BY <1>1, <1>2, <2>1, <2>3, Zenon DEF Stays
<1>13. CASE UNCHANGED vars
  BY <1>1, <1>2, <1>13, Zenon DEF vars
<1> QED
  BY <1>4, <1>5, <1>6, <1>7, <1>8, <1>9, <1>10, <1>11, <1>12, <1>13, Zenon DEF Next, Finished

\* Every step keeps the drift of the gauge within its bounds.
LEMMA DriftStep ==
  ASSUME IsFiniteSet(Fibers), TypeOK, CallOrder, DriftBounded, [Next]_vars
  PROVE  DriftBounded'
<1>0. ActiveFibers \in Nat
  BY DEF TypeOK
<1>1. /\ IsFiniteSet(live) /\ IsFiniteSet(foreign) /\ IsFiniteSet(late)
      /\ Cardinality(live) \in Nat /\ Cardinality(foreign) \in Nat /\ Cardinality(late) \in Nat
  <2>1. live \subseteq Fibers /\ foreign \subseteq Fibers /\ late \subseteq Fibers
    BY Zenon DEF CallOrder
  <2> QED  BY <2>1, FS_Subset, FS_CardinalityType, Zenon
<1>2. ASSUME NEW f \in Fibers, SpawnRecords(f) PROVE DriftBounded'
  <2>1. f \notin live /\ f \notin late
    BY <1>2, Zenon DEF SpawnRecords, Goto, CallOrder
  <2>2. /\ ActiveFibers' = ActiveFibers + 1 /\ foreign' = foreign
        /\ \/ late' = late \cup {f} /\ live' = live
           \/ live' = live \cup {f} /\ late' = late
    BY <1>2, Zenon DEF SpawnRecords, RecordFiberCreated
  <2>3. \/ Cardinality(late') = Cardinality(late) + 1 /\ live' = live
        \/ Cardinality(live') = Cardinality(live) + 1 /\ late' = late
    BY <1>1, <2>1, <2>2, FS_AddElement, Zenon
  <2> QED  BY <1>0, <1>1, <2>2, <2>3 DEF DriftBounded
<1>3. ASSUME NEW f \in Fibers, Leaves(f), f \notin foreign PROVE DriftBounded'
  <2>1. ActiveFibers' = (IF ActiveFibers > 0 THEN ActiveFibers - 1 ELSE 0) /\ late' = late
    BY <1>3, LeavesType, Zenon DEF TypeOK, Leaves
  <2>2. CASE f \in live
    <3>1. live' = live \ {f} /\ foreign' = foreign
      BY <1>3, <2>2, Zenon DEF Leaves
    <3>2. Cardinality(live') = Cardinality(live) - 1 /\ IsFiniteSet(live')
      BY <1>1, <2>2, <3>1, FS_RemoveElement, Zenon
    <3>3. Cardinality(live') \in Nat
      BY <3>2, FS_CardinalityType, Zenon
    <3> QED  BY <1>0, <1>1, <2>1, <3>1, <3>2, <3>3 DEF DriftBounded
  <2>3. CASE f \notin live
    <3>1. live' = live /\ foreign' = foreign \cup {f}
      BY <1>3, <2>3, Zenon DEF Leaves
    <3>2. Cardinality(foreign') = Cardinality(foreign) + 1
      BY <1>1, <1>3, <3>1, FS_AddElement, Zenon
    <3> QED  BY <1>0, <1>1, <2>1, <3>1, <3>2 DEF DriftBounded
  <2> QED  BY <2>2, <2>3, Zenon
<1>4. ASSUME NEW f \in Fibers, Reap(f) PROVE DriftBounded'
  <2>1. f \notin foreign
    BY <1>4, Zenon DEF Reap, Goto, CallOrder, Ended
  <2> QED  BY <1>3, <1>4, <2>1, Zenon DEF Reap
<1>5. ASSUME NEW f \in Fibers, NEW d \in Durations, NEW result \in {"done", "failed"},
             Complete(f, d, result)
      PROVE  DriftBounded'
  <2>1. f \notin foreign /\ f \notin tracked
    BY <1>5, Zenon DEF Complete, Goto, CallOrder, Ended
  <2> QED  BY <1>3, <1>5, <2>1, Zenon DEF Complete, RecordFiberCompleted
<1>6. ASSUME Reset PROVE DriftBounded'
  <2>1. ActiveFibers' = 0 /\ live' = {} /\ foreign' = {} /\ late' = {}
    BY <1>6, Zenon DEF Reset, MetricsReset
  <2> QED  BY <2>1, FS_EmptySet DEF DriftBounded
<1>7. ASSUME UNCHANGED gauges PROVE DriftBounded'
  BY <1>7, Zenon DEF gauges, DriftBounded
<1>8. ASSUME NEW f \in Fibers, \/ SpawnSchedules(f) \/ SpawnRollsBack(f) \/ SpawnCommits(f)
                               \/ SpawnReturns(f) \/ Dispatch(f)
      PROVE  UNCHANGED gauges
  BY <1>8, Zenon DEF SpawnSchedules, SpawnRollsBack, SpawnCommits, SpawnReturns, Dispatch
<1>9. CASE UNCHANGED vars
  BY <1>7, <1>9, Zenon DEF vars
<1> QED  BY <1>2, <1>4, <1>5, <1>6, <1>7, <1>8, <1>9, Zenon DEF Next

\* The inductive invariant of Metrics.
MetricsInv == TypeOK /\ CallOrder /\ LifetimeExact /\ DriftBounded

\* NewMetrics.
LEMMA MetricsInit ==
  ASSUME IsFiniteSet(Fibers), maxCompletedTracked \in Nat
  PROVE  Init => MetricsInv
<1> SUFFICES ASSUME Init PROVE MetricsInv
  OBVIOUS
<1>1. TypeOK
  BY FS_EmptySet DEF Init, TypeOK, Zero, NewLatencyHistogram
<1>2. CallOrder
  BY Zenon DEF Init, CallOrder
<1>3. \A v \in {spawn, run} : /\ At(v, Created) = {} /\ At(v, Returned) = {}
                              /\ At(v, Switched) = {} /\ At(v, Finished) = {}
                              /\ At(v, Panicked) = {}
  BY Zenon DEF Init, At, Created, Returned, Switched, Finished, Panicked
<1>4. \A c \in Counters : Lifetime(c) = 0
  BY DEF Init, Zero, Lifetime
<1>5. LifetimeExact
  BY <1>3, <1>4, FS_EmptySet, LifetimeAbout, Zenon DEF Counters, Init
<1>6. DriftBounded
  BY FS_EmptySet DEF Init, DriftBounded
<1> QED  BY <1>1, <1>2, <1>5, <1>6 DEF MetricsInv

\* In whatever order Spawn, the executions of fibers, Stop and Reset call it:
\* Metrics keeps its types, counts each call once and bounds its drift.
THEOREM MetricsInvariance == Spec => []MetricsInv
<1>1. Init => MetricsInv
  BY MetricsAssumption, MetricsInit
<1>2. MetricsInv /\ [Next]_vars => MetricsInv'
  BY MetricsAssumption, TypeStep, CallOrderStep, LifetimeStep, DriftStep, Zenon DEF MetricsInv
<1> QED  BY <1>1, <1>2, PTL DEF Spec

\* GetLifetimeSnapshot counts every call since NewMetrics once, whatever Reset
\* and trimCompletedMap forget.
THEOREM LifetimeIsExact == Spec => []LifetimeExact
<1>1. MetricsInv => LifetimeExact
  BY DEF MetricsInv
<1> QED  BY <1>1, MetricsInvariance, PTL

\* ActiveFibers drifts by no more than the calls that came in the wrong order.
THEOREM DriftIsBounded == Spec => []DriftBounded
<1>1. MetricsInv => DriftBounded
  BY DEF MetricsInv
<1> QED  BY <1>1, MetricsInvariance, PTL

\* The counters GetLifetimeSnapshot hands to Prometheus never decrease, not even
\* when Runtime.Reset clears the counters of the run.
THEOREM LifetimeNeverFalls ==
  Spec => [][\A c \in Counters : Lifetime(c)' >= Lifetime(c)]_vars
<1>1. MetricsInv /\ [Next]_vars => [\A c \in Counters : Lifetime(c)' >= Lifetime(c)]_vars
  <2> SUFFICES ASSUME MetricsInv, Next, NEW c \in Counters PROVE Lifetime(c)' >= Lifetime(c)
    BY Zenon
  <2>1. TypeOK
    BY DEF MetricsInv
  <2>2. \/ MetricsReset \/ UNCHANGED <<total, resetOffset>>
        \/ \E e \in Counters : Bump(e) /\ UNCHANGED resetOffset
    BY Zenon DEF Next, SpawnSchedules, SpawnRollsBack, SpawnCommits, SpawnRecords, SpawnReturns,
           Dispatch, Reap, Complete, Reset, RecordFiberCreated, RecordFiberCompleted, Counters
  <2> QED  BY <2>1, <2>2, LifetimeMoves
<1> QED  BY <1>1, MetricsInvariance, PTL DEF Spec
=============================================================================
