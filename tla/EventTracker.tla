---------------------------- MODULE EventTracker ----------------------------
(***************************************************************************)
(* EventTracker (internal/metrics/metrics.go): the lifecycle events in a   *)
(* ring buffer.  Every method runs under the tracker's mutex, so each is   *)
(* one step.                                                               *)
(***************************************************************************)
EXTENDS Integers, Sequences

CONSTANTS Events, NoEvent, Capacity

VARIABLES events, head, tail, count

vars == <<events, head, tail, count>>

Slots == 0..(Capacity - 1)

Init == events = [i \in Slots |-> NoEvent] /\ head = 0 /\ tail = 0 /\ count = 0

RecordEvent(e) ==
  /\ events' = [events EXCEPT ![tail] = e]
  /\ tail' = (tail + 1) % Capacity
  /\ IF count < Capacity
       THEN count' = count + 1 /\ UNCHANGED head
       ELSE head' = (head + 1) % Capacity /\ UNCHANGED count

GetEvents == [i \in 1..count |-> events[(head + i - 1) % Capacity]]

\* Go's remainder takes the sign of the dividend.
Rem(a, b) == IF a >= 0 THEN a % b ELSE -((-a) % b)

\* The slot of the i-th event before the last.
RecentIndex(i) == Rem(Rem(tail - 1 - i, Capacity) + Capacity, Capacity)

GetRecentEvents(n) ==
  LET m == IF n > count THEN count ELSE n
  IN  IF n <= 0 \/ count = 0 THEN <<>> ELSE [k \in 1..m |-> events[RecentIndex(m - k)]]

\* Mutant of Clear: the tail stays where it was.
ClearKeepsTail ==
  /\ events' = [i \in Slots |-> NoEvent] /\ head' = 0 /\ count' = 0
  /\ UNCHANGED tail

Clear ==
  /\ events' = [i \in Slots |-> NoEvent] /\ head' = 0 /\ tail' = 0 /\ count' = 0

Next == (\E e \in Events : RecordEvent(e)) \/ Clear

Spec == Init /\ [][Next]_vars

-----------------------------------------------------------------------------
(* Properties *)

\* Type invariant, with the law of the ring: head, tail and count agree.
TypeOK ==
  /\ events \in [Slots -> Events \cup {NoEvent}]
  /\ head \in Slots /\ tail \in Slots /\ count \in 0..Capacity
  /\ tail = (head + count) % Capacity

\* GetRecentEvents(n), which counts back from tail, returns the last n of what
\* GetEvents, which counts forward from head, returns: also where the backward
\* index passes below zero and when n is larger than the ring.
RecentIsSuffix ==
  \A n \in -1..(Capacity + 1) :
    LET m == IF n < 0 THEN 0 ELSE IF n > count THEN count ELSE n
    IN  GetRecentEvents(n) = SubSeq(GetEvents, count - m + 1, count)

Log == INSTANCE EventLog WITH log <- GetEvents

\* The ring buffer implements the log of the last Capacity events: RecordEvent
\* "overwrites the oldest event when the buffer is full", GetEvents is "ordered
\* from oldest to most recent".
IsEventLog == Log!Spec
=============================================================================
