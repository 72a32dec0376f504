------------------------------ MODULE EventLog ------------------------------
(* What EventTracker promises: a log of the last Capacity events.           *)
EXTENDS Naturals, Sequences

CONSTANTS Events, Capacity

VARIABLE log   \* oldest first

Init == log = <<>>

Latest(s, n) == IF Len(s) > n THEN SubSeq(s, Len(s) - n + 1, Len(s)) ELSE s

Record(e) == log' = Latest(Append(log, e), Capacity)

Clear == log' = <<>>

Next == (\E e \in Events : Record(e)) \/ Clear

Spec == Init /\ [][Next]_log
=============================================================================
