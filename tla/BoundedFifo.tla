----------------------------- MODULE BoundedFifo -----------------------------
(***************************************************************************)
(* What a channel promises.  Values are numbered in the order of the Send  *)
(* calls.  The channel takes values in that order, never two at a time and *)
(* none after it is shut; it gives every value it took to one receiver, in *)
(* the order it took them; and it keeps at most room values.               *)
(***************************************************************************)
EXTENDS Integers, Sequences

CONSTANTS Capacities, MaxSends

VARIABLES in,    \* the values taken so far
          out,   \* the values given out so far
          shut,
          room   \* the number of values it keeps

fifoVars == <<in, out, shut, room>>

Init == in = <<>> /\ out = <<>> /\ shut = FALSE /\ room \in Capacities

Put(v) ==
  /\ ~ shut
  /\ \A i \in DOMAIN in : in[i] < v
  /\ in' = Append(in, v)

\* The next value given out is the oldest one taken and not given out; it may
\* be one that is taken in the same step.
Get ==
  /\ Len(out) < Len(in')
  /\ out' = Append(out, in'[Len(out) + 1])

Step ==
  /\ (\E v \in 1..MaxSends : Put(v)) \/ UNCHANGED in
  /\ Get \/ UNCHANGED out
  /\ Len(in') - Len(out') <= room
  /\ UNCHANGED <<shut, room>>

Shut == shut' = TRUE /\ UNCHANGED <<in, out, room>>

Next == Step \/ Shut

Spec == Init /\ [][Next]_fifoVars
=============================================================================
